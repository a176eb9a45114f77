------------------------ MODULE EnvelopePoolProofs ------------------------
(***************************************************************************)
(* Proofs about EnvelopePool, for every set of envelopes, goroutines and   *)
(* every setting.  The inductive invariant is PoolInv; it is the           *)
(* conjunction of what the theorems at the end state and two               *)
(* strengthenings: while an envelope is alive its count of insertions says *)
(* exactly whether it is pooled, and an adder that passed the checks       *)
(* carries an envelope that has paid for its lifetime.  On it rest the     *)
(* refinement of PoolService and two further invariants: AccountInv, about *)
(* sums over sets of envelopes, and the tallies Deliveries and Archivals,  *)
(* which count the places an insertion can be at.                          *)
(***************************************************************************)
EXTENDS EnvelopePool, TLAPS

(* While it is alive, an envelope was inserted once if it is pooled and
   never if it is not. *)
InsertedIffPooled ==
    \A e \in Envelope :
        now <= e.expiry => inserted[e] = IF e \in envelopes THEN 1 ELSE 0

(* The work of e covers what it has left to live, by one of the two
   requirements. *)
Paid(e) ==
    now <= e.expiry => \/ PaidFor(e, NodeSettings.minPow)
                       \/ PaidFor(e, NodeSettings.minPowTolerance)

CarriedHasPaid == \A t \in Adder : pc[t] # "idle" => Paid(env[t])

PoolInv ==
    /\ TypeOK
    /\ ExpirationsIndexPool
    /\ InsertedIffPooled
    /\ CarriedHasPaid
    /\ PooledHasPaid

-----------------------------------------------------------------------------
(* Facts about Admission. *)

(* A larger charge asks for more work: the one non-linear fact of the proof. *)
LEMMA ProductMonotone ==
    \A p, a, b \in Nat : a <= b => p * a <= p * b
BY Z3

(***************************************************************************)
(* An envelope whose time stamps pass is charged at least what it has left *)
(* to live, whichever way the uint32 arithmetic of add and calculatePoW    *)
(* wraps.                                                                  *)
(***************************************************************************)
LEMMA ChargedForLifetime ==
    ASSUME NEW e \in Envelope, NEW t \in Uint32 \ {0},
           ~ InFuture(e, t), ~ Expired(e, t)
    PROVE  /\ ChargedTTL(e, t) \in Nat
           /\ ChargedTTL(e, t) >= e.expiry - t
<1>. e.expiry \in Uint32 /\ e.ttl \in Uint32
  BY EnvelopeAssumption, Zenon DEF EnvelopeOver
<1>. QED
  BY WordAssumption, SyncAllowanceAssumption
     DEF InFuture, Expired, ChargedTTL, Sent, Plus, Minus, Uint32

(* What add lets through has paid for every second it has left. *)
LEMMA AdmittedHasPaid ==
    ASSUME NEW e \in Envelope, now \in Uint32 \ {0}, Admitted(e, now, NodeSettings)
    PROVE  Paid(e)
<1>. DEFINE c == ChargedTTL(e, now)
            r == e.expiry - now
<1>1. e.expiry \in Nat /\ e.work \in Nat
  BY EnvelopeAssumption, WordAssumption DEF EnvelopeOver, Uint32
<1>2. NodeSettings.minPow \in Nat /\ NodeSettings.minPowTolerance \in Nat
  BY SettingsAssumption, Zenon
<1>3. c \in Nat /\ c >= r
  BY ChargedForLifetime, Zenon DEF Admitted
<1>4. now <= e.expiry /\ r \in Nat
  BY <1>1, WordAssumption DEF Admitted, Expired, Uint32
<1>5. ASSUME NEW p \in Nat, e.work >= p * c
      PROVE  e.work >= p * r
  <2>1. p * r <= p * c
    BY <1>3, <1>4, ProductMonotone, Zenon
  <2>2. p * r \in Int /\ p * c \in Int
    BY <1>3, <1>4
  <2>. HIDE DEF c, r
  <2>. QED
    BY <1>1, <1>5, <2>1, <2>2
<1>. QED
  BY <1>2, <1>5, Zenon DEF Admitted, PowAllowed, PowReaches, Paid, PaidFor

(* Paying is stable: time only takes from what is left to live. *)
LEMMA PaidStable ==
    ASSUME NEW e \in Envelope, now \in Nat, now' \in Nat, now <= now', Paid(e)
    PROVE  Paid(e)'
<1>. DEFINE r == e.expiry - now
            s == e.expiry - now'
<1>1. e.expiry \in Nat /\ e.work \in Nat
  BY EnvelopeAssumption, WordAssumption DEF EnvelopeOver, Uint32
<1>2. NodeSettings.minPow \in Nat /\ NodeSettings.minPowTolerance \in Nat
  BY SettingsAssumption, Zenon
<1>3. SUFFICES ASSUME now' <= e.expiry
               PROVE  \/ e.work >= NodeSettings.minPow * s
                      \/ e.work >= NodeSettings.minPowTolerance * s
  BY Zenon DEF Paid, PaidFor
<1>4. r \in Nat /\ s \in Nat /\ s <= r
  BY <1>1, <1>3
<1>5. ASSUME NEW p \in Nat, e.work >= p * r
      PROVE  e.work >= p * s
  <2>1. p * s <= p * r /\ p * s \in Int /\ p * r \in Int
    BY <1>4, ProductMonotone
  <2>. HIDE DEF r, s
  <2>. QED
    BY <1>1, <1>5, <2>1
<1>. QED
  BY <1>1, <1>2, <1>3, <1>5 DEF Paid, PaidFor

-----------------------------------------------------------------------------
(* New sets up an empty pool, for which there is nothing to show. *)
LEMMA InitPoolInv == Init => PoolInv
<1>. SUFFICES ASSUME Init PROVE PoolInv
  BY Zenon
<1>1. TypeOK
  <2>1. now \in 1 .. MaxTime
    BY TimeAssumption, WordAssumption DEF Init, Uint32
  <2>2. messageQueue \in Seq(Envelope) /\ Len(messageQueue) = 0
        /\ p2pMsgQueue \in Seq(Envelope) /\ Len(p2pMsgQueue) = 0
    BY DEF Init
  <2>3. DOMAIN expirations = {} /\ expirations \in [DOMAIN expirations -> SUBSET Envelope]
    BY Zenon DEF Init
  <2>4. \A t \in Adder : env[t] = NoEnvelope <=> pc[t] = "idle"
    BY Zenon DEF Init
  <2>5. pc \in [Adder -> PC] /\ env \in [Adder -> Envelope \cup {NoEnvelope}]
        /\ isP2P \in [Adder -> BOOLEAN] /\ queueSize \in [Adder -> 0 .. QueueLimit]
    BY LimitAssumption DEF Init, PC
  <2>6. held \in [Consumer -> Envelope \cup {NoEnvelope}]
        /\ running \subseteq Consumer \cup {Updater} /\ quit \in BOOLEAN /\ overflow \in BOOLEAN
    BY Zenon DEF Init
  <2>7. /\ inserted \in [Envelope -> Nat] /\ delivered \in [Envelope -> Nat]
        /\ archived \in [Envelope -> Nat] /\ envelopes = {}
    BY Zenon DEF Init
  <2>. QED
    BY <2>1, <2>2, <2>3, <2>4, <2>5, <2>6, <2>7, LimitAssumption DEF TypeOK
<1>. QED
  BY <1>1, Zenon DEF Init, PoolInv, ExpirationsIndexPool, InsertedIffPooled,
              CarriedHasPaid, PooledHasPaid

(* The part of the state the invariants other than TypeOK talk about. *)
LEMMA FrameLemma ==
    ASSUME PoolInv, TypeOK',
           UNCHANGED <<now, envelopes, expirations, inserted>>,
           \A t \in Adder : pc'[t] # "idle" => pc[t] # "idle" /\ env'[t] = env[t]
    PROVE  PoolInv'
BY DEF PoolInv, ExpirationsIndexPool, InsertedIffPooled, CarriedHasPaid,
       PooledHasPaid, Paid, PaidFor

(* The clock only moves on: less life is left, and more has expired. *)
LEMMA TickPoolInv == PoolInv /\ Tick => PoolInv'
<1>. SUFFICES ASSUME PoolInv, Tick PROVE PoolInv'
  BY Zenon
<1>. USE DEF poolVars, adderVars, queueVars, lifeVars, history
<1>1. now \in Nat /\ now' \in Nat /\ now <= now' /\ now' = now + 1
  BY TimeAssumption DEF PoolInv, TypeOK, Tick
<1>2. TypeOK'
  BY TimeAssumption, WordAssumption DEF PoolInv, TypeOK, Tick, Uint32
<1>3. ExpirationsIndexPool'
  BY Zenon DEF PoolInv, ExpirationsIndexPool, Tick
<1>4. InsertedIffPooled'
  <2>1. \A e \in Envelope : e.expiry \in Nat
    BY EnvelopeAssumption, WordAssumption DEF EnvelopeOver, Uint32
  <2>. QED
    BY <1>1, <2>1 DEF PoolInv, InsertedIffPooled, Tick
<1>5. CarriedHasPaid'
  <2>. SUFFICES ASSUME NEW t \in Adder, pc[t] # "idle" PROVE Paid(env[t])'
    BY Zenon DEF CarriedHasPaid, Tick
  <2>1. env[t] \in Envelope /\ Paid(env[t]) /\ env' = env
    BY Zenon DEF PoolInv, TypeOK, CarriedHasPaid, Tick
  <2>2. \A e \in Envelope : Paid(e) => Paid(e)'
    BY <1>1, PaidStable, Zenon
  <2>. QED
    BY <2>1, <2>2, Zenon DEF Paid, PaidFor
<1>6. PooledHasPaid'
  <2>1. \A e \in envelopes : e \in Envelope /\ Paid(e)
    BY Zenon DEF PoolInv, TypeOK, PooledHasPaid, Paid
  <2>2. \A e \in Envelope : Paid(e) => Paid(e)'
    BY <1>1, PaidStable, Zenon
  <2>. QED
    BY <2>1, <2>2, Zenon DEF PooledHasPaid, Paid, Tick
<1>. QED
  BY <1>2, <1>3, <1>4, <1>5, <1>6, Zenon DEF PoolInv

(* The checks of add: the adder now carries an envelope that has paid. *)
LEMMA AddPoolInv ==
    ASSUME NEW t \in Adder, NEW e \in Envelope, NEW p2p \in BOOLEAN,
           PoolInv, Add(t, e, p2p)
    PROVE  PoolInv'
<1>. USE DEF poolVars, queueVars, lifeVars, history, Goto
<1>1. now \in Uint32 \ {0}
  BY TimeAssumption, WordAssumption DEF PoolInv, TypeOK, Uint32
<1>2. Paid(e)
  BY <1>1, AdmittedHasPaid, Zenon DEF Add
<1>3. TypeOK'
  BY EnvelopeAssumption, Zenon DEF PoolInv, TypeOK, Add, PC
<1>4. CarriedHasPaid'
  <2>1. \A u \in Adder : pc'[u] # "idle" => Paid(env'[u])
    BY <1>2, Zenon DEF PoolInv, TypeOK, CarriedHasPaid, Add
  <2>. QED
    BY <2>1, Zenon DEF CarriedHasPaid, Paid, PaidFor, Add
<1>. QED
  BY <1>3, <1>4, Zenon DEF PoolInv, ExpirationsIndexPool, InsertedIffPooled,
                    PooledHasPaid, PaidFor, Add

(* The critical section of add: pool, index and count change together. *)
LEMMA InsertPoolInv ==
    ASSUME NEW t \in Adder, PoolInv, Insert(t)
    PROVE  PoolInv'
<1>. USE DEF queueVars, lifeVars, Goto, Return
<1>. DEFINE e == env[t]
<1>1. e \in Envelope /\ e.expiry \in Uint32 /\ Paid(e)
  <2>1. pc[t] # "idle"
    BY Zenon DEF Insert
  <2>2. e \in Envelope /\ Paid(e)
    BY <2>1, Zenon DEF PoolInv, TypeOK, CarriedHasPaid
  <2>. QED
    BY <2>2, EnvelopeAssumption, Zenon DEF EnvelopeOver
<1>2. CASE e \in envelopes
  <2>1. TypeOK'
    <3>1. /\ pc' = [pc EXCEPT ![t] = "idle"] /\ env' = [env EXCEPT ![t] = NoEnvelope]
          /\ isP2P' = [isP2P EXCEPT ![t] = FALSE] /\ queueSize' = [queueSize EXCEPT ![t] = 0]
      BY <1>2, Zenon DEF Insert
    <3>2. UNCHANGED <<now, envelopes, expirations, queueVars, held, lifeVars, inserted, delivered, archived>>
      BY <1>2, Zenon DEF Insert
    <3>. QED
      BY <3>1, <3>2, LimitAssumption DEF PoolInv, TypeOK, PC
  <2>2. UNCHANGED <<now, envelopes, expirations, inserted>>
    BY <1>2, Zenon DEF Insert
  <2>3. \A u \in Adder : pc'[u] # "idle" => pc[u] # "idle" /\ env'[u] = env[u]
    BY <1>2, Zenon DEF Insert, PoolInv, TypeOK
  <2>. QED
    BY <2>1, <2>2, <2>3, FrameLemma, Zenon
<1>3. CASE e \notin envelopes
  <2>1. /\ envelopes' = envelopes \cup {e}
        /\ expirations' = FileUnderExpiry(e)
        /\ inserted' = [inserted EXCEPT ![e] = @ + 1]
        /\ pc' = [pc EXCEPT ![t] = "account"]
        /\ now' = now /\ env' = env
    BY <1>3, Zenon DEF Insert
  <2>2. TypeOK'
    <3>1. DOMAIN expirations' = DOMAIN expirations \cup {e.expiry}
      BY <2>1, Zenon DEF FileUnderExpiry
    <3>2. expirations' \in [DOMAIN expirations' -> SUBSET Envelope]
      BY <1>1, <2>1, Zenon DEF FileUnderExpiry, PoolInv, TypeOK
    <3>3. DOMAIN expirations' \subseteq Uint32
      BY <1>1, <3>1, Zenon DEF PoolInv, TypeOK
    <3>4. pc' \in [Adder -> PC] /\ (\A u \in Adder : env'[u] = NoEnvelope <=> pc'[u] = "idle")
      BY <1>1, <2>1, EnvelopeAssumption, Zenon DEF PoolInv, TypeOK, PC
    <3>5. inserted' \in [Envelope -> Nat]
      BY <1>1, <2>1 DEF PoolInv, TypeOK
    <3>. QED
      BY <1>1, <1>3, <2>1, <3>2, <3>3, <3>4, <3>5, Zenon DEF PoolInv, TypeOK, Insert
  <2>3. ExpirationsIndexPool'
    BY <1>1, <2>1, Zenon DEF PoolInv, TypeOK, ExpirationsIndexPool, FileUnderExpiry
  <2>4. InsertedIffPooled'
    BY <1>1, <1>3, <2>1 DEF PoolInv, TypeOK, InsertedIffPooled
  <2>5. CarriedHasPaid'
    BY <1>1, <2>1, Zenon DEF PoolInv, TypeOK, CarriedHasPaid, Paid, PaidFor, Insert
  <2>6. PooledHasPaid'
    BY <1>1, <2>1, Zenon DEF PoolInv, PooledHasPaid, Paid, PaidFor
  <2>. QED
    BY <2>2, <2>3, <2>4, <2>5, <2>6, Zenon DEF PoolInv
<1>. QED
  BY <1>2, <1>3, Zenon

(* The steps of add that leave the pool alone. *)
LEMMA AccountPoolInv ==
    ASSUME NEW t \in Adder, PoolInv, Account(t) \/ Measure(t) \/ Flag(t)
    PROVE  PoolInv'
<1>. USE DEF poolVars, queueVars, lifeVars, history, Goto
<1>1. CASE Account(t)
  <2>1. TypeOK'
    BY <1>1, Zenon DEF PoolInv, TypeOK, Account, PC
  <2>. QED
    BY <1>1, <2>1, FrameLemma, Zenon DEF PoolInv, TypeOK, Account
<1>2. CASE Measure(t)
  <2>1. Len(messageQueue) \in 0 .. QueueLimit
    BY LimitAssumption DEF PoolInv, TypeOK
  <2>2. TypeOK'
    BY <1>2, <2>1, Zenon DEF PoolInv, TypeOK, Measure, PC
  <2>. QED
    BY <1>2, <2>2, FrameLemma, Zenon DEF PoolInv, TypeOK, Measure
<1>3. CASE Flag(t)
  <2>1. overflow' \in BOOLEAN
    BY <1>3, Zenon DEF PoolInv, TypeOK, Flag
  <2>2. TypeOK'
    BY <1>3, <2>1, Zenon DEF PoolInv, TypeOK, Flag, PC
  <2>. QED
    BY <1>3, <2>2, FrameLemma, Zenon DEF PoolInv, TypeOK, Flag
<1>. QED
  BY <1>1, <1>2, <1>3, Zenon

(* postEvent: the queue had room, so it stays within its limit. *)
LEMMA PostPoolInv ==
    ASSUME NEW t \in Adder, PoolInv, Post(t)
    PROVE  PoolInv'
<1>. USE DEF poolVars, lifeVars, history, Goto
<1>1. env[t] \in Envelope
  BY Zenon DEF PoolInv, TypeOK, Post, AfterPost
<1>2. \A q \in Seq(Envelope) :
          Len(q) < QueueLimit => /\ Append(q, env[t]) \in Seq(Envelope)
                                 /\ Len(Append(q, env[t])) <= QueueLimit
  BY <1>1, LimitAssumption
<1>3. /\ messageQueue' \in Seq(Envelope) /\ Len(messageQueue') <= QueueLimit
      /\ p2pMsgQueue' \in Seq(Envelope) /\ Len(p2pMsgQueue') <= QueueLimit
  BY <1>2, Zenon DEF PoolInv, TypeOK, Post, AfterPost
<1>4. /\ pc' \in [Adder -> PC]
      /\ env' \in [Adder -> Envelope \cup {NoEnvelope}]
      /\ \A u \in Adder : env'[u] = NoEnvelope <=> pc'[u] = "idle"
      /\ isP2P' \in [Adder -> BOOLEAN]
      /\ queueSize' \in [Adder -> 0 .. QueueLimit]
      /\ \A u \in Adder : pc'[u] # "idle" => pc[u] # "idle" /\ env'[u] = env[u]
  <2>1. CASE MailServer
    BY <2>1, Zenon DEF PoolInv, TypeOK, Post, AfterPost, PC
  <2>2. CASE ~ MailServer
    <3>1. Return(t)
      BY <2>2, Zenon DEF Post, AfterPost
    <3>2. 0 \in 0 .. QueueLimit
      BY LimitAssumption
    <3>. QED
      BY <3>1, <3>2, Zenon DEF PoolInv, TypeOK, PC, Return
  <2>. QED
    BY <2>1, <2>2, Zenon
<1>5. TypeOK'
  BY <1>3, <1>4, Zenon DEF PoolInv, TypeOK, Post, AfterPost
<1>. QED
  BY <1>4, <1>5, FrameLemma, Zenon DEF Post, AfterPost

(* The call of the mail server, after which add returns. *)
LEMMA ArchivePoolInv ==
    ASSUME NEW t \in Adder, PoolInv, Archive(t)
    PROVE  PoolInv'
<1>. USE DEF poolVars, queueVars, lifeVars, Goto, Return
<1>1. env[t] \in Envelope
  BY Zenon DEF PoolInv, TypeOK, Archive
<1>2. archived' \in [Envelope -> Nat]
  BY <1>1 DEF PoolInv, TypeOK, Archive
<1>3. 0 \in 0 .. QueueLimit
  BY LimitAssumption
<1>4. /\ pc' \in [Adder -> PC]
      /\ env' \in [Adder -> Envelope \cup {NoEnvelope}]
      /\ \A u \in Adder : env'[u] = NoEnvelope <=> pc'[u] = "idle"
      /\ isP2P' \in [Adder -> BOOLEAN]
      /\ queueSize' \in [Adder -> 0 .. QueueLimit]
  BY <1>3, Zenon DEF PoolInv, TypeOK, Archive, PC
<1>5. UNCHANGED <<now, poolVars, queueVars, held, lifeVars, inserted, delivered>>
  BY Zenon DEF Archive
<1>6. TypeOK'
  BY <1>2, <1>4, <1>5, Zenon DEF PoolInv, TypeOK
<1>. QED
  BY <1>6, FrameLemma, Zenon DEF PoolInv, TypeOK, Archive

(* What expire removes is filed in the past, so it is past its expiry. *)
LEMMA ExpirePoolInv == PoolInv /\ Expire => PoolInv'
<1>. SUFFICES ASSUME PoolInv, Expire PROVE PoolInv'
  OBVIOUS
<1>. USE DEF adderVars, queueVars, lifeVars, history
<1>1. /\ envelopes' = envelopes \ Stale
      /\ DOMAIN expirations' = {x \in DOMAIN expirations : ~ (x < now)}
      /\ \A x \in DOMAIN expirations' : expirations'[x] = expirations[x]
      /\ now' = now /\ pc' = pc /\ env' = env /\ inserted' = inserted
  BY Zenon DEF Expire, Restrict, StaleExpiries
<1>2. \A e \in envelopes : e \in Stale <=> e.expiry < now
  BY DEF Stale, StaleExpiries, PoolInv, ExpirationsIndexPool
<1>3. TypeOK'
  <2>1. expirations' = Restrict(expirations, DOMAIN expirations \ StaleExpiries)
    BY Zenon DEF Expire
  <2>2. expirations' \in [DOMAIN expirations' -> SUBSET Envelope]
    BY <2>1, Zenon DEF Restrict, StaleExpiries, PoolInv, TypeOK
  <2>. QED
    BY <1>1, <2>2, Zenon DEF PoolInv, TypeOK, Expire
<1>4. ExpirationsIndexPool'
  BY <1>1, <1>2 DEF PoolInv, ExpirationsIndexPool
<1>5. InsertedIffPooled'
  <2>1. \A e \in Envelope : e.expiry \in Nat
    BY EnvelopeAssumption, WordAssumption DEF EnvelopeOver, Uint32
  <2>2. now \in Nat
    BY TimeAssumption DEF PoolInv, TypeOK
  <2>. QED
    BY <1>1, <1>2, <2>1, <2>2 DEF PoolInv, InsertedIffPooled
<1>6. CarriedHasPaid' /\ PooledHasPaid'
  BY <1>1, Zenon DEF PoolInv, CarriedHasPaid, PooledHasPaid, Paid, PaidFor
<1>. QED
  BY <1>3, <1>4, <1>5, <1>6, Zenon DEF PoolInv

(* processQueue and processP2P only move envelopes out of the queues. *)
LEMMA ConsumerPoolInv ==
    ASSUME NEW w \in Consumer, PoolInv, Take(w) \/ Deliver(w)
    PROVE  PoolInv'
<1>. USE DEF poolVars, adderVars, queueVars, lifeVars, history
<1>1. CASE Take(w)
  <2>1. \A q \in Seq(Envelope) :
           q # << >> /\ Len(q) <= QueueLimit =>
               /\ Head(q) \in Envelope
               /\ Tail(q) \in Seq(Envelope)
               /\ Len(Tail(q)) <= QueueLimit
    <3>. SUFFICES ASSUME NEW q \in Seq(Envelope), q # << >>, Len(q) <= QueueLimit
                  PROVE  /\ Head(q) \in Envelope
                         /\ Tail(q) \in Seq(Envelope)
                         /\ Len(Tail(q)) <= QueueLimit
      BY Zenon
    <3>1. Head(q) \in Envelope /\ Tail(q) \in Seq(Envelope) /\ Len(Tail(q)) = Len(q) - 1
      OBVIOUS
    <3>2. Len(q) \in Nat
      OBVIOUS
    <3>. QED
      BY <3>1, <3>2, LimitAssumption
  <2>2. /\ messageQueue' \in Seq(Envelope) /\ Len(messageQueue') <= QueueLimit
        /\ p2pMsgQueue' \in Seq(Envelope) /\ Len(p2pMsgQueue') <= QueueLimit
        /\ held' \in [Consumer -> Envelope \cup {NoEnvelope}]
    <3>1. CASE w = P2PWorker
      BY <1>1, <2>1, <3>1, Zenon DEF PoolInv, TypeOK, Take
    <3>2. CASE w # P2PWorker
      BY <1>1, <2>1, <3>2, Zenon DEF PoolInv, TypeOK, Take
    <3>. QED
      BY <3>1, <3>2, Zenon
  <2>3. TypeOK'
    BY <1>1, <2>2, Zenon DEF PoolInv, TypeOK, Take
  <2>. QED
    BY <1>1, <2>3, FrameLemma, Zenon DEF Take
<1>2. CASE Deliver(w)
  <2>1. held[w] \in Envelope
    BY <1>2, Zenon DEF PoolInv, TypeOK, Deliver
  <2>2. TypeOK'
    BY <1>2, <2>1 DEF PoolInv, TypeOK, Deliver
  <2>. QED
    BY <1>2, <2>2, FrameLemma, Zenon DEF Deliver
<1>. QED
  BY <1>1, <1>2, Zenon

(* Stop, and the goroutines that return after it, leave the pool alone. *)
LEMMA StopPoolInv ==
    ASSUME PoolInv, Stop \/ (\E g \in Consumer \cup {Updater} : Exit(g))
    PROVE  PoolInv'
<1>. USE DEF poolVars, adderVars, queueVars, history
<1>1. TypeOK'
  BY Zenon DEF PoolInv, TypeOK, Stop, Exit
<1>. QED
  BY <1>1, FrameLemma, Zenon DEF Stop, Exit

(* Every step of the node preserves the invariant. *)
LEMMA NextPoolInv == PoolInv /\ [Next]_vars => PoolInv'
<1>. SUFFICES ASSUME PoolInv, [Next]_vars PROVE PoolInv'
  BY Zenon
<1>1. CASE UNCHANGED vars
  <2>. USE <1>1 DEF vars, poolVars, adderVars, queueVars, lifeVars, history
  <2>1. TypeOK'
    BY Zenon DEF PoolInv, TypeOK
  <2>. QED
    BY <2>1, FrameLemma, Zenon
<1>2. CASE Next
  BY <1>2, TickPoolInv, AddPoolInv, InsertPoolInv, AccountPoolInv, PostPoolInv,
     ArchivePoolInv, ExpirePoolInv, ConsumerPoolInv, StopPoolInv, Zenon
     DEF Next, AddStep
<1>. QED
  BY <1>1, <1>2, Zenon

-----------------------------------------------------------------------------
(* PoolInv holds in every state of the pool: what the theorems rest on. *)
LEMMA PoolInvariance == Spec => []PoolInv
BY InitPoolInv, NextPoolInv, PTL DEF Spec

(* The state of the node keeps its types and its queues their limit. *)
THEOREM PoolTypeCorrect == Spec => []TypeOK
<1>1. PoolInv => TypeOK
  BY Zenon DEF PoolInv
<1>. QED
  BY <1>1, PoolInvariance, PTL

(***************************************************************************)
(* expire never meets a hash that is not in the pool, and the pool holds   *)
(* nothing that no expiration cycle will find.                             *)
(***************************************************************************)
THEOREM PoolIndexed == Spec => []ExpirationsIndexPool
<1>1. PoolInv => ExpirationsIndexPool
  BY Zenon DEF PoolInv
<1>. QED
  BY <1>1, PoolInvariance, PTL

(***************************************************************************)
(* However the adders and the expiration cycle interleave, add accepts an  *)
(* envelope at most once while it is alive.                                *)
(***************************************************************************)
THEOREM PoolDeduplicates == Spec => []AcceptedOnceWhileAlive
<1>1. PoolInv => AcceptedOnceWhileAlive
  BY DEF PoolInv, InsertedIffPooled, AcceptedOnceWhileAlive
<1>. QED
  BY <1>1, PoolInvariance, PTL

(***************************************************************************)
(* Every pooled envelope has done the work for what it has left to live,   *)
(* for every width of the integers, clock skew and requirement.            *)
(***************************************************************************)
THEOREM PoolPaid == Spec => []PooledHasPaid
<1>1. PoolInv => PooledHasPaid
  BY Zenon DEF PoolInv
<1>. QED
  BY <1>1, PoolInvariance, PTL

-----------------------------------------------------------------------------
(* The pool implements PoolService. *)

(* An adder that passed the checks carries an envelope of a size and with a
   bloom filter the node allows. *)
Allowed(e) == SizeAllowed(e, NodeSettings) /\ BloomAllowed(e, NodeSettings)
CarriedAllowed == \A t \in Adder : pc[t] # "idle" => Allowed(env[t])

(* Only the checks of add make an adder carry an envelope. *)
LEMMA CarriedFromAdd ==
    ASSUME PoolInv, [Next]_vars
    PROVE  \A t \in Adder :
               pc'[t] # "idle" => \/ pc[t] # "idle" /\ env'[t] = env[t]
                                  \/ Admitted(env'[t], now, NodeSettings)
<1>. SUFFICES ASSUME NEW t \in Adder, pc'[t] # "idle"
              PROVE  \/ pc[t] # "idle" /\ env'[t] = env[t]
                     \/ Admitted(env'[t], now, NodeSettings)
  BY Zenon
<1>. USE DEF PoolInv, TypeOK, Goto, Return
<1>1. CASE UNCHANGED <<pc, env>>
  BY <1>1, Zenon
<1>2. CASE \E u \in Adder, e \in Envelope, p2p \in BOOLEAN : Add(u, e, p2p)
  BY <1>2, Zenon DEF Add
<1>3. CASE \E u \in Adder : AddStep(u)
  <2>1. PICK u \in Adder : AddStep(u)
    BY <1>3, Zenon
  <2>2. pc[u] # "idle"
    BY <2>1, Zenon DEF AddStep, Insert, Account, Measure, Flag, Post, Archive
  <2>3. t # u => pc'[t] = pc[t] /\ env'[t] = env[t]
    BY <2>1, Zenon DEF AddStep, Insert, Account, Measure, Flag, Post, AfterPost, Archive
  <2>4. t = u => env'[t] = env[t]
    BY <2>1, Zenon DEF AddStep, Insert, Account, Measure, Flag, Post, AfterPost, Archive
  <2>. QED
    BY <2>2, <2>3, <2>4, Zenon
<1>. QED
  BY <1>1, <1>2, <1>3, Zenon DEF Next, vars, adderVars, Tick, Expire, Take, Deliver, Stop, Exit

(* Under the checks, what is carried stays allowed. *)
LEMMA CarriedAllowedInvariance == Spec => []CarriedAllowed
<1>1. Init => CarriedAllowed
  BY Zenon DEF Init, CarriedAllowed
<1>2. PoolInv /\ CarriedAllowed /\ [Next]_vars => CarriedAllowed'
  <2>. SUFFICES ASSUME PoolInv, CarriedAllowed, [Next]_vars,
                       NEW t \in Adder, pc'[t] # "idle"
                PROVE  Allowed(env'[t])
    BY Zenon DEF CarriedAllowed, Allowed, SizeAllowed, BloomAllowed, BloomFilterMatch
  <2>1. pc[t] # "idle" /\ env'[t] = env[t] => Allowed(env'[t])
    BY Zenon DEF CarriedAllowed
  <2>2. Admitted(env'[t], now, NodeSettings) => Allowed(env'[t])
    BY Zenon DEF Admitted, Allowed
  <2>. QED
    BY <2>1, <2>2, CarriedFromAdd, Zenon
<1>. QED
  BY <1>1, <1>2, PoolInvariance, PTL DEF Spec

(* The critical section of add is an Accept, or changes nothing. *)
LEMMA InsertImplements ==
    ASSUME NEW t \in Adder, PoolInv, CarriedAllowed, Insert(t)
    PROVE  [Service!Next]_(Service!serviceVars)
<1>. DEFINE e == env[t]
<1>1. e \in Envelope /\ Paid(e) /\ Allowed(e)
  BY Zenon DEF Insert, PoolInv, TypeOK, CarriedHasPaid, CarriedAllowed
<1>2. CASE e \in envelopes
  BY <1>2, Zenon DEF Insert, Service!serviceVars
<1>3. CASE e \notin envelopes
  <2>1. /\ envelopes' = envelopes \cup {e} /\ now' = now
        /\ inserted' = [inserted EXCEPT ![e] = @ + 1]
    BY <1>3, Zenon DEF Insert
  <2>2. ~ (e.expiry < now) => now <= e.expiry
    BY <1>1, EnvelopeAssumption, TimeAssumption, WordAssumption
       DEF PoolInv, TypeOK, EnvelopeOver, Uint32
  <2>3. ~ (e.expiry < now) => inserted[e] = 0
    BY <1>1, <1>3, <2>2, Zenon DEF PoolInv, InsertedIffPooled
  <2>4. Service!Accept(e)
    BY <1>1, <1>3, <2>1, <2>2, <2>3, Zenon
       DEF Service!Accept, Service!PaysFor, Service!SizeAllowed, Service!BloomAllowed,
           Service!BloomFilterMatch, Service!Expired, Paid, PaidFor, Allowed,
           SizeAllowed, BloomAllowed, BloomFilterMatch
  <2>. QED
    BY <1>1, <2>4, Zenon DEF Service!Next
<1>. QED
  BY <1>2, <1>3, Zenon

(* An expiration cycle finds through the index exactly what has expired. *)
LEMMA ExpireImplements == PoolInv /\ Expire => Service!Sweep
<1>. SUFFICES ASSUME PoolInv, Expire PROVE Service!Sweep
  BY Zenon
<1>1. \A e \in envelopes : e \in Stale <=> e.expiry < now
  BY DEF Stale, StaleExpiries, PoolInv, ExpirationsIndexPool
<1>. QED
  BY <1>1, Zenon DEF Expire, history, Service!Sweep, Service!Expired

(***************************************************************************)
(* The pool implements PoolService: its initial state is an empty set, and *)
(* every step of add, of the expiration cycle, of the consumers and of     *)
(* Stop is a step of the plain set or invisible to it.                     *)
(***************************************************************************)
THEOREM PoolImplementsService == Spec => ImplementsPoolService
<1>1. Init => Service!Init
  BY Zenon DEF Init, Service!Init
<1>2. PoolInv /\ CarriedAllowed /\ [Next]_vars => [Service!Next]_(Service!serviceVars)
  <2>. SUFFICES ASSUME PoolInv, CarriedAllowed, [Next]_vars
                PROVE  [Service!Next]_(Service!serviceVars)
    BY Zenon
  <2>1. CASE Tick
    BY <2>1, Zenon DEF Tick, poolVars, history, Service!Next, Service!Tick
  <2>2. CASE Expire
    BY <2>2, ExpireImplements, Zenon DEF Service!Next
  <2>3. CASE \E t \in Adder : Insert(t)
    BY <2>3, InsertImplements, Zenon
  <2>4. CASE UNCHANGED <<now, envelopes, inserted>>
    BY <2>4, Zenon DEF Service!serviceVars
  <2>. QED
    BY <2>1, <2>2, <2>3, <2>4, Zenon
       DEF Next, AddStep, vars, poolVars, history, Add, Account, Measure, Flag, Post,
           Archive, Take, Deliver, Stop, Exit
<1>. QED
  BY <1>1, <1>2, PoolInvariance, CarriedAllowedInvariance, PTL
     DEF Spec, ImplementsPoolService, Service!Spec
-----------------------------------------------------------------------------
(***************************************************************************)
(* Sums over finite sets, as the Functions module defines them: one value  *)
(* of an arbitrary element after the other.                                *)
(***************************************************************************)
INSTANCE FiniteSetTheorems

Pick(s) == CHOOSE x \in s : TRUE
Partial(f, g, D) ==
    [s \in D |-> IF s = {} THEN 0 ELSE f[Pick(s)] + g[s \ {Pick(s)}]]
IsPartial(f, g, S) == g = Partial(f, g, SUBSET S)
Agree(g, S, h, T) == \A s \in SUBSET T : s \in SUBSET S => g[s] = h[s]

LEMMA SumIsPartial ==
    ASSUME NEW f, NEW S
    PROVE  SumFunctionOnSet(f, S) = (CHOOSE g : g = Partial(f, g, SUBSET S))[S]
BY DEF SumFunctionOnSet, FoldFunctionOnSet, MapThenFoldSet, Partial, Pick

LEMMA LeastNumber ==
    ASSUME NEW T, T \subseteq Nat, T # {}
    PROVE  \E n \in T : \A m \in T : n <= m
<1>1. IsWellFoundedOn(OpToRel(<, Nat), Nat)
  BY NatLessThanWellFounded, Zenon
<1>2. PICK n \in T : \A m \in T : ~ (<<m, n>> \in OpToRel(<, Nat))
  BY <1>1, WFMin, Zenon
<1>3. ASSUME NEW m \in T, m < n
      PROVE  <<m, n>> \in OpToRel(<, Nat)
  BY <1>3, Zenon DEF OpToRel
<1>4. \A m \in T : ~ (m < n)
  BY <1>2, <1>3, Zenon
<1>. QED  BY <1>4

(* Taking the arbitrary element out makes a finite set smaller. *)
LEMMA PickSmaller ==
    ASSUME NEW s, IsFiniteSet(s), s # {}
    PROVE  /\ Pick(s) \in s /\ IsFiniteSet(s \ {Pick(s)})
           /\ Cardinality(s) \in Nat
           /\ Cardinality(s \ {Pick(s)}) = Cardinality(s) - 1
<1>1. Pick(s) \in s
  BY Zenon DEF Pick
<1>. QED  BY <1>1, FS_RemoveElement, FS_CardinalityType, Zenon

(* The partial sums exist, of the smaller subsets first. *)
LEMMA PartialExists ==
    ASSUME NEW f, NEW S, IsFiniteSet(S)
    PROVE  \E g : g = Partial(f, g, SUBSET S)
<1>. DEFINE Sub(n) == {s \in SUBSET S : Cardinality(s) <= n}
            Bad == {n \in Nat : ~ \E g : g = Partial(f, g, Sub(n))}
<1>1. \A s \in SUBSET S : IsFiniteSet(s) /\ Cardinality(s) \in Nat
                          /\ Cardinality(s) <= Cardinality(S)
  BY FS_Subset, FS_CardinalityType, Zenon
<1>2. Bad = {}
  <2>. SUFFICES ASSUME Bad # {} PROVE FALSE
    BY Zenon
  <2>1. PICK n \in Bad : \A m \in Bad : n <= m
    BY LeastNumber, Zenon
  <2>2. n \in Nat /\ ~ \E g : g = Partial(f, g, Sub(n))
    BY Zenon
  <2>3. n # 0
    <3>. SUFFICES ASSUME n = 0 PROVE FALSE
      BY Zenon
    <3>1. \A s \in Sub(n) : s = {}
      BY <1>1, FS_EmptySet
    <3>. DEFINE g == [s \in Sub(n) |-> 0]
    <3>2. g = Partial(f, g, Sub(n))
      BY <3>1, Zenon DEF Partial
    <3>. QED  BY <2>2, <3>2, Zenon
  <2>4. n - 1 \in Nat /\ n - 1 \notin Bad
    <3>. HIDE DEF Bad
    <3>. QED  BY <2>1, <2>2, <2>3
  <2>5. PICK g : g = Partial(f, g, Sub(n - 1))
    BY <2>4, Zenon
  <2>. DEFINE h == Partial(f, g, Sub(n))
  <2>6. \A s \in Sub(n - 1) : s \in Sub(n)
    BY <1>1, <2>2
  <2>7. \A s \in Sub(n - 1) : h[s] = g[s]
    BY <2>5, <2>6, Zenon DEF Partial
  <2>8. \A s \in Sub(n) : s # {} => s \ {Pick(s)} \in Sub(n - 1)
    <3>. SUFFICES ASSUME NEW s \in Sub(n), s # {}
                  PROVE  s \ {Pick(s)} \in SUBSET S /\ Cardinality(s \ {Pick(s)}) <= n - 1
      BY Zenon
    <3>1. Cardinality(s) <= n /\ IsFiniteSet(s)
      BY <1>1, Zenon
    <3>2. Cardinality(s) \in Nat /\ Cardinality(s \ {Pick(s)}) = Cardinality(s) - 1
      BY <3>1, PickSmaller, Zenon
    <3>3. s \ {Pick(s)} \in SUBSET S
      BY Zenon
    <3>4. Cardinality(s \ {Pick(s)}) <= n - 1
      BY <2>2, <3>1, <3>2
    <3>. QED  BY <3>3, <3>4, Zenon
  <2>9. h = Partial(f, h, Sub(n))
    BY <2>7, <2>8, Zenon DEF Partial
  <2>. QED  BY <2>2, <2>9, Zenon
<1>3. Cardinality(S) \in Nat /\ Sub(Cardinality(S)) = SUBSET S
  <2>1. Cardinality(S) \in Nat
    BY FS_CardinalityType, Zenon
  <2>2. \A s : s \in Sub(Cardinality(S)) <=> s \in SUBSET S
    BY <1>1, Zenon
  <2>. QED  BY <2>1, <2>2, Zenon
<1>4. \A n \in Nat : \E g : g = Partial(f, g, Sub(n))
  BY <1>2, Zenon
<1>. HIDE DEF Sub
<1>. QED  BY <1>3, <1>4, Zenon

(* Induction on the size of the subsets of a finite set; G are those with the
   property in question. *)
LEMMA SubsetInduction ==
    ASSUME NEW U, IsFiniteSet(U), NEW G,
           \A s \in SUBSET U :
               (\A r \in SUBSET U : Cardinality(r) < Cardinality(s) => r \in G) => s \in G
    PROVE  \A s \in SUBSET U : s \in G
<1>. DEFINE Bad == {Cardinality(s) : s \in {r \in SUBSET U : r \notin G}}
<1>. SUFFICES ASSUME NEW s \in SUBSET U, s \notin G PROVE FALSE
  BY Zenon
<1>1. \A r \in SUBSET U : Cardinality(r) \in Nat
  BY FS_Subset, FS_CardinalityType, Zenon
<1>2. Bad \subseteq Nat /\ Cardinality(s) \in Bad
  <2>1. Bad \subseteq Nat
    BY <1>1
  <2>2. Cardinality(s) \in Bad
    BY Zenon
  <2>. QED  BY <2>1, <2>2, Zenon
<1>3. PICK n \in Bad : \A m \in Bad : n <= m
  <2>. HIDE DEF Bad
  <2>. QED  BY <1>2, LeastNumber, Zenon
<1>4. PICK q \in SUBSET U : q \notin G /\ Cardinality(q) = n
  BY <1>3, Zenon
<1>5. PICK r \in SUBSET U : Cardinality(r) < Cardinality(q) /\ r \notin G
  BY <1>4, Zenon
<1>6. Cardinality(r) \in Bad
  BY <1>5, Zenon
<1>. HIDE DEF Bad
<1>7. n <= Cardinality(r) /\ n \in Nat /\ Cardinality(r) \in Nat
  BY <1>1, <1>2, <1>3, <1>6, Zenon
<1>. QED  BY <1>4, <1>5, <1>7

(* A step of that induction: the property passes on from the set without its
   arbitrary element. *)
LEMMA PickInduction ==
    ASSUME NEW U, IsFiniteSet(U), NEW G, {} \in G,
           \A s \in SUBSET U : s # {} /\ s \ {Pick(s)} \in G => s \in G
    PROVE  \A s \in SUBSET U : s \in G
<1>1. ASSUME NEW s \in SUBSET U,
             \A r \in SUBSET U : Cardinality(r) < Cardinality(s) => r \in G
      PROVE  s \in G
  <2>1. CASE s = {}
    BY <2>1, Zenon
  <2>2. CASE s # {}
    <3>1. IsFiniteSet(s)
      BY FS_Subset, Zenon
    <3>2. Cardinality(s) \in Nat /\ Cardinality(s \ {Pick(s)}) = Cardinality(s) - 1
      BY <2>2, <3>1, PickSmaller, Zenon
    <3>3. Cardinality(s \ {Pick(s)}) < Cardinality(s)
      BY <3>2
    <3>4. s \ {Pick(s)} \in SUBSET U
      BY Zenon
    <3>. QED  BY <1>1, <2>2, <3>3, <3>4, Zenon
  <2>. QED  BY <2>1, <2>2, Zenon
<1>. QED  BY <1>1, SubsetInduction, Zenon

LEMMA PartialUnique ==
    ASSUME NEW f, NEW S, NEW T, IsFiniteSet(T),
           NEW g, IsPartial(f, g, S), NEW h, IsPartial(f, h, T)
    PROVE  Agree(g, S, h, T)
<1>. DEFINE G == {s \in SUBSET T : s \in SUBSET S => g[s] = h[s]}
<1>1. \A s \in SUBSET T : h[s] = IF s = {} THEN 0 ELSE f[Pick(s)] + h[s \ {Pick(s)}]
  BY Zenon DEF IsPartial, Partial
<1>2. \A s \in SUBSET S : g[s] = IF s = {} THEN 0 ELSE f[Pick(s)] + g[s \ {Pick(s)}]
  BY Zenon DEF IsPartial, Partial
<1>3. {} \in G
  BY <1>1, <1>2, Zenon
<1>4. ASSUME NEW s \in SUBSET T, s # {}, s \ {Pick(s)} \in G
      PROVE  s \in G
  <2>. SUFFICES ASSUME s \in SUBSET S PROVE g[s] = h[s]
    BY Zenon
  <2>1. g[s \ {Pick(s)}] = h[s \ {Pick(s)}]
    BY <1>4, Zenon
  <2>2. g[s] = f[Pick(s)] + g[s \ {Pick(s)}]
    BY <1>2, <1>4, Zenon
  <2>3. h[s] = f[Pick(s)] + h[s \ {Pick(s)}]
    BY <1>1, <1>4, Zenon
  <2>. QED  BY <2>1, <2>2, <2>3, Zenon
<1>5. \A s \in SUBSET T : s \in G
  <2>. HIDE DEF G
  <2>. QED  BY <1>3, <1>4, PickInduction, Zenon
<1>. QED  BY <1>5, Zenon DEF Agree

(* What one step of the sum does. *)
LEMMA SumStep ==
    ASSUME NEW f, NEW S, IsFiniteSet(S)
    PROVE  SumFunctionOnSet(f, S) = IF S = {} THEN 0
               ELSE f[Pick(S)] + SumFunctionOnSet(f, S \ {Pick(S)})
<1>. DEFINE T == S \ {Pick(S)}
            g == CHOOSE p : p = Partial(f, p, SUBSET S)
            h == CHOOSE p : p = Partial(f, p, SUBSET T)
<1>1. SumFunctionOnSet(f, S) = g[S] /\ SumFunctionOnSet(f, T) = h[T]
  BY SumIsPartial, Zenon
<1>2. T \in SUBSET S /\ S \in SUBSET S /\ T \in SUBSET T
  BY Zenon
<1>T. IsFiniteSet(T)
  BY FS_Subset, Zenon
<1>3. g = Partial(f, g, SUBSET S)
  BY PartialExists, Zenon
<1>4. h = Partial(f, h, SUBSET T)
  <2>. HIDE DEF T
  <2>1. \E p : p = Partial(f, p, SUBSET T)
    BY <1>T, PartialExists, Zenon
  <2>. QED  BY <2>1, Zenon
<1>. HIDE DEF g, h
<1>5. g[T] = h[T]
  <2>. HIDE DEF T
  <2>1. IsPartial(f, g, S) /\ IsPartial(f, h, T)
    BY <1>3, <1>4, Zenon DEF IsPartial
  <2>2. Agree(g, S, h, T)
    BY <1>T, <2>1, PartialUnique, Zenon
  <2>. QED  BY <1>2, <2>2, Zenon DEF Agree
<1>6. g[S] = IF S = {} THEN 0 ELSE f[Pick(S)] + g[T]
  BY <1>2, <1>3, Zenon DEF Partial
<1>. QED  BY <1>1, <1>5, <1>6, Zenon
IntValued(f, U) == IsFiniteSet(U) /\ \A x \in U : f[x] \in Int

LEMMA SumType ==
    ASSUME NEW f, NEW U, IntValued(f, U)
    PROVE  \A s \in SUBSET U : SumFunctionOnSet(f, s) \in Int
<1>. DEFINE G == {s \in SUBSET U : SumFunctionOnSet(f, s) \in Int}
<1>1. IsFiniteSet(U) /\ \A s \in SUBSET U : IsFiniteSet(s)
  BY FS_Subset, Zenon DEF IntValued
<1>2. {} \in G
  <2>1. SumFunctionOnSet(f, {}) = 0
    BY SumStep, FS_EmptySet, Zenon
  <2>. QED  BY <2>1
<1>3. ASSUME NEW s \in SUBSET U, s # {}, s \ {Pick(s)} \in G
      PROVE  s \in G
  <2>1. SumFunctionOnSet(f, s) = f[Pick(s)] + SumFunctionOnSet(f, s \ {Pick(s)})
    BY <1>1, <1>3, SumStep, Zenon
  <2>2. Pick(s) \in s
    BY <1>3, Zenon DEF Pick
  <2>3. f[Pick(s)] \in Int /\ SumFunctionOnSet(f, s \ {Pick(s)}) \in Int
    BY <1>3, <2>2, Zenon DEF IntValued
  <2>4. SumFunctionOnSet(f, s) \in Int
    BY <2>1, <2>3
  <2>. QED  BY <2>4, Zenon
<1>4. \A s \in SUBSET U : s \in G
  <2>. HIDE DEF G
  <2>. QED  BY <1>1, <1>2, <1>3, PickInduction, Zenon
<1>. QED  BY <1>4, Zenon

Splits(f, s, x) == SumFunctionOnSet(f, s) = f[x] + SumFunctionOnSet(f, s \ {x})

(* The order does not matter: any element may be the last to be added. *)
LEMMA SumWithout ==
    ASSUME NEW f, NEW U, IntValued(f, U)
    PROVE  \A s \in SUBSET U : \A x \in s : Splits(f, s, x)
<1>. DEFINE Good(s) == \A x \in s :
                           SumFunctionOnSet(f, s) = f[x] + SumFunctionOnSet(f, s \ {x})
            G == {s \in SUBSET U : Good(s)}
<1>1. IsFiniteSet(U) /\ \A s \in SUBSET U : IsFiniteSet(s)
  BY FS_Subset, Zenon DEF IntValued
<1>2. ASSUME NEW s \in SUBSET U,
             \A r \in SUBSET U : Cardinality(r) < Cardinality(s) => r \in G
      PROVE  s \in G
  <2>. SUFFICES ASSUME NEW x \in s
                PROVE  SumFunctionOnSet(f, s) = f[x] + SumFunctionOnSet(f, s \ {x})
    BY Zenon
  <2>. DEFINE c == Pick(s)
              both == (s \ {c}) \ {x}
  <2>1. c \in s
    BY Zenon DEF Pick
  <2>2. SumFunctionOnSet(f, s) = f[c] + SumFunctionOnSet(f, s \ {c})
    BY <1>1, SumStep, Zenon
  <2>3. CASE x = c
    BY <2>2, <2>3, Zenon
  <2>4. CASE x # c
    <3>1. \A y \in s : s \ {y} \in SUBSET U /\ Cardinality(s \ {y}) < Cardinality(s)
      <4>. SUFFICES ASSUME NEW y \in s PROVE Cardinality(s \ {y}) < Cardinality(s)
        BY Zenon
      <4>1. Cardinality(s) \in Nat /\ Cardinality(s \ {y}) = Cardinality(s) - 1
        BY <1>1, FS_RemoveElement, FS_CardinalityType, Zenon
      <4>. QED  BY <4>1
    <3>2. Good(s \ {c}) /\ Good(s \ {x})
      <4>. HIDE DEF Good
      <4>. QED  BY <1>2, <2>1, <3>1, Zenon
    <3>3. SumFunctionOnSet(f, s \ {c}) = f[x] + SumFunctionOnSet(f, both)
      BY <2>4, <3>2, Zenon
    <3>4. (s \ {x}) \ {c} = both
      BY Zenon
    <3>5. c \in s \ {x}
      BY <2>1, <2>4, Zenon
    <3>6. SumFunctionOnSet(f, s \ {x}) = f[c] + SumFunctionOnSet(f, both)
      BY <3>2, <3>4, <3>5, Zenon
    <3>7. f[x] \in Int /\ f[c] \in Int
      BY <2>1, Zenon DEF IntValued
    <3>8. SumFunctionOnSet(f, both) \in Int
      <4>1. both \in SUBSET U
        BY Zenon
      <4>. HIDE DEF both
      <4>. QED  BY <4>1, SumType, Zenon
    <3>. HIDE DEF c, both
    <3>. QED  BY <2>2, <3>3, <3>6, <3>7, <3>8
  <2>. QED  BY <2>3, <2>4, Zenon
<1>3. \A s \in SUBSET U : s \in G
  <2>. HIDE DEF G
  <2>. QED  BY <1>1, <1>2, SubsetInduction, Zenon
<1>. QED  BY <1>3, Zenon DEF Splits

LEMMA SumSplits ==
    ASSUME NEW f, NEW s, IntValued(f, s), NEW x, x \in s
    PROVE  Splits(f, s, x)
<1>1. s \in SUBSET s
  BY Zenon
<1>. QED  BY <1>1, SumWithout, Zenon

LEMMA IntValuedSubset ==
    ASSUME NEW f, NEW U, IntValued(f, U)
    PROVE  \A s \in SUBSET U : IntValued(f, s)
BY FS_Subset, Zenon DEF IntValued

(* The sum over what is left of s without r. *)
LEMMA SumMinus ==
    ASSUME NEW f, NEW U, IntValued(f, U), NEW s \in SUBSET U
    PROVE  \A r \in SUBSET s :
               SumFunctionOnSet(f, s \ r) = SumFunctionOnSet(f, s) - SumFunctionOnSet(f, r)
<1>. DEFINE Good(r) == SumFunctionOnSet(f, s \ r)
                           = SumFunctionOnSet(f, s) - SumFunctionOnSet(f, r)
            G == {r \in SUBSET s : Good(r)}
<1>1. IsFiniteSet(s)
  BY FS_Subset, Zenon DEF IntValued
<1>2. \A r \in SUBSET s : r \in SUBSET U /\ s \ r \in SUBSET U
  BY Zenon
<1>3. {} \in G
  <2>1. SumFunctionOnSet(f, {}) = 0
    BY SumStep, FS_EmptySet, Zenon
  <2>2. SumFunctionOnSet(f, s) \in Int
    BY SumType, Zenon
  <2>3. s \ {} = s
    BY Zenon
  <2>4. Good({})
    BY <2>1, <2>2, <2>3
  <2>. HIDE DEF Good
  <2>. QED  BY <2>4, Zenon
<1>4. ASSUME NEW r \in SUBSET s, r # {}, r \ {Pick(r)} \in G
      PROVE  r \in G
  <2>. DEFINE x == Pick(r)
              q == r \ {x}
  <2>1. x \in r
    BY <1>4, Zenon DEF Pick
  <2>2. SumFunctionOnSet(f, r) = f[x] + SumFunctionOnSet(f, q)
    <3>1. IntValued(f, r)
      BY <1>2, IntValuedSubset, Zenon
    <3>2. Splits(f, r, x)
      BY <2>1, <3>1, SumSplits, Zenon
    <3>. QED  BY <3>2, Zenon DEF Splits
  <2>3. SumFunctionOnSet(f, s \ q) = SumFunctionOnSet(f, s) - SumFunctionOnSet(f, q)
    BY <1>4, Zenon
  <2>4. s \ q \in SUBSET U /\ x \in s \ q /\ (s \ q) \ {x} = s \ r /\ q \in SUBSET U
    BY <2>1, Zenon
  <2>. HIDE DEF q, x
  <2>5. SumFunctionOnSet(f, s \ q) = f[x] + SumFunctionOnSet(f, s \ r)
    <3>1. IntValued(f, s \ q)
      BY <2>4, IntValuedSubset, Zenon
    <3>2. Splits(f, s \ q, x)
      BY <2>4, <3>1, SumSplits, Zenon
    <3>. QED  BY <2>4, <3>2, Zenon DEF Splits
  <2>6. /\ SumFunctionOnSet(f, s) \in Int /\ SumFunctionOnSet(f, q) \in Int
        /\ SumFunctionOnSet(f, s \ r) \in Int
    BY <1>2, <2>4, SumType, Zenon
  <2>7. f[x] \in Int
    BY <2>4, Zenon DEF IntValued
  <2>8. SumFunctionOnSet(f, s \ r) = SumFunctionOnSet(f, s) - SumFunctionOnSet(f, r)
    BY <2>2, <2>3, <2>5, <2>6, <2>7
  <2>. QED  BY <2>8, Zenon
<1>5. \A r \in SUBSET s : r \in G
  <2>. HIDE DEF G
  <2>. QED  BY <1>1, <1>3, <1>4, PickInduction, Zenon
<1>. QED  BY <1>5, Zenon
SameOn(f, h, U) == \A x \in U : f[x] = h[x]
SameSum(f, h, U) == SumFunctionOnSet(f, U) = SumFunctionOnSet(h, U)

LEMMA SumAgree ==
    ASSUME NEW f, NEW h, NEW U, IsFiniteSet(U), SameOn(f, h, U)
    PROVE  SameSum(f, h, U)
<1>. DEFINE G == {s \in SUBSET U : SumFunctionOnSet(f, s) = SumFunctionOnSet(h, s)}
<1>1. {} \in G
  BY SumStep, FS_EmptySet, Zenon
<1>2. ASSUME NEW s \in SUBSET U, s # {}, s \ {Pick(s)} \in G
      PROVE  s \in G
  <2>1. IsFiniteSet(s)
    BY FS_Subset, Zenon
  <2>2. SumFunctionOnSet(f, s) = f[Pick(s)] + SumFunctionOnSet(f, s \ {Pick(s)})
    BY <1>2, <2>1, SumStep, Zenon
  <2>3. SumFunctionOnSet(h, s) = h[Pick(s)] + SumFunctionOnSet(h, s \ {Pick(s)})
    BY <1>2, <2>1, SumStep, Zenon
  <2>4. SumFunctionOnSet(f, s \ {Pick(s)}) = SumFunctionOnSet(h, s \ {Pick(s)})
    BY <1>2, Zenon
  <2>5. f[Pick(s)] = h[Pick(s)]
    BY <1>2, Zenon DEF Pick, SameOn
  <2>. QED  BY <2>2, <2>3, <2>4, <2>5, Zenon
<1>3. \A s \in SUBSET U : s \in G
  <2>. HIDE DEF G
  <2>. QED  BY <1>1, <1>2, PickInduction, Zenon
<1>. QED  BY <1>3, Zenon DEF SameSum

GrewBy(f, g, n) ==
    SumFunction(f) \in Int /\ n \in Int /\ SumFunction(g) = n + SumFunction(f)

(* The sums of a function and of one that has another element in its domain. *)
OneMore(f, g, x) ==
    /\ x \notin DOMAIN f /\ DOMAIN g = DOMAIN f \cup {x}
    /\ \A a \in DOMAIN f : g[a] = f[a]

LEMMA SumOneMore ==
    ASSUME NEW f, NEW g, NEW x, OneMore(f, g, x), IntValued(g, DOMAIN g)
    PROVE  GrewBy(f, g, g[x])
<1>. DEFINE A == DOMAIN f
            U == DOMAIN g
<1>1. A \in SUBSET U /\ x \in U /\ U \ {x} = A
  BY Zenon DEF OneMore
<1>2. SumFunctionOnSet(g, U) = g[x] + SumFunctionOnSet(g, A)
  <2>1. Splits(g, U, x)
    BY <1>1, SumSplits, Zenon
  <2>. QED  BY <1>1, <2>1, Zenon DEF Splits
<1>3. SumFunctionOnSet(g, A) \in Int
  BY <1>1, SumType, Zenon
<1>4. IsFiniteSet(A)
  BY <1>1, FS_Subset, Zenon DEF IntValued
<1>5. SumFunctionOnSet(g, A) = SumFunctionOnSet(f, A)
  <2>1. SameOn(g, f, A)
    BY Zenon DEF OneMore, SameOn
  <2>2. SameSum(g, f, A)
    BY <1>4, <2>1, SumAgree, Zenon
  <2>. QED  BY <2>2, Zenon DEF SameSum
<1>6. g[x] \in Int
  BY <1>1, Zenon DEF IntValued
<1>. QED  BY <1>2, <1>3, <1>5, <1>6, Zenon DEF SumFunction, GrewBy

(* One more of something that is counted. *)
Raised(f, g, x, U) == f \in [U -> Nat] /\ x \in U /\ g = [f EXCEPT ![x] = @ + 1]

LEMMA SumRaise ==
    ASSUME NEW U, IsFiniteSet(U), NEW f, NEW g, NEW x, Raised(f, g, x, U)
    PROVE  GrewBy(f, g, 1)
<1>. USE DEF Raised
<1>. DEFINE A == U \ {x}
<1>1. DOMAIN f = U /\ DOMAIN g = U /\ g[x] = f[x] + 1 /\ f[x] \in Nat
  BY Zenon
<1>2. \A a \in A : g[a] = f[a]
  BY Zenon
<1>3. IntValued(f, U) /\ IntValued(g, U)
  <2>1. \A a \in U : f[a] \in Int
    OBVIOUS
  <2>2. g[x] \in Int
    BY <1>1
  <2>. QED  BY <1>2, <2>1, <2>2, Zenon DEF IntValued
<1>4. Splits(f, U, x) /\ Splits(g, U, x)
  BY <1>3, SumSplits, Zenon
<1>5. SumFunctionOnSet(f, A) = SumFunctionOnSet(g, A)
  <2>1. IsFiniteSet(A)
    BY FS_Subset, Zenon
  <2>. HIDE DEF A
  <2>2. SameOn(f, g, A)
    BY <1>2, Zenon DEF SameOn
  <2>3. SameSum(f, g, A)
    BY <2>1, <2>2, SumAgree, Zenon
  <2>. QED  BY <2>3, Zenon DEF SameSum
<1>6. SumFunctionOnSet(f, A) \in Int
  <2>1. A \in SUBSET U
    BY Zenon
  <2>. HIDE DEF A
  <2>. QED  BY <1>3, <2>1, SumType, Zenon
<1>7. /\ SumFunctionOnSet(f, U) = f[x] + SumFunctionOnSet(f, A)
      /\ SumFunctionOnSet(g, U) = f[x] + 1 + SumFunctionOnSet(f, A)
  BY <1>1, <1>4, <1>5, Zenon DEF Splits
<1>8. SumFunction(f) = SumFunctionOnSet(f, U) /\ SumFunction(g) = SumFunctionOnSet(g, U)
  BY <1>1, Zenon DEF SumFunction
<1>. HIDE DEF A, Raised
<1>. QED  BY <1>1, <1>6, <1>7, <1>8 DEF GrewBy
-----------------------------------------------------------------------------
(* The statistics. *)
Waiting == [t \in Uncounted |-> env[t].size]

Counts == [messagesCleared : Int, memoryCleared : Int, memoryUsed : Int,
           totalMessagesCleared : Int]

AccountInv == stats \in Counts /\ MemoryAccounted /\ ClearedAccounted

LEMMA SizeFinite == IntValued([e \in Envelope |-> e.size], Envelope)
<1>1. \A e \in Envelope : e.size \in Int
  BY EnvelopeAssumption DEF EnvelopeOver
<1>. QED  BY <1>1, EnvelopeAssumption, Zenon DEF IntValued

LEMMA TotalSizeFacts ==
    ASSUME NEW S \in SUBSET Envelope
    PROVE  /\ TotalSize(S) \in Int
           /\ \A e \in Envelope \ S : TotalSize(S \cup {e}) = e.size + TotalSize(S)
           /\ \A T \in SUBSET S : TotalSize(S \ T) = TotalSize(S) - TotalSize(T)
<1>. DEFINE f == [e \in Envelope |-> e.size]
<1>1. IntValued(f, Envelope)
  BY SizeFinite, Zenon
<1>2. \A T : TotalSize(T) = SumFunctionOnSet(f, T)
  BY Zenon DEF TotalSize
<1>3. \A e \in Envelope : f[e] = e.size
  BY Zenon
<1>. HIDE DEF f
<1>4. SumFunctionOnSet(f, S) \in Int
  BY <1>1, SumType, Zenon
<1>5. \A T \in SUBSET S : SumFunctionOnSet(f, S \ T)
                              = SumFunctionOnSet(f, S) - SumFunctionOnSet(f, T)
  BY <1>1, SumMinus, Zenon
<1>6. ASSUME NEW e \in Envelope \ S
      PROVE  SumFunctionOnSet(f, S \cup {e}) = f[e] + SumFunctionOnSet(f, S)
  <2>. DEFINE T == S \cup {e}
  <2>1. T \in SUBSET Envelope /\ e \in T /\ T \ {e} = S
    BY Zenon
  <2>. HIDE DEF T
  <2>2. IntValued(f, T)
    BY <1>1, <2>1, IntValuedSubset, Zenon
  <2>3. Splits(f, T, e)
    BY <2>1, <2>2, SumSplits, Zenon
  <2>4. SumFunctionOnSet(f, T) = f[e] + SumFunctionOnSet(f, S)
    BY <2>1, <2>3, Zenon DEF Splits
  <2>. QED  BY <2>4, Zenon DEF T
<1>. QED  BY <1>2, <1>3, <1>4, <1>5, <1>6, Zenon

LEMMA WaitingFinite ==
    ASSUME TypeOK
    PROVE  IntValued(Waiting, DOMAIN Waiting)
<1>1. IsFiniteSet(Uncounted)
  BY GoroutineAssumption, FS_Subset, Zenon DEF Uncounted
<1>2. \A t \in Uncounted : env[t] \in Envelope
  BY Zenon DEF TypeOK, Uncounted
<1>3. \A t \in Uncounted : env[t].size \in Int
  BY <1>2, EnvelopeAssumption DEF EnvelopeOver
<1>. QED  BY <1>1, <1>3, Zenon DEF IntValued, Waiting

(* Steps that touch neither the pool nor the statistics nor who has to update them. *)
LEMMA AccountFrame ==
    ASSUME AccountInv, UNCHANGED <<envelopes, stats, inserted>>, Uncounted' = Uncounted,
           \A t \in Uncounted : env'[t] = env[t]
    PROVE  AccountInv'
<1>1. Waiting' = Waiting
  BY Zenon DEF Waiting
<1>2. TotalSize(envelopes)' = TotalSize(envelopes)
  BY Zenon DEF TotalSize
<1>3. MemoryAccounted <=> stats.memoryUsed = TotalSize(envelopes) - SumFunction(Waiting)
  BY Zenon DEF MemoryAccounted, Waiting
<1>4. MemoryAccounted' <=> stats'.memoryUsed = TotalSize(envelopes)' - SumFunction(Waiting')
  BY Zenon DEF MemoryAccounted, Waiting
<1>5. MemoryAccounted'
  BY <1>1, <1>2, <1>3, <1>4, Zenon DEF AccountInv
<1>6. ClearedAccounted'
  BY Zenon DEF AccountInv, ClearedAccounted
<1>. QED  BY <1>5, <1>6, Zenon DEF AccountInv

LEMMA AccountInsert ==
    ASSUME NEW t \in Adder, PoolInv, PoolInv', AccountInv, Insert(t)
    PROVE  AccountInv'
<1>. DEFINE e == env[t]
<1>1. e \in Envelope /\ t \notin Uncounted
  BY Zenon DEF Insert, PoolInv, TypeOK, Uncounted
<1>2. CASE e \in envelopes
  <2>1. UNCHANGED <<envelopes, stats, inserted>> /\ Return(t)
    BY <1>2, Zenon DEF Insert
  <2>2. Uncounted' = Uncounted
    BY <1>1, <2>1, Zenon DEF Return, Goto, Uncounted, PoolInv, TypeOK
  <2>3. \A u \in Uncounted : env'[u] = env[u]
    BY <1>1, <2>1, Zenon DEF Return, Uncounted, PoolInv, TypeOK
  <2>. QED  BY <2>1, <2>2, <2>3, AccountFrame, Zenon
<1>3. CASE e \notin envelopes
  <2>1. /\ envelopes' = envelopes \cup {e} /\ stats' = stats /\ env' = env
        /\ inserted' = [inserted EXCEPT ![e] = @ + 1]
        /\ pc' = [pc EXCEPT ![t] = "account"]
    BY <1>3, Zenon DEF Insert, Goto
  <2>2. Uncounted' = Uncounted \cup {t}
    BY <2>1 DEF Uncounted, PoolInv, TypeOK
  <2>3. MemoryAccounted'
    <3>1. OneMore(Waiting, Waiting', t) /\ Waiting'[t] = e.size
      BY <1>1, <2>1, <2>2, Zenon DEF Waiting, OneMore
    <3>2. IntValued(Waiting', DOMAIN Waiting')
      <4>1. IntValued(Waiting, DOMAIN Waiting)'
        BY WaitingFinite, PTL DEF PoolInv
      <4>. QED  BY <4>1, Zenon
    <3>3. GrewBy(Waiting, Waiting', Waiting'[t])
      BY <3>1, <3>2, SumOneMore, Zenon
    <3>4. TotalSize(envelopes)' = e.size + TotalSize(envelopes) /\ TotalSize(envelopes) \in Int
      <4>1. TotalSize(envelopes)' = TotalSize(envelopes')
        BY Zenon DEF TotalSize
      <4>. QED  BY <1>1, <1>3, <2>1, <4>1, TotalSizeFacts, Zenon DEF PoolInv, TypeOK
    <3>5. stats.memoryUsed = TotalSize(envelopes) - SumFunction(Waiting)
      BY Zenon DEF AccountInv, MemoryAccounted, Waiting
    <3>6. stats'.memoryUsed = TotalSize(envelopes)' - SumFunction(Waiting')
      BY <2>1, <3>1, <3>3, <3>4, <3>5 DEF GrewBy
    <3>. QED  BY <3>6, Zenon DEF MemoryAccounted, Waiting
  <2>4. ClearedAccounted'
    <3>1. GrewBy(inserted, inserted', 1)
      <4>1. Raised(inserted, inserted', e, Envelope)
        BY <1>1, <2>1, Zenon DEF PoolInv, TypeOK, Raised
      <4>. QED  BY <4>1, SumRaise, EnvelopeAssumption, Zenon
    <3>2. Cardinality(envelopes') = Cardinality(envelopes) + 1 /\ Cardinality(envelopes) \in Nat
      <4>1. IsFiniteSet(envelopes)
        BY EnvelopeAssumption, FS_Subset, Zenon DEF PoolInv, TypeOK
      <4>. QED  BY <1>3, <2>1, <4>1, FS_AddElement, FS_CardinalityType, Zenon
    <3>3. /\ SumFunction(inserted) = Cardinality(envelopes) + stats.messagesCleared
                                       + stats.totalMessagesCleared
          /\ stats.messagesCleared \in Int /\ stats.totalMessagesCleared \in Int
      BY Zenon DEF AccountInv, ClearedAccounted, Counts
    <3>. QED  BY <2>1, <3>1, <3>2, <3>3 DEF GrewBy, ClearedAccounted
  <2>. QED  BY <2>1, <2>3, <2>4, Zenon DEF AccountInv
<1>. QED  BY <1>2, <1>3, Zenon
(* The statistics catch up with an insertion. *)
LEMMA AccountAccount ==
    ASSUME NEW t \in Adder, PoolInv, AccountInv, Account(t)
    PROVE  AccountInv'
<1>1. /\ stats' = [stats EXCEPT !.memoryUsed = @ + env[t].size]
      /\ env' = env /\ envelopes' = envelopes /\ inserted' = inserted
      /\ pc[t] = "account" /\ pc' = [pc EXCEPT ![t] = IF isP2P[t] THEN "post" ELSE "measure"]
  BY Zenon DEF Account, Goto, history
<1>2. Uncounted' = Uncounted \ {t} /\ t \in Uncounted
  <2>1. \A u \in Adder : pc'[u] = "account" <=> pc[u] = "account" /\ u # t
    BY <1>1, Zenon DEF PoolInv, TypeOK
  <2>. QED  BY <1>1, <2>1, Zenon DEF Uncounted
<1>3. OneMore(Waiting', Waiting, t) /\ Waiting[t] = env[t].size
  BY <1>1, <1>2, Zenon DEF Waiting, OneMore
<1>4. GrewBy(Waiting', Waiting, Waiting[t])
  BY <1>3, WaitingFinite, SumOneMore, Zenon DEF PoolInv
<1>5. TotalSize(envelopes)' = TotalSize(envelopes) /\ TotalSize(envelopes) \in Int
  <2>1. TotalSize(envelopes)' = TotalSize(envelopes)
    BY <1>1, Zenon DEF TotalSize
  <2>. QED  BY <2>1, TotalSizeFacts, Zenon DEF PoolInv, TypeOK
<1>6. stats.memoryUsed = TotalSize(envelopes) - SumFunction(Waiting)
  BY Zenon DEF AccountInv, MemoryAccounted, Waiting
<1>7. /\ stats'.memoryUsed = stats.memoryUsed + env[t].size
      /\ stats'.messagesCleared = stats.messagesCleared
      /\ stats'.totalMessagesCleared = stats.totalMessagesCleared
      /\ stats.memoryUsed \in Int
  BY <1>1, Zenon DEF AccountInv, Counts
<1>8. stats'.memoryUsed = TotalSize(envelopes)' - SumFunction(Waiting')
  BY <1>3, <1>4, <1>5, <1>6, <1>7 DEF GrewBy
<1>9. stats' \in Counts
  <2>1. env[t].size \in Int
    BY <1>3, <1>4, Zenon DEF GrewBy
  <2>. QED  BY <1>1, <2>1 DEF AccountInv, Counts
<1>10. ClearedAccounted'
  BY <1>1, <1>7, Zenon DEF AccountInv, ClearedAccounted
<1>. QED  BY <1>8, <1>9, <1>10, Zenon DEF AccountInv, MemoryAccounted, Waiting

(* A cycle gives back the memory of what it removes, and counts it: nothing is
   filed twice or without being pooled. *)
LEMMA AccountExpire ==
    ASSUME PoolInv, AccountInv, Expire
    PROVE  AccountInv'
<1>1. /\ envelopes' = envelopes \ Stale /\ stats' = Cleared(Stale)
      /\ inserted' = inserted /\ env' = env /\ pc' = pc
  BY Zenon DEF Expire, adderVars, history
<1>2. Stale \in SUBSET envelopes /\ envelopes \in SUBSET Envelope
  <2>1. \A x \in DOMAIN expirations : \A e \in expirations[x] : e \in envelopes
    BY Zenon DEF PoolInv, ExpirationsIndexPool
  <2>2. \A e \in Stale : \E x \in DOMAIN expirations : e \in expirations[x]
    BY Zenon DEF Stale, StaleExpiries
  <2>. QED  BY <2>1, <2>2, Zenon DEF PoolInv, TypeOK
<1>3. IsFiniteSet(envelopes) /\ IsFiniteSet(Stale)
  BY <1>2, EnvelopeAssumption, FS_Subset, Zenon
<1>4. /\ Cardinality(envelopes \ Stale) = Cardinality(envelopes) - Cardinality(Stale)
      /\ Cardinality(envelopes) \in Nat /\ Cardinality(Stale) \in Nat
  <2>1. envelopes \cap Stale = Stale
    BY <1>2, Zenon
  <2>2. Cardinality(envelopes \ Stale)
            = Cardinality(envelopes) - Cardinality(envelopes \cap Stale)
    BY <1>3, FS_Difference, Zenon
  <2>. QED  BY <1>3, <2>1, <2>2, FS_CardinalityType, Zenon
<1>5. /\ TotalSize(envelopes') = TotalSize(envelopes) - TotalSize(Stale)
      /\ TotalSize(envelopes) \in Int /\ TotalSize(Stale) \in Int
  <2>1. Stale \in SUBSET Envelope
    BY <1>2, Zenon
  <2>2. TotalSize(envelopes) \in Int /\ TotalSize(Stale) \in Int
    BY <1>2, <2>1, TotalSizeFacts, Zenon
  <2>3. \A T \in SUBSET envelopes :
            TotalSize(envelopes \ T) = TotalSize(envelopes) - TotalSize(T)
    BY <1>2, TotalSizeFacts, Zenon
  <2>. QED  BY <1>1, <1>2, <2>2, <2>3, Zenon
<1>6. Waiting' = Waiting
  BY <1>1, Zenon DEF Waiting, Uncounted
<1>7. SumFunction(Waiting) \in Int
  <2>1. IntValued(Waiting, DOMAIN Waiting) /\ DOMAIN Waiting \in SUBSET DOMAIN Waiting
    BY WaitingFinite, Zenon DEF PoolInv
  <2>. QED  BY <2>1, SumType, Zenon DEF SumFunction
<1>8. /\ stats'.memoryUsed = stats.memoryUsed - TotalSize(Stale)
      /\ stats'.messagesCleared = Cardinality(Stale)
      /\ stats'.totalMessagesCleared = stats.totalMessagesCleared + stats.messagesCleared
  BY <1>1, Zenon DEF Cleared
<1>9. stats' \in Counts
  BY <1>1, <1>4, <1>5 DEF Cleared, AccountInv, Counts
<1>10. MemoryAccounted'
  <2>1. stats.memoryUsed = TotalSize(envelopes) - SumFunction(Waiting)
    BY Zenon DEF AccountInv, MemoryAccounted, Waiting
  <2>2. stats'.memoryUsed = TotalSize(envelopes') - SumFunction(Waiting')
    BY <1>5, <1>6, <1>7, <1>8, <2>1
  <2>3. TotalSize(envelopes)' = TotalSize(envelopes')
    BY Zenon DEF TotalSize
  <2>. QED  BY <2>2, <2>3, Zenon DEF MemoryAccounted, Waiting
<1>11. ClearedAccounted'
  <2>1. /\ SumFunction(inserted) = Cardinality(envelopes) + stats.messagesCleared
                                     + stats.totalMessagesCleared
        /\ stats.messagesCleared \in Int /\ stats.totalMessagesCleared \in Int
    BY Zenon DEF AccountInv, ClearedAccounted, Counts
  <2>2. SumFunction(inserted) = Cardinality(envelopes') + stats'.messagesCleared
                                  + stats'.totalMessagesCleared
    BY <1>1, <1>4, <1>8, <2>1
  <2>. QED  BY <1>1, <2>2, Zenon DEF ClearedAccounted
<1>. QED  BY <1>9, <1>10, <1>11, Zenon DEF AccountInv

LEMMA AccountInit == Init => AccountInv
<1>. SUFFICES ASSUME Init PROVE AccountInv
  OBVIOUS
<1>1. stats \in Counts /\ stats.memoryUsed = 0
      /\ stats.messagesCleared = 0 /\ stats.totalMessagesCleared = 0
  BY DEF Init, Counts
<1>2. \A f : SumFunctionOnSet(f, {}) = 0
  BY SumStep, FS_EmptySet, Zenon
<1>3. TotalSize(envelopes) = 0
  BY <1>2, Zenon DEF Init, TotalSize
<1>4. SumFunction(Waiting) = 0
  <2>1. DOMAIN Waiting = {}
    BY Zenon DEF Init, Waiting, Uncounted
  <2>. QED  BY <1>2, <2>1, Zenon DEF SumFunction
<1>5. MemoryAccounted
  <2>1. stats.memoryUsed = TotalSize(envelopes) - SumFunction(Waiting)
    BY <1>1, <1>3, <1>4
  <2>. QED  BY <2>1, Zenon DEF MemoryAccounted, Waiting
<1>6. SumFunction(inserted) = 0
  <2>. DEFINE G == {s \in SUBSET Envelope : SumFunctionOnSet(inserted, s) = 0}
  <2>1. {} \in G
    BY <1>2, Zenon
  <2>2. ASSUME NEW s \in SUBSET Envelope, s # {}, s \ {Pick(s)} \in G
        PROVE  s \in G
    <3>1. IsFiniteSet(s)
      BY EnvelopeAssumption, FS_Subset, Zenon
    <3>2. SumFunctionOnSet(inserted, s)
              = inserted[Pick(s)] + SumFunctionOnSet(inserted, s \ {Pick(s)})
      BY <2>2, <3>1, SumStep, Zenon
    <3>3. inserted[Pick(s)] = 0
      BY <2>2, Zenon DEF Init, Pick
    <3>4. SumFunctionOnSet(inserted, s \ {Pick(s)}) = 0
      BY <2>2, Zenon
    <3>5. SumFunctionOnSet(inserted, s) = 0
      BY <3>2, <3>3, <3>4
    <3>. QED  BY <3>5, Zenon
  <2>3. \A s \in SUBSET Envelope : s \in G
    <3>. HIDE DEF G
    <3>. QED  BY <2>1, <2>2, EnvelopeAssumption, PickInduction, Zenon
  <2>4. DOMAIN inserted = Envelope
    BY Zenon DEF Init
  <2>. QED  BY <2>3, <2>4, Zenon DEF SumFunction
<1>7. ClearedAccounted
  <2>1. Cardinality(envelopes) = 0
    BY FS_EmptySet, Zenon DEF Init
  <2>. QED  BY <1>1, <1>6, <2>1 DEF ClearedAccounted
<1>. QED  BY <1>1, <1>5, <1>7, Zenon DEF AccountInv
LEMMA AccountNext == PoolInv /\ AccountInv /\ [Next]_vars => AccountInv'
<1>. SUFFICES ASSUME PoolInv, AccountInv, [Next]_vars PROVE AccountInv'
  BY Zenon
<1>0. PoolInv'
  BY NextPoolInv, Zenon
<1>. DEFINE Quiet == /\ UNCHANGED <<envelopes, stats, inserted>> /\ Uncounted' = Uncounted
                     /\ \A t \in Uncounted : env'[t] = env[t]
<1>1. Quiet => AccountInv'
  BY AccountFrame, Zenon
<1>2. pc \in [Adder -> PC] /\ env \in [Adder -> Envelope \cup {NoEnvelope}]
  BY Zenon DEF PoolInv, TypeOK
<1>3. ASSUME UNCHANGED <<envelopes, stats, inserted, pc, env>> PROVE Quiet
  BY <1>3, Zenon DEF Uncounted
<1>4. ASSUME NEW t \in Adder, UNCHANGED <<envelopes, stats, inserted>>,
             pc[t] # "account", pc'[t] # "account",
             \A u \in Adder : u # t => pc'[u] = pc[u] /\ env'[u] = env[u]
      PROVE  Quiet
  <2>1. \A u \in Adder : pc'[u] = "account" <=> pc[u] = "account"
    BY <1>4, Zenon
  <2>. QED  BY <1>4, <2>1, Zenon DEF Uncounted
<1>5. ASSUME NEW t \in Adder, NEW e \in Envelope, NEW p2p \in BOOLEAN, Add(t, e, p2p)
      PROVE  AccountInv'
  <2>1. /\ UNCHANGED <<envelopes, stats, inserted>>
        /\ pc[t] # "account" /\ pc'[t] # "account"
        /\ \A u \in Adder : u # t => pc'[u] = pc[u] /\ env'[u] = env[u]
    BY <1>2, <1>5, Zenon DEF Add, Goto, poolVars, history
  <2>. QED  BY <1>1, <1>4, <2>1, Zenon
<1>6. ASSUME NEW t \in Adder, Measure(t) \/ Flag(t) \/ Post(t) \/ Archive(t)
      PROVE  AccountInv'
  <2>1. UNCHANGED <<envelopes, stats, inserted>>
    BY <1>6, Zenon DEF Measure, Flag, Post, Archive, poolVars, history
  <2>2. pc[t] \in {"measure", "flag", "post", "archive"}
    BY <1>6, Zenon DEF Measure, Flag, Post, Archive
  <2>3. \E l \in {"flag", "post", "archive", "idle"} : pc' = [pc EXCEPT ![t] = l]
    BY <1>6, Zenon DEF Measure, Flag, Post, AfterPost, Archive, Goto, Return
  <2>4. \A u \in Adder : u # t => env'[u] = env[u]
    BY <1>2, <1>6, Zenon DEF Measure, Flag, Post, AfterPost, Archive, Return
  <2>5. pc[t] # "account" /\ pc'[t] # "account" /\ \A u \in Adder : u # t => pc'[u] = pc[u]
    BY <1>2, <2>2, <2>3, Zenon
  <2>. QED  BY <1>1, <1>4, <2>1, <2>4, <2>5, Zenon
<1>7. ASSUME Tick \/ Stop \/ (\E w \in Consumer : Take(w) \/ Deliver(w))
               \/ (\E g \in Consumer \cup {Updater} : Exit(g)) \/ UNCHANGED vars
      PROVE  AccountInv'
  <2>1. UNCHANGED <<envelopes, stats, inserted, pc, env>>
    BY <1>7, Zenon DEF Tick, Stop, Take, Deliver, Exit, poolVars, adderVars, history, vars
  <2>. QED  BY <1>1, <1>3, <2>1, Zenon
<1>8. ASSUME NEW t \in Adder, AddStep(t) PROVE AccountInv'
  <2>1. CASE Insert(t)
    BY <1>0, <2>1, AccountInsert, Zenon
  <2>2. CASE Account(t)
    BY <2>2, AccountAccount, Zenon
  <2>. QED  BY <1>6, <1>8, <2>1, <2>2, Zenon DEF AddStep
<1>9. CASE Expire
  BY <1>9, AccountExpire, Zenon
<1>. HIDE DEF Quiet
<1>. QED  BY <1>5, <1>7, <1>8, <1>9, Zenon DEF Next

LEMMA AccountInvariance == Spec => []AccountInv
BY AccountInit, AccountNext, PoolInvariance, PTL DEF Spec

(***************************************************************************)
(* stats.memoryUsed is the size of the pool less the envelopes whose add   *)
(* is between poolMu and statsMu, for any number of adders racing expire.  *)
(***************************************************************************)
THEOREM PoolMemoryAccounted == Spec => []MemoryAccounted
<1>1. AccountInv => MemoryAccounted
  BY Zenon DEF AccountInv
<1>. QED  BY <1>1, AccountInvariance, PTL

(***************************************************************************)
(* Every envelope that ever entered the pool is pooled or was counted by   *)
(* one expiration cycle: reset moves the count of the last one and loses   *)
(* none.                                                                   *)
(***************************************************************************)
THEOREM PoolClearedAccounted == Spec => []ClearedAccounted
<1>1. AccountInv => ClearedAccounted
  BY Zenon DEF AccountInv
<1>. QED  BY <1>1, AccountInvariance, PTL
-----------------------------------------------------------------------------
(* One delivery and one archival per insertion. *)

(* S and T differ by x at most: T has it, if b, and S has not. *)
Joins(S, T, x, b) == x \notin S /\ T = (IF b THEN S \cup {x} ELSE S)

(* The second of two numbers is one more than the first if b, or the same. *)
UpBy(m, n, b) == m \in Nat /\ n \in Nat /\ n = m + (IF b THEN 1 ELSE 0)

LEMMA JoinCounts ==
    ASSUME NEW S, NEW T, NEW x, NEW b \in BOOLEAN, IsFiniteSet(S), Joins(S, T, x, b)
    PROVE  UpBy(Cardinality(S), Cardinality(T), b)
<1>1. Cardinality(S) \in Nat
  BY FS_CardinalityType, Zenon
<1>2. CASE b
  <2>1. Cardinality(T) = Cardinality(S) + 1
    BY <1>2, FS_AddElement, Zenon DEF Joins
  <2>. QED  BY <1>1, <1>2, <2>1 DEF UpBy
<1>3. CASE ~ b
  <2>1. T = S
    BY <1>3, Zenon DEF Joins
  <2>. QED  BY <1>1, <1>3, <2>1 DEF UpBy
<1>. QED  BY <1>2, <1>3, Zenon

(* Where e is in the sequence s. *)
Places(e, s) == {i \in DOMAIN s : s[i] = e}

LEMMA PlacesFinite ==
    ASSUME NEW s \in Seq(Envelope), NEW e
    PROVE  IsFiniteSet(Places(e, s))
<1>1. Len(s) \in Nat /\ DOMAIN s = 1 .. Len(s)
  OBVIOUS
<1>2. IsFiniteSet(1 .. Len(s))
  BY <1>1, FS_Interval
<1>3. Places(e, s) \in SUBSET (1 .. Len(s))
  BY <1>1, Zenon DEF Places
<1>. QED  BY <1>2, <1>3, FS_Subset, Zenon

(* What is appended to a queue is in it once more. *)
LEMMA AppendCounts ==
    ASSUME NEW s \in Seq(Envelope), NEW f \in Envelope, NEW e \in Envelope
    PROVE  UpBy(Occurrences(e, s), Occurrences(e, Append(s, f)), e = f)
<1>1. Joins(Places(e, s), Places(e, Append(s, f)), Len(s) + 1, e = f)
  <2>1. /\ DOMAIN s = 1 .. Len(s) /\ Len(s) \in Nat
        /\ DOMAIN Append(s, f) = 1 .. (Len(s) + 1)
        /\ \A i \in 1 .. Len(s) : Append(s, f)[i] = s[i]
        /\ Append(s, f)[Len(s) + 1] = f
    OBVIOUS
  <2>. DEFINE q == Append(s, f)
  <2>2. /\ 1 .. (Len(s) + 1) = (1 .. Len(s)) \cup {Len(s) + 1}
        /\ Len(s) + 1 \notin 1 .. Len(s)
    BY <2>1
  <2>3. Len(s) + 1 \notin Places(e, s)
    BY <2>1, <2>2, Zenon DEF Places
  <2>. HIDE DEF q
  <2>4. \A i : i \in Places(e, q)
                 <=> i \in Places(e, s) \/ (e = f /\ i = Len(s) + 1)
    BY <2>1, <2>2, Zenon DEF Places, q
  <2>5. Places(e, q) = IF e = f THEN Places(e, s) \cup {Len(s) + 1} ELSE Places(e, s)
    BY <2>4, Zenon
  <2>. QED  BY <2>3, <2>5, Zenon DEF Joins, q
<1>2. UpBy(Cardinality(Places(e, s)), Cardinality(Places(e, Append(s, f))), e = f)
  BY <1>1, PlacesFinite, JoinCounts, Zenon
<1>. QED  BY <1>2, Zenon DEF Occurrences, Places

(* What is taken from the head of a queue is in it once less. *)
LEMMA TailCounts ==
    ASSUME NEW s \in Seq(Envelope), s # << >>, NEW e \in Envelope
    PROVE  UpBy(Occurrences(e, Tail(s)), Occurrences(e, s), e = Head(s))
<1>1. /\ DOMAIN s = 1 .. Len(s) /\ Len(s) \in Nat /\ Len(s) >= 1
      /\ Tail(s) \in Seq(Envelope) /\ Head(s) = s[1]
      /\ DOMAIN Tail(s) = 1 .. (Len(s) - 1)
      /\ \A i \in 1 .. (Len(s) - 1) : Tail(s)[i] = s[i + 1]
  OBVIOUS
<1>. DEFINE q == Tail(s)
            R == Places(e, s) \ {1}
            up == [i \in Places(e, q) |-> i + 1]
<1>. HIDE DEF q
<1>2. IsFiniteSet(Places(e, q)) /\ IsFiniteSet(Places(e, s))
  BY <1>1, PlacesFinite, Zenon DEF q
<1>3. up \in Bijection(Places(e, q), R)
  <2>1. Places(e, q) \in SUBSET (1 .. (Len(s) - 1)) /\ \A i \in Places(e, q) : s[i + 1] = e
    BY <1>1, Zenon DEF Places, q
  <2>2. up \in [Places(e, q) -> R]
    BY <1>1, <2>1 DEF Places
  <2>3. \A i, j \in Places(e, q) : up[i] = up[j] => i = j
    BY <2>1
  <2>4. \A j \in R : \E i \in Places(e, q) : up[i] = j
    <3>1. SUFFICES ASSUME NEW j \in R PROVE \E i \in Places(e, q) : up[i] = j
      BY Zenon
    <3>2. j - 1 \in Places(e, q) /\ j - 1 + 1 = j
      BY <1>1, <3>1 DEF Places, q
    <3>3. up[j - 1] = j
      BY <3>2, Zenon
    <3>. QED  BY <3>2, <3>3, Zenon
  <2>. HIDE DEF up, R
  <2>5. up \in Injection(Places(e, q), R)
    BY <2>2, <2>3, Zenon DEF Injection, IsInjective
  <2>6. up \in Surjection(Places(e, q), R)
    BY <2>2, <2>4, Zenon DEF Surjection
  <2>. QED  BY <2>5, <2>6, Zenon DEF Bijection
<1>4. Cardinality(R) = Cardinality(Places(e, q))
  <2>1. ExistsBijection(Places(e, q), R)
    <3>. HIDE DEF up, R
    <3>. QED  BY <1>3, Zenon DEF ExistsBijection
  <2>. QED  BY <1>2, <2>1, FS_Bijection, Zenon
<1>5. Joins(R, Places(e, s), 1, e = Head(s)) /\ IsFiniteSet(R)
  <2>1. 1 \in Places(e, s) <=> e = Head(s)
    BY <1>1 DEF Places
  <2>2. IsFiniteSet(R)
    BY <1>2, FS_Subset, Zenon
  <2>. QED  BY <2>1, <2>2, Zenon DEF Joins
<1>6. UpBy(Cardinality(R), Cardinality(Places(e, s)), e = Head(s))
  <2>. HIDE DEF R
  <2>. QED  BY <1>5, JoinCounts, Zenon
<1>. QED  BY <1>4, <1>6, Zenon DEF Occurrences, Places, q
(* The parts of OnItsWay, and the adders that still owe e to the archive. *)
Way == {"account", "measure", "flag", "post"}
Carrying(e) == {t \in Adder : env[t] = e /\ pc[t] \in Way}
Holding(e) == {w \in Consumer : held[w] = e}
Filing(e) == {t \in Adder : env[t] = e /\ pc[t] # "insert"}

LEMMA ConsumerFinite == IsFiniteSet(Consumer)
BY GoroutineAssumption, FS_AddElement, Zenon DEF Consumer

LEMMA WayCounts ==
    ASSUME PoolInv, NEW e \in Envelope
    PROVE  /\ IsFiniteSet(Carrying(e)) /\ IsFiniteSet(Holding(e)) /\ IsFiniteSet(Filing(e))
           /\ Cardinality(Carrying(e)) \in Nat /\ Cardinality(Holding(e)) \in Nat
           /\ Cardinality(Filing(e)) \in Nat
           /\ Occurrences(e, messageQueue) \in Nat /\ Occurrences(e, p2pMsgQueue) \in Nat
           /\ inserted[e] \in Nat /\ delivered[e] \in Nat /\ archived[e] \in Nat
<1>1. IsFiniteSet(Carrying(e)) /\ IsFiniteSet(Filing(e))
  BY GoroutineAssumption, FS_Subset, Zenon DEF Carrying, Filing
<1>2. IsFiniteSet(Holding(e))
  BY ConsumerFinite, FS_Subset, Zenon DEF Holding
<1>3. IsFiniteSet(Places(e, messageQueue)) /\ IsFiniteSet(Places(e, p2pMsgQueue))
  BY PlacesFinite, Zenon DEF PoolInv, TypeOK
<1>4. Occurrences(e, messageQueue) \in Nat /\ Occurrences(e, p2pMsgQueue) \in Nat
  BY <1>3, FS_CardinalityType, Zenon DEF Occurrences, Places
<1>5. inserted[e] \in Nat /\ delivered[e] \in Nat /\ archived[e] \in Nat
  BY Zenon DEF PoolInv, TypeOK
<1>. QED  BY <1>1, <1>2, <1>4, <1>5, FS_CardinalityType, Zenon

(* Two subsets of A that differ in t at most. *)
Differ(A, S, T, t) ==
    /\ S \in SUBSET A /\ T \in SUBSET A
    /\ \A u \in A \ {t} : u \in S <=> u \in T

LEMMA SameSet ==
    ASSUME NEW A, NEW S, NEW T, NEW t, Differ(A, S, T, t), t \in S <=> t \in T
    PROVE  T = S
<1>1. \A u : u \in T <=> u \in S
  BY Zenon DEF Differ
<1>. QED  BY <1>1, Zenon

LEMMA JoinedSet ==
    ASSUME NEW A, NEW S, NEW T, NEW t, NEW b \in BOOLEAN, Differ(A, S, T, t),
           t \notin S, t \in T <=> b
    PROVE  Joins(S, T, t, b)
<1>1. \A u : u \in T <=> u \in (IF b THEN S \cup {t} ELSE S)
  BY Zenon DEF Differ
<1>2. T = (IF b THEN S \cup {t} ELSE S)
  BY <1>1, Zenon
<1>. QED  BY <1>2, Zenon DEF Joins

(* What a step of the pool does to the adders that carry or file e. *)
LEMMA AdderJoins ==
    ASSUME PoolInv, NEW t \in Adder, NEW e \in Envelope
    PROVE  /\ Insert(t) /\ env[t] \in envelopes =>
                  Carrying(e)' = Carrying(e) /\ Filing(e)' = Filing(e)
           /\ Insert(t) /\ env[t] \notin envelopes =>
                  /\ Joins(Carrying(e), Carrying(e)', t, e = env[t])
                  /\ Joins(Filing(e), Filing(e)', t, e = env[t])
           /\ Account(t) \/ Measure(t) \/ Flag(t) =>
                  Carrying(e)' = Carrying(e) /\ Filing(e)' = Filing(e)
           /\ Post(t) =>
                  /\ Joins(Carrying(e)', Carrying(e), t, e = env[t])
                  /\ MailServer => Filing(e)' = Filing(e)
           /\ Archive(t) =>
                  /\ Carrying(e)' = Carrying(e)
                  /\ Joins(Filing(e)', Filing(e), t, e = env[t])
<1>. DEFINE Others == \A u \in Adder \ {t} : env'[u] = env[u] /\ pc'[u] = pc[u]
<1>1. /\ pc \in [Adder -> PC] /\ env \in [Adder -> Envelope \cup {NoEnvelope}]
      /\ e # NoEnvelope
  BY EnvelopeAssumption, Zenon DEF PoolInv, TypeOK
<1>2. Others => /\ Differ(Adder, Carrying(e), Carrying(e)', t)
                /\ Differ(Adder, Carrying(e)', Carrying(e), t)
                /\ Differ(Adder, Filing(e), Filing(e)', t)
                /\ Differ(Adder, Filing(e)', Filing(e), t)
                /\ t \in Carrying(e) <=> env[t] = e /\ pc[t] \in Way
                /\ t \in Carrying(e)' <=> env'[t] = e /\ pc'[t] \in Way
                /\ t \in Filing(e) <=> env[t] = e /\ pc[t] # "insert"
                /\ t \in Filing(e)' <=> env'[t] = e /\ pc'[t] # "insert"
  BY Zenon DEF Carrying, Filing, Differ
<1>. HIDE DEF Others
<1>3. ASSUME Insert(t), env[t] \in envelopes
      PROVE  Carrying(e)' = Carrying(e) /\ Filing(e)' = Filing(e)
  <2>1. Others /\ pc[t] = "insert" /\ pc'[t] = "idle" /\ env'[t] = NoEnvelope
    BY <1>1, <1>3, ZenonT(60) DEF Insert, Return, Goto, Others
  <2>2. /\ t \notin Carrying(e) /\ t \notin Carrying(e)'
        /\ t \notin Filing(e) /\ t \notin Filing(e)'
    BY <1>1, <1>2, <2>1, Zenon DEF Way
  <2>. QED  BY <1>2, <2>1, <2>2, SameSet, Zenon
<1>4. ASSUME Insert(t), env[t] \notin envelopes
      PROVE  /\ Joins(Carrying(e), Carrying(e)', t, e = env[t])
             /\ Joins(Filing(e), Filing(e)', t, e = env[t])
  <2>1. Others /\ pc[t] = "insert" /\ pc'[t] = "account" /\ env'[t] = env[t]
    BY <1>1, <1>4, ZenonT(60) DEF Insert, Goto, Others
  <2>2. /\ t \notin Carrying(e) /\ (t \in Carrying(e)' <=> e = env[t])
        /\ t \notin Filing(e) /\ (t \in Filing(e)' <=> e = env[t])
    BY <1>1, <1>2, <2>1 DEF Way
  <2>. QED  BY <1>2, <2>1, <2>2, SameSet, JoinedSet, Zenon
<1>5. ASSUME Account(t) \/ Measure(t) \/ Flag(t)
      PROVE  Carrying(e)' = Carrying(e) /\ Filing(e)' = Filing(e)
  <2>1. /\ Others /\ env'[t] = env[t]
        /\ pc[t] \in {"account", "measure", "flag"}
        /\ pc'[t] \in {"measure", "flag", "post"}
    BY <1>1, <1>5, ZenonT(60) DEF Account, Measure, Flag, Goto, Others
  <2>2. /\ t \in Carrying(e) <=> t \in Carrying(e)'
        /\ t \in Filing(e) <=> t \in Filing(e)'
    BY <1>2, <2>1, Zenon DEF Way
  <2>. QED  BY <1>2, <2>1, <2>2, SameSet, Zenon
<1>6. ASSUME Post(t)
      PROVE  /\ Joins(Carrying(e)', Carrying(e), t, e = env[t])
             /\ MailServer => Filing(e)' = Filing(e)
  <2>1. /\ Others /\ pc[t] = "post" /\ pc'[t] \in {"archive", "idle"}
        /\ MailServer => pc'[t] = "archive" /\ env'[t] = env[t]
    BY <1>1, <1>6, ZenonT(60) DEF Post, AfterPost, Return, Goto, Others
  <2>2. /\ (t \in Carrying(e) <=> e = env[t]) /\ t \notin Carrying(e)'
        /\ MailServer => (t \in Filing(e) <=> t \in Filing(e)')
    BY <1>2, <2>1 DEF Way
  <2>. QED  BY <1>2, <2>1, <2>2, SameSet, JoinedSet, Zenon
<1>7. ASSUME Archive(t)
      PROVE  /\ Carrying(e)' = Carrying(e)
             /\ Joins(Filing(e)', Filing(e), t, e = env[t])
  <2>1. Others /\ pc[t] = "archive" /\ pc'[t] = "idle" /\ env'[t] = NoEnvelope
    BY <1>1, <1>7, ZenonT(60) DEF Archive, Return, Goto, Others
  <2>2. /\ t \notin Carrying(e) /\ t \notin Carrying(e)'
        /\ (t \in Filing(e) <=> e = env[t]) /\ t \notin Filing(e)'
    BY <1>1, <1>2, <2>1, Zenon DEF Way
  <2>. QED  BY <1>2, <2>1, <2>2, SameSet, JoinedSet, Zenon
<1>. QED  BY <1>3, <1>4, <1>5, <1>6, <1>7, Zenon
(* What the consumers hold, before and after a take or a delivery. *)
LEMMA HolderJoins ==
    ASSUME PoolInv, NEW w \in Consumer, NEW e \in Envelope
    PROVE  /\ \A f \in Envelope :
                  held[w] = NoEnvelope /\ held' = [held EXCEPT ![w] = f] =>
                      Joins(Holding(e), Holding(e)', w, e = f)
           /\ held[w] # NoEnvelope /\ held' = [held EXCEPT ![w] = NoEnvelope] =>
                  Joins(Holding(e)', Holding(e), w, e = held[w])
<1>1. held \in [Consumer -> Envelope \cup {NoEnvelope}] /\ e # NoEnvelope
  BY EnvelopeAssumption, Zenon DEF PoolInv, TypeOK
<1>2. ASSUME NEW f, held' = [held EXCEPT ![w] = f]
      PROVE  /\ Differ(Consumer, Holding(e), Holding(e)', w)
             /\ Differ(Consumer, Holding(e)', Holding(e), w)
             /\ w \in Holding(e) <=> held[w] = e
             /\ w \in Holding(e)' <=> f = e
  <2>1. held'[w] = f /\ \A u \in Consumer \ {w} : held'[u] = held[u]
    BY <1>1, <1>2, Zenon
  <2>. QED  BY <2>1, Zenon DEF Holding, Differ
<1>3. ASSUME NEW f \in Envelope, held[w] = NoEnvelope, held' = [held EXCEPT ![w] = f]
      PROVE  Joins(Holding(e), Holding(e)', w, e = f)
  <2>1. w \notin Holding(e) /\ (w \in Holding(e)' <=> e = f)
    BY <1>1, <1>2, <1>3, Zenon
  <2>2. Differ(Consumer, Holding(e), Holding(e)', w)
    BY <1>2, <1>3, Zenon
  <2>. QED  BY <2>1, <2>2, JoinedSet, Zenon
<1>4. ASSUME held[w] # NoEnvelope, held' = [held EXCEPT ![w] = NoEnvelope]
      PROVE  Joins(Holding(e)', Holding(e), w, e = held[w])
  <2>1. w \notin Holding(e)' /\ (w \in Holding(e) <=> e = held[w])
    BY <1>1, <1>2, <1>4, Zenon
  <2>2. Differ(Consumer, Holding(e)', Holding(e), w)
    BY <1>2, <1>4, ZenonT(60)
  <2>. QED  BY <2>1, <2>2, JoinedSet, Zenon
<1>. QED  BY <1>3, <1>4, Zenon
(* i insertions: d came to their end, the others are among the four counts. *)
Tally(i, d, a, m, p, h) ==
    /\ i \in Nat /\ d \in Nat /\ a \in Nat /\ m \in Nat /\ p \in Nat /\ h \in Nat
    /\ i = d + (a + m + p + h)

LEMMA TallyMoves ==
    ASSUME NEW i, NEW d, NEW a, NEW m, NEW p, NEW h, Tally(i, d, a, m, p, h),
           NEW b \in BOOLEAN
    PROVE  /\ \A i1, a1 : UpBy(i, i1, b) /\ UpBy(a, a1, b) => Tally(i1, d, a1, m, p, h)
           /\ \A a1, m1 : UpBy(a1, a, b) /\ UpBy(m, m1, b) => Tally(i, d, a1, m1, p, h)
           /\ \A a1, p1 : UpBy(a1, a, b) /\ UpBy(p, p1, b) => Tally(i, d, a1, m, p1, h)
           /\ \A m1, h1 : UpBy(m1, m, b) /\ UpBy(h, h1, b) => Tally(i, d, a, m1, p, h1)
           /\ \A p1, h1 : UpBy(p1, p, b) /\ UpBy(h, h1, b) => Tally(i, d, a, m, p1, h1)
           /\ \A h1, d1 : UpBy(h1, h, b) /\ UpBy(d, d1, b) => Tally(i, d1, a, m, p, h1)
           /\ \A a1, d1 : UpBy(a1, a, b) /\ UpBy(d, d1, b) => Tally(i, d1, a1, m, p, h)
BY DEF Tally, UpBy

(* The books of the deliveries and those of the archive. *)
Deliveries ==
    \A e \in Envelope :
        Tally(inserted[e], delivered[e], Cardinality(Carrying(e)),
              Occurrences(e, messageQueue), Occurrences(e, p2pMsgQueue),
              Cardinality(Holding(e)))
Archivals ==
    MailServer => \A e \in Envelope :
        Tally(inserted[e], archived[e], Cardinality(Filing(e)), 0, 0, 0)

(* A history counter is raised for one envelope. *)
LEMMA HistoryUp ==
    ASSUME NEW h \in [Envelope -> Nat], NEW f \in Envelope, NEW e \in Envelope
    PROVE  UpBy(h[e], [h EXCEPT ![f] = @ + 1][e], e = f)
BY DEF UpBy

LEMMA OnceInit == Init => Deliveries /\ Archivals
<1>. SUFFICES ASSUME Init, NEW e \in Envelope
              PROVE  /\ inserted[e] = 0 /\ delivered[e] = 0 /\ archived[e] = 0
                     /\ Cardinality(Carrying(e)) = 0 /\ Cardinality(Filing(e)) = 0
                     /\ Cardinality(Holding(e)) = 0
                     /\ Occurrences(e, messageQueue) = 0 /\ Occurrences(e, p2pMsgQueue) = 0
  BY DEF Deliveries, Archivals, Tally
<1>1. e # NoEnvelope
  BY EnvelopeAssumption, Zenon
<1>2. Carrying(e) = {} /\ Filing(e) = {} /\ Holding(e) = {}
  BY <1>1, Zenon DEF Init, Carrying, Filing, Holding
<1>3. Places(e, messageQueue) = {} /\ Places(e, p2pMsgQueue) = {}
  BY DEF Init, Places
<1>4. Occurrences(e, messageQueue) = 0 /\ Occurrences(e, p2pMsgQueue) = 0
  BY <1>3, FS_EmptySet, Zenon DEF Occurrences, Places
<1>. QED  BY <1>2, <1>4, FS_EmptySet, ZenonT(60) DEF Init

(* An insertion puts one more envelope on its way, and owes it to the archive. *)
LEMMA OnceInsert ==
    ASSUME PoolInv, Deliveries, Archivals, NEW t \in Adder, Insert(t)
    PROVE  Deliveries' /\ Archivals'
<1>1. env[t] \in Envelope /\ inserted \in [Envelope -> Nat]
  BY Zenon DEF PoolInv, TypeOK, Insert
<1>2. UNCHANGED <<delivered, archived, messageQueue, p2pMsgQueue, held>>
  BY Zenon DEF Insert, queueVars
<1>3. \A e \in Envelope : Holding(e)' = Holding(e)
  BY <1>2, Zenon DEF Holding
<1>4. CASE env[t] \in envelopes
  <2>1. inserted' = inserted
    BY <1>4, Zenon DEF Insert
  <2>2. \A e \in Envelope : Carrying(e)' = Carrying(e) /\ Filing(e)' = Filing(e)
    BY <1>4, AdderJoins, Zenon
  <2>. QED  BY <1>2, <1>3, <2>1, <2>2, Zenon DEF Deliveries, Archivals
<1>5. CASE env[t] \notin envelopes
  <2>1. \A e \in Envelope : UpBy(inserted[e], inserted'[e], e = env[t])
    BY <1>1, <1>5, HistoryUp, Zenon DEF Insert
  <2>2. \A e \in Envelope :
            /\ UpBy(Cardinality(Carrying(e)), Cardinality(Carrying(e)'), e = env[t])
            /\ UpBy(Cardinality(Filing(e)), Cardinality(Filing(e)'), e = env[t])
    BY <1>5, AdderJoins, JoinCounts, WayCounts, Zenon
  <2>3. \A e \in Envelope :
            Tally(inserted'[e], delivered[e], Cardinality(Carrying(e)'),
                  Occurrences(e, messageQueue), Occurrences(e, p2pMsgQueue),
                  Cardinality(Holding(e)))
    BY <2>1, <2>2, TallyMoves, ZenonT(60) DEF Deliveries
  <2>4. MailServer => \A e \in Envelope :
            Tally(inserted'[e], archived[e], Cardinality(Filing(e)'), 0, 0, 0)
    BY <2>1, <2>2, TallyMoves, ZenonT(60) DEF Archivals
  <2>. QED  BY <1>2, <1>3, <2>3, <2>4, ZenonT(60) DEF Deliveries, Archivals
<1>. QED  BY <1>4, <1>5, Zenon

(* The send moves the message from the adder to one of the queues. *)
LEMMA OncePost ==
    ASSUME PoolInv, Deliveries, Archivals, NEW t \in Adder, Post(t)
    PROVE  Deliveries' /\ Archivals'
<1>1. /\ env[t] \in Envelope
      /\ messageQueue \in Seq(Envelope) /\ p2pMsgQueue \in Seq(Envelope)
  BY Zenon DEF PoolInv, TypeOK, Post
<1>2. UNCHANGED <<inserted, delivered, archived, held>>
  BY Zenon DEF Post, history
<1>3. \A e \in Envelope : Holding(e)' = Holding(e)
  BY <1>2, Zenon DEF Holding
<1>4. \A e \in Envelope :
          UpBy(Cardinality(Carrying(e)'), Cardinality(Carrying(e)), e = env[t])
  <2>1. \A e \in Envelope : IsFiniteSet(Carrying(e)')
    BY GoroutineAssumption, FS_Subset, Zenon DEF Carrying
  <2>. QED  BY <2>1, AdderJoins, JoinCounts, Zenon
<1>5. Archivals'
  <2>1. MailServer => \A e \in Envelope : Filing(e)' = Filing(e)
    BY AdderJoins, Zenon
  <2>. QED  BY <1>2, <2>1, Zenon DEF Archivals
<1>6. CASE isP2P[t]
  <2>1. /\ messageQueue' = messageQueue
        /\ \A e \in Envelope :
               UpBy(Occurrences(e, p2pMsgQueue), Occurrences(e, p2pMsgQueue'), e = env[t])
    BY <1>1, <1>6, AppendCounts, Zenon DEF Post
  <2>2. \A e \in Envelope :
            Tally(inserted[e], delivered[e], Cardinality(Carrying(e)'),
                  Occurrences(e, messageQueue), Occurrences(e, p2pMsgQueue'),
                  Cardinality(Holding(e)))
    BY <1>4, <2>1, TallyMoves, ZenonT(60) DEF Deliveries
  <2>. QED  BY <1>2, <1>3, <1>5, <2>1, <2>2, ZenonT(60) DEF Deliveries, Occurrences
<1>7. CASE ~ isP2P[t]
  <2>1. /\ p2pMsgQueue' = p2pMsgQueue
        /\ \A e \in Envelope :
               UpBy(Occurrences(e, messageQueue), Occurrences(e, messageQueue'), e = env[t])
    BY <1>1, <1>7, AppendCounts, Zenon DEF Post
  <2>2. \A e \in Envelope :
            Tally(inserted[e], delivered[e], Cardinality(Carrying(e)'),
                  Occurrences(e, messageQueue'), Occurrences(e, p2pMsgQueue),
                  Cardinality(Holding(e)))
    BY <1>4, <2>1, TallyMoves, ZenonT(60) DEF Deliveries
  <2>. QED  BY <1>2, <1>3, <1>5, <2>1, <2>2, Zenon DEF Deliveries, Occurrences
<1>. QED  BY <1>6, <1>7, Zenon
(* A consumer moves a message from its queue into its hands ... *)
LEMMA OnceTake ==
    ASSUME PoolInv, Deliveries, Archivals, NEW w \in Consumer, Take(w)
    PROVE  Deliveries' /\ Archivals'
<1>1. messageQueue \in Seq(Envelope) /\ p2pMsgQueue \in Seq(Envelope)
  BY Zenon DEF PoolInv, TypeOK
<1>2. UNCHANGED <<inserted, delivered, archived, pc, env>>
  BY Zenon DEF Take, history, adderVars
<1>3. \A e \in Envelope : Carrying(e)' = Carrying(e) /\ Filing(e)' = Filing(e)
  BY <1>2, Zenon DEF Carrying, Filing
<1>4. Archivals'
  BY <1>2, <1>3, Zenon DEF Archivals
<1>5. ASSUME NEW f \in Envelope, held[w] = NoEnvelope, held' = [held EXCEPT ![w] = f],
             NEW e \in Envelope
      PROVE  UpBy(Cardinality(Holding(e)), Cardinality(Holding(e)'), e = f)
  BY <1>5, HolderJoins, JoinCounts, WayCounts, Zenon
<1>6. CASE w = P2PWorker
  <2>1. /\ messageQueue' = messageQueue /\ p2pMsgQueue # << >>
        /\ held[w] = NoEnvelope /\ held' = [held EXCEPT ![w] = Head(p2pMsgQueue)]
        /\ p2pMsgQueue' = Tail(p2pMsgQueue)
    BY <1>6, Zenon DEF Take
  <2>2. Head(p2pMsgQueue) \in Envelope
    BY <1>1, <2>1
  <2>3. \A e \in Envelope : UpBy(Occurrences(e, p2pMsgQueue'),
                                 Occurrences(e, p2pMsgQueue), e = Head(p2pMsgQueue))
    BY <1>1, <2>1, TailCounts, Zenon
  <2>4. \A e \in Envelope : UpBy(Cardinality(Holding(e)), Cardinality(Holding(e)'),
                                 e = Head(p2pMsgQueue))
    BY <1>5, <2>1, <2>2, Zenon
  <2>5. \A e \in Envelope :
            Tally(inserted[e], delivered[e], Cardinality(Carrying(e)),
                  Occurrences(e, messageQueue), Occurrences(e, p2pMsgQueue'),
                  Cardinality(Holding(e)'))
    BY <2>3, <2>4, TallyMoves, ZenonT(60) DEF Deliveries
  <2>. QED  BY <1>2, <1>3, <1>4, <2>1, <2>5, ZenonT(60) DEF Deliveries, Occurrences
<1>7. CASE w # P2PWorker
  <2>1. /\ p2pMsgQueue' = p2pMsgQueue /\ messageQueue # << >>
        /\ held[w] = NoEnvelope /\ held' = [held EXCEPT ![w] = Head(messageQueue)]
        /\ messageQueue' = Tail(messageQueue)
    BY <1>7, Zenon DEF Take
  <2>2. Head(messageQueue) \in Envelope
    BY <1>1, <2>1
  <2>3. \A e \in Envelope : UpBy(Occurrences(e, messageQueue'),
                                 Occurrences(e, messageQueue), e = Head(messageQueue))
    BY <1>1, <2>1, TailCounts, Zenon
  <2>4. \A e \in Envelope : UpBy(Cardinality(Holding(e)), Cardinality(Holding(e)'),
                                 e = Head(messageQueue))
    BY <1>5, <2>1, <2>2, Zenon
  <2>5. \A e \in Envelope :
            Tally(inserted[e], delivered[e], Cardinality(Carrying(e)),
                  Occurrences(e, messageQueue'), Occurrences(e, p2pMsgQueue),
                  Cardinality(Holding(e)'))
    BY <2>3, <2>4, TallyMoves, ZenonT(60) DEF Deliveries
  <2>. QED  BY <1>2, <1>3, <1>4, <2>1, <2>5, Zenon DEF Deliveries, Occurrences
<1>. QED  BY <1>6, <1>7, Zenon

(* ... and delivers it. *)
LEMMA OnceDeliver ==
    ASSUME PoolInv, Deliveries, Archivals, NEW w \in Consumer, Deliver(w)
    PROVE  Deliveries' /\ Archivals'
<1>1. held[w] \in Envelope /\ delivered \in [Envelope -> Nat]
  BY Zenon DEF PoolInv, TypeOK, Deliver
<1>2. UNCHANGED <<inserted, archived, pc, env, messageQueue, p2pMsgQueue>>
  BY Zenon DEF Deliver, adderVars, queueVars
<1>3. \A e \in Envelope : Carrying(e)' = Carrying(e) /\ Filing(e)' = Filing(e)
  BY <1>2, Zenon DEF Carrying, Filing
<1>4. Archivals'
  BY <1>2, <1>3, Zenon DEF Archivals
<1>5. \A e \in Envelope :
          UpBy(Cardinality(Holding(e)'), Cardinality(Holding(e)), e = held[w])
  <2>1. \A e \in Envelope : IsFiniteSet(Holding(e)')
    BY ConsumerFinite, FS_Subset, Zenon DEF Holding
  <2>. QED  BY <2>1, HolderJoins, JoinCounts, Zenon DEF Deliver
<1>6. \A e \in Envelope : UpBy(delivered[e], delivered'[e], e = held[w])
  BY <1>1, HistoryUp, Zenon DEF Deliver
<1>7. \A e \in Envelope :
          Tally(inserted[e], delivered'[e], Cardinality(Carrying(e)),
                Occurrences(e, messageQueue), Occurrences(e, p2pMsgQueue),
                Cardinality(Holding(e)'))
  BY <1>5, <1>6, TallyMoves, ZenonT(60) DEF Deliveries
<1>. QED  BY <1>2, <1>3, <1>4, <1>7, ZenonT(60) DEF Deliveries, Occurrences

(* The mail server gets the envelope and add returns. *)
LEMMA OnceArchive ==
    ASSUME PoolInv, Deliveries, Archivals, NEW t \in Adder, Archive(t)
    PROVE  Deliveries' /\ Archivals'
<1>1. env[t] \in Envelope /\ archived \in [Envelope -> Nat]
  BY Zenon DEF PoolInv, TypeOK, Archive
<1>2. UNCHANGED <<inserted, delivered, messageQueue, p2pMsgQueue, held>>
  BY Zenon DEF Archive, queueVars
<1>3. \A e \in Envelope : Holding(e)' = Holding(e) /\ Carrying(e)' = Carrying(e)
  BY <1>2, AdderJoins, Zenon DEF Holding
<1>4. \A e \in Envelope :
          UpBy(Cardinality(Filing(e)'), Cardinality(Filing(e)), e = env[t])
  <2>1. \A e \in Envelope : IsFiniteSet(Filing(e)')
    BY GoroutineAssumption, FS_Subset, Zenon DEF Filing
  <2>. QED  BY <2>1, AdderJoins, JoinCounts, Zenon
<1>5. \A e \in Envelope : UpBy(archived[e], archived'[e], e = env[t])
  BY <1>1, HistoryUp, Zenon DEF Archive
<1>6. MailServer => \A e \in Envelope :
          Tally(inserted[e], archived'[e], Cardinality(Filing(e)'), 0, 0, 0)
  BY <1>4, <1>5, TallyMoves, ZenonT(60) DEF Archivals
<1>. QED  BY <1>2, <1>3, <1>6, ZenonT(60) DEF Deliveries, Archivals, Occurrences
(* The other steps move no message. *)
LEMMA OnceFrame ==
    ASSUME Deliveries, Archivals,
           UNCHANGED <<inserted, delivered, archived, messageQueue, p2pMsgQueue, held>>,
           \A e \in Envelope : Carrying(e)' = Carrying(e) /\ Filing(e)' = Filing(e)
    PROVE  Deliveries' /\ Archivals'
<1>1. \A e \in Envelope : Holding(e)' = Holding(e)
  BY Zenon DEF Holding
<1>. QED  BY <1>1, Zenon DEF Deliveries, Archivals, Occurrences

LEMMA OnceNext ==
    PoolInv /\ Deliveries /\ Archivals /\ [Next]_vars => Deliveries' /\ Archivals'
<1>. SUFFICES ASSUME PoolInv, Deliveries, Archivals, [Next]_vars
              PROVE  Deliveries' /\ Archivals'
  BY Zenon
<1>. DEFINE Frame ==
        /\ UNCHANGED <<inserted, delivered, archived, messageQueue, p2pMsgQueue, held>>
        /\ \A e \in Envelope : Carrying(e)' = Carrying(e) /\ Filing(e)' = Filing(e)
<1>1. Frame => Deliveries' /\ Archivals'
  BY OnceFrame, Zenon
<1>2. ASSUME NEW t \in Adder, NEW e \in Envelope, NEW p2p \in BOOLEAN, Add(t, e, p2p)
      PROVE  Frame
  <2>1. pc \in [Adder -> PC] /\ env \in [Adder -> Envelope \cup {NoEnvelope}]
        /\ env[t] = NoEnvelope /\ pc[t] = "idle"
    BY <1>2, Zenon DEF PoolInv, TypeOK, Add
  <2>2. /\ pc'[t] = "insert"
        /\ \A u \in Adder \ {t} : pc'[u] = pc[u] /\ env'[u] = env[u]
    BY <1>2, <2>1, Zenon DEF Add, Goto
  <2>3. "insert" \notin Way /\ "idle" \notin Way
    BY Zenon DEF Way
  <2>4. ASSUME NEW f \in Envelope
        PROVE  Carrying(f)' = Carrying(f) /\ Filing(f)' = Filing(f)
    <3>1. f # NoEnvelope
      BY EnvelopeAssumption, Zenon
    <3>2. Differ(Adder, Carrying(f), Carrying(f)', t) /\ Differ(Adder, Filing(f), Filing(f)', t)
      BY <2>2, Zenon DEF Carrying, Filing, Differ
    <3>3. /\ t \notin Carrying(f) /\ t \notin Carrying(f)'
          /\ t \notin Filing(f) /\ t \notin Filing(f)'
      BY <2>1, <2>2, <2>3, <3>1, Zenon DEF Carrying, Filing
    <3>. QED  BY <3>2, <3>3, SameSet, Zenon
  <2>5. UNCHANGED <<inserted, delivered, archived, messageQueue, p2pMsgQueue, held>>
    BY <1>2, Zenon DEF Add, queueVars, history
  <2>. QED  BY <2>4, <2>5, Zenon
<1>3. ASSUME NEW t \in Adder, Account(t) \/ Measure(t) \/ Flag(t)
      PROVE  Frame
  <2>1. \A e \in Envelope : Carrying(e)' = Carrying(e) /\ Filing(e)' = Filing(e)
    BY <1>3, AdderJoins, Zenon
  <2>2. UNCHANGED <<inserted, delivered, archived, messageQueue, p2pMsgQueue, held>>
    BY <1>3, Zenon DEF Account, Measure, Flag, queueVars, history
  <2>. QED  BY <2>1, <2>2, Zenon
<1>4. ASSUME Tick \/ Expire \/ Stop \/ (\E g \in Consumer \cup {Updater} : Exit(g))
               \/ UNCHANGED vars
      PROVE  Frame
  <2>1. UNCHANGED <<inserted, delivered, archived, messageQueue, p2pMsgQueue, held, pc, env>>
    BY <1>4, Zenon DEF Tick, Expire, Stop, Exit, adderVars, queueVars, history, vars
  <2>. QED  BY <2>1, Zenon DEF Carrying, Filing
<1>. HIDE DEF Frame
<1>5. ASSUME NEW t \in Adder, AddStep(t) PROVE Deliveries' /\ Archivals'
  BY <1>1, <1>3, <1>5, OnceInsert, OncePost, OnceArchive, Zenon DEF AddStep
<1>6. ASSUME NEW w \in Consumer, Take(w) \/ Deliver(w) PROVE Deliveries' /\ Archivals'
  BY <1>6, OnceTake, OnceDeliver, Zenon
<1>. QED  BY <1>1, <1>2, <1>4, <1>5, <1>6, Zenon DEF Next

LEMMA OnceInvariance == Spec => [](Deliveries /\ Archivals)
BY OnceInit, OnceNext, PoolInvariance, PTL DEF Spec

(***************************************************************************)
(* Every insertion is delivered to the filters once or is on its way to    *)
(* them once, for any number of adders, consumers and envelopes: a send    *)
(* that blocks, the two queues and their consumers lose and double none.   *)
(***************************************************************************)
THEOREM PoolDeliversOnce == Spec => []DeliveredOncePerInsertion
<1>1. Deliveries => DeliveredOncePerInsertion
  BY Zenon DEF Deliveries, DeliveredOncePerInsertion, Tally, OnItsWay, Carrying, Holding, Way
<1>. QED  BY <1>1, OnceInvariance, PTL

(***************************************************************************)
(* With a mail server every insertion is archived once, or its add is      *)
(* still under way, although expire may have removed the envelope by then. *)
(***************************************************************************)
THEOREM PoolArchivesOnce == Spec => []ArchivedOncePerInsertion
<1>1. Archivals => ArchivedOncePerInsertion
  <2>. SUFFICES ASSUME Archivals, MailServer, NEW e \in Envelope
                PROVE  inserted[e] = archived[e] + Cardinality(Filing(e))
    BY Zenon DEF ArchivedOncePerInsertion, Filing
  <2>1. Tally(inserted[e], archived[e], Cardinality(Filing(e)), 0, 0, 0)
    BY Zenon DEF Archivals
  <2>. QED  BY <2>1 DEF Tally
<1>. QED  BY <1>1, OnceInvariance, PTL
=============================================================================
