------------------------------ MODULE Posting -------------------------------
(***************************************************************************)
(* PublicWhisperAPI.Post: a client's request becomes an envelope that is   *)
(* put into the pool, or sent straight to one peer.  The goroutine of the  *)
(* request looks up two keys, wraps the message with the time it finds,    *)
(* works on the proof, and only then compares the settings and the clock   *)
(* again, while other clients change the keys, the clock moves on and the  *)
(* required proof of work changes.                                         *)
(***************************************************************************)
EXTENDS KeyStore, Coding, Admission

CONSTANTS
    Request,         \* what clients post: see RequestType
    NoName,          \* a string of the request that was left empty
    Topic, NoTopic,  \* topics, and the one that is all zeros
    NodeBloom,       \* topics the node's bloom filter matches
    DefaultTTL,
    Header,          \* EnvelopeHeaderLength
    Overhead,        \* bytes encryption adds
    RlpOverhead,     \* RlpOverhead[l]: bytes the encoding adds to data of length l
    MaxMessageSize,
    HashBits,        \* bits of a hash: 256 in the code
    Level,           \* values of the required proof of work
    Poster,          \* goroutines of requests
    MaxTime, MaxPosts \* bounds on the clock and on the envelopes that leave

RequestType ==
    [symKeyID : Id \cup Name \cup {NoName}, publicKey : Identity \cup {NoName},
     sig : Id \cup Name \cup {NoName}, ttl : Uint32, topic : Topic,
     payload : Seq(Nat), padding : Seq(Nat), powTime : Uint32, powTarget : Int,
     targetPeer : BOOLEAN]

ASSUME RequestAssumption ==
    /\ \A r \in Request : r \in RequestType
    /\ NoTopic \in Topic /\ NodeBloom \subseteq Topic
    /\ NoName \notin Id \cup Name \cup Identity
    /\ Nobody \notin Identity /\ Stranger \notin Identity
ASSUME SizeAssumption ==
    /\ Header \in Nat /\ Overhead \in Nat /\ HashBits \in Nat
    /\ MaxMessageSize \in Nat /\ MaxMessageSize < Place[4]
ASSUME TimeAssumption ==
    DefaultTTL \in Uint32 /\ MaxTime \in Uint32 /\ \A v \in Level : v \in Nat

VARIABLES
    now,             \* GetCurrentTime
    settings,        \* the settings the checks of Admission read
    post,            \* post[p]: the request a goroutine is working on
    left             \* envelopes that left, with their requests and times

postVars == <<now, settings, post, left>>
vars == <<keyVars, postVars>>

NoPost == [pc |-> "idle"]

Init ==
    /\ KeyInit
    /\ now = 0
    /\ \E v \in Level :
           settings = [minPow |-> v, minPowTolerance |-> v, maxMessageSize |-> MaxMessageSize,
                       bloom |-> NodeBloom, bloomTolerance |-> NodeBloom]
    /\ post = [p \in Poster |-> NoPost]
    /\ left = {}

-----------------------------------------------------------------------------
(* The envelope of a request, once it has a source, a key and a time.  Its  *)
(* data stands for the ciphertext: only the key that made it opens it.      *)
Encrypted(raw, key) == [key |-> key, raw |-> raw]

DataLength(e) == Len(e.data.raw) + Overhead
Size(e) == Header + DataLength(e)
RlpSize(e) == DataLength(e) + RlpOverhead[DataLength(e)]

(* Wrap, up to the seal. *)
Wrapped(r, src, key, time) ==
    LET raw == NewSentMessage(r.payload, r.padding, src # Nobody)
        ttl == IF r.ttl = 0 THEN DefaultTTL ELSE r.ttl
    IN  [expiry |-> Plus(time, ttl), ttl |-> ttl, topic |-> r.topic,
         data |-> Encrypted(IF src = Nobody THEN raw ELSE Sign(raw, src), key)]

(* 2 ^ b *)
TwoTo[b \in 0 .. HashBits] == IF b = 0 THEN 1 ELSE 2 * TwoTo[b - 1]

(* Faulty form: the proof pays for the data alone. *)
ReachesPowOfData(e, p) ==
    {b \in 1 .. HashBits : p * DataLength(e) * e.ttl <= TwoTo[b]}

(* The leading zeros that are enough for a proof of work of p: as many as   *)
(* powToFirstBit says, or more.                                             *)
ReachesPow(e, p) == {b \in 1 .. HashBits : p * Size(e) * e.ttl <= TwoTo[b]}

(* The envelope as Admission looks at it, with the zeros its nonce makes. *)
Seen(e, zeros) ==
    [expiry |-> e.expiry, ttl |-> e.ttl, size |-> Size(e),
     work |-> TwoTo[zeros] \div RlpSize(e), bloom |-> {e.topic}]

(* Open, by a filter with that key; its topics and settings are Subscriptions'. *)
Open(e, key) == IF e.data.key = key THEN ValidateAndParse(e.data.raw) ELSE Malformed

-----------------------------------------------------------------------------
(* The goroutine goes on, returns with an error, or with the hash. *)
GoOn(p, state) == post' = [post EXCEPT ![p] = state] /\ UNCHANGED left
Fail(p) == GoOn(p, NoPost)
Leave(p) ==
    /\ post' = [post EXCEPT ![p] = NoPost]
    /\ left' = left \cup {[env |-> post[p].env, req |-> post[p].req, key |-> post[p].key,
                           at |-> now]}

(* Exactly one of the two keys is given. *)
Post(p, r) ==
    /\ post[p] = NoPost
    /\ Cardinality(left) < MaxPosts
    /\ (r.symKeyID = NoName) # (r.publicKey = NoName)
    /\ GoOn(p, [pc |-> "source", req |-> r])
    /\ UNCHANGED <<now, settings, keyVars>>

(* GetPrivateKey, if the message is to be signed. *)
FindSource(p) ==
    /\ post[p].pc = "source"
    /\ LET sig == post[p].req.sig
           found(k) == GoOn(p, [pc |-> "key", req |-> post[p].req, src |-> k])
       IN  CASE sig = NoName -> found(Nobody)
             [] sig # NoName /\ HasKeyPair(sig) -> found(privateKeys[ToDeterministicID(sig)])
             [] OTHER -> Fail(p)
    /\ UNCHANGED <<now, settings, keyVars>>

(* A symmetric key must be known and usable, and asks for a topic. *)
SymKeyUsable(r) ==
    /\ r.topic # NoTopic
    /\ HasSymKey(r.symKeyID)
    /\ ValidSymKey(symKeys[r.symKeyID])

FindKey(p) ==
    /\ post[p].pc = "key"
    /\ LET r == post[p].req
           found(k) == GoOn(p, [pc |-> "wrap", req |-> r, src |-> post[p].src, key |-> k])
       IN  CASE r.publicKey # NoName -> found(r.publicKey)
             [] r.symKeyID # NoName /\ SymKeyUsable(r) -> found(symKeys[r.symKeyID])
             [] OTHER -> Fail(p)
    /\ UNCHANGED <<now, settings, keyVars>>

Wrap(p) ==
    /\ post[p].pc = "wrap"
    /\ LET r == post[p].req
       IN  GoOn(p, [pc |-> "seal", req |-> r, key |-> post[p].key, start |-> now,
                    env |-> Wrapped(r, post[p].src, post[p].key, now)])
    /\ UNCHANGED <<now, settings, keyVars>>

(***************************************************************************)
(* Seal.  Without a target nothing is done; with a negative one the whole  *)
(* of the time is spent, and added to the expiry beforehand; else the work *)
(* stops at a hash that reaches the target or fails when the time is over. *)
(* "zeros" are those of the hash with the nonce that was found, any number *)
(* when the target does not say.                                           *)
(***************************************************************************)
Sealed(p, zeros, extra) ==
    GoOn(p, [pc |-> "check", req |-> post[p].req, key |-> post[p].key, zeros |-> zeros,
             env |-> [post[p].env EXCEPT !.expiry = Plus(@, extra)]])

(* Faulty form: the whole time need not have been spent. *)
WorkTimeOverAtOnce(p) == TRUE

WorkTimeOver(p) == now >= post[p].start + post[p].req.powTime

Seal(p) ==
    /\ post[p].pc = "seal"
    /\ LET r == post[p].req
       IN  \/ r.powTarget = 0 /\ \E z \in 0 .. HashBits : Sealed(p, z, 0)
           \/ /\ r.powTarget < 0 /\ WorkTimeOver(p)
              /\ \E z \in 0 .. HashBits : Sealed(p, z, r.powTime)
           \/ /\ r.powTarget > 0 /\ r.powTime > 0
              /\ \E z \in ReachesPow(post[p].env, r.powTarget) : Sealed(p, z, 0)
           \/ r.powTarget > 0 /\ WorkTimeOver(p) /\ Fail(p)
    /\ UNCHANGED <<now, settings, keyVars>>

(* p2p refuses frames of three digits' size; the peer may be unknown. *)
SendP2PMessage(p) ==
    /\ post[p].pc = "check"
    /\ post[p].req.targetPeer
    /\ \/ Size(post[p].env) < Place[4] /\ Leave(p)
       \/ Fail(p)
    /\ UNCHANGED <<now, settings, keyVars>>

CheckPow(p) ==
    /\ post[p].pc = "check"
    /\ ~ post[p].req.targetPeer
    /\ IF post[p].req.powTarget < settings.minPow THEN Fail(p)
       ELSE GoOn(p, [post[p] EXCEPT !.pc = "send"])
    /\ UNCHANGED <<now, settings, keyVars>>

Send(p) ==
    /\ post[p].pc = "send"
    /\ IF Admitted(Seen(post[p].env, post[p].zeros), now, settings) THEN Leave(p) ELSE Fail(p)
    /\ UNCHANGED <<now, settings, keyVars>>

PostStep(p) ==
    \/ FindSource(p) \/ FindKey(p) \/ Wrap(p) \/ Seal(p)
    \/ SendP2PMessage(p) \/ CheckPow(p) \/ Send(p)

-----------------------------------------------------------------------------
(* SetMinimumPoW, and the goroutine that makes a value the tolerated one    *)
(* later; in which order overlapping changes do that is Settings' subject.  *)
SetMinimumPoW(v) ==
    /\ settings' = [settings EXCEPT !.minPow = v]
    /\ UNCHANGED <<now, post, left, keyVars>>

AdoptMinimumPoW(v) ==
    /\ settings' = [settings EXCEPT !.minPowTolerance = v]
    /\ UNCHANGED <<now, post, left, keyVars>>

Tick ==
    /\ now < MaxTime
    /\ now' = now + 1
    /\ UNCHANGED <<settings, post, left, keyVars>>

Next ==
    \/ \E p \in Poster, r \in Request : Post(p, r)
    \/ \E p \in Poster : PostStep(p)
    \/ \E v \in Level : SetMinimumPoW(v) \/ AdoptMinimumPoW(v)
    \/ Tick
    \/ KeyStep /\ UNCHANGED postVars

Spec == Init /\ [][Next]_vars

-----------------------------------------------------------------------------
(***************************************************************************)
(* Whoever holds the key reads what was posted: the payload, the padding   *)
(* if the client gave one, and as the source exactly the identity named in *)
(* the request, none if it named none, whatever happened to the keys of    *)
(* the node meanwhile.  The size field tells payload from padding for      *)
(* every length that can leave: a payload whose length takes four digits   *)
(* would set the signature flag.                                           *)
(***************************************************************************)
ReadAsPosted ==
    \A l \in left :
        LET m == Open(l.env, l.key) IN
        /\ m.ok
        /\ m.payload = l.req.payload
        /\ l.req.padding # << >> => m.padding = l.req.padding
        /\ IF l.req.sig = NoName THEN m.src = Nobody
           ELSE m.src \in Identity /\ IdOf(m.src) = ToDeterministicID(l.req.sig)

(***************************************************************************)
(* Without padding of the client's own, the length of the plain text is a  *)
(* multiple of the limit, whether it is signed or not, and so tells little *)
(* about the payload: appendPadding reckons with a signature that is not   *)
(* there yet.                                                              *)
(***************************************************************************)
LengthHidden ==
    \A l \in left : l.req.padding = << >> => Len(l.env.data.raw) % PadLimit = 0

(***************************************************************************)
(* A request whose target passed the check is not turned down for its      *)
(* proof of work a moment later, as long as the required or the tolerated  *)
(* value is no more than the target: the work Seal did is worth the target *)
(* to add, however long it took.  It takes that the encoding is not longer *)
(* than size() makes it, which Seal reckons with.                          *)
(***************************************************************************)
WorkAccepted ==
    \A p \in Poster :
        /\ post[p].pc = "send"
        /\ RlpSize(post[p].env) \in 1 .. Size(post[p].env)
        /\ \/ settings.minPow <= post[p].req.powTarget
           \/ settings.minPowTolerance <= post[p].req.powTarget
        => PowAllowed(Seen(post[p].env, post[p].zeros), now, settings)

(***************************************************************************)
(* No envelope leaves before the time it claims to be sent: a peer with    *)
(* the same clock never finds it in the future, nor charges it for the     *)
(* difference.  Seal moves the expiry only when it will spend the time.    *)
(***************************************************************************)
LeavesOnTime == \A l \in left : Sent(l.env) <= l.at
=============================================================================
