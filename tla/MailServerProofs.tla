-------------------------- MODULE MailServerProofs --------------------------
(***************************************************************************)
(* Proofs about MailServer, for every set of requests, envelopes and       *)
(* answers, every length of hash, cursor and prefix, every capacity and    *)
(* any number of connections.                                              *)
(***************************************************************************)
EXTENDS MailServer, TLAPS

-----------------------------------------------------------------------------
(* Sequences. *)

LEMMA SameSequence ==
    ASSUME NEW S, NEW s \in Seq(S), NEW t \in Seq(S), Len(s) = Len(t),
           \A i \in 1 .. Len(s) : s[i] = t[i]
    PROVE  s = t
  OBVIOUS

LEMMA Joined ==
    ASSUME NEW S, NEW s \in Seq(S), NEW t \in Seq(S)
    PROVE  /\ s \o t \in Seq(S) /\ Len(s \o t) = Len(s) + Len(t)
           /\ \A i \in 1 .. Len(s) + Len(t) :
                 (s \o t)[i] = IF i <= Len(s) THEN s[i] ELSE t[i - Len(s)]
  OBVIOUS

LEMMA Slice ==
    ASSUME NEW S, NEW s \in Seq(S), NEW m \in 1 .. Len(s) + 1, NEW n \in m - 1 .. Len(s)
    PROVE  /\ SubSeq(s, m, n) \in Seq(S)
           /\ Len(SubSeq(s, m, n)) = IF m <= n THEN n - m + 1 ELSE 0
           /\ \A i \in 1 .. n - m + 1 : SubSeq(s, m, n)[i] = s[m + i - 1]
  OBVIOUS

LEMMA HeadAndTail ==
    ASSUME NEW S, NEW s \in Seq(S), s # << >>
    PROVE  /\ Head(s) \in S /\ Tail(s) \in Seq(S) /\ Len(Tail(s)) = Len(s) - 1
           /\ \A i \in 1 .. Len(s) - 1 : Tail(s)[i] = s[i + 1]
  OBVIOUS

-----------------------------------------------------------------------------
(* The bytes of a completion. *)

(* What was joined can be taken apart by length. *)
LEMMA TakeDrop ==
    ASSUME NEW s \in Seq(Nat), NEW t \in Seq(Nat)
    PROVE  SubSeq(s \o t, 1, Len(s)) = s /\ Drop(s \o t, Len(s)) = t
<1> DEFINE c == s \o t
           n == Len(s)
           m == Len(t)
<1>1. /\ c \in Seq(Nat) /\ Len(c) = n + m /\ n \in Nat /\ m \in Nat
      /\ \A i \in 1 .. n + m : c[i] = IF i <= n THEN s[i] ELSE t[i - n]
  BY Joined
<1> HIDE DEF c, n, m
<1>2. \A i \in 1 .. n + m : c[i] \in Nat
  BY <1>1
<1>3. SubSeq(c, 1, n) = s
  <2>1. /\ SubSeq(c, 1, n) \in Seq(Nat)
        /\ Len(SubSeq(c, 1, n)) = IF 1 <= n THEN n - 1 + 1 ELSE 0
        /\ \A i \in 1 .. n - 1 + 1 : SubSeq(c, 1, n)[i] = c[1 + i - 1]
    BY <1>1, <1>2, Slice
  <2>2. Len(SubSeq(c, 1, n)) = Len(s) /\ \A i \in 1 .. Len(s) : SubSeq(c, 1, n)[i] = s[i]
    BY <1>1, <2>1 DEF n
  <2> QED  BY <2>1, <2>2, SameSequence, Zenon
<1>4. SubSeq(c, n + 1, n + m) = t
  <2>1. /\ SubSeq(c, n + 1, n + m) \in Seq(Nat)
        /\ Len(SubSeq(c, n + 1, n + m)) = IF n + 1 <= n + m THEN (n + m) - (n + 1) + 1 ELSE 0
        /\ \A i \in 1 .. (n + m) - (n + 1) + 1 :
               SubSeq(c, n + 1, n + m)[i] = c[(n + 1) + i - 1]
    BY <1>1, <1>2, Slice
  <2>2. ASSUME NEW i \in 1 .. Len(t)
        PROVE  SubSeq(c, n + 1, n + m)[i] = t[i]
    <3>1. /\ i \in 1 .. (n + m) - (n + 1) + 1 /\ (n + 1) + i - 1 = n + i
          /\ n + i \in 1 .. n + m /\ ~ (n + i <= n) /\ (n + i) - n = i
      BY <1>1 DEF m
    <3> QED  BY <1>1, <2>1, <3>1, Zenon
  <2>3. Len(SubSeq(c, n + 1, n + m)) = Len(t)
    <3>1. (IF n + 1 <= n + m THEN (n + m) - (n + 1) + 1 ELSE 0) = m
      BY <1>1
    <3>2. m = Len(t)
      BY Zenon DEF m
    <3> QED  BY <2>1, <3>1, <3>2, Zenon
  <2> QED  BY <2>1, <2>2, <2>3, SameSequence, Zenon
<1> QED  BY <1>1, <1>3, <1>4, Zenon DEF Drop, c, n

(* A prefix no longer than the first part is a prefix of the whole exactly if
   it is one of the first part. *)
LEMMA PrefixOfConcat ==
    ASSUME NEW s \in Seq(Nat), NEW t \in Seq(Nat), Len(Prefix) <= Len(s)
    PROVE  StartsWithPrefix(s \o t) <=> StartsWithPrefix(s)
<1> DEFINE k == Len(Prefix)
<1>1. /\ s \o t \in Seq(Nat) /\ Len(s \o t) = Len(s) + Len(t)
      /\ Len(s) \in Nat /\ Len(t) \in Nat /\ k \in Nat /\ k <= Len(s)
      /\ \A i \in 1 .. Len(s) + Len(t) : (s \o t)[i] = IF i <= Len(s) THEN s[i] ELSE t[i - Len(s)]
  BY Joined, LengthAssumption
<1> HIDE DEF k
<1>2. \A i \in 1 .. k : s[i] \in Nat /\ (s \o t)[i] = s[i]
  BY <1>1
<1>3. /\ SubSeq(s, 1, k) \in Seq(Nat)
      /\ Len(SubSeq(s, 1, k)) = IF 1 <= k THEN k - 1 + 1 ELSE 0
      /\ \A i \in 1 .. k - 1 + 1 : SubSeq(s, 1, k)[i] = s[1 + i - 1]
  BY <1>1, <1>2, Slice
<1>4. /\ SubSeq(s \o t, 1, k) \in Seq(Nat)
      /\ Len(SubSeq(s \o t, 1, k)) = IF 1 <= k THEN k - 1 + 1 ELSE 0
      /\ \A i \in 1 .. k - 1 + 1 : SubSeq(s \o t, 1, k)[i] = (s \o t)[1 + i - 1]
  BY <1>1, <1>2, Slice
<1>5. \A i \in 1 .. Len(SubSeq(s, 1, k)) : SubSeq(s, 1, k)[i] = SubSeq(s \o t, 1, k)[i]
  BY <1>1, <1>2, <1>3, <1>4
<1>6. SubSeq(s, 1, k) = SubSeq(s \o t, 1, k)
  BY <1>3, <1>4, <1>5, SameSequence, Zenon
<1> QED  BY <1>1, <1>6 DEF StartsWithPrefix, k
(***************************************************************************)
(* CreateMailServerEvent reads from a completion what the functions that   *)
(* build one have put there, or refuses it: the id, the error text, the    *)
(* last hash and the cursor.                                               *)
(***************************************************************************)
LEMMA EventOfPayload ==
    ASSUME NEW a \in Response, NEW r \in Request, a.id = r.id
    PROVE  CreateMailServerEvent(Payload(a.id, a.result)) \in {Invalid, a}
<1> DEFINE id == a.id
           x == a.result
<1>1. /\ a = [id |-> id, result |-> x]
      /\ x = [failed |-> x.failed, text |-> x.text, last |-> x.last, cursor |-> x.cursor]
      /\ x.failed \in BOOLEAN /\ x.text \in Seq(Nat) /\ x.last \in Seq(Nat) /\ x.cursor \in Seq(Nat)
      /\ x.failed => x.last = << >> /\ x.cursor = << >>
      /\ ~ x.failed => /\ x.text = << >> /\ Len(x.last) = HashLength
                       /\ Len(x.cursor) = 0 \/ Len(x.cursor) >= CursorSize
  BY ResponseAssumption, Zenon
<1>2. id \in Seq(Nat) /\ Len(id) = HashLength /\ ~ StartsWithPrefix(id)
  BY RequestAssumption, Zenon
<1>3. /\ HashLength \in Nat /\ CursorSize \in Nat /\ Prefix \in Seq(Nat)
      /\ Len(Prefix) \in Nat /\ Len(Prefix) <= HashLength
  BY LengthAssumption
<1> HIDE DEF id, x
<1>4. x.text \in Seq(Nat) /\ x.last \in Seq(Nat) /\ x.cursor \in Seq(Nat)
  BY <1>1, Zenon
<1>5. id \in Seq(Nat)
  BY <1>2, Zenon
<1>6. Prefix \in Seq(Nat)
  BY <1>3, Zenon
<1>7. CASE x.failed
  <2> DEFINE rest == id \o x.text
             p == Prefix \o rest
  <2>1. Payload(id, x) = p
    BY <1>7, Zenon DEF Payload
  <2>2. rest \in Seq(Nat) /\ Len(rest) = HashLength + Len(x.text) /\ Len(x.text) \in Nat
    <3>1. rest \in Seq(Nat) /\ Len(rest) = Len(id) + Len(x.text)
      BY <1>4, <1>5, Joined, Zenon
    <3> HIDE DEF rest
    <3> QED  BY <1>1, <1>2, <3>1
  <2>3. SubSeq(rest, 1, HashLength) = id /\ Drop(rest, HashLength) = x.text
    <3>1. SubSeq(rest, 1, Len(id)) = id /\ Drop(rest, Len(id)) = x.text
      BY <1>1, <1>2, TakeDrop, Zenon
    <3> QED  BY <1>2, <3>1, Zenon
  <2> HIDE DEF rest
  <2>4. Len(p) = Len(Prefix) + Len(rest)
    BY <1>3, <2>2, Joined, Zenon
  <2>5. SubSeq(p, 1, Len(Prefix)) = Prefix /\ Drop(p, Len(Prefix)) = rest
    BY <1>3, <2>2, TakeDrop, Zenon
  <2> HIDE DEF p
  <2>6. ~ (Len(p) < HashLength) /\ Len(p) >= HashLength + Len(Prefix) /\ Len(p) >= Len(Prefix)
    BY <1>3, <2>2, <2>4
  <2>7. StartsWithPrefix(p)
    BY <2>5, <2>6, Zenon DEF StartsWithPrefix
  <2>8. CreateMailServerEvent(p) = FailedEvent(p)
    BY <2>6, <2>7, Zenon DEF CreateMailServerEvent
  <2>9. FailedEvent(p) = [id |-> id, result |-> x]
    <3>1. x = [failed |-> TRUE, text |-> x.text, last |-> << >>, cursor |-> << >>]
      BY <1>1, <1>7, Zenon
    <3> QED  BY <2>3, <2>5, <3>1, Zenon DEF FailedEvent
  <2> QED  BY <1>1, <2>1, <2>8, <2>9, Zenon DEF id, x
<1>8. CASE ~ x.failed
  <2> DEFINE rest == x.last \o x.cursor
             p == id \o rest
  <2>1. Payload(id, x) = p
    BY <1>8, Zenon DEF Payload
  <2>2. rest \in Seq(Nat) /\ Len(rest) = HashLength + Len(x.cursor) /\ Len(x.cursor) \in Nat
    <3>1. rest \in Seq(Nat) /\ Len(rest) = Len(x.last) + Len(x.cursor)
      BY <1>4, Joined, Zenon
    <3> HIDE DEF rest
    <3>2. Len(x.last) = HashLength
      BY <1>1, <1>8, Zenon
    <3> QED  BY <1>4, <3>1, <3>2
  <2>3. SubSeq(rest, 1, HashLength) = x.last /\ Drop(rest, HashLength) = x.cursor
    <3>1. SubSeq(rest, 1, Len(x.last)) = x.last /\ Drop(rest, Len(x.last)) = x.cursor
      BY <1>1, TakeDrop, Zenon
    <3> QED  BY <1>1, <1>8, <3>1, Zenon
  <2> HIDE DEF rest
  <2>4. Len(p) = HashLength + Len(rest)
    BY <1>2, <2>2, Joined, Zenon
  <2>5. SubSeq(p, 1, HashLength) = id /\ Drop(p, HashLength) = rest
    <3>1. SubSeq(p, 1, Len(id)) = id /\ Drop(p, Len(id)) = rest
      BY <1>2, <2>2, TakeDrop, Zenon
    <3> QED  BY <1>2, <3>1, Zenon
  <2>6. ~ StartsWithPrefix(p)
    BY <1>2, <1>3, <2>2, PrefixOfConcat, Zenon
  <2> HIDE DEF p
  <2>7. ~ (Len(p) < HashLength)
    BY <1>3, <2>2, <2>4
  <2>8. CreateMailServerEvent(p) \in {Invalid, CompletedEvent(p)}
    BY <2>6, <2>7, Zenon DEF CreateMailServerEvent
  <2>9. CompletedEvent(p) = [id |-> id, result |-> x]
    <3>1. Len(rest) >= HashLength
      BY <1>3, <2>2
    <3>2. (IF Len(x.cursor) >= CursorSize THEN x.cursor ELSE << >>) = x.cursor
      <4>1. CASE Len(x.cursor) >= CursorSize
        BY <4>1, Zenon
      <4>2. CASE Len(x.cursor) = 0
        <5>1. x.cursor = << >>
          BY <1>1, <4>2
        <5> QED  BY <5>1, Zenon
      <4> QED  BY <1>1, <1>8, <4>1, <4>2, Zenon
    <3>3. CompletedEvent(p) =
              [id |-> id, result |-> [failed |-> FALSE, text |-> << >>, last |-> x.last,
                                      cursor |-> x.cursor]]
      BY <2>3, <2>5, <3>1, <3>2, Zenon DEF CompletedEvent
    <3>4. x = [failed |-> FALSE, text |-> << >>, last |-> x.last, cursor |-> x.cursor]
      BY <1>1, <1>8, Zenon
    <3> QED  BY <3>3, <3>4, Zenon
  <2> QED  BY <1>1, <2>1, <2>8, <2>9, Zenon DEF id, x
<1> QED  BY <1>1, <1>7, <1>8, Zenon

-----------------------------------------------------------------------------
(* Types. *)

CallState == [pc : {"none", "send", "announce", "done"}, link : 0 .. MaxLink]
SyncState == [asked : BOOLEAN, trusting : BOOLEAN, mail : SUBSET Mail, archived : SUBSET Mail,
              finished : BOOLEAN]
Answer == {a \in Response : \E r \in Request : a.id = r.id}

ServerPacket == {[code |-> "request", req |-> r] : r \in Request} \cup {[code |-> "sync"]}
MailPacket == [code : {"mail"}, mail : Seq(Mail)]
CompletePacket == {[code |-> "complete", payload |-> Payload(a.id, a.result)] : a \in Answer}
SyncPacket == [code : {"sync"}, mail : Seq(Mail), final : BOOLEAN]
ClientPacket == MailPacket \cup CompletePacket \cup SyncPacket
Item ==
    {[type |-> "mail", value |-> m] : m \in Mail} \cup {[type |-> "event", value |-> a] : a \in Answer}

(* TypeOK, with the contents of the channels. *)
MailTypes ==
    /\ link \in 0 .. MaxLink /\ conn \in {"down", "up", "closing"}
    /\ conn # "down" => link \in 1 .. MaxLink
    /\ trusted \in BOOLEAN /\ quit \in BOOLEAN /\ syncing \in BOOLEAN
    /\ call \in [Request -> CallState]
    /\ timers \subseteq Request /\ jobs \subseteq Request
    /\ toServer \in Seq(ServerPacket) /\ Len(toServer) <= WireLimit
    /\ toClient \in Seq(ClientPacket) /\ Len(toClient) <= WireLimit
    /\ pending \in [1 .. MaxLink -> Seq(Item)]
    /\ p2pMsgQueue \in Seq(Item) /\ Len(p2pMsgQueue) <= QueueLimit
    /\ announced \subseteq Request /\ expired \subseteq Request /\ delivered \subseteq Mail
    /\ mailed \in [Request -> SUBSET Mail]
    /\ answered \subseteq Answer /\ concluded \subseteq Answer
    /\ sync \in SyncState

LEMMA ClientPacketCases ==
    ASSUME NEW p \in ClientPacket
    PROVE  /\ p.code \in {"mail", "complete", "sync"}
           /\ p.code \in {"mail", "sync"} => p.mail \in Seq(Mail)
           /\ p.code = "sync" => p.final \in BOOLEAN
           /\ p.code = "complete" => \E a \in Answer : p.payload = Payload(a.id, a.result)
  BY DEF ClientPacket, MailPacket, CompletePacket, SyncPacket

LEMMA ClientPacketTypes ==
    ASSUME NEW batch \in Seq(Mail), NEW final \in BOOLEAN
    PROVE  /\ [code |-> "mail", mail |-> batch] \in ClientPacket
           /\ [code |-> "sync", mail |-> batch, final |-> final] \in ClientPacket
<1>1. [code |-> "mail", mail |-> batch] \in MailPacket
  BY Zenon DEF MailPacket
<1>2. [code |-> "sync", mail |-> batch, final |-> final] \in SyncPacket
  BY Zenon DEF SyncPacket
<1> QED  BY <1>1, <1>2, Zenon DEF ClientPacket

LEMMA ServerPacketCases ==
    ASSUME NEW p \in ServerPacket
    PROVE  /\ p.code \in {"request", "sync"}
           /\ p.code = "request" => p.req \in Request
  BY DEF ServerPacket

LEMMA ItemCases ==
    ASSUME NEW x \in Item
    PROVE  /\ x.type \in {"mail", "event"}
           /\ x.type = "mail" => x.value \in Mail
           /\ x.type = "event" => x.value \in Answer
  BY DEF Item

(* A completion that is not refused becomes the answer it was made from. *)
LEMMA EventCases ==
    ASSUME NEW p \in ClientPacket, p.code = "complete"
    PROVE  CreateMailServerEvent(p.payload) \in {Invalid} \cup Answer
<1>1. PICK a \in Answer : p.payload = Payload(a.id, a.result)
  BY ClientPacketCases, Zenon
<1>2. PICK r \in Request : a.id = r.id
  BY Zenon DEF Answer
<1>3. a \in Response
  BY Zenon DEF Answer
<1> QED  BY <1>1, <1>2, <1>3, EventOfPayload, Zenon

(* The envelopes of a packet are queued one after the other, all of them. *)
LEMMA MailsOf ==
    ASSUME NEW batch \in Seq(Mail)
    PROVE  /\ Mails(batch) \in Seq(Item)
           /\ \A i \in 1 .. Len(Mails(batch)) : Mails(batch)[i].type = "mail"
           /\ \A m \in Range(batch) : \E i \in 1 .. Len(Mails(batch)) :
                 Mails(batch)[i] = [type |-> "mail", value |-> m]
<1>1. PICK n \in Nat : n = Len(batch)
  OBVIOUS
<1>2. DOMAIN batch = 1 .. n /\ \A i \in 1 .. n : batch[i] \in Mail
  BY <1>1
<1>3. Mails(batch) = [i \in 1 .. n |-> [type |-> "mail", value |-> batch[i]]]
  BY <1>2, Zenon DEF Mails
<1>4. \A i \in 1 .. n : [type |-> "mail", value |-> batch[i]] \in Item
  BY <1>2, Zenon DEF Item
<1>5. Mails(batch) \in Seq(Item) /\ Len(Mails(batch)) = n
  BY <1>1, <1>3, <1>4
<1>6. \A i \in 1 .. n : Mails(batch)[i] = [type |-> "mail", value |-> batch[i]]
  BY <1>3, Zenon
<1>7. \A m \in Range(batch) : \E i \in 1 .. n : batch[i] = m
  BY <1>2, Zenon DEF Range
<1> HIDE DEF Mails
<1> QED  BY <1>5, <1>6, <1>7

(* The elements of a list of envelopes are envelopes. *)
LEMMA BatchMail ==
    ASSUME NEW batch \in Seq(Mail)
    PROVE  Range(batch) \in SUBSET Mail
  BY DEF Range

LEMMA Batches ==
    /\ \A batch \in Batch : batch \in Seq(Mail)
    /\ \A batch \in Batch \cup {<< >>} : batch \in Seq(Mail)
    /\ << >> \in Seq(Mail)
<1>1. << >> \in Seq(Mail)
  OBVIOUS
<1>2. \A batch \in Batch : batch \in Seq(Mail)
  BY BatchAssumption, Zenon
<1> QED  BY <1>1, <1>2, Zenon

LEMMA TypesInit == Init => MailTypes
<1>1. /\ QueueLimit \in Nat \ {0} /\ WireLimit \in Nat \ {0} /\ MaxLink \in Nat \ {0}
  BY LimitAssumption, Zenon
<1>2. NoCall \in CallState
  BY <1>1 DEF NoCall, CallState
<1>3. NoSync \in SyncState
  BY Zenon DEF NoSync, SyncState
<1>4. \A S : << >> \in Seq(S) /\ Len(<< >>) = 0
  OBVIOUS
<1>5. Init => /\ call \in [Request -> CallState] /\ sync \in SyncState
              /\ pending \in [1 .. MaxLink -> Seq(Item)] /\ mailed \in [Request -> SUBSET Mail]
  BY <1>2, <1>3, <1>4 DEF Init
<1>6. Init => trusted \in BOOLEAN /\ quit \in BOOLEAN /\ syncing \in BOOLEAN
  BY Zenon DEF Init
<1> QED  BY <1>1, <1>4, <1>5, <1>6 DEF Init, MailTypes

(* Writing to a channel that has room. *)
LEMMA ToServerTypes ==
    ASSUME MailTypes, NEW p \in ServerPacket, WriteToServer(p)
    PROVE  toServer' \in Seq(ServerPacket) /\ Len(toServer') <= WireLimit
  BY LimitAssumption DEF MailTypes, WriteToServer

LEMMA ToClientTypes ==
    ASSUME MailTypes, NEW p \in ClientPacket, WriteToClient(p)
    PROVE  toClient' \in Seq(ClientPacket) /\ Len(toClient') <= WireLimit
  BY LimitAssumption DEF MailTypes, WriteToClient

(* Reading the next packet. *)
LEMMA ToClientTail ==
    ASSUME MailTypes, NEW code, Reading(code)
    PROVE  /\ Head(toClient) \in ClientPacket /\ Head(toClient).code = code
           /\ Tail(toClient) \in Seq(ClientPacket) /\ Len(Tail(toClient)) <= WireLimit
           /\ link \in 1 .. MaxLink
  BY LimitAssumption, HeadAndTail DEF MailTypes, Reading

LEMMA TypesClose ==
    ASSUME MailTypes, CloseConnection, UNCHANGED <<pending, p2pMsgQueue>>
    PROVE  MailTypes'
<1>1. << >> \in Seq(ServerPacket) /\ << >> \in Seq(ClientPacket) /\ Len(<< >>) = 0
  OBVIOUS
<1>2. WireLimit \in Nat
  BY LimitAssumption, Zenon
<1>3. trusted' \in BOOLEAN /\ syncing' \in BOOLEAN
  BY Zenon DEF CloseConnection
<1> QED  BY <1>1, <1>2, <1>3 DEF CloseConnection, MailTypes, events

LEMMA TypesConnection ==
    ASSUME MailTypes, Connect \/ Disconnect \/ Stop \/ AllowP2PMessagesFromPeer
    PROVE  MailTypes'
<1>1. CASE Connect
  <2>1. link' \in 1 .. MaxLink
    BY <1>1, LimitAssumption DEF Connect, MailTypes
  <2>2. sync' \in SyncState
    BY <1>1, Zenon DEF Connect, NoSync, SyncState
  <2>3. trusted' \in BOOLEAN
    BY <1>1, Zenon DEF Connect
  <2> QED  BY <1>1, <2>1, <2>2, <2>3 DEF Connect, MailTypes, serverVars, loopVars, events
<1>2. CASE Disconnect
  BY <1>2, TypesClose, Zenon DEF Disconnect, loopVars
<1>3. CASE Stop
  BY <1>3, Zenon DEF Stop, MailTypes, connVars, clientVars, serverVars, loopVars, events
<1>4. CASE AllowP2PMessagesFromPeer
  BY <1>4, Zenon DEF AllowP2PMessagesFromPeer, MailTypes, connVars, serverVars, loopVars, events
<1> QED  BY <1>1, <1>2, <1>3, <1>4, Zenon

LEMMA TypesCalls ==
    ASSUME MailTypes, NEW r \in Request, Ask(r) \/ Submit(r) \/ Announce(r) \/ ExpireRequest(r)
    PROVE  MailTypes'
<1>1. CASE Ask(r)
  <2>1. call' \in [Request -> CallState]
    BY <1>1, Zenon DEF Ask, MailTypes, CallState
  <2> QED  BY <1>1, <2>1, Zenon DEF Ask, MailTypes, connVars, serverVars, loopVars
<1>2. CASE Submit(r)
  <2>1. call' \in [Request -> CallState]
    BY <1>2, Zenon DEF Submit, MailTypes, CallState
  <2>2. toServer' \in Seq(ServerPacket) /\ Len(toServer') <= WireLimit
    <3>1. [code |-> "request", req |-> r] \in ServerPacket
      BY Zenon DEF ServerPacket
    <3> QED  BY <1>2, <3>1, ToServerTypes, Zenon DEF Submit, MailTypes
  <2>3. timers' \subseteq Request
    BY <1>2, Zenon DEF Submit, MailTypes
  <2> QED  BY <1>2, <2>1, <2>2, <2>3, Zenon DEF Submit, MailTypes, connVars, serverVars, loopVars, events
<1>3. CASE Announce(r)
  <2>1. call' \in [Request -> CallState]
    BY <1>3, Zenon DEF Announce, MailTypes, CallState
  <2> QED  BY <1>3, <2>1, Zenon DEF Announce, MailTypes, connVars, serverVars, loopVars
<1>4. CASE ExpireRequest(r)
  BY <1>4, Zenon DEF ExpireRequest, MailTypes, connVars, serverVars, loopVars
<1> QED  BY <1>1, <1>2, <1>3, <1>4, Zenon

LEMMA TypesServer ==
    ASSUME MailTypes, ReadRequest \/ FailSync \/ SyncMessages
    PROVE  MailTypes'
<1>1. CASE ReadRequest
  <2>1. /\ Head(toServer) \in ServerPacket
        /\ toServer' \in Seq(ServerPacket) /\ Len(toServer') <= WireLimit
    BY <1>1, LimitAssumption, HeadAndTail DEF ReadRequest, MailTypes
  <2>2. jobs' \subseteq Request
    BY <1>1, <2>1, ServerPacketCases DEF ReadRequest, MailTypes
  <2>3. syncing' \in BOOLEAN
    BY <1>1, Zenon DEF ReadRequest, MailTypes
  <2> QED  BY <1>1, <2>1, <2>2, <2>3, Zenon DEF ReadRequest, MailTypes, connVars, clientVars, loopVars, events
<1>2. CASE FailSync
  <2>1. [code |-> "sync", mail |-> << >>, final |-> TRUE] \in ClientPacket
    BY ClientPacketTypes, Batches, Zenon
  <2>2. toClient' \in Seq(ClientPacket) /\ Len(toClient') <= WireLimit /\ conn = "up"
    BY <1>2, <2>1, ToClientTypes, Zenon DEF FailSync, WriteToClient
  <2> QED  BY <1>2, <2>2, Zenon DEF FailSync, MailTypes, clientVars, loopVars, events
<1>3. CASE SyncMessages
  <2>1. [code |-> "sync"] \in ServerPacket
    BY Zenon DEF ServerPacket
  <2>2. toServer' \in Seq(ServerPacket) /\ Len(toServer') <= WireLimit
    BY <1>3, <2>1, ToServerTypes, Zenon DEF SyncMessages
  <2>3. sync' \in SyncState
    BY <1>3, Zenon DEF SyncMessages, MailTypes, SyncState
  <2> QED  BY <1>3, <2>2, <2>3, Zenon
           DEF SyncMessages, MailTypes, connVars, clientVars, serverVars, loopVars, events
<1> QED  BY <1>1, <1>2, <1>3, Zenon

LEMMA TypesAnswers ==
    ASSUME MailTypes,
           \/ \E batch \in Seq(Mail) : \/ SendP2PMessage(batch)
                                            \/ \E r \in Request : SendP2PDirect(r, batch)
           \/ \E r \in Request, a \in Response : SendHistoricMessageResponse(r, a)
           \/ \E batch \in Seq(Mail), final \in BOOLEAN : SendSyncResponse(batch, final)
    PROVE  MailTypes'
<1>1. ASSUME NEW batch \in Seq(Mail), SendP2PMessage(batch)
      PROVE  MailTypes'
  <2>1. [code |-> "mail", mail |-> batch] \in ClientPacket
    BY ClientPacketTypes, Zenon
  <2>2. toClient' \in Seq(ClientPacket) /\ Len(toClient') <= WireLimit
    BY <1>1, <2>1, ToClientTypes, Zenon DEF SendP2PMessage
  <2> QED  BY <1>1, <2>2, Zenon
           DEF SendP2PMessage, MailTypes, connVars, clientVars, serverVars, loopVars, events
<1>2. ASSUME NEW batch \in Seq(Mail), NEW r \in Request, SendP2PDirect(r, batch)
      PROVE  MailTypes'
  <2>1. [code |-> "mail", mail |-> batch] \in ClientPacket
    BY ClientPacketTypes, Zenon
  <2>2. toClient' \in Seq(ClientPacket) /\ Len(toClient') <= WireLimit
    BY <1>2, <2>1, ToClientTypes, Zenon DEF SendP2PDirect
  <2>3. mailed' \in [Request -> SUBSET Mail]
    BY <1>2, BatchMail, Zenon DEF SendP2PDirect, MailTypes
  <2> QED  BY <1>2, <2>2, <2>3, Zenon
           DEF SendP2PDirect, MailTypes, connVars, clientVars, loopVars, events
<1>3. ASSUME NEW r \in Request, NEW a \in Response, SendHistoricMessageResponse(r, a)
      PROVE  MailTypes'
  <2>1. a \in Answer /\ a.id = r.id
    BY <1>3, Zenon DEF SendHistoricMessageResponse, Answer
  <2>2. [code |-> "complete", payload |-> Payload(r.id, a.result)] \in ClientPacket
    BY <2>1, Zenon DEF ClientPacket, CompletePacket
  <2>3. toClient' \in Seq(ClientPacket) /\ Len(toClient') <= WireLimit
    BY <1>3, <2>2, ToClientTypes, Zenon DEF SendHistoricMessageResponse
  <2> QED  BY <1>3, <2>1, <2>3, Zenon
           DEF SendHistoricMessageResponse, MailTypes, connVars, clientVars, loopVars, events
<1>4. ASSUME NEW batch \in Seq(Mail), NEW final \in BOOLEAN, SendSyncResponse(batch, final)
      PROVE  MailTypes'
  <2>1. [code |-> "sync", mail |-> batch, final |-> final] \in ClientPacket
    BY ClientPacketTypes, Zenon
  <2>2. toClient' \in Seq(ClientPacket) /\ Len(toClient') <= WireLimit
    BY <1>4, <2>1, ToClientTypes, Zenon DEF SendSyncResponse
  <2>3. sync' \in SyncState /\ syncing' \in BOOLEAN
    BY <1>4, BatchMail, Zenon DEF SendSyncResponse, MailTypes, SyncState
  <2> QED  BY <1>4, <2>2, <2>3, Zenon
           DEF SendSyncResponse, MailTypes, connVars, clientVars, loopVars, events
<1> QED  BY <1>1, <1>2, <1>3, <1>4, Zenon

LEMMA TypesLoop ==
    ASSUME MailTypes, ReadMail \/ ReadComplete \/ ReadSyncResponse
    PROVE  MailTypes'
<1>1. CASE ReadMail
  <2>1. /\ Head(toClient).mail \in Seq(Mail) /\ link \in 1 .. MaxLink
        /\ toClient' \in Seq(ClientPacket) /\ Len(toClient') <= WireLimit
    BY <1>1, ToClientTail, ClientPacketCases, Zenon DEF ReadMail
  <2>2. pending' \in [1 .. MaxLink -> Seq(Item)]
    <3>1. CASE ~ trusted
      BY <1>1, <3>1, Zenon DEF ReadMail, MailTypes
    <3>2. CASE trusted
      BY <1>1, <2>1, <3>2, MailsOf, Zenon DEF ReadMail, MailTypes
    <3> QED  BY <3>1, <3>2, Zenon
  <2> QED  BY <1>1, <2>1, <2>2, Zenon DEF ReadMail, MailTypes, connVars, clientVars, serverVars, events
<1>2. CASE ReadComplete
  <2> DEFINE event == CreateMailServerEvent(Head(toClient).payload)
  <2>1. /\ event \in {Invalid} \cup Answer /\ link \in 1 .. MaxLink
        /\ Tail(toClient) \in Seq(ClientPacket) /\ Len(Tail(toClient)) <= WireLimit
    BY <1>2, ToClientTail, EventCases, Zenon DEF ReadComplete
  <2>2. CASE trusted /\ event = Invalid
    BY <1>2, <2>2, TypesClose, Zenon DEF ReadComplete
  <2>3. CASE ~ (trusted /\ event = Invalid)
    <3> HIDE DEF event
    <3>1. /\ toClient' = Tail(toClient)
          /\ pending' = IF trusted
                        THEN [pending EXCEPT ![link] = <<[type |-> "event", value |-> event]>>]
                        ELSE pending
          /\ UNCHANGED <<connVars, clientVars, toServer, serverVars, p2pMsgQueue, quit, events, sync>>
      BY <1>2, <2>3, Zenon DEF ReadComplete, event
    <3>2. pending' \in [1 .. MaxLink -> Seq(Item)]
      <4>1. CASE trusted
        <5>1. [type |-> "event", value |-> event] \in Item
          BY <2>1, <2>3, <4>1, Zenon DEF Item
        <5>2. <<[type |-> "event", value |-> event]>> \in Seq(Item)
          BY <5>1
        <5> QED  BY <2>1, <3>1, <4>1, <5>2, Zenon DEF MailTypes
      <4>2. CASE ~ trusted
        BY <3>1, <4>2, Zenon DEF MailTypes
      <4> QED  BY <4>1, <4>2, Zenon
    <3> QED  BY <2>1, <3>1, <3>2, Zenon DEF MailTypes, connVars, clientVars, serverVars, events
  <2> QED  BY <2>2, <2>3, Zenon
<1>3. CASE ReadSyncResponse
  <2>1. /\ Head(toClient).mail \in Seq(Mail) /\ Head(toClient).final \in BOOLEAN
        /\ toClient' \in Seq(ClientPacket) /\ Len(toClient') <= WireLimit
    BY <1>3, ToClientTail, ClientPacketCases, Zenon DEF ReadSyncResponse
  <2>2. sync' \in SyncState
    BY <1>3, <2>1, BatchMail, Zenon DEF ReadSyncResponse, MailTypes, SyncState
  <2> QED  BY <1>3, <2>1, <2>2, Zenon
           DEF ReadSyncResponse, MailTypes, connVars, clientVars, serverVars, loopVars, events
<1> QED  BY <1>1, <1>2, <1>3

LEMMA TypesQueue ==
    ASSUME MailTypes, (\E l \in 1 .. MaxLink : PostP2P(l)) \/ ProcessP2P
    PROVE  MailTypes'
<1>1. ASSUME NEW l \in 1 .. MaxLink, PostP2P(l)
      PROVE  MailTypes'
  <2>1. pending[l] \in Seq(Item)
    BY Zenon DEF MailTypes
  <2>2. Head(pending[l]) \in Item /\ Tail(pending[l]) \in Seq(Item)
    BY <1>1, <2>1, HeadAndTail, Zenon DEF PostP2P
  <2>3. pending' \in [1 .. MaxLink -> Seq(Item)]
    BY <1>1, <2>2, Zenon DEF PostP2P, MailTypes
  <2>4. p2pMsgQueue' \in Seq(Item) /\ Len(p2pMsgQueue') <= QueueLimit
    BY <1>1, <2>2, LimitAssumption DEF PostP2P, MailTypes
  <2> QED  BY <1>1, <2>3, <2>4, Zenon DEF PostP2P, MailTypes, connVars, clientVars, serverVars, events
<1>2. CASE ProcessP2P
  <2>1. /\ Head(p2pMsgQueue) \in Item
        /\ p2pMsgQueue' \in Seq(Item) /\ Len(p2pMsgQueue') <= QueueLimit
    BY <1>2, LimitAssumption, HeadAndTail DEF ProcessP2P, MailTypes
  <2>2. delivered' \subseteq Mail /\ concluded' \subseteq Answer
    BY <1>2, <2>1, ItemCases, Zenon DEF ProcessP2P, MailTypes
  <2> QED  BY <1>2, <2>1, <2>2, Zenon DEF ProcessP2P, MailTypes, connVars, clientVars, serverVars
<1> QED  BY <1>1, <1>2, Zenon

LEMMA TypesNext == MailTypes /\ [Next]_vars => MailTypes'
<1> SUFFICES ASSUME MailTypes, [Next]_vars
             PROVE  MailTypes'
  BY Zenon
<1>1. CASE UNCHANGED vars
  BY <1>1, Zenon DEF vars, MailTypes, connVars, clientVars, serverVars, loopVars, events
<1> QED  BY <1>1, Batches, TypesConnection, TypesCalls, TypesServer, TypesAnswers, TypesLoop, TypesQueue, Zenon
         DEF Next, ClientLoop

-----------------------------------------------------------------------------
(* Requests, trust and answers. *)

Begun(r) == call[r].pc # "none"
Sent(r) == call[r].pc \in {"announce", "done"}
Answered(r) == \E a \in answered : a.id = r.id

(* A broken connection carries nothing, and a peer that was asked is trusted
   as long as the connection lasts on which it was asked. *)
LinkInv ==
    /\ conn = "down" => toServer = << >> /\ toClient = << >> /\ jobs = {}
    /\ \A r \in Request : Begun(r) => call[r].link <= link
    /\ conn # "down" => \A r \in Request : Begun(r) /\ call[r].link = link => trusted

(* RequestHistoricMessages has announced what it has begun, and only requests
   that were begun have timers. *)
BegunInv ==
    /\ \A r \in Request : Begun(r) /\ r.kind = "historic" => r \in announced
    /\ \A r \in timers \cup expired : Begun(r)

Requests(i, r) == toServer[i].code = "request" /\ toServer[i].req = r

(* A request is sent once, so it is in one place only: on its way to the
   server, with the server, or answered. *)
RequestInv ==
    /\ \A i \in 1 .. Len(toServer) : \A r \in Request : Requests(i, r) =>
          /\ Sent(r) /\ call[r].link = link /\ r \notin jobs /\ ~ Answered(r)
          /\ \A j \in 1 .. Len(toServer) : Requests(j, r) => j = i
    /\ \A r \in jobs : Sent(r) /\ call[r].link = link /\ ~ Answered(r)
    /\ \A r \in Request : Answered(r) => Sent(r)

LEMMA LinkInit == Init => LinkInv /\ BegunInv /\ RequestInv
  BY DEF Init, LinkInv, BegunInv, RequestInv, NoCall, Begun, Sent, Answered, Requests

(* What a call may do to the state of calls. *)
LEMMA CallsAdvance ==
    ASSUME MailTypes, [Next]_vars, NEW q \in Request
    PROVE  \/ call'[q].pc = call[q].pc /\ call'[q].link = call[q].link
           \/ /\ call[q].pc = "none" /\ Ask(q)
              /\ call'[q].pc = "send" /\ call'[q].link = link
           \/ /\ call[q].pc = "send" /\ Submit(q) /\ call'[q].link = call[q].link
              /\ call'[q].pc = IF q.kind = "messages" /\ Reaches(q) THEN "announce" ELSE "done"
           \/ /\ call[q].pc = "announce" /\ Announce(q)
              /\ call'[q].pc = "done" /\ call'[q].link = call[q].link
<1>1. ASSUME NEW r \in Request, Ask(r)
      PROVE  IF q = r THEN call[q].pc = "none" /\ call'[q] = [pc |-> "send", link |-> link]
             ELSE call'[q] = call[q]
  BY <1>1, Zenon DEF Ask, MailTypes
<1>2. ASSUME NEW r \in Request, Submit(r)
      PROVE  IF q = r
             THEN /\ call[q].pc = "send" /\ call'[q].link = call[q].link
                  /\ call'[q].pc = IF r.kind = "messages" /\ Reaches(r) THEN "announce" ELSE "done"
             ELSE call'[q] = call[q]
  BY <1>2, Zenon DEF Submit, MailTypes, CallState
<1>3. ASSUME NEW r \in Request, Announce(r)
      PROVE  IF q = r
             THEN call[q].pc = "announce" /\ call'[q].link = call[q].link /\ call'[q].pc = "done"
             ELSE call'[q] = call[q]
  BY <1>3, Zenon DEF Announce, MailTypes, CallState
<1>4. ASSUME UNCHANGED call
      PROVE  call'[q] = call[q]
  BY <1>4, Zenon
<1>5. \/ \E r \in Request : Ask(r) \/ Submit(r) \/ Announce(r)
      \/ UNCHANGED call
  BY Zenon DEF Next, Connect, Disconnect, CloseConnection, Stop, AllowP2PMessagesFromPeer, SyncMessages,
         ExpireRequest, ReadRequest, FailSync, SendP2PMessage, SendP2PDirect,
         SendHistoricMessageResponse, SendSyncResponse, ClientLoop, ReadMail, ReadComplete,
         ReadSyncResponse, PostP2P, ProcessP2P, vars, clientVars
<1> QED  BY <1>1, <1>2, <1>3, <1>4, <1>5

(* What a step may do to the connection. *)
LEMMA ConnectionSteps ==
    ASSUME MailTypes, [Next]_vars
    PROVE  \/ Connect
           \/ CloseConnection
           \/ /\ link' = link /\ (conn' = "down" <=> conn = "down") /\ (trusted => trusted')
              /\ conn = "down" => UNCHANGED <<toServer, toClient, jobs>>
<1> USE DEF CloseConnection, connVars, clientVars, serverVars
<1>1. CASE Connect \/ Disconnect \/ Stop \/ AllowP2PMessagesFromPeer \/ SyncMessages
  BY <1>1, Zenon DEF Connect, Disconnect, Stop, AllowP2PMessagesFromPeer, SyncMessages, WriteToServer
<1>2. ASSUME NEW r \in Request, Ask(r) \/ Submit(r) \/ Announce(r) \/ ExpireRequest(r)
      PROVE  /\ link' = link /\ (conn' = "down" <=> conn = "down") /\ (trusted => trusted')
             /\ conn = "down" => UNCHANGED <<toServer, toClient, jobs>>
  BY <1>2 DEF Ask, Submit, Announce, ExpireRequest, Reaches, WriteToServer
<1>3. CASE ReadRequest \/ FailSync \/ ReadMail \/ ReadComplete \/ ReadSyncResponse
  BY <1>3, Zenon DEF ReadRequest, FailSync, ReadMail, ReadComplete, ReadSyncResponse, Reading, WriteToClient
<1>4. ASSUME NEW batch, NEW r, NEW a, NEW final, NEW l,
             \/ SendP2PMessage(batch) \/ SendP2PDirect(r, batch) \/ SendHistoricMessageResponse(r, a)
             \/ SendSyncResponse(batch, final) \/ PostP2P(l) \/ ProcessP2P
      PROVE  /\ link' = link /\ (conn' = "down" <=> conn = "down") /\ (trusted => trusted')
             /\ conn = "down" => UNCHANGED <<toServer, toClient, jobs>>
  BY <1>4 DEF SendP2PMessage, SendP2PDirect, SendHistoricMessageResponse, SendSyncResponse,
              PostP2P, ProcessP2P, WriteToClient
<1>5. CASE UNCHANGED vars
  BY <1>5, Zenon DEF vars
<1> QED  BY <1>1, <1>2, <1>3, <1>4, <1>5, Zenon DEF Next, ClientLoop

LEMMA LinkNext ==
    ASSUME MailTypes, LinkInv, [Next]_vars
    PROVE  LinkInv'
<1>0. link \in Nat /\ \A r \in Request : call[r].link \in Nat
  BY DEF MailTypes, CallState
<1>1. CASE Connect
  BY <1>0, <1>1 DEF Connect, LinkInv, Begun, serverVars, connVars
<1>2. CASE CloseConnection
  BY <1>2, Zenon DEF CloseConnection, LinkInv, Begun
<1>3. CASE /\ link' = link /\ (conn' = "down" <=> conn = "down") /\ (trusted => trusted')
           /\ conn = "down" => UNCHANGED <<toServer, toClient, jobs>>
  <2>1. conn' = "down" => toServer' = << >> /\ toClient' = << >> /\ jobs' = {}
    BY <1>3, Zenon DEF LinkInv
  <2>2. ASSUME NEW r \in Request, Begun(r)'
        PROVE  call'[r].link <= link' /\ (conn' # "down" /\ call'[r].link = link' => trusted')
    <3>1. CASE call'[r].pc = call[r].pc /\ call'[r].link = call[r].link
      BY <1>3, <2>2, <3>1, Zenon DEF LinkInv, Begun
    <3>2. CASE Ask(r) /\ call'[r].link = link
      BY <1>0, <1>3, <3>2 DEF Ask
    <3>3. CASE call[r].pc \in {"send", "announce"} /\ call'[r].link = call[r].link
      BY <1>3, <3>3, Zenon DEF LinkInv, Begun
    <3> QED  BY <3>1, <3>2, <3>3, CallsAdvance, Zenon
  <2> QED  BY <2>1, <2>2, Zenon DEF LinkInv
<1> QED  BY <1>1, <1>2, <1>3, ConnectionSteps, Zenon

LEMMA BegunNext ==
    ASSUME MailTypes, BegunInv, [Next]_vars
    PROVE  BegunInv'
<1>1. \A r \in Request : Begun(r) => Begun(r)'
  BY CallsAdvance, Zenon DEF Begun
<1>2. announced \subseteq announced'
  BY Zenon DEF Next, Connect, Disconnect, CloseConnection, Stop, AllowP2PMessagesFromPeer, SyncMessages,
         Ask, Submit, Announce, ExpireRequest, ReadRequest, FailSync, SendP2PMessage, SendP2PDirect,
         SendHistoricMessageResponse, SendSyncResponse, ClientLoop, ReadMail, ReadComplete,
         ReadSyncResponse, PostP2P, ProcessP2P, vars, events
<1>3. ASSUME NEW r \in Request, Begun(r)', r.kind = "historic"
      PROVE  r \in announced'
  <2>1. CASE Ask(r)
    BY <1>3, <2>1, Zenon DEF Ask
  <2>2. CASE Begun(r)
    BY <1>2, <1>3, <2>2, Zenon DEF BegunInv
  <2> QED  BY <1>3, <2>1, <2>2, CallsAdvance, Zenon DEF Begun
<1>4. ASSUME NEW r \in timers' \cup expired'
      PROVE  Begun(r)'
  <2>1. r \in timers \cup expired \/ (r \in Request /\ Submit(r))
    <3>1. CASE UNCHANGED <<timers, expired>>
      BY <1>4, <3>1, Zenon
    <3>2. ASSUME NEW q \in Request, Submit(q)
          PROVE  r \in timers \cup expired \/ (r \in Request /\ Submit(r))
      BY <1>4, <3>2, Zenon DEF Submit, events
    <3>3. ASSUME NEW q \in Request, ExpireRequest(q)
          PROVE  r \in timers \cup expired
      BY <1>4, <3>3, Zenon DEF ExpireRequest
    <3> QED
      BY <3>1, <3>2, <3>3, Zenon
      DEF Next, Connect, Disconnect, CloseConnection, Stop, AllowP2PMessagesFromPeer, SyncMessages,
          Ask, Announce, ReadRequest, FailSync, SendP2PMessage, SendP2PDirect,
          SendHistoricMessageResponse, SendSyncResponse, ClientLoop, ReadMail, ReadComplete,
          ReadSyncResponse, PostP2P, ProcessP2P, vars, events, clientVars
  <2>2. r \in Request /\ Begun(r)
    BY <2>1, Zenon DEF BegunInv, MailTypes, Submit, Begun
  <2> QED  BY <1>1, <2>2, Zenon
<1> QED  BY <1>3, <1>4, Zenon DEF BegunInv

LEMMA SentStays ==
    ASSUME MailTypes, [Next]_vars, NEW r \in Request, Sent(r)
    PROVE  Sent(r)' /\ call'[r].link = call[r].link
  BY CallsAdvance, Zenon DEF Sent

LEMMA RequestNext ==
    ASSUME MailTypes, LinkInv, RequestInv, [Next]_vars
    PROVE  RequestInv'
<1>0. Len(toServer) \in Nat /\ toServer \in Seq(ServerPacket)
  BY DEF MailTypes
<1>1. CASE Connect \/ CloseConnection
  <2>1. toServer' = << >> /\ jobs' = {} /\ answered' = answered /\ call' = call
    BY <1>1, Zenon DEF Connect, CloseConnection, LinkInv, serverVars
  <2>2. Len(toServer') = 0
    BY <2>1, Zenon
  <2>3. \A r \in Request : Answered(r)' => Sent(r)'
    BY <2>1, Zenon DEF RequestInv, Answered, Sent
  <2> QED  BY <2>1, <2>2, <2>3 DEF RequestInv
<1>2. ASSUME UNCHANGED <<toServer, jobs, answered, link>>
      PROVE  RequestInv'
  <2>1. \A i \in 1 .. Len(toServer) : \A r \in Request : Requests(i, r)' <=> Requests(i, r)
    BY <1>2, Zenon DEF Requests
  <2>2. \A r \in Request : Answered(r)' <=> Answered(r)
    BY <1>2, Zenon DEF Answered
  <2>3. ASSUME NEW i \in 1 .. Len(toServer'), NEW r \in Request, Requests(i, r)'
        PROVE  /\ Sent(r)' /\ call'[r].link = link' /\ r \notin jobs' /\ ~ Answered(r)'
               /\ \A j \in 1 .. Len(toServer') : Requests(j, r)' => j = i
    BY <1>2, <2>1, <2>2, <2>3, SentStays, Zenon DEF RequestInv
  <2>4. \A r \in jobs' : Sent(r)' /\ call'[r].link = link' /\ ~ Answered(r)'
    BY <1>2, <2>2, SentStays, Zenon DEF RequestInv, MailTypes
  <2>5. \A r \in Request : Answered(r)' => Sent(r)'
    BY <2>2, SentStays, Zenon DEF RequestInv
  <2> QED  BY <2>3, <2>4, <2>5, Zenon DEF RequestInv
<1>3. ASSUME NEW p \in ServerPacket, WriteToServer(p), UNCHANGED <<jobs, answered, link>>,
             \A r \in Request : p.code = "request" /\ p.req = r =>
                 Sent(r)' /\ ~ Sent(r) /\ call'[r].link = link
      PROVE  RequestInv'
  <2>0. PICK n \in Nat : n = Len(toServer)
    BY <1>0, Zenon
  <2>1. /\ Len(toServer') = n + 1 /\ toServer'[n + 1] = p
        /\ \A i \in 1 .. n : toServer'[i] = toServer[i]
    BY <1>0, <1>3, <2>0 DEF WriteToServer
  <2>2. /\ \A i \in 1 .. n : \A r \in Request : Requests(i, r)' <=> Requests(i, r)
        /\ \A r \in Request : Requests(n + 1, r)' <=> p.code = "request" /\ p.req = r
    BY <2>1, Zenon DEF Requests
  <2>3. \A r \in Request : Answered(r)' <=> Answered(r)
    BY <1>3, Zenon DEF Answered
  <2>4. \A i \in 1 .. Len(toServer') : i \in 1 .. n \/ i = n + 1
    BY <2>0, <2>1
  <2>5. ASSUME NEW i \in 1 .. n, NEW r \in Request, Requests(i, r)
        PROVE  /\ Sent(r) /\ Sent(r)' /\ call'[r].link = link /\ r \notin jobs /\ ~ Answered(r)
               /\ \A j \in 1 .. n : Requests(j, r) => j = i
    BY <2>0, <2>5, SentStays, Zenon DEF RequestInv
  <2>6. ASSUME NEW i \in 1 .. Len(toServer'), NEW r \in Request, Requests(i, r)'
        PROVE  /\ Sent(r)' /\ call'[r].link = link' /\ r \notin jobs' /\ ~ Answered(r)'
               /\ \A j \in 1 .. Len(toServer') : Requests(j, r)' => j = i
    <3>1. CASE i \in 1 .. n
      BY <1>3, <2>2, <2>3, <2>4, <2>5, <2>6, <3>1
    <3>2. CASE i = n + 1
      <4>1. ~ Sent(r) /\ Sent(r)' /\ call'[r].link = link
        BY <1>3, <2>2, <2>6, <3>2, Zenon
      <4>2. r \notin jobs /\ ~ Answered(r)
        BY <4>1, Zenon DEF RequestInv
      <4> QED  BY <1>3, <2>2, <2>3, <2>4, <2>5, <3>2, <4>1, <4>2, Zenon
    <3> QED  BY <2>4, <3>1, <3>2, Zenon
  <2>7. \A r \in jobs' : Sent(r)' /\ call'[r].link = link' /\ ~ Answered(r)'
    BY <1>3, <2>3, SentStays, Zenon DEF RequestInv, MailTypes
  <2>8. \A r \in Request : Answered(r)' => Sent(r)'
    BY <2>3, SentStays, Zenon DEF RequestInv
  <2> QED  BY <2>6, <2>7, <2>8, Zenon DEF RequestInv
<1>4. ASSUME NEW r \in Request, Submit(r)
      PROVE  RequestInv'
  <2>1. CASE Reaches(r)
    <3> DEFINE p == [code |-> "request", req |-> r]
    <3>1. p \in ServerPacket /\ p.code = "request" /\ p.req = r
      BY Zenon DEF ServerPacket
    <3>2. WriteToServer(p) /\ UNCHANGED <<jobs, answered, link>> /\ call[r].link = link
      BY <1>4, <2>1, Zenon DEF Submit, serverVars, connVars, Reaches
    <3>3. call[r].pc = "send" /\ call'[r].pc \in {"announce", "done"} /\ call'[r].link = call[r].link
      BY <1>4, Zenon DEF Submit, MailTypes, CallState
    <3>4. Sent(r)' /\ ~ Sent(r) /\ call'[r].link = link
      BY <3>2, <3>3, Zenon DEF Sent
    <3> HIDE DEF p
    <3> QED  BY <1>3, <3>1, <3>2, <3>4, Zenon
  <2>2. CASE ~ Reaches(r)
    BY <1>2, <1>4, <2>2, Zenon DEF Submit, serverVars, connVars
  <2> QED  BY <2>1, <2>2, Zenon
<1>5. CASE SyncMessages
  <2> DEFINE p == [code |-> "sync"]
  <2>1. p \in ServerPacket /\ p.code = "sync"
    BY Zenon DEF ServerPacket
  <2>2. WriteToServer(p) /\ UNCHANGED <<jobs, answered, link>>
    BY <1>5, Zenon DEF SyncMessages, serverVars, connVars
  <2> HIDE DEF p
  <2> QED  BY <1>3, <2>1, <2>2, Zenon
<1>6. CASE ReadRequest
  <2>1. /\ toServer # << >> /\ toServer' = Tail(toServer) /\ call' = call /\ answered' = answered
        /\ link' = link
        /\ IF Head(toServer).code = "request" THEN jobs' = jobs \cup {Head(toServer).req}
           ELSE jobs' = jobs
    BY <1>6, Zenon DEF ReadRequest, clientVars, connVars
  <2>2. /\ Head(toServer) = toServer[1] /\ 1 \in 1 .. Len(toServer) /\ toServer[1] \in ServerPacket
        /\ Len(toServer') = Len(toServer) - 1
        /\ \A i \in 1 .. Len(toServer') : toServer'[i] = toServer[i + 1]
    BY <1>0, <2>1
  <2>3. /\ \A i \in 1 .. Len(toServer') : i + 1 \in 1 .. Len(toServer) /\ i + 1 # 1
        /\ \A i, j \in 1 .. Len(toServer') : i + 1 = j + 1 => i = j
    BY <1>0, <2>2
  <2>4. \A i \in 1 .. Len(toServer') : \A r \in Request : Requests(i, r)' <=> Requests(i + 1, r)
    BY <2>2, Zenon DEF Requests
  <2>5. \A r \in Request : (Answered(r)' <=> Answered(r)) /\ (Sent(r)' <=> Sent(r))
    BY <2>1, Zenon DEF Answered, Sent
  <2>6. \A r \in jobs' : r \in jobs \/ (r \in Request /\ Requests(1, r))
    BY <2>1, <2>2, ServerPacketCases DEF Requests
  <2>7. ASSUME NEW i \in 1 .. Len(toServer'), NEW r \in Request, Requests(i, r)'
        PROVE  /\ Sent(r)' /\ call'[r].link = link' /\ r \notin jobs' /\ ~ Answered(r)'
               /\ \A j \in 1 .. Len(toServer') : Requests(j, r)' => j = i
    <3>1. Requests(i + 1, r) /\ i + 1 \in 1 .. Len(toServer) /\ i + 1 # 1
      BY <2>3, <2>4, <2>7, Zenon
    <3>2. /\ Sent(r) /\ call[r].link = link /\ r \notin jobs /\ ~ Answered(r)
          /\ \A j \in 1 .. Len(toServer) : Requests(j, r) => j = i + 1
      BY <3>1, Zenon DEF RequestInv
    <3>3. r \notin jobs'
      BY <2>2, <2>6, <3>1, <3>2, Zenon
    <3> QED  BY <2>1, <2>3, <2>4, <2>5, <3>2, <3>3, Zenon
  <2>8. \A r \in jobs' : Sent(r)' /\ call'[r].link = link' /\ ~ Answered(r)'
    BY <2>1, <2>2, <2>5, <2>6, Zenon DEF RequestInv, MailTypes
  <2>9. \A r \in Request : Answered(r)' => Sent(r)'
    BY <2>5, Zenon DEF RequestInv
  <2> QED  BY <2>7, <2>8, <2>9 DEF RequestInv
<1>7. ASSUME NEW r \in Request, NEW a \in Response, SendHistoricMessageResponse(r, a)
      PROVE  RequestInv'
  <2>1. /\ r \in jobs /\ a.id = r.id /\ jobs' = jobs \ {r} /\ answered' = answered \cup {a}
        /\ toServer' = toServer /\ call' = call /\ link' = link
    BY <1>7, Zenon DEF SendHistoricMessageResponse, clientVars, connVars
  <2>2. \A q \in Request : (Sent(q)' <=> Sent(q)) /\ (Answered(q)' => Answered(q) \/ q = r)
    BY <2>1, RequestAssumption, Zenon DEF Sent, Answered
  <2>3. \A i \in 1 .. Len(toServer) : \A q \in Request : Requests(i, q)' <=> Requests(i, q)
    BY <2>1, Zenon DEF Requests
  <2>4. ASSUME NEW i \in 1 .. Len(toServer'), NEW q \in Request, Requests(i, q)'
        PROVE  /\ Sent(q)' /\ call'[q].link = link' /\ q \notin jobs' /\ ~ Answered(q)'
               /\ \A j \in 1 .. Len(toServer') : Requests(j, q)' => j = i
    BY <2>1, <2>2, <2>3, <2>4, Zenon DEF RequestInv
  <2>5. \A q \in jobs' : Sent(q)' /\ call'[q].link = link' /\ ~ Answered(q)'
    BY <2>1, <2>2, Zenon DEF RequestInv, MailTypes
  <2>6. \A q \in Request : Answered(q)' => Sent(q)'
    BY <2>1, <2>2, Zenon DEF RequestInv
  <2> QED  BY <2>4, <2>5, <2>6, Zenon DEF RequestInv
<1>8. \/ Connect \/ CloseConnection \/ SyncMessages \/ ReadRequest
      \/ \E r \in Request : Submit(r)
      \/ \E r \in Request, a \in Response : SendHistoricMessageResponse(r, a)
      \/ UNCHANGED <<toServer, jobs, answered, link>>
  BY Zenon DEF Next, Disconnect, Stop, AllowP2PMessagesFromPeer, Ask, Announce, ExpireRequest, FailSync,
         SendP2PMessage, SendP2PDirect, SendSyncResponse, ClientLoop, ReadMail, ReadComplete,
         ReadSyncResponse, PostP2P, ProcessP2P, vars, serverVars, connVars
<1> QED  BY <1>1, <1>2, <1>4, <1>5, <1>6, <1>7, <1>8, Zenon

(* Every completion on its way to the feed is an answer of the server. *)
IsAnswer(x) == x.type = "event" => x.value \in answered
AnswerInv ==
    /\ \A p \in Range(toClient) :
          p.code = "complete" => \E a \in answered : p.payload = Payload(a.id, a.result)
    /\ \A l \in 1 .. MaxLink : \A x \in Range(pending[l]) : IsAnswer(x)
    /\ \A x \in Range(p2pMsgQueue) : IsAnswer(x)
    /\ concluded \subseteq answered

LEMMA Contents ==
    ASSUME NEW S, NEW s \in Seq(S), NEW e \in S
    PROVE  /\ Range(Append(s, e)) = Range(s) \cup {e}
           /\ s # << >> => Range(Tail(s)) \subseteq Range(s) /\ Head(s) \in Range(s)
<1>1. Range(Append(s, e)) = Range(s) \cup {e}
  <2> DEFINE t == Append(s, e)
  <2>1. /\ Len(s) \in Nat /\ DOMAIN s = 1 .. Len(s) /\ DOMAIN t = 1 .. Len(s) + 1
        /\ t[Len(s) + 1] = e /\ \A i \in 1 .. Len(s) : t[i] = s[i]
    OBVIOUS
  <2>2. 1 .. Len(s) + 1 = (1 .. Len(s)) \cup {Len(s) + 1}
    BY <2>1
  <2> HIDE DEF t
  <2>3. Range(t) = Range(s) \cup {e}
    BY <2>1, <2>2 DEF Range
  <2> QED  BY <2>3, Zenon DEF t
<1>2. ASSUME s # << >>
      PROVE  Range(Tail(s)) \subseteq Range(s) /\ Head(s) \in Range(s)
  <2>1. /\ Len(s) \in Nat \ {0} /\ Head(s) = s[1] /\ DOMAIN s = 1 .. Len(s)
        /\ DOMAIN Tail(s) = 1 .. Len(s) - 1
        /\ \A i \in 1 .. Len(s) - 1 : Tail(s)[i] = s[i + 1]
    BY <1>2
  <2>2. \A i \in 1 .. Len(s) - 1 : i + 1 \in 1 .. Len(s)
    BY <2>1
  <2> QED  BY <2>1, <2>2 DEF Range
<1> QED  BY <1>1, <1>2, Zenon

LEMMA AnswerInit == Init => AnswerInv
  BY DEF Init, AnswerInv, Range

(* The completion at the head of toClient becomes an answer, or nothing. *)
LEMMA HeadIsAnswer ==
    ASSUME MailTypes, AnswerInv, Reading("complete")
    PROVE  CreateMailServerEvent(Head(toClient).payload) \in {Invalid} \cup answered
<1>1. /\ toClient \in Seq(ClientPacket) /\ toClient # << >> /\ Head(toClient).code = "complete"
      /\ Head(toClient) \in ClientPacket
  BY ToClientTail, Zenon DEF MailTypes, Reading
<1>2. Head(toClient) \in Range(toClient)
  BY <1>1, Contents, Zenon
<1>3. PICK a \in answered : Head(toClient).payload = Payload(a.id, a.result)
  BY <1>1, <1>2, Zenon DEF AnswerInv
<1>4. a \in Response /\ \E r \in Request : a.id = r.id
  BY Zenon DEF MailTypes, Answer
<1> QED  BY <1>3, <1>4, EventOfPayload, Zenon

LEMMA AnswerNext ==
    ASSUME MailTypes, AnswerInv, [Next]_vars
    PROVE  AnswerInv'
<1>1. answered \subseteq answered'
  BY Zenon DEF Next, Connect, Disconnect, CloseConnection, Stop, AllowP2PMessagesFromPeer, SyncMessages,
         Ask, Submit, Announce, ExpireRequest, ReadRequest, FailSync, SendP2PMessage, SendP2PDirect,
         SendHistoricMessageResponse, SendSyncResponse, ClientLoop, ReadMail, ReadComplete,
         ReadSyncResponse, PostP2P, ProcessP2P, vars, serverVars
<1>2. \A x : IsAnswer(x) => (x.type = "event" => x.value \in answered')
  BY <1>1, Zenon DEF IsAnswer
<1>3. ASSUME NEW p \in Range(toClient)', p.code = "complete"
      PROVE  \E a \in answered' : p.payload = Payload(a.id, a.result)
  <2>1. ASSUME NEW q \in ClientPacket, WriteToClient(q)
        PROVE  p \in Range(toClient) \cup {q}
    BY <1>3, <2>1, Contents DEF WriteToClient, MailTypes
  <2>2. ASSUME NEW code, Reading(code), toClient' = Tail(toClient)
        PROVE  p \in Range(toClient)
    BY <1>3, <2>2, ToClientTail, Contents, Zenon DEF Reading, MailTypes
  <2>3. p \in Range(toClient) => \E a \in answered' : p.payload = Payload(a.id, a.result)
    BY <1>1, <1>3, Zenon DEF AnswerInv
  <2>4. CASE UNCHANGED toClient
    BY <1>3, <2>3, <2>4, Zenon
  <2>5. CASE toClient' = << >>
    BY <1>3, <2>5 DEF Range
  <2>6. ASSUME NEW r \in Request, NEW a \in Response, SendHistoricMessageResponse(r, a)
        PROVE  \E b \in answered' : p.payload = Payload(b.id, b.result)
    <3> DEFINE q == [code |-> "complete", payload |-> Payload(r.id, a.result)]
    <3>1. a \in Answer /\ a.id = r.id /\ a \in answered' /\ WriteToClient(q)
      BY <2>6, Zenon DEF SendHistoricMessageResponse, Answer
    <3>2. q \in ClientPacket /\ q.payload = Payload(a.id, a.result)
      BY <3>1, Zenon DEF ClientPacket, CompletePacket
    <3> HIDE DEF q
    <3> QED  BY <2>1, <2>3, <3>1, <3>2, Zenon
  <2>7. ASSUME NEW q \in ClientPacket, WriteToClient(q), q.code # "complete"
        PROVE  \E b \in answered' : p.payload = Payload(b.id, b.result)
    BY <1>3, <2>1, <2>3, <2>7, Zenon
  <2>8. ASSUME NEW batch \in Seq(Mail), SendP2PMessage(batch) \/ \E r : SendP2PDirect(r, batch)
        PROVE  \E b \in answered' : p.payload = Payload(b.id, b.result)
    <3> DEFINE q == [code |-> "mail", mail |-> batch]
    <3>1. q \in ClientPacket /\ q.code # "complete" /\ WriteToClient(q)
      BY <2>8, ClientPacketTypes, Zenon DEF SendP2PMessage, SendP2PDirect
    <3> HIDE DEF q
    <3> QED  BY <2>7, <3>1, Zenon
  <2>9. ASSUME NEW batch \in Seq(Mail), NEW final \in BOOLEAN,
               WriteToClient([code |-> "sync", mail |-> batch, final |-> final])
        PROVE  \E b \in answered' : p.payload = Payload(b.id, b.result)
    <3> DEFINE q == [code |-> "sync", mail |-> batch, final |-> final]
    <3>1. q \in ClientPacket /\ q.code # "complete" /\ WriteToClient(q)
      BY <2>9, ClientPacketTypes, Zenon
    <3> HIDE DEF q
    <3> QED  BY <2>7, <3>1, Zenon
  <2>10. CASE ReadMail \/ ReadComplete \/ ReadSyncResponse
    BY <2>2, <2>3, <2>5, <2>10, Zenon DEF ReadMail, ReadComplete, ReadSyncResponse, CloseConnection
  <2> QED
    BY <2>4, <2>5, <2>6, <2>8, <2>9, <2>10, Batches, Zenon
    DEF Next, Connect, Disconnect, CloseConnection, Stop, AllowP2PMessagesFromPeer, SyncMessages,
        Ask, Submit, Announce, ExpireRequest, ReadRequest, FailSync, SendSyncResponse, ClientLoop,
        PostP2P, ProcessP2P, vars
<1>4. ASSUME NEW l \in 1 .. MaxLink, NEW x \in Range(pending[l])'
      PROVE  x.type = "event" => x.value \in answered'
  <2>1. CASE UNCHANGED pending
    BY <1>2, <2>1, Zenon DEF AnswerInv
  <2>2. CASE ReadMail
    <3>1. /\ Head(toClient).mail \in Seq(Mail) /\ link \in 1 .. MaxLink
      BY <2>2, ToClientTail, ClientPacketCases, Zenon DEF ReadMail
    <3> DEFINE batch == Head(toClient).mail
    <3>2. CASE pending' = [pending EXCEPT ![link] = Mails(batch)]
      <4>1. CASE l = link
        <5>1. pending'[l] = Mails(batch)
          BY <3>1, <3>2, <4>1, Zenon DEF MailTypes
        <5>2. Mails(batch) \in Seq(Item) /\ \A i \in 1 .. Len(Mails(batch)) : Mails(batch)[i].type = "mail"
          BY <3>1, MailsOf, Zenon
        <5> QED  BY <5>1, <5>2 DEF Range
      <4>2. CASE l # link
        BY <1>2, <3>2, <4>2, Zenon DEF MailTypes, AnswerInv
      <4> QED  BY <4>1, <4>2, Zenon
    <3> QED  BY <2>1, <2>2, <3>2, Zenon DEF ReadMail
  <2>3. CASE ReadComplete
    <3> DEFINE event == CreateMailServerEvent(Head(toClient).payload)
    <3>1. event \in {Invalid} \cup answered
      BY <2>3, HeadIsAnswer, Zenon DEF ReadComplete
    <3>2. \/ UNCHANGED pending
          \/ /\ event # Invalid
             /\ pending' = [pending EXCEPT ![link] = <<[type |-> "event", value |-> event]>>]
      BY <2>3, Zenon DEF ReadComplete
    <3> HIDE DEF event
    <3>3. CASE pending' = [pending EXCEPT ![link] = <<[type |-> "event", value |-> event]>>]
               /\ event # Invalid
      <4>1. CASE l = link
        <5>1. pending'[l] = <<[type |-> "event", value |-> event]>>
          BY <3>3, <4>1, Zenon DEF MailTypes
        <5>2. x = [type |-> "event", value |-> event]
          BY <5>1 DEF Range
        <5> QED  BY <1>1, <3>1, <3>3, <5>2, Zenon
      <4>2. CASE l # link
        BY <1>2, <3>3, <4>2, Zenon DEF MailTypes, AnswerInv
      <4> QED  BY <4>1, <4>2
    <3> QED  BY <2>1, <3>2, <3>3, Zenon
  <2>4. ASSUME NEW k \in 1 .. MaxLink, PostP2P(k)
        PROVE  x.type = "event" => x.value \in answered'
    <3>1. pending[k] \in Seq(Item) /\ pending[k] # << >>
      BY <2>4, Zenon DEF MailTypes, PostP2P
    <3>2. Head(pending[k]) \in Item
      BY <3>1, HeadAndTail, Zenon
    <3>3. Range(Tail(pending[k])) \subseteq Range(pending[k])
      BY <3>1, <3>2, Contents, Zenon
    <3>4. x \in Range(pending[l])
      BY <2>4, <3>3, Zenon DEF PostP2P, MailTypes
    <3> QED  BY <1>2, <3>4, Zenon DEF AnswerInv
  <2> QED
    BY <2>1, <2>2, <2>3, <2>4, Zenon
    DEF Next, Connect, Disconnect, CloseConnection, Stop, AllowP2PMessagesFromPeer, SyncMessages,
        Ask, Submit, Announce, ExpireRequest, ReadRequest, FailSync, SendP2PMessage, SendP2PDirect,
        SendHistoricMessageResponse, SendSyncResponse, ClientLoop, ReadSyncResponse, ProcessP2P,
        vars, loopVars
<1>5. ASSUME NEW x \in Range(p2pMsgQueue)'
      PROVE  x.type = "event" => x.value \in answered'
  <2>1. CASE UNCHANGED p2pMsgQueue
    BY <1>2, <1>5, <2>1, Zenon DEF AnswerInv
  <2>2. CASE p2pMsgQueue' = << >>
    BY <1>5, <2>2 DEF Range
  <2>3. ASSUME NEW k \in 1 .. MaxLink, PostP2P(k)
        PROVE  x.type = "event" => x.value \in answered'
    <3>1. pending[k] \in Seq(Item) /\ pending[k] # << >> /\ p2pMsgQueue \in Seq(Item)
      BY <2>3, Zenon DEF MailTypes, PostP2P
    <3>2. Head(pending[k]) \in Item
      BY <3>1, HeadAndTail, Zenon
    <3>3. Head(pending[k]) \in Range(pending[k])
      BY <3>1, <3>2, Contents, Zenon
    <3>4. Range(Append(p2pMsgQueue, Head(pending[k]))) = Range(p2pMsgQueue) \cup {Head(pending[k])}
      BY <3>1, <3>2, Contents, Zenon
    <3>5. x \in Range(p2pMsgQueue) \cup {Head(pending[k])}
      BY <1>5, <2>3, <3>4, Zenon DEF PostP2P
    <3> QED  BY <1>2, <3>3, <3>5, Zenon DEF AnswerInv
  <2>4. CASE ProcessP2P
    <3>1. p2pMsgQueue \in Seq(Item) /\ p2pMsgQueue # << >>
      BY <2>4, Zenon DEF MailTypes, ProcessP2P
    <3>2. Head(p2pMsgQueue) \in Item
      BY <3>1, HeadAndTail, Zenon
    <3>3. Range(Tail(p2pMsgQueue)) \subseteq Range(p2pMsgQueue)
      BY <3>1, <3>2, Contents, Zenon
    <3> QED  BY <1>2, <1>5, <2>4, <3>3, Zenon DEF ProcessP2P, AnswerInv
  <2> QED
    BY <2>1, <2>2, <2>3, <2>4, Zenon
    DEF Next, Connect, Disconnect, CloseConnection, Stop, AllowP2PMessagesFromPeer, SyncMessages,
        Ask, Submit, Announce, ExpireRequest, ReadRequest, FailSync, SendP2PMessage, SendP2PDirect,
        SendHistoricMessageResponse, SendSyncResponse, ClientLoop, ReadMail, ReadComplete,
        ReadSyncResponse, vars, loopVars
<1>6. concluded' \subseteq answered'
  <2>1. CASE UNCHANGED concluded
    BY <1>1, <2>1, Zenon DEF AnswerInv
  <2>2. CASE ProcessP2P
    <3>1. p2pMsgQueue \in Seq(Item) /\ p2pMsgQueue # << >>
      BY <2>2, Zenon DEF MailTypes, ProcessP2P
    <3>2. Head(p2pMsgQueue) \in Item
      BY <3>1, HeadAndTail, Zenon
    <3>3. Head(p2pMsgQueue) \in Range(p2pMsgQueue)
      BY <3>1, <3>2, Contents, Zenon
    <3>4. IsAnswer(Head(p2pMsgQueue))
      BY <3>3, Zenon DEF AnswerInv
    <3> QED  BY <1>1, <2>1, <2>2, <3>2, <3>4, ItemCases, Zenon DEF ProcessP2P, AnswerInv, IsAnswer
  <2> QED
    BY <2>1, <2>2, Zenon
    DEF Next, Connect, Disconnect, CloseConnection, Stop, AllowP2PMessagesFromPeer, SyncMessages,
        Ask, Submit, Announce, ExpireRequest, ReadRequest, FailSync, SendP2PMessage, SendP2PDirect,
        SendHistoricMessageResponse, SendSyncResponse, ClientLoop, ReadMail, ReadComplete,
        ReadSyncResponse, PostP2P, vars, events
<1> QED  BY <1>3, <1>4, <1>5, <1>6, Zenon DEF AnswerInv, IsAnswer

-----------------------------------------------------------------------------
(* What a request goes through: enough for the first two results. *)
MailServerInv == MailTypes /\ LinkInv /\ BegunInv /\ RequestInv /\ AnswerInv

LEMMA MailServerInductive == Spec => []MailServerInv
<1>1. Init => MailServerInv
  BY TypesInit, LinkInit, AnswerInit, Zenon DEF MailServerInv
<1>2. MailServerInv /\ [Next]_vars => MailServerInv'
  BY TypesNext, LinkNext, BegunNext, RequestNext, AnswerNext, Zenon DEF MailServerInv
<1> QED  BY <1>1, <1>2, PTL DEF Spec

(* The channels carry what they should, and neither p2pMsgQueue nor a wire
   ever holds more than its limit. *)
THEOREM MailServerTypes == Spec => []TypeOK
<1>1. MailServerInv => TypeOK
  <2> SUFFICES ASSUME MailServerInv, NEW l \in 1 .. MaxLink, NEW i \in DOMAIN pending[l]
               PROVE  \/ pending[l][i].type = "event"
                      \/ pending[l][i].type = "mail" /\ pending[l][i].value \in Mail
    BY Zenon DEF MailServerInv, MailTypes, TypeOK, CallState, Answer
  <2>1. pending[l] \in Seq(Item)
    BY Zenon DEF MailServerInv, MailTypes
  <2>2. pending[l][i] \in Item
    BY <2>1
  <2> QED  BY <2>2, ItemCases, Zenon
<1> QED  BY <1>1, MailServerInductive, PTL

(* Whatever the requests, answers and messages are: every completion that
   processP2P puts on the event feed is one the mail server sent, with the
   same request, error, last hash and cursor.  The payloads are told apart by
   their lengths and by the prefix of the failures. *)
THEOREM CompletionsAreAnswers == Spec => []EventIsResponse
<1>1. MailServerInv => EventIsResponse
  BY Zenon DEF MailServerInv, AnswerInv, EventIsResponse
<1> QED  BY <1>1, MailServerInductive, PTL

(* RequestHistoricMessages has announced every request of which a completion
   or the expiration of its timer is reported. *)
THEOREM RequestsAnnouncedFirst == Spec => []AnnouncedFirst
<1>1. MailServerInv => AnnouncedFirst
  <2> SUFFICES ASSUME MailServerInv, NEW r \in Request, r.kind = "historic",
                      Completed(r) \/ r \in expired
               PROVE  r \in announced
    BY Zenon DEF AnnouncedFirst
  <2>1. CASE Completed(r)
    <3>1. Answered(r)
      BY <2>1, Zenon DEF Completed, Answered, MailServerInv, AnswerInv
    <3>2. Begun(r)
      BY <3>1, Zenon DEF MailServerInv, RequestInv, Sent, Begun
    <3> QED  BY <3>2, Zenon DEF MailServerInv, BegunInv
  <2>2. CASE r \in expired
    BY <2>2, Zenon DEF MailServerInv, BegunInv
  <2> QED  BY <2>1, <2>2, Zenon
<1> QED  BY <1>1, MailServerInductive, PTL
=============================================================================
