------------------------- MODULE MailDeliveryProofs -------------------------
(***************************************************************************)
(* Proofs about MailServer, continued: what a mail server sends is in the  *)
(* hands of the client before the client hears that this was all.          *)
(***************************************************************************)
EXTENDS MailServerProofs

-----------------------------------------------------------------------------
(* Where the messages are that the server has sent for a request. *)

MailItem(m) == [type |-> "mail", value |-> m]
Concerns(x, r) == x.type = "event" /\ x.value.id = r.id
Completes(p, r) == p.code = "complete" /\ CreateMailServerEvent(p.payload).id = r.id

Held(m) == m \in delivered \/ \E j \in 1 .. Len(p2pMsgQueue) : p2pMsgQueue[j] = MailItem(m)
InLoop(m) == \E j \in 1 .. Len(pending[link]) : pending[link][j] = MailItem(m)
Wired(m, n) == \E j \in 1 .. n : toClient[j].code = "mail" /\ m \in Range(toClient[j].mail)
Underway(m, n) == Held(m) \/ InLoop(m) \/ Wired(m, n)

(* The server sends nothing for a request before it has it. *)
FreshMail ==
    \A r \in Request :
        ~ Sent(r) \/ (\E i \in 1 .. Len(toServer) : Requests(i, r)) => mailed[r] = {}

(* Messages stay ahead of the completion on every stretch of the way. *)
JobMail == \A r \in jobs : \A m \in mailed[r] : Underway(m, Len(toClient))
WireMail ==
    \A i \in 1 .. Len(toClient) : \A r \in Request : Completes(toClient[i], r) =>
        Answered(r) /\ call[r].link = link /\ \A m \in mailed[r] : Underway(m, i)
LoopMail ==
    \A l \in 1 .. MaxLink : \A i \in 1 .. Len(pending[l]) : \A r \in Request :
        Concerns(pending[l][i], r) => \A m \in mailed[r] : Held(m)
QueueMail ==
    \A i \in 1 .. Len(p2pMsgQueue) : \A r \in Request : Concerns(p2pMsgQueue[i], r) =>
        \A m \in mailed[r] : m \in delivered \/ \E j \in 1 .. i : p2pMsgQueue[j] = MailItem(m)

DeliveryInv == JobMail /\ WireMail /\ LoopMail /\ QueueMail /\ CompletedAfterDelivery

LEMMA DeliveryInit == Init => FreshMail /\ DeliveryInv
  BY DEF Init, FreshMail, DeliveryInv, JobMail, WireMail, LoopMail, QueueMail,
         CompletedAfterDelivery, Completed

LEMMA RequestsBefore ==
    ASSUME MailTypes, [Next]_vars, NEW r \in Request, NEW i \in 1 .. Len(toServer'), Requests(i, r)'
    PROVE  (\E j \in 1 .. Len(toServer) : Requests(j, r)) \/ ~ Sent(r)
<1>0. toServer \in Seq(ServerPacket) /\ Len(toServer) \in Nat
  BY DEF MailTypes
<1>1. CASE UNCHANGED toServer
  BY <1>1, Zenon DEF Requests
<1>2. CASE toServer' = << >>
  BY <1>2
<1>3. ASSUME NEW p \in ServerPacket, WriteToServer(p)
      PROVE  (\E j \in 1 .. Len(toServer) : Requests(j, r)) \/ (p.code = "request" /\ p.req = r)
  <2>1. PICK n \in Nat : n = Len(toServer)
    BY <1>0, Zenon
  <2>2. /\ Len(toServer') = n + 1 /\ toServer'[n + 1] = p
        /\ \A j \in 1 .. n : toServer'[j] = toServer[j]
    BY <1>0, <1>3, <2>1 DEF WriteToServer
  <2>3. i \in 1 .. n \/ i = n + 1
    BY <2>2
  <2> QED  BY <2>1, <2>2, <2>3, Zenon DEF Requests
<1>4. ASSUME NEW q \in Request, Submit(q)
      PROVE  (\E j \in 1 .. Len(toServer) : Requests(j, r)) \/ ~ Sent(r)
  <2> DEFINE p == [code |-> "request", req |-> q]
  <2>1. p \in ServerPacket /\ p.req = q /\ ~ Sent(q)
    BY <1>4, Zenon DEF ServerPacket, Submit, Sent
  <2>2. WriteToServer(p) \/ UNCHANGED toServer
    BY <1>4, Zenon DEF Submit
  <2> HIDE DEF p
  <2> QED  BY <1>1, <1>3, <2>1, <2>2, Zenon
<1>5. CASE SyncMessages
  <2> DEFINE p == [code |-> "sync"]
  <2>1. p \in ServerPacket /\ p.code # "request" /\ WriteToServer(p)
    BY <1>5, Zenon DEF ServerPacket, SyncMessages
  <2> HIDE DEF p
  <2> QED  BY <1>3, <2>1, Zenon
<1>6. CASE ReadRequest
  <2>1. /\ Len(toServer') = Len(toServer) - 1
        /\ \A j \in 1 .. Len(toServer') : toServer'[j] = toServer[j + 1]
    BY <1>0, <1>6 DEF ReadRequest
  <2>2. i + 1 \in 1 .. Len(toServer)
    BY <1>0, <2>1
  <2> QED  BY <2>1, <2>2, Zenon DEF Requests
<1> QED
  BY <1>1, <1>2, <1>4, <1>5, <1>6, Zenon
  DEF Next, Connect, Disconnect, CloseConnection, Stop, AllowP2PMessagesFromPeer, Ask, Announce,
      ExpireRequest, FailSync, SendP2PMessage, SendP2PDirect, SendHistoricMessageResponse,
      SendSyncResponse, ClientLoop, ReadMail, ReadComplete, ReadSyncResponse, PostP2P, ProcessP2P,
      vars

LEMMA FreshNext ==
    ASSUME MailTypes, RequestInv, FreshMail, [Next]_vars
    PROVE  FreshMail'
<1> SUFFICES ASSUME NEW r \in Request,
                    ~ Sent(r)' \/ \E i \in 1 .. Len(toServer') : Requests(i, r)'
             PROVE  mailed'[r] = {}
  BY Zenon DEF FreshMail
<1>1. ~ Sent(r) \/ \E i \in 1 .. Len(toServer) : Requests(i, r)
  BY SentStays, RequestsBefore, Zenon
<1>2. mailed[r] = {} /\ r \notin jobs
  BY <1>1, Zenon DEF FreshMail, RequestInv
<1>3. CASE UNCHANGED mailed
  BY <1>2, <1>3, Zenon
<1>4. ASSUME NEW q \in Request, NEW batch, SendP2PDirect(q, batch)
      PROVE  mailed'[r] = {}
  BY <1>2, <1>4, Zenon DEF SendP2PDirect, MailTypes
<1> QED
  BY <1>3, <1>4, Zenon
  DEF Next, Connect, Disconnect, CloseConnection, Stop, AllowP2PMessagesFromPeer, SyncMessages, Ask,
      Submit, Announce, ExpireRequest, ReadRequest, FailSync, SendP2PMessage,
      SendHistoricMessageResponse, SendSyncResponse, ClientLoop, ReadMail, ReadComplete,
      ReadSyncResponse, PostP2P, ProcessP2P, vars, serverVars

(* No completion of a request that was not answered is anywhere. *)
LEMMA Unanswered ==
    ASSUME MailServerInv, DeliveryInv, NEW r \in Request, ~ Answered(r)
    PROVE  /\ \A i \in 1 .. Len(toClient) : ~ Completes(toClient[i], r)
           /\ \A l \in 1 .. MaxLink : \A i \in 1 .. Len(pending[l]) : ~ Concerns(pending[l][i], r)
           /\ \A i \in 1 .. Len(p2pMsgQueue) : ~ Concerns(p2pMsgQueue[i], r)
           /\ ~ Completed(r)
<1>1. \A i \in 1 .. Len(toClient) : ~ Completes(toClient[i], r)
  BY Zenon DEF DeliveryInv, WireMail
<1>2. \A x : IsAnswer(x) => ~ Concerns(x, r)
  BY Zenon DEF IsAnswer, Concerns, Answered
<1>3. ASSUME NEW l \in 1 .. MaxLink, NEW i \in 1 .. Len(pending[l])
      PROVE  ~ Concerns(pending[l][i], r)
  <2>1. pending[l] \in Seq(Item)
    BY Zenon DEF MailServerInv, MailTypes
  <2>2. pending[l][i] \in Range(pending[l])
    BY <2>1 DEF Range
  <2> QED  BY <1>2, <2>2, Zenon DEF MailServerInv, AnswerInv
<1>4. ASSUME NEW i \in 1 .. Len(p2pMsgQueue)
      PROVE  ~ Concerns(p2pMsgQueue[i], r)
  <2>1. p2pMsgQueue \in Seq(Item)
    BY Zenon DEF MailServerInv, MailTypes
  <2>2. p2pMsgQueue[i] \in Range(p2pMsgQueue)
    BY <2>1 DEF Range
  <2> QED  BY <1>2, <2>2, Zenon DEF MailServerInv, AnswerInv
<1>5. ~ Completed(r)
  BY Zenon DEF Completed, Answered, MailServerInv, AnswerInv
<1> QED  BY <1>1, <1>3, <1>4, <1>5, Zenon

(* The client trusts the peer as long as a request to it is worked on or its
   completion is underway. *)
LEMMA AskedIsTrusted ==
    ASSUME MailServerInv, conn # "down", NEW r \in Request, Sent(r), call[r].link = link
    PROVE  trusted
  BY Zenon DEF MailServerInv, LinkInv, Begun, Sent

(* Calls, the server's reading and the stop of the node. *)
LEMMA DeliveryQuiet ==
    ASSUME MailServerInv, FreshMail, DeliveryInv, [Next]_vars,
           UNCHANGED <<toClient, pending, p2pMsgQueue, delivered, concluded, mailed, link, answered>>,
           \A r \in jobs' : r \in jobs \/ mailed[r] = {}
    PROVE  DeliveryInv'
<1>1. \A m, n : Underway(m, n)' <=> Underway(m, n)
  BY Zenon DEF Underway, Held, InLoop, Wired
<1>2. \A r \in Request : (Answered(r)' <=> Answered(r)) /\ (Answered(r) => call'[r].link = call[r].link)
  BY SentStays, Zenon DEF Answered, MailServerInv, RequestInv
<1>3. JobMail'
  BY <1>1, Zenon DEF DeliveryInv, JobMail
<1>4. WireMail'
  BY <1>1, <1>2, Zenon DEF DeliveryInv, WireMail
<1>5. LoopMail' /\ QueueMail' /\ CompletedAfterDelivery'
  BY DEF DeliveryInv, LoopMail, QueueMail, CompletedAfterDelivery, Held, Completed
<1> QED  BY <1>3, <1>4, <1>5, Zenon DEF DeliveryInv

(* The connection begins or ends with nothing on its way. *)
LEMMA DeliveryReset ==
    ASSUME DeliveryInv, toClient' = << >>, jobs' = {},
           UNCHANGED <<pending, p2pMsgQueue, delivered, concluded, mailed>>
    PROVE  DeliveryInv'
<1>1. JobMail' /\ WireMail'
  BY DEF JobMail, WireMail
<1>2. LoopMail' /\ QueueMail' /\ CompletedAfterDelivery'
  BY DEF DeliveryInv, LoopMail, QueueMail, CompletedAfterDelivery, Held, Completed
<1> QED  BY <1>1, <1>2, Zenon DEF DeliveryInv

(* The server writes packet p, for a request it works on. *)
LEMMA DeliverySend ==
    ASSUME MailServerInv, DeliveryInv, NEW p \in ClientPacket, WriteToClient(p),
           UNCHANGED <<pending, p2pMsgQueue, delivered, concluded, link, call>>,
           jobs' \subseteq jobs, answered \subseteq answered',
           \A r \in Request : \A m \in mailed'[r] :
              m \in mailed[r] \/ (r \in jobs /\ p.code = "mail" /\ m \in Range(p.mail)),
           \A r \in Request : Completes(p, r) => r \in jobs /\ mailed' = mailed /\ Answered(r)'
    PROVE  DeliveryInv'
<1>0. toClient \in Seq(ClientPacket) /\ Len(toClient) \in Nat
  BY DEF MailServerInv, MailTypes
<1>1. PICK n \in Nat : n = Len(toClient)
  BY <1>0, Zenon
<1>2. /\ Len(toClient') = n + 1 /\ toClient'[n + 1] = p
      /\ \A i \in 1 .. n : toClient'[i] = toClient[i]
  BY <1>0, <1>1 DEF WriteToClient
<1>3. /\ \A i \in 1 .. Len(toClient') : i \in 1 .. n \/ i = n + 1
      /\ \A i \in 1 .. n : \A j \in 1 .. i : j \in 1 .. n
      /\ 1 .. n \subseteq 1 .. n + 1 /\ n + 1 \in 1 .. n + 1
  BY <1>1, <1>2
<1>4. \A m : Held(m)' <=> Held(m)
  BY Zenon DEF Held
<1>5. \A m : \A k \in 1 .. n : Underway(m, k) => Underway(m, k)'
  BY <1>2, <1>3, <1>4, Zenon DEF Underway, InLoop, Wired
<1>6. \A m : Underway(m, n) => Underway(m, n + 1)'
  BY <1>2, <1>3, <1>4, Zenon DEF Underway, InLoop, Wired
<1>7. \A r \in Request : Answered(r) => Answered(r)' /\ \A m \in mailed'[r] : m \in mailed[r]
  BY Zenon DEF Answered, MailServerInv, RequestInv
<1>8. JobMail'
  <2> SUFFICES ASSUME NEW r \in jobs', NEW m \in mailed'[r]
               PROVE  Underway(m, n + 1)'
    BY <1>2, Zenon DEF JobMail
  <2>1. r \in jobs /\ r \in Request
    BY Zenon DEF MailServerInv, MailTypes
  <2>2. CASE m \in mailed[r]
    BY <1>1, <1>6, <2>1, <2>2, Zenon DEF DeliveryInv, JobMail
  <2>3. CASE p.code = "mail" /\ m \in Range(p.mail)
    BY <1>2, <1>3, <2>3, Zenon DEF Underway, Wired
  <2> QED  BY <2>1, <2>2, <2>3, Zenon
<1>9. WireMail'
  <2> SUFFICES ASSUME NEW i \in 1 .. Len(toClient'), NEW r \in Request, Completes(toClient'[i], r)
               PROVE  /\ Answered(r)' /\ call'[r].link = link'
                      /\ \A m \in mailed'[r] : Underway(m, i)'
    BY Zenon DEF WireMail, Completes
  <2>1. CASE i \in 1 .. n
    <3>1. Completes(toClient[i], r)
      BY <1>2, <2>1, Zenon
    <3>2. Answered(r) /\ call[r].link = link /\ \A m \in mailed[r] : Underway(m, i)
      BY <1>1, <2>1, <3>1, Zenon DEF DeliveryInv, WireMail
    <3> QED  BY <1>5, <1>7, <2>1, <3>2, Zenon
  <2>2. CASE i = n + 1
    <3>1. r \in jobs /\ mailed' = mailed /\ Answered(r)'
      BY <1>2, <2>2, Zenon
    <3>2. call[r].link = link
      BY <3>1, Zenon DEF MailServerInv, RequestInv
    <3>3. \A m \in mailed[r] : Underway(m, n)
      BY <1>1, <3>1, Zenon DEF DeliveryInv, JobMail
    <3> QED  BY <1>6, <2>2, <3>1, <3>2, <3>3, Zenon
  <2> QED  BY <1>3, <2>1, <2>2, Zenon
<1>10. LoopMail'
  <2> SUFFICES ASSUME NEW l \in 1 .. MaxLink, NEW i \in 1 .. Len(pending[l]), NEW r \in Request,
                      Concerns(pending[l][i], r), NEW m \in mailed'[r]
               PROVE  Held(m)
    BY <1>4, Zenon DEF LoopMail, Concerns
  <2>1. Answered(r)
    BY Unanswered, Zenon
  <2> QED  BY <1>7, <2>1, Zenon DEF DeliveryInv, LoopMail
<1>11. QueueMail'
  <2> SUFFICES ASSUME NEW i \in 1 .. Len(p2pMsgQueue), NEW r \in Request,
                      Concerns(p2pMsgQueue[i], r), NEW m \in mailed'[r]
               PROVE  m \in delivered \/ \E j \in 1 .. i : p2pMsgQueue[j] = MailItem(m)
    BY Zenon DEF QueueMail, Concerns
  <2>1. Answered(r)
    BY Unanswered, Zenon
  <2> QED  BY <1>7, <2>1, Zenon DEF DeliveryInv, QueueMail
<1>12. CompletedAfterDelivery'
  <2> SUFFICES ASSUME NEW r \in Request, Completed(r), NEW m \in mailed'[r]
               PROVE  m \in delivered
    BY Zenon DEF CompletedAfterDelivery, Completed
  <2>1. Answered(r)
    BY Unanswered, Zenon
  <2> QED  BY <1>7, <2>1, Zenon DEF DeliveryInv, CompletedAfterDelivery
<1> QED  BY <1>8, <1>9, <1>10, <1>11, <1>12, Zenon DEF DeliveryInv

(* The client's message loop takes a packet. *)
LEMMA DeliveryRead ==
    ASSUME MailServerInv, DeliveryInv, conn # "down", toClient # << >>, pending[link] = << >>,
           toClient' = Tail(toClient),
           UNCHANGED <<p2pMsgQueue, delivered, concluded, link, jobs, mailed, answered, call>>,
           trusted /\ Head(toClient).code = "mail" => \A m \in Range(Head(toClient).mail) : InLoop(m)',
           \A l \in 1 .. MaxLink : l # link => pending'[l] = pending[l],
           \A i \in 1 .. Len(pending'[link]) : \A r \in Request :
              Concerns(pending'[link][i], r) => Completes(Head(toClient), r)
    PROVE  DeliveryInv'
<1>0. toClient \in Seq(ClientPacket) /\ Len(toClient) \in Nat
  BY DEF MailServerInv, MailTypes
<1>1. PICK n \in Nat : n + 1 = Len(toClient)
  <2>1. Len(toClient) - 1 \in Nat /\ (Len(toClient) - 1) + 1 = Len(toClient)
    BY <1>0
  <2> QED  BY <2>1, Zenon
<1>2. /\ Len(toClient') = n /\ Head(toClient) = toClient[1]
      /\ \A i \in 1 .. n : toClient'[i] = toClient[i + 1]
  BY <1>0, <1>1
<1>3. /\ \A i \in 1 .. n : i + 1 \in 1 .. Len(toClient)
      /\ \A i \in 0 .. n : \A j \in 1 .. i + 1 : j = 1 \/ (j - 1 \in 1 .. i /\ (j - 1) + 1 = j)
      /\ \A i \in 0 .. n : \A j \in 1 .. i : j \in 1 .. n
      /\ n \in 0 .. n /\ \A i \in 1 .. n : i \in 0 .. n
      /\ 1 \in 1 .. Len(toClient)
  BY <1>1
<1>4. \A m : Held(m)' <=> Held(m)
  BY Zenon DEF Held
<1>5. \A m : ~ InLoop(m)
  BY DEF InLoop
<1>6. ASSUME NEW m, NEW i \in 0 .. n, trusted, Underway(m, i + 1)
      PROVE  Underway(m, i)'
  <2>1. CASE Held(m)
    BY <1>4, <2>1, Zenon DEF Underway
  <2>2. CASE Wired(m, i + 1)
    <3>1. PICK j \in 1 .. i + 1 : toClient[j].code = "mail" /\ m \in Range(toClient[j].mail)
      BY <2>2, Zenon DEF Wired
    <3>2. CASE j = 1
      BY <1>2, <1>6, <3>1, <3>2, Zenon DEF Underway
    <3>3. CASE j - 1 \in 1 .. i /\ (j - 1) + 1 = j
      <4>1. toClient'[j - 1] = toClient[j]
        BY <1>2, <1>3, <3>3, Zenon
      <4> QED  BY <3>1, <3>3, <4>1, Zenon DEF Underway, Wired
    <3> QED  BY <1>3, <3>2, <3>3, Zenon
  <2> QED  BY <1>5, <1>6, <2>1, <2>2, Zenon DEF Underway
<1>7. JobMail'
  <2> SUFFICES ASSUME NEW r \in jobs, NEW m \in mailed[r]
               PROVE  Underway(m, n)'
    BY <1>2, Zenon DEF JobMail
  <2>1. r \in Request /\ Sent(r) /\ call[r].link = link
    BY Zenon DEF MailServerInv, MailTypes, RequestInv
  <2>2. trusted
    BY <2>1, AskedIsTrusted, Zenon
  <2>3. Underway(m, n + 1)
    BY <1>1, Zenon DEF DeliveryInv, JobMail
  <2> QED  BY <1>3, <1>6, <2>2, <2>3, Zenon
<1>8. WireMail'
  <2> SUFFICES ASSUME NEW i \in 1 .. n, NEW r \in Request, Completes(toClient'[i], r)
               PROVE  Answered(r)' /\ call'[r].link = link' /\ \A m \in mailed'[r] : Underway(m, i)'
    BY <1>2, Zenon DEF WireMail, Completes
  <2>1. Answered(r) /\ call[r].link = link /\ \A m \in mailed[r] : Underway(m, i + 1)
    BY <1>2, <1>3, Zenon DEF DeliveryInv, WireMail
  <2>2. trusted
    BY <2>1, AskedIsTrusted, Zenon DEF MailServerInv, RequestInv
  <2> QED  BY <1>3, <1>6, <2>1, <2>2, Zenon DEF Answered
<1>9. LoopMail'
  <2> SUFFICES ASSUME NEW l \in 1 .. MaxLink, NEW i \in 1 .. Len(pending'[l]), NEW r \in Request,
                      Concerns(pending'[l][i], r), NEW m \in mailed[r]
               PROVE  Held(m)
    BY <1>4, Zenon DEF LoopMail, Concerns
  <2>1. CASE l # link
    BY <2>1, Zenon DEF DeliveryInv, LoopMail
  <2>2. CASE l = link
    <3>1. Completes(toClient[1], r)
      BY <1>2, <2>2, Zenon
    <3>2. Underway(m, 1)
      BY <1>3, <3>1, Zenon DEF DeliveryInv, WireMail
    <3>3. ~ Wired(m, 1)
      BY <3>1 DEF Wired, Completes
    <3> QED  BY <1>5, <3>2, <3>3, Zenon DEF Underway
  <2> QED  BY <2>1, <2>2, Zenon
<1>10. QueueMail' /\ CompletedAfterDelivery'
  BY DEF DeliveryInv, QueueMail, CompletedAfterDelivery, Completed
<1> QED  BY <1>7, <1>8, <1>9, <1>10, Zenon DEF DeliveryInv

(* postP2P: whatever the item is, it keeps its place behind the others. *)
LEMMA DeliveryPost ==
    ASSUME MailServerInv, DeliveryInv, NEW k \in 1 .. MaxLink, PostP2P(k)
    PROVE  DeliveryInv'
<1>0. /\ pending \in [1 .. MaxLink -> Seq(Item)] /\ pending[k] \in Seq(Item) /\ pending[k] # << >>
      /\ p2pMsgQueue \in Seq(Item) /\ Len(p2pMsgQueue) \in Nat /\ Len(pending[k]) \in Nat
      /\ UNCHANGED <<toClient, delivered, concluded, link, jobs, mailed, answered, call>>
  BY DEF PostP2P, MailServerInv, MailTypes, connVars, clientVars, serverVars, events
<1>1. PICK q \in Nat : q = Len(p2pMsgQueue)
  BY <1>0, Zenon
<1>2. PICK x : x = pending[k][1]
  BY Zenon
<1>3. /\ Len(p2pMsgQueue') = q + 1 /\ p2pMsgQueue'[q + 1] = x
      /\ \A j \in 1 .. q : p2pMsgQueue'[j] = p2pMsgQueue[j]
  BY <1>0, <1>1, <1>2 DEF PostP2P
<1>4. /\ \A l \in 1 .. MaxLink : l # k => pending'[l] = pending[l]
      /\ pending'[k] = Tail(pending[k])
  BY <1>0, Zenon DEF PostP2P
<1>5. /\ Len(pending'[k]) = Len(pending[k]) - 1 /\ 1 \in 1 .. Len(pending[k])
      /\ \A j \in 1 .. Len(pending'[k]) : pending'[k][j] = pending[k][j + 1]
  BY <1>0, <1>4
<1>6. /\ \A j \in 1 .. Len(pending'[k]) : j + 1 \in 1 .. Len(pending[k])
      /\ \A j \in 1 .. Len(pending[k]) :
            j = 1 \/ (j - 1 \in 1 .. Len(pending'[k]) /\ (j - 1) + 1 = j)
  BY <1>0, <1>5
<1>7. 1 .. q \subseteq 1 .. q + 1 /\ q + 1 \in 1 .. q + 1
      /\ \A j \in 1 .. q + 1 : j \in 1 .. q \/ j = q + 1
  BY <1>1
<1>8. \A m : Held(m) => Held(m)'
  BY <1>0, <1>1, <1>3, <1>7, Zenon DEF Held
<1>9. ASSUME NEW m, InLoop(m), link \in 1 .. MaxLink
      PROVE  InLoop(m)' \/ Held(m)'
  <2>1. PICK j \in 1 .. Len(pending[link]) : pending[link][j] = MailItem(m)
    BY <1>9, Zenon DEF InLoop
  <2>2. CASE link # k
    BY <1>0, <1>4, <1>9, <2>1, <2>2, Zenon DEF InLoop
  <2>3. CASE link = k /\ j = 1
    BY <1>2, <1>3, <1>7, <2>1, <2>3, Zenon DEF Held
  <2>4. CASE link = k /\ j - 1 \in 1 .. Len(pending'[k]) /\ (j - 1) + 1 = j
    <3>1. pending'[k][j - 1] = MailItem(m)
      BY <1>5, <2>1, <2>4, Zenon
    <3> QED  BY <1>0, <2>4, <3>1, Zenon DEF InLoop
  <2> QED  BY <1>6, <2>1, <2>2, <2>3, <2>4, Zenon
<1>10. ASSUME link \in 1 .. MaxLink
       PROVE  \A m, n : Underway(m, n) => Underway(m, n)'
  BY <1>0, <1>8, <1>9, <1>10, Zenon DEF Underway, Wired
<1>11. link \in 1 .. MaxLink \/ (jobs = {} /\ toClient = << >>)
  BY Zenon DEF MailServerInv, MailTypes, LinkInv
<1>12. JobMail'
  BY <1>0, <1>10, <1>11, Zenon DEF DeliveryInv, JobMail
<1>13. WireMail'
  <2> SUFFICES ASSUME NEW i \in 1 .. Len(toClient), NEW r \in Request, Completes(toClient[i], r)
               PROVE  Answered(r)' /\ call'[r].link = link' /\ \A m \in mailed'[r] : Underway(m, i)'
    BY <1>0, Zenon DEF WireMail, Completes
  <2>1. Answered(r) /\ call[r].link = link /\ \A m \in mailed[r] : Underway(m, i)
    BY Zenon DEF DeliveryInv, WireMail
  <2>2. link \in 1 .. MaxLink
    BY <1>11
  <2> QED  BY <1>0, <1>10, <2>1, <2>2, Zenon DEF Answered
<1>14. LoopMail'
  <2> SUFFICES ASSUME NEW l \in 1 .. MaxLink, NEW i \in 1 .. Len(pending'[l]), NEW r \in Request,
                      Concerns(pending'[l][i], r), NEW m \in mailed[r]
               PROVE  Held(m)
    BY <1>0, <1>8, Zenon DEF LoopMail, Concerns
  <2>1. CASE l # k
    BY <1>4, <2>1, Zenon DEF DeliveryInv, LoopMail
  <2>2. CASE l = k
    BY <1>5, <1>6, <2>2, Zenon DEF DeliveryInv, LoopMail
  <2> QED  BY <2>1, <2>2, Zenon
<1>15. QueueMail'
  <2> SUFFICES ASSUME NEW i \in 1 .. q + 1, NEW r \in Request,
                      Concerns(p2pMsgQueue'[i], r), NEW m \in mailed[r]
               PROVE  m \in delivered \/ \E j \in 1 .. i : p2pMsgQueue'[j] = MailItem(m)
    BY <1>0, <1>3, Zenon DEF QueueMail, Concerns
  <2>1. CASE i \in 1 .. q
    <3>1. m \in delivered \/ \E j \in 1 .. i : p2pMsgQueue[j] = MailItem(m)
      BY <1>1, <1>3, <2>1, Zenon DEF DeliveryInv, QueueMail
    <3>2. \A j \in 1 .. i : j \in 1 .. q
      BY <2>1
    <3> QED  BY <1>3, <3>1, <3>2, Zenon
  <2>2. CASE i = q + 1
    <3>1. Concerns(pending[k][1], r)
      BY <1>2, <1>3, <2>2, Zenon
    <3>2. Held(m)
      BY <1>5, <3>1, Zenon DEF DeliveryInv, LoopMail
    <3> QED  BY <1>1, <1>3, <1>7, <2>2, <3>2, Zenon DEF Held
  <2> QED  BY <1>7, <2>1, <2>2, Zenon
<1>16. CompletedAfterDelivery'
  BY <1>0, Zenon DEF DeliveryInv, CompletedAfterDelivery, Completed
<1> QED  BY <1>12, <1>13, <1>14, <1>15, <1>16, Zenon DEF DeliveryInv

(* processP2P takes the oldest item. *)
LEMMA DeliveryProcess ==
    ASSUME MailServerInv, DeliveryInv, ProcessP2P
    PROVE  DeliveryInv'
<1>0. /\ p2pMsgQueue \in Seq(Item) /\ p2pMsgQueue # << >> /\ Len(p2pMsgQueue) \in Nat
      /\ UNCHANGED <<toClient, pending, link, jobs, mailed, answered, call>>
  BY DEF ProcessP2P, MailServerInv, MailTypes, connVars, clientVars, serverVars
<1>1. PICK q \in Nat : q + 1 = Len(p2pMsgQueue)
  <2>1. Len(p2pMsgQueue) - 1 \in Nat /\ (Len(p2pMsgQueue) - 1) + 1 = Len(p2pMsgQueue)
    BY <1>0
  <2> QED  BY <2>1, Zenon
<1>2. PICK x : x = p2pMsgQueue[1]
  BY Zenon
<1>3. /\ Len(p2pMsgQueue') = q /\ \A j \in 1 .. q : p2pMsgQueue'[j] = p2pMsgQueue[j + 1]
      /\ \/ x.type = "mail" /\ delivered' = delivered \cup {x.value} /\ concluded' = concluded
         \/ x.type = "event" /\ concluded' = concluded \cup {x.value} /\ delivered' = delivered
  BY <1>0, <1>1, <1>2 DEF ProcessP2P
<1>4. /\ 1 \in 1 .. q + 1 /\ \A i \in 1 .. q : i + 1 \in 1 .. q + 1
      /\ \A i \in 0 .. q : \A j \in 1 .. i + 1 : j = 1 \/ (j - 1 \in 1 .. i /\ (j - 1) + 1 = j)
      /\ \A i \in 0 .. q : \A j \in 1 .. i : j \in 1 .. q
      /\ q \in 0 .. q /\ \A i \in 1 .. q : i \in 0 .. q
  BY <1>1
<1>5. ASSUME NEW m, NEW i \in 0 .. q,
             m \in delivered \/ \E j \in 1 .. i + 1 : p2pMsgQueue[j] = MailItem(m)
      PROVE  m \in delivered' \/ \E j \in 1 .. i : p2pMsgQueue'[j] = MailItem(m)
  <2>1. CASE m \in delivered
    BY <1>3, <2>1, Zenon
  <2>2. ASSUME NEW j \in 1 .. i + 1, p2pMsgQueue[j] = MailItem(m)
        PROVE  m \in delivered' \/ \E h \in 1 .. i : p2pMsgQueue'[h] = MailItem(m)
    <3>1. CASE j = 1
      <4>1. x.type = "mail" /\ x.value = m
        BY <1>2, <2>2, <3>1 DEF MailItem
      <4> QED  BY <1>3, <4>1, Zenon
    <3>2. CASE j - 1 \in 1 .. i /\ (j - 1) + 1 = j
      BY <1>3, <1>4, <2>2, <3>2, Zenon
    <3> QED  BY <1>4, <3>1, <3>2, Zenon
  <2> QED  BY <1>5, <2>1, <2>2, Zenon
<1>6. \A m : Held(m) => Held(m)'
  BY <1>1, <1>3, <1>4, <1>5, Zenon DEF Held
<1>7. \A m, n : Underway(m, n) => Underway(m, n)'
  BY <1>0, <1>6, Zenon DEF Underway, InLoop, Wired
<1>8. JobMail'
  BY <1>0, <1>7, Zenon DEF DeliveryInv, JobMail
<1>9. WireMail'
  BY <1>0, <1>7, Zenon DEF DeliveryInv, WireMail, Answered, Completes
<1>10. LoopMail'
  BY <1>0, <1>6, Zenon DEF DeliveryInv, LoopMail, Concerns
<1>11. QueueMail'
  <2> SUFFICES ASSUME NEW i \in 1 .. q, NEW r \in Request, Concerns(p2pMsgQueue'[i], r),
                      NEW m \in mailed[r]
               PROVE  m \in delivered' \/ \E j \in 1 .. i : p2pMsgQueue'[j] = MailItem(m)
    BY <1>0, <1>3, Zenon DEF QueueMail, Concerns
  <2>1. m \in delivered \/ \E j \in 1 .. i + 1 : p2pMsgQueue[j] = MailItem(m)
    BY <1>1, <1>3, <1>4, Zenon DEF DeliveryInv, QueueMail
  <2> QED  BY <1>4, <1>5, <2>1, Zenon
<1>12. CompletedAfterDelivery'
  <2> SUFFICES ASSUME NEW r \in Request, Completed(r)', NEW m \in mailed[r]
               PROVE  m \in delivered'
    BY <1>0, Zenon DEF CompletedAfterDelivery, Completed
  <2>1. CASE Completed(r)
    BY <1>3, <2>1, Zenon DEF DeliveryInv, CompletedAfterDelivery
  <2>2. CASE Concerns(p2pMsgQueue[1], r)
    <3>1. m \in delivered \/ \E j \in 1 .. 1 : p2pMsgQueue[j] = MailItem(m)
      BY <1>1, <1>4, <2>2, Zenon DEF DeliveryInv, QueueMail
    <3>2. p2pMsgQueue[1] # MailItem(m)
      BY <2>2 DEF Concerns, MailItem
    <3> QED  BY <1>3, <3>1, <3>2
  <2>3. Completed(r) \/ Concerns(p2pMsgQueue[1], r)
    BY <1>2, <1>3, Zenon DEF Completed, Concerns
  <2> QED  BY <2>1, <2>2, <2>3, Zenon
<1> QED  BY <1>8, <1>9, <1>10, <1>11, <1>12, Zenon DEF DeliveryInv

(* The steps of the server that write to the client. *)
LEMMA DeliveryServer ==
    ASSUME MailServerInv, DeliveryInv,
           \/ FailSync
           \/ \E batch \in Seq(Mail) : SendP2PMessage(batch) \/ \E r \in Request : SendP2PDirect(r, batch)
           \/ \E r \in Request, a \in Response : SendHistoricMessageResponse(r, a)
           \/ \E batch \in Seq(Mail), final \in BOOLEAN : SendSyncResponse(batch, final)
    PROVE  DeliveryInv'
<1> USE DEF connVars, clientVars, serverVars, loopVars, events
<1>1. ASSUME NEW p \in ClientPacket, WriteToClient(p), p.code # "complete",
             UNCHANGED <<pending, p2pMsgQueue, delivered, concluded, link, call, jobs, answered, mailed>>
      PROVE  DeliveryInv'
  BY <1>1, DeliverySend, Zenon DEF Completes
<1>2. ASSUME NEW batch \in Seq(Mail), NEW final \in BOOLEAN,
             SendSyncResponse(batch, final) \/ (FailSync /\ batch = << >> /\ final = TRUE)
      PROVE  DeliveryInv'
  <2> DEFINE p == [code |-> "sync", mail |-> batch, final |-> final]
  <2>1. p \in ClientPacket /\ p.code # "complete" /\ WriteToClient(p)
    BY <1>2, ClientPacketTypes, Zenon DEF SendSyncResponse, FailSync
  <2>2. UNCHANGED <<pending, p2pMsgQueue, delivered, concluded, link, call, jobs, answered, mailed>>
    BY <1>2, Zenon DEF SendSyncResponse, FailSync
  <2> HIDE DEF p
  <2> QED  BY <1>1, <2>1, <2>2, Zenon
<1>3. ASSUME NEW batch \in Seq(Mail), SendP2PMessage(batch)
      PROVE  DeliveryInv'
  <2> DEFINE p == [code |-> "mail", mail |-> batch]
  <2>1. p \in ClientPacket /\ p.code # "complete" /\ WriteToClient(p)
    BY <1>3, ClientPacketTypes, Zenon DEF SendP2PMessage
  <2>2. UNCHANGED <<pending, p2pMsgQueue, delivered, concluded, link, call, jobs, answered, mailed>>
    BY <1>3, Zenon DEF SendP2PMessage
  <2> HIDE DEF p
  <2> QED  BY <1>1, <2>1, <2>2, Zenon
<1>4. ASSUME NEW batch \in Seq(Mail), NEW r \in Request, SendP2PDirect(r, batch)
      PROVE  DeliveryInv'
  <2> DEFINE p == [code |-> "mail", mail |-> batch]
  <2>1. /\ p \in ClientPacket /\ p.code = "mail" /\ p.mail = batch /\ WriteToClient(p)
    BY <1>4, ClientPacketTypes, Zenon DEF SendP2PDirect
  <2>2. /\ UNCHANGED <<pending, p2pMsgQueue, delivered, concluded, link, call, jobs, answered>>
        /\ r \in jobs /\ mailed' = [mailed EXCEPT ![r] = @ \cup Range(batch)]
    BY <1>4, Zenon DEF SendP2PDirect
  <2> HIDE DEF p
  <2>3. \A q \in Request : \A m \in mailed'[q] :
           m \in mailed[q] \/ (q \in jobs /\ p.code = "mail" /\ m \in Range(p.mail))
    BY <2>1, <2>2, Zenon DEF MailServerInv, MailTypes
  <2>4. \A q \in Request : ~ Completes(p, q)
    BY <2>1, Zenon DEF Completes
  <2> QED  BY <2>1, <2>2, <2>3, <2>4, DeliverySend, Zenon
<1>5. ASSUME NEW r \in Request, NEW a \in Response, SendHistoricMessageResponse(r, a)
      PROVE  DeliveryInv'
  <2> DEFINE p == [code |-> "complete", payload |-> Payload(r.id, a.result)]
  <2>1. /\ UNCHANGED <<pending, p2pMsgQueue, delivered, concluded, link, call, mailed>>
        /\ r \in jobs /\ a.id = r.id /\ jobs' \subseteq jobs /\ answered' = answered \cup {a}
        /\ WriteToClient(p)
    BY <1>5, Zenon DEF SendHistoricMessageResponse
  <2>2. p \in ClientPacket /\ p.code = "complete" /\ p.payload = Payload(a.id, a.result)
    BY <2>1, Zenon DEF ClientPacket, CompletePacket, Answer
  <2> HIDE DEF p
  <2>3. CreateMailServerEvent(p.payload) \in {Invalid, a}
    BY <2>1, <2>2, EventOfPayload, Zenon
  <2>4. ASSUME NEW q \in Request, Completes(p, q)
        PROVE  q = r
    <3>1. Invalid.id # q.id
      BY RequestAssumption, LengthAssumption, Zenon DEF Invalid
    <3>2. a.id = q.id
      BY <2>3, <2>4, <3>1, Zenon DEF Completes
    <3> QED  BY <2>1, <3>2, RequestAssumption, Zenon
  <2>5. \A q \in Request : Completes(p, q) => q \in jobs /\ mailed' = mailed /\ Answered(q)'
    BY <2>1, <2>4, Zenon DEF Answered
  <2> QED  BY <2>1, <2>2, <2>5, DeliverySend, Zenon
<1>6. CASE FailSync
  BY <1>2, <1>6, Batches, Zenon
<1> QED  BY <1>2, <1>3, <1>4, <1>5, <1>6, Zenon

(* The steps of the client's message loop. *)
LEMMA DeliveryLoop ==
    ASSUME MailServerInv, DeliveryInv, ReadMail \/ ReadComplete \/ ReadSyncResponse
    PROVE  DeliveryInv'
<1> USE DEF connVars, clientVars, serverVars, loopVars, events
<1>1. /\ conn # "down" /\ toClient # << >> /\ pending[link] = << >> /\ link \in 1 .. MaxLink
      /\ pending \in [1 .. MaxLink -> Seq(Item)] /\ Head(toClient) \in ClientPacket
  BY ToClientTail, Zenon DEF ReadMail, ReadComplete, ReadSyncResponse, Reading, MailServerInv, MailTypes
<1>2. CASE ReadMail
  <2>1. /\ toClient' = Tail(toClient) /\ Head(toClient).code = "mail"
        /\ UNCHANGED <<p2pMsgQueue, delivered, concluded, link, jobs, mailed, answered, call>>
    BY <1>2, Zenon DEF ReadMail, Reading
  <2>2. Head(toClient).mail \in Seq(Mail)
    BY <1>1, <2>1, ClientPacketCases, Zenon
  <2> DEFINE batch == Head(toClient).mail
  <2>3. CASE ~ trusted
    <3>1. pending' = pending
      BY <1>2, <2>3, Zenon DEF ReadMail
    <3>2. Len(pending'[link]) = 0
      BY <1>1, <3>1, Zenon
    <3> QED  BY <1>1, <2>1, <2>3, <3>1, <3>2, DeliveryRead
  <2>4. CASE trusted
    <3>1. /\ pending'[link] = Mails(batch)
          /\ \A l \in 1 .. MaxLink : l # link => pending'[l] = pending[l]
      BY <1>1, <1>2, <2>4, Zenon DEF ReadMail
    <3>2. /\ \A i \in 1 .. Len(Mails(batch)) : Mails(batch)[i].type = "mail"
          /\ \A m \in Range(Head(toClient).mail) : \E i \in 1 .. Len(Mails(batch)) :
                Mails(batch)[i] = [type |-> "mail", value |-> m]
      BY <2>2, MailsOf, Zenon
    <3>3. \A m \in Range(Head(toClient).mail) : InLoop(m)'
      BY <2>1, <3>1, <3>2, Zenon DEF InLoop, MailItem
    <3>4. \A i \in 1 .. Len(pending'[link]) : \A r \in Request : ~ Concerns(pending'[link][i], r)
      BY <3>1, <3>2, Zenon DEF Concerns
    <3> QED  BY <1>1, <2>1, <3>1, <3>3, <3>4, DeliveryRead, Zenon
  <2> QED  BY <2>3, <2>4, Zenon
<1>3. CASE ReadComplete
  <2> DEFINE event == CreateMailServerEvent(Head(toClient).payload)
  <2>1. CASE trusted /\ event = Invalid
    <3>1. /\ toClient' = << >> /\ jobs' = {}
          /\ UNCHANGED <<pending, p2pMsgQueue, delivered, concluded, mailed>>
      BY <1>3, <2>1, Zenon DEF ReadComplete, CloseConnection
    <3> QED  BY <3>1, DeliveryReset, Zenon
  <2>2. CASE ~ (trusted /\ event = Invalid)
    <3>1. /\ toClient' = Tail(toClient) /\ Head(toClient).code = "complete"
          /\ UNCHANGED <<p2pMsgQueue, delivered, concluded, link, jobs, mailed, answered, call>>
          /\ pending' = IF trusted
                        THEN [pending EXCEPT ![link] = <<[type |-> "event", value |-> event]>>]
                        ELSE pending
      BY <1>3, <2>2, Zenon DEF ReadComplete, Reading
    <3>2. \A r \in Request : event.id = r.id => Completes(Head(toClient), r)
      BY <3>1, Zenon DEF Completes
    <3> HIDE DEF event
    <3>3. CASE trusted
      <4>1. /\ pending'[link] = <<[type |-> "event", value |-> event]>>
            /\ \A l \in 1 .. MaxLink : l # link => pending'[l] = pending[l]
        BY <1>1, <3>1, <3>3, Zenon
      <4>2. \A i \in 1 .. Len(pending'[link]) :
                pending'[link][i] = [type |-> "event", value |-> event]
        BY <4>1
      <4>3. \A i \in 1 .. Len(pending'[link]) : \A r \in Request :
                Concerns(pending'[link][i], r) => Completes(Head(toClient), r)
        BY <3>2, <4>2 DEF Concerns
      <4> QED  BY <1>1, <3>1, <4>1, <4>3, DeliveryRead, Zenon
    <3>4. CASE ~ trusted
      <4>1. Len(pending'[link]) = 0 /\ pending' = pending
        BY <1>1, <3>1, <3>4, Zenon
      <4> QED  BY <1>1, <3>1, <4>1, DeliveryRead
    <3> QED  BY <3>3, <3>4, Zenon
  <2> QED  BY <2>1, <2>2, Zenon
<1>4. CASE ReadSyncResponse
  <2>1. /\ toClient' = Tail(toClient) /\ Head(toClient).code = "sync" /\ pending' = pending
        /\ UNCHANGED <<p2pMsgQueue, delivered, concluded, link, jobs, mailed, answered, call>>
    BY <1>4, Zenon DEF ReadSyncResponse, Reading
  <2>2. Len(pending'[link]) = 0
    BY <1>1, <2>1, Zenon
  <2> QED  BY <1>1, <2>1, <2>2, DeliveryRead
<1> QED  BY <1>2, <1>3, <1>4, Zenon

LEMMA DeliveryNext ==
    ASSUME MailServerInv, FreshMail, DeliveryInv, [Next]_vars
    PROVE  DeliveryInv'
<1> USE DEF connVars, clientVars, serverVars, loopVars, events
<1>1. CASE Connect \/ Disconnect
  <2>1. toClient' = << >> /\ jobs' = {} /\ UNCHANGED <<pending, p2pMsgQueue, delivered, concluded, mailed>>
    BY <1>1, Zenon DEF Connect, Disconnect, CloseConnection, MailServerInv, LinkInv
  <2> QED  BY <2>1, DeliveryReset, Zenon
<1>2. CASE \/ Stop \/ AllowP2PMessagesFromPeer \/ SyncMessages \/ UNCHANGED vars
           \/ \E r \in Request : Ask(r) \/ Submit(r) \/ Announce(r) \/ ExpireRequest(r)
  <2>1. UNCHANGED <<toClient, pending, p2pMsgQueue, delivered, concluded, mailed, link, answered, jobs>>
    BY <1>2, Zenon DEF Stop, AllowP2PMessagesFromPeer, SyncMessages, Ask, Submit, Announce, ExpireRequest, vars
  <2> QED  BY <2>1, DeliveryQuiet, Zenon
<1>3. CASE ReadRequest
  <2>1. /\ UNCHANGED <<toClient, pending, p2pMsgQueue, delivered, concluded, mailed, link, answered>>
        /\ toServer # << >>
        /\ \/ jobs' = jobs
           \/ Head(toServer).code = "request" /\ jobs' = jobs \cup {Head(toServer).req}
    BY <1>3, Zenon DEF ReadRequest
  <2>2. /\ Head(toServer) = toServer[1] /\ 1 \in 1 .. Len(toServer) /\ toServer[1] \in ServerPacket
    BY <2>1 DEF MailServerInv, MailTypes
  <2>3. \A r \in jobs' : r \in jobs \/ (r \in Request /\ Requests(1, r))
    BY <2>1, <2>2, ServerPacketCases, Zenon DEF Requests
  <2>4. \A r \in jobs' : r \in jobs \/ mailed[r] = {}
    BY <2>2, <2>3, Zenon DEF FreshMail
  <2> QED  BY <2>1, <2>4, DeliveryQuiet, Zenon
<1> QED
  BY <1>1, <1>2, <1>3, Batches, DeliveryServer, DeliveryLoop, DeliveryPost, DeliveryProcess, Zenon DEF Next, ClientLoop

(* For every load and every size of the queue: when processP2P reports that a
   request is completed, every message the server sent for it has gone to the
   filters.  Connections may have broken and been renewed in between. *)
THEOREM MailDeliveredFirst == Spec => []CompletedAfterDelivery
<1>1. Init => FreshMail /\ DeliveryInv
  BY DeliveryInit, Zenon
<1>2. MailServerInv /\ FreshMail /\ DeliveryInv /\ [Next]_vars => FreshMail' /\ DeliveryInv'
  BY FreshNext, DeliveryNext, Zenon DEF MailServerInv
<1>3. DeliveryInv => CompletedAfterDelivery
  BY Zenon DEF DeliveryInv
<1> QED  BY <1>1, <1>2, <1>3, MailServerInductive, PTL DEF Spec

-----------------------------------------------------------------------------
(* Synchronisation. *)

SyncAt(i) == toServer[i].code = "sync"
Answering(i) == toClient[i].code = "sync"
NoSyncRequest == \A i \in 1 .. Len(toServer) : ~ SyncAt(i)
NoSyncResponse == \A i \in 1 .. Len(toClient) : ~ Answering(i)

(* A synchronisation is requested, worked on, answered and finished, in this
   order and once for each connection; its last response comes last. *)
SyncStages ==
    /\ conn = "down" => ~ syncing
    /\ ~ sync.asked => sync = NoSync /\ ~ syncing /\ NoSyncRequest /\ NoSyncResponse
    /\ \A i \in 1 .. Len(toServer) : SyncAt(i) =>
          /\ ~ syncing /\ ~ sync.finished /\ NoSyncResponse
          /\ \A j \in 1 .. Len(toServer) : SyncAt(j) => j = i
    /\ syncing => ~ sync.finished /\ \A i \in 1 .. Len(toClient) : Answering(i) => ~ toClient[i].final
    /\ \A i, j \in 1 .. Len(toClient) : Answering(i) /\ Answering(j) /\ toClient[i].final => j <= i
    /\ sync.finished => NoSyncResponse

(* What the server has sent was archived or is on its way to a client that
   trusts the server. *)
SyncMail ==
    sync.trusting /\ conn # "down" =>
        /\ trusted
        /\ \A m \in sync.mail : m \in sync.archived
               \/ \E i \in 1 .. Len(toClient) : Answering(i) /\ m \in Range(toClient[i].mail)

SyncInv == SyncStages /\ SyncMail /\ SyncFinishedIsArchived

LEMMA SyncInit == Init => SyncInv
  BY DEF Init, SyncInv, SyncStages, SyncMail, SyncFinishedIsArchived, NoSync, NoSyncRequest,
         NoSyncResponse

(* The connection begins or ends. *)
LEMMA SyncReset ==
    ASSUME MailServerInv, SyncInv, Connect \/ CloseConnection
    PROVE  SyncInv'
<1>1. /\ toServer' = << >> /\ toClient' = << >> /\ syncing' = FALSE
      /\ sync' = NoSync \/ (sync' = sync /\ conn' = "down")
  BY Zenon DEF Connect, CloseConnection, MailServerInv, MailTypes, LinkInv, SyncInv, SyncStages, serverVars
<1>2. Len(toServer') = 0 /\ Len(toClient') = 0
  BY <1>1, Zenon
<1>3. NoSyncRequest' /\ NoSyncResponse'
  BY <1>2 DEF NoSyncRequest, NoSyncResponse
<1>4. SyncStages'
  BY <1>1, <1>2, <1>3 DEF SyncInv, SyncStages, NoSync
<1>5. SyncMail' /\ SyncFinishedIsArchived'
  BY <1>1 DEF SyncInv, SyncMail, SyncFinishedIsArchived, NoSync
<1> QED  BY <1>4, <1>5, Zenon DEF SyncInv

(* Requests, messages and completions come and go between the packets of a
   synchronisation, which keep their order. *)
LEMMA SyncFrame ==
    ASSUME MailServerInv, SyncInv, UNCHANGED <<sync, syncing>>, trusted => trusted',
           conn' = "down" <=> conn = "down",
           NEW d \in 0 .. 1, NEW e \in 0 .. 1,
           \A i \in 1 .. Len(toServer') : SyncAt(i)' => i + d \in 1 .. Len(toServer) /\ SyncAt(i + d),
           \A i \in 1 .. Len(toClient') : Answering(i)' =>
              i + e \in 1 .. Len(toClient) /\ toClient'[i] = toClient[i + e],
           \A j \in 1 .. Len(toClient) : Answering(j) =>
              \E i \in 1 .. Len(toClient') : toClient'[i] = toClient[j]
    PROVE  SyncInv'
<1>1. \A i \in 1 .. Len(toClient') : Answering(i)' => i + e \in 1 .. Len(toClient) /\ Answering(i + e)
  BY Zenon DEF Answering
<1>2. NoSyncRequest => NoSyncRequest'
  BY Zenon DEF NoSyncRequest
<1>3. NoSyncResponse => NoSyncResponse'
  BY <1>1, Zenon DEF NoSyncResponse
<1>4. ASSUME NEW i \in 1 .. Len(toServer'), SyncAt(i)'
      PROVE  /\ ~ syncing' /\ ~ sync'.finished /\ NoSyncResponse'
             /\ \A j \in 1 .. Len(toServer') : SyncAt(j)' => j = i
  <2>1. i + d \in 1 .. Len(toServer) /\ SyncAt(i + d)
    BY <1>4, Zenon
  <2>2. ~ syncing /\ ~ sync.finished /\ NoSyncResponse
    BY <2>1, Zenon DEF SyncInv, SyncStages
  <2>3. ASSUME NEW j \in 1 .. Len(toServer'), SyncAt(j)'
        PROVE  j = i
    <3>1. j + d \in 1 .. Len(toServer) /\ SyncAt(j + d)
      BY <2>3, Zenon
    <3>2. j + d = i + d
      BY <2>1, <3>1, Zenon DEF SyncInv, SyncStages
    <3> QED  BY <3>2
  <2> QED  BY <1>3, <2>2, <2>3, Zenon
<1>5. ASSUME syncing', NEW i \in 1 .. Len(toClient'), Answering(i)'
      PROVE  ~ toClient'[i].final
  BY <1>1, <1>5, Zenon DEF SyncInv, SyncStages
<1>6. ASSUME NEW i \in 1 .. Len(toClient'), NEW j \in 1 .. Len(toClient'), Answering(i)', Answering(j)',
             toClient'[i].final
      PROVE  j <= i
  <2>1. /\ i + e \in 1 .. Len(toClient) /\ Answering(i + e) /\ toClient[i + e].final
        /\ j + e \in 1 .. Len(toClient) /\ Answering(j + e)
    BY <1>1, <1>6, Zenon
  <2>2. j + e <= i + e
    BY <2>1, Zenon DEF SyncInv, SyncStages
  <2> QED  BY <2>2
<1>7. SyncStages'
  BY <1>2, <1>3, <1>4, <1>5, <1>6, Zenon DEF SyncInv, SyncStages
<1>8. SyncMail'
  BY DEF SyncInv, SyncMail, Answering
<1> QED  BY <1>7, <1>8, Zenon DEF SyncInv, SyncFinishedIsArchived

LEMMA SyncBegins ==
    ASSUME MailServerInv, SyncInv, SyncMessages
    PROVE  SyncInv'
<1>0. toServer \in Seq(ServerPacket) /\ Len(toServer) \in Nat
  BY DEF MailServerInv, MailTypes
<1>1. /\ ~ sync.asked /\ toServer' = Append(toServer, [code |-> "sync"])
      /\ sync' = [sync EXCEPT !.asked = TRUE, !.trusting = trusted]
      /\ UNCHANGED <<conn, trusted, toClient, syncing>>
  BY Zenon DEF SyncMessages, WriteToServer, connVars, clientVars, serverVars
<1>2. sync = NoSync /\ ~ syncing /\ NoSyncRequest /\ NoSyncResponse
  BY <1>1, Zenon DEF SyncInv, SyncStages
<1>3. /\ sync'.asked = TRUE /\ sync'.trusting = trusted /\ sync'.mail = {} /\ sync'.finished = FALSE
      /\ ~ syncing' /\ trusted \in BOOLEAN
  BY <1>1, <1>2, Zenon DEF NoSync, MailServerInv, MailTypes
<1>4. PICK n \in Nat : n = Len(toServer)
  BY <1>0, Zenon
<1>5. /\ Len(toServer') = n + 1 /\ \A i \in 1 .. n : toServer'[i] = toServer[i]
      /\ \A i \in 1 .. Len(toServer') : i \in 1 .. n \/ i = n + 1
  BY <1>0, <1>1, <1>4
<1>6. \A i \in 1 .. Len(toServer') : SyncAt(i)' => i = n + 1
  BY <1>2, <1>4, <1>5, Zenon DEF NoSyncRequest, SyncAt
<1>7. NoSyncResponse'
  BY <1>1, <1>2, Zenon DEF NoSyncResponse, Answering
<1>8. SyncStages'
  BY <1>3, <1>6, <1>7, Zenon DEF SyncStages, NoSyncResponse
<1>9. SyncMail'
  <2>1. sync'.trusting => trusted'
    BY <1>1, <1>3, Zenon
  <2> QED  BY <1>3, <2>1, Zenon DEF SyncMail
<1>10. SyncFinishedIsArchived'
  BY <1>3, Zenon DEF SyncFinishedIsArchived
<1> QED  BY <1>8, <1>9, <1>10, Zenon DEF SyncInv

LEMMA SyncTaken ==
    ASSUME MailServerInv, SyncInv, ReadRequest, Head(toServer).code = "sync"
    PROVE  SyncInv'
<1>0. toServer \in Seq(ServerPacket) /\ toServer # << >> /\ Len(toServer) \in Nat
  BY DEF MailServerInv, MailTypes, ReadRequest
<1>1. /\ toServer' = Tail(toServer) /\ syncing' = TRUE /\ conn = "up"
      /\ UNCHANGED <<conn, trusted, toClient, sync>>
  BY Zenon DEF ReadRequest, connVars, clientVars
<1>2. 1 \in 1 .. Len(toServer) /\ SyncAt(1)
  BY <1>0 DEF SyncAt
<1>3. /\ sync.asked /\ ~ sync.finished /\ NoSyncResponse
      /\ \A j \in 1 .. Len(toServer) : SyncAt(j) => j = 1
  BY <1>2, Zenon DEF SyncInv, SyncStages, NoSyncRequest
<1>4. \A i \in 1 .. Len(toServer') :
          toServer'[i] = toServer[i + 1] /\ i + 1 \in 1 .. Len(toServer) /\ i + 1 # 1
  BY <1>0, <1>1
<1>5. \A i \in 1 .. Len(toServer') : ~ SyncAt(i)'
  BY <1>3, <1>4, Zenon DEF SyncAt
<1>6. NoSyncResponse' /\ sync'.asked /\ ~ sync'.finished /\ conn' = "up"
  BY <1>1, <1>3, Zenon DEF NoSyncResponse, Answering
<1>7. SyncStages'
  BY <1>5, <1>6, Zenon DEF SyncStages, NoSyncResponse
<1>8. SyncMail' /\ SyncFinishedIsArchived'
  BY <1>1, Zenon DEF SyncInv, SyncMail, SyncFinishedIsArchived, Answering
<1> QED  BY <1>7, <1>8, Zenon DEF SyncInv

(* SendSyncResponse, or the report of a failed SyncMail. *)
LEMMA SyncSent ==
    ASSUME MailServerInv, SyncInv, NEW batch \in Seq(Mail), NEW final \in BOOLEAN,
           SendSyncResponse(batch, final) \/ (FailSync /\ batch = << >> /\ final = TRUE)
    PROVE  SyncInv'
<1> DEFINE p == [code |-> "sync", mail |-> batch, final |-> final]
<1>0. toClient \in Seq(ClientPacket) /\ Len(toClient) \in Nat /\ sync \in SyncState
  BY DEF MailServerInv, MailTypes
<1>1. /\ syncing /\ syncing' = ~ final /\ conn = "up" /\ conn' # "down" /\ WriteToClient(p)
      /\ UNCHANGED <<trusted, toServer>>
  BY Zenon DEF SendSyncResponse, FailSync, WriteToClient, clientVars, connVars
<1>2. /\ sync'.mail = sync.mail \cup Range(batch) /\ sync'.asked = sync.asked /\ sync'.trusting = sync.trusting
      /\ sync'.archived = sync.archived /\ sync'.finished = sync.finished
  <2>1. CASE SendSyncResponse(batch, final)
    <3>1. sync' = [sync EXCEPT !.mail = @ \cup Range(batch)]
      BY <2>1, Zenon DEF SendSyncResponse
    <3> QED  BY <1>0, <3>1, Zenon DEF SyncState
  <2>2. CASE FailSync /\ batch = << >>
    <3>1. sync' = sync /\ Range(batch) = {}
      BY <2>2 DEF FailSync, Range
    <3> QED  BY <3>1, Zenon
  <2> QED  BY <2>1, <2>2, Zenon
<1>3. PICK n \in Nat : n = Len(toClient)
  BY <1>0, Zenon
<1>4. p \in ClientPacket /\ p.code = "sync" /\ p.mail = batch /\ p.final = final
  BY ClientPacketTypes, Zenon
<1> HIDE DEF p
<1>5. /\ Len(toClient') = n + 1 /\ toClient'[n + 1] = p
      /\ \A i \in 1 .. n : toClient'[i] = toClient[i]
  BY <1>0, <1>1, <1>3, <1>4 DEF WriteToClient
<1>6. /\ \A i \in 1 .. Len(toClient') : (i \in 1 .. n \/ i = n + 1) /\ i <= n + 1
      /\ 1 .. n \subseteq 1 .. Len(toClient') /\ n + 1 \in 1 .. Len(toClient')
  BY <1>3, <1>5
<1>7. /\ sync.asked /\ NoSyncRequest /\ ~ sync.finished
      /\ \A i \in 1 .. n : Answering(i) => ~ toClient[i].final
  BY <1>1, <1>3, Zenon DEF SyncInv, SyncStages, NoSyncRequest
<1>8. \A i \in 1 .. n : Answering(i)' <=> Answering(i)
  BY <1>5, Zenon DEF Answering
<1>9. \A i \in 1 .. Len(toClient') : Answering(i)' /\ toClient'[i].final => i = n + 1 /\ final
  BY <1>4, <1>5, <1>6, <1>7, <1>8, Zenon
<1>10. sync'.asked /\ ~ sync'.finished /\ \A i \in 1 .. Len(toServer') : ~ SyncAt(i)'
  BY <1>1, <1>2, <1>7, Zenon DEF NoSyncRequest, SyncAt
<1>11. SyncStages'
  BY <1>1, <1>6, <1>9, <1>10, Zenon DEF SyncStages
<1>12. SyncMail'
  <2> SUFFICES ASSUME sync'.trusting
               PROVE  /\ trusted'
                      /\ \A m \in sync'.mail : m \in sync'.archived
                            \/ \E i \in 1 .. Len(toClient') : Answering(i)' /\ m \in Range(toClient'[i].mail)
    BY Zenon DEF SyncMail
  <2>1. /\ trusted
        /\ \A m \in sync.mail : m \in sync.archived
              \/ \E i \in 1 .. n : Answering(i) /\ m \in Range(toClient[i].mail)
    BY <1>1, <1>2, <1>3, Zenon DEF SyncInv, SyncMail
  <2>2. \A m \in Range(batch) : Answering(n + 1)' /\ m \in Range(toClient'[n + 1].mail)
    BY <1>4, <1>5, Zenon DEF Answering
  <2> QED  BY <1>1, <1>2, <1>5, <1>6, <1>8, <2>1, <2>2, Zenon
<1>13. SyncFinishedIsArchived'
  BY <1>10, Zenon DEF SyncFinishedIsArchived
<1> QED  BY <1>11, <1>12, <1>13, Zenon DEF SyncInv

LEMMA SyncReceived ==
    ASSUME MailServerInv, SyncInv, ReadSyncResponse
    PROVE  SyncInv'
<1>0. /\ toClient \in Seq(ClientPacket) /\ Len(toClient) \in Nat /\ toClient # << >>
      /\ sync \in SyncState
  BY DEF MailServerInv, MailTypes, ReadSyncResponse, Reading
<1>1. /\ conn # "down" /\ toClient' = Tail(toClient) /\ Head(toClient).code = "sync"
      /\ UNCHANGED <<conn, trusted, toServer, syncing>>
  BY Zenon DEF ReadSyncResponse, Reading, connVars, clientVars, serverVars
<1>2. PICK n \in Nat : n + 1 = Len(toClient)
  <2>1. Len(toClient) - 1 \in Nat /\ (Len(toClient) - 1) + 1 = Len(toClient)
    BY <1>0
  <2> QED  BY <2>1, Zenon
<1>3. PICK p \in ClientPacket : p = toClient[1]
  BY <1>0
<1>4. /\ Len(toClient') = n /\ Head(toClient) = p
      /\ \A i \in 1 .. n : toClient'[i] = toClient[i + 1]
  BY <1>0, <1>1, <1>2, <1>3
<1>5. /\ p.code = "sync" /\ p.final \in BOOLEAN /\ Answering(1) /\ 1 \in 1 .. Len(toClient)
  BY <1>0, <1>1, <1>3, <1>4, ClientPacketCases DEF Answering
<1>6. /\ \A i \in 1 .. n : i + 1 \in 1 .. Len(toClient) /\ ~ (i + 1 <= 1)
      /\ \A i, j \in 1 .. n : j + 1 <= i + 1 => j <= i
      /\ \A j \in 1 .. Len(toClient) : j = 1 \/ (j - 1 \in 1 .. n /\ (j - 1) + 1 = j)
  BY <1>2
<1>7. \A i \in 1 .. n : Answering(i)' <=> Answering(i + 1)
  BY <1>4, Zenon DEF Answering
<1>8. /\ sync'.mail = sync.mail /\ sync'.asked = sync.asked /\ sync'.trusting = sync.trusting
      /\ sync'.archived = IF trusted THEN sync.archived \cup Range(p.mail) ELSE sync.archived
      /\ sync'.finished => sync.finished \/ p.final
  <2>1. CASE trusted
    <3>1. sync' = [sync EXCEPT !.archived = @ \cup Range(p.mail), !.finished = @ \/ p.final]
      BY <1>4, <2>1, Zenon DEF ReadSyncResponse
    <3> QED  BY <1>0, <2>1, <3>1, Zenon DEF SyncState
  <2>2. CASE ~ trusted
    BY <2>2, Zenon DEF ReadSyncResponse
  <2> QED  BY <2>1, <2>2, Zenon
<1>9. /\ sync.asked /\ ~ sync.finished /\ \A i \in 1 .. Len(toServer) : ~ SyncAt(i)
      /\ syncing => ~ p.final
      /\ p.final => \A j \in 1 .. Len(toClient) : Answering(j) => j <= 1
  BY <1>3, <1>5, Zenon DEF SyncInv, SyncStages, NoSyncResponse
<1>10. sync'.finished => NoSyncResponse' /\ ~ syncing'
  <2>1. p.final => \A i \in 1 .. n : ~ Answering(i)'
    BY <1>6, <1>7, <1>9, Zenon
  <2> QED  BY <1>1, <1>4, <1>8, <1>9, <2>1, Zenon DEF NoSyncResponse
<1>11. sync'.asked /\ \A i \in 1 .. Len(toServer') : ~ SyncAt(i)'
  BY <1>1, <1>8, <1>9, Zenon DEF SyncAt
<1>12. ASSUME NEW i \in 1 .. n, Answering(i)', syncing'
       PROVE  ~ toClient'[i].final
  BY <1>1, <1>4, <1>6, <1>7, <1>12, Zenon DEF SyncInv, SyncStages
<1>13. ASSUME NEW i \in 1 .. n, NEW j \in 1 .. n, Answering(i)', Answering(j)', toClient'[i].final
       PROVE  j <= i
  <2>1. j + 1 <= i + 1
    BY <1>4, <1>6, <1>7, <1>13, Zenon DEF SyncInv, SyncStages
  <2> QED  BY <1>6, <2>1, Zenon
<1>14. SyncStages'
  BY <1>1, <1>4, <1>10, <1>11, <1>12, <1>13, Zenon DEF SyncStages
<1>15. ASSUME sync'.trusting
       PROVE  /\ trusted'
              /\ \A m \in sync'.mail : m \in sync'.archived
                    \/ \E i \in 1 .. Len(toClient') : Answering(i)' /\ m \in Range(toClient'[i].mail)
  <2>1. /\ trusted
        /\ \A m \in sync.mail : m \in sync.archived
              \/ \E j \in 1 .. Len(toClient) : Answering(j) /\ m \in Range(toClient[j].mail)
    BY <1>1, <1>8, <1>15, Zenon DEF SyncInv, SyncMail
  <2>2. ASSUME NEW m, NEW j \in 1 .. Len(toClient), Answering(j), m \in Range(toClient[j].mail)
        PROVE  m \in sync'.archived
                  \/ \E i \in 1 .. Len(toClient') : Answering(i)' /\ m \in Range(toClient'[i].mail)
    <3>1. CASE j = 1
      BY <1>3, <1>8, <2>1, <2>2, <3>1, Zenon
    <3>2. CASE j - 1 \in 1 .. n /\ (j - 1) + 1 = j
      <4>1. toClient'[j - 1] = toClient[j] /\ Answering(j - 1)'
        BY <1>4, <1>7, <2>2, <3>2, Zenon
      <4> QED  BY <1>4, <2>2, <3>2, <4>1, Zenon
    <3> QED  BY <1>6, <3>1, <3>2, Zenon
  <2> QED  BY <1>1, <1>8, <2>1, <2>2, Zenon
<1>16. SyncFinishedIsArchived'
  BY <1>10, <1>15, Zenon DEF SyncFinishedIsArchived, NoSyncResponse
<1> QED  BY <1>14, <1>15, <1>16, Zenon DEF SyncInv, SyncMail

(* Steps that leave the synchronisation alone, by what they do to the wires. *)
LEMMA SyncWires ==
    ASSUME MailServerInv, SyncInv, UNCHANGED <<sync, syncing>>, trusted => trusted',
           conn' = "down" <=> conn = "down",
           \/ UNCHANGED toServer
           \/ \E p \in ServerPacket : p.code # "sync" /\ WriteToServer(p)
           \/ toServer # << >> /\ toServer' = Tail(toServer),
           \/ UNCHANGED toClient
           \/ \E p \in ClientPacket : p.code # "sync" /\ WriteToClient(p)
           \/ toClient # << >> /\ toClient' = Tail(toClient) /\ Head(toClient).code # "sync"
    PROVE  SyncInv'
<1>0. /\ toServer \in Seq(ServerPacket) /\ Len(toServer) \in Nat
      /\ toClient \in Seq(ClientPacket) /\ Len(toClient) \in Nat
  BY DEF MailServerInv, MailTypes
<1>1. \E d \in 0 .. 1 : \A i \in 1 .. Len(toServer') :
          SyncAt(i)' => i + d \in 1 .. Len(toServer) /\ SyncAt(i + d)
  <2>1. CASE UNCHANGED toServer
    <3>1. \A i \in 1 .. Len(toServer') : SyncAt(i)' => i + 0 \in 1 .. Len(toServer) /\ SyncAt(i + 0)
      BY <2>1 DEF SyncAt
    <3> QED  BY <3>1
  <2>2. ASSUME NEW p \in ServerPacket, p.code # "sync", WriteToServer(p)
        PROVE  \A i \in 1 .. Len(toServer') : SyncAt(i)' => i + 0 \in 1 .. Len(toServer) /\ SyncAt(i + 0)
    <3>1. PICK n \in Nat : n = Len(toServer)
      BY <1>0, Zenon
    <3>2. /\ Len(toServer') = n + 1 /\ toServer'[n + 1] = p
          /\ \A i \in 1 .. n : toServer'[i] = toServer[i]
      BY <1>0, <2>2, <3>1 DEF WriteToServer
    <3>3. \A i \in 1 .. Len(toServer') : (i \in 1 .. n \/ i = n + 1) /\ i + 0 = i
      BY <3>2
    <3> QED  BY <2>2, <3>1, <3>2, <3>3, Zenon DEF SyncAt
  <2>3. CASE toServer # << >> /\ toServer' = Tail(toServer)
    <3>1. \A i \in 1 .. Len(toServer') : toServer'[i] = toServer[i + 1] /\ i + 1 \in 1 .. Len(toServer)
      BY <1>0, <2>3
    <3>2. \A i \in 1 .. Len(toServer') : SyncAt(i)' => i + 1 \in 1 .. Len(toServer) /\ SyncAt(i + 1)
      BY <3>1, Zenon DEF SyncAt
    <3> QED  BY <3>2
  <2> QED  BY <2>1, <2>2, <2>3
<1>2. \E e \in 0 .. 1 :
          /\ \A i \in 1 .. Len(toClient') : Answering(i)' =>
                i + e \in 1 .. Len(toClient) /\ toClient'[i] = toClient[i + e]
          /\ \A j \in 1 .. Len(toClient) : Answering(j) =>
                \E i \in 1 .. Len(toClient') : toClient'[i] = toClient[j]
  <2>1. CASE UNCHANGED toClient
    <3>1. \A i \in 1 .. Len(toClient') : i + 0 \in 1 .. Len(toClient) /\ toClient'[i] = toClient[i + 0]
      BY <2>1
    <3> QED  BY <2>1, <3>1
  <2>2. ASSUME NEW p \in ClientPacket, p.code # "sync", WriteToClient(p)
        PROVE  /\ \A i \in 1 .. Len(toClient') : Answering(i)' =>
                     i + 0 \in 1 .. Len(toClient) /\ toClient'[i] = toClient[i + 0]
               /\ \A j \in 1 .. Len(toClient) : Answering(j) =>
                     \E i \in 1 .. Len(toClient') : toClient'[i] = toClient[j]
    <3>1. PICK n \in Nat : n = Len(toClient)
      BY <1>0, Zenon
    <3>2. /\ Len(toClient') = n + 1 /\ toClient'[n + 1] = p
          /\ \A i \in 1 .. n : toClient'[i] = toClient[i]
      BY <1>0, <2>2, <3>1 DEF WriteToClient
    <3>3. /\ \A i \in 1 .. Len(toClient') : (i \in 1 .. n \/ i = n + 1) /\ i + 0 = i
          /\ 1 .. n \subseteq 1 .. Len(toClient')
      BY <3>2
    <3> QED  BY <2>2, <3>1, <3>2, <3>3, Zenon DEF Answering
  <2>3. CASE toClient # << >> /\ toClient' = Tail(toClient) /\ Head(toClient).code # "sync"
    <3>1. /\ \A i \in 1 .. Len(toClient') : toClient'[i] = toClient[i + 1] /\ i + 1 \in 1 .. Len(toClient)
          /\ \A j \in 1 .. Len(toClient) : j = 1 \/ (j - 1 \in 1 .. Len(toClient') /\ (j - 1) + 1 = j)
          /\ Head(toClient) = toClient[1]
      BY <1>0, <2>3
    <3>2. \A j \in 1 .. Len(toClient) : Answering(j) =>
              \E i \in 1 .. Len(toClient') : toClient'[i] = toClient[j]
      BY <2>3, <3>1, Zenon DEF Answering
    <3> QED  BY <3>1, <3>2
  <2> QED  BY <2>1, <2>2, <2>3
<1> QED  BY <1>1, <1>2, SyncFrame, Zenon

LEMMA SyncNext ==
    ASSUME MailServerInv, SyncInv, [Next]_vars
    PROVE  SyncInv'
<1> USE DEF connVars, clientVars, serverVars, loopVars, events
<1>1. CASE Connect \/ Disconnect
  BY <1>1, SyncReset, Zenon DEF Disconnect
<1>2. CASE \/ Stop \/ AllowP2PMessagesFromPeer \/ UNCHANGED vars \/ ProcessP2P
           \/ \E r \in Request : Ask(r) \/ Announce(r) \/ ExpireRequest(r)
           \/ \E l \in 1 .. MaxLink : PostP2P(l)
  <2>1. /\ UNCHANGED <<sync, syncing, toServer, toClient, conn>>
        /\ trusted => trusted'
    BY <1>2 DEF Stop, AllowP2PMessagesFromPeer, Ask, Announce, ExpireRequest, PostP2P, ProcessP2P, vars
  <2> QED  BY <2>1, SyncWires, Zenon
<1>3. ASSUME NEW r \in Request, Submit(r)
      PROVE  SyncInv'
  <2> DEFINE p == [code |-> "request", req |-> r]
  <2>1. p \in ServerPacket /\ p.code # "sync"
    BY Zenon DEF ServerPacket
  <2>2. UNCHANGED <<sync, syncing, toClient, conn, trusted>> /\ (UNCHANGED toServer \/ WriteToServer(p))
    BY <1>3, Zenon DEF Submit
  <2> HIDE DEF p
  <2> QED  BY <2>1, <2>2, SyncWires, Zenon
<1>4. CASE ReadRequest
  <2>1. CASE Head(toServer).code = "sync"
    BY <1>4, <2>1, SyncTaken, Zenon
  <2>2. CASE Head(toServer).code = "request"
    <3>1. /\ UNCHANGED <<sync, syncing, toClient, conn, trusted>>
          /\ toServer # << >> /\ toServer' = Tail(toServer)
      BY <1>4, <2>2, Zenon DEF ReadRequest
    <3> QED  BY <3>1, SyncWires, Zenon
  <2>3. Head(toServer) \in ServerPacket
    BY <1>4 DEF ReadRequest, MailServerInv, MailTypes
  <2> QED  BY <2>1, <2>2, <2>3, ServerPacketCases, Zenon
<1>5. ASSUME NEW batch \in Seq(Mail), SendP2PMessage(batch) \/ \E r \in Request : SendP2PDirect(r, batch)
      PROVE  SyncInv'
  <2> DEFINE p == [code |-> "mail", mail |-> batch]
  <2>1. p \in ClientPacket /\ p.code # "sync" /\ WriteToClient(p)
    BY <1>5, ClientPacketTypes, Zenon DEF SendP2PMessage, SendP2PDirect
  <2>2. UNCHANGED <<sync, syncing, toServer, conn, trusted>>
    BY <1>5, Zenon DEF SendP2PMessage, SendP2PDirect
  <2> HIDE DEF p
  <2> QED  BY <2>1, <2>2, SyncWires, Zenon
<1>6. ASSUME NEW r \in Request, NEW a \in Response, SendHistoricMessageResponse(r, a)
      PROVE  SyncInv'
  <2> DEFINE p == [code |-> "complete", payload |-> Payload(a.id, a.result)]
  <2>1. p \in ClientPacket /\ p.code # "sync" /\ WriteToClient(p)
    BY <1>6, Zenon DEF SendHistoricMessageResponse, ClientPacket, CompletePacket, Answer
  <2>2. UNCHANGED <<sync, syncing, toServer, conn, trusted>>
    BY <1>6, Zenon DEF SendHistoricMessageResponse
  <2> HIDE DEF p
  <2> QED  BY <2>1, <2>2, SyncWires, Zenon
<1>7. CASE FailSync
  <2>1. << >> \in Seq(Mail) /\ TRUE \in BOOLEAN
    BY Batches, Zenon
  <2> QED  BY <1>7, <2>1, SyncSent, Zenon
<1>8. CASE ReadMail \/ ReadComplete
  <2>1. CASE CloseConnection
    BY <2>1, SyncReset, Zenon
  <2>2. CASE ~ CloseConnection
    <3>1. /\ UNCHANGED <<sync, syncing, toServer, conn, trusted>>
          /\ toClient # << >> /\ toClient' = Tail(toClient) /\ Head(toClient).code # "sync"
      BY <1>8, <2>2, Zenon DEF ReadMail, ReadComplete, Reading
    <3> QED  BY <3>1, SyncWires, Zenon
  <2> QED  BY <2>1, <2>2, Zenon
<1> QED
  BY <1>1, <1>2, <1>3, <1>4, <1>5, <1>6, <1>7, <1>8, Batches, SyncBegins, SyncSent, SyncReceived, Zenon
  DEF Next, ClientLoop

(* EventMailServerSyncFinished comes after Archive was called with everything
   the server has sent in the synchronisation, if the client trusted the
   server when SyncMessages asked. *)
THEOREM SyncArchivedFirst == Spec => []SyncFinishedIsArchived
<1>1. SyncInv => SyncFinishedIsArchived
  BY Zenon DEF SyncInv
<1>2. MailServerInv /\ SyncInv /\ [Next]_vars => SyncInv'
  BY SyncNext, Zenon
<1> QED  BY <1>1, <1>2, SyncInit, MailServerInductive, PTL DEF Spec

=============================================================================
