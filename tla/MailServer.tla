----------------------------- MODULE MailServer -----------------------------
(***************************************************************************)
(* A node asks a mail server for historic messages, or, being a mail       *)
(* server itself, for a synchronisation.  The client runs                  *)
(* RequestHistoricMessages (kind "historic", with or without a timeout),   *)
(* SendMessagesRequest (kind "messages") and SyncMessages; its message     *)
(* loop takes in direct messages, completions and sync responses if it     *)
(* trusts the peer, and processP2P hands on what the loop has queued.      *)
(*                                                                         *)
(* The mail server itself is not part of the repository.  It is any        *)
(* program that answers through SendP2PDirect, SendHistoricMessageResponse *)
(* and SendSyncResponse, as late as it likes or never.                     *)
(*                                                                         *)
(* Connections break and are made again.  A Peer object belongs to one     *)
(* connection, so trust ends with it, and a call that has found its Peer   *)
(* keeps it: "link" counts the connections.                                *)
(***************************************************************************)
EXTENDS Naturals, Sequences, Functions

CONSTANTS
    Request,         \* requests: id, kind, timeout
    Mail,            \* envelopes
    Batch,           \* the lists of envelopes the server may put in a packet
    Response,        \* what the server may answer: id and result, with failed,
                     \* text, last and cursor
    HashLength,      \* common.HashLength
    CursorSize,      \* cursorSize
    Prefix,          \* mailServerFailedPayloadPrefix
    QueueLimit,      \* capacity of p2pMsgQueue
    WireLimit,       \* bound: packets on their way in a direction
    MaxLink,         \* bound: connections
    BusyLink         \* bound: connections that also have a synchronisation and
                     \* direct messages nobody has asked for

(* An id starting with the prefix would make a completion look like a
   failure; a cursor is empty, or of the agreed size, or refused. *)
StartsWithPrefix(s) == Len(s) >= Len(Prefix) /\ SubSeq(s, 1, Len(Prefix)) = Prefix

ASSUME LengthAssumption ==
    /\ HashLength \in Nat \ {0} /\ CursorSize \in Nat
    /\ Prefix \in Seq(Nat) /\ Len(Prefix) <= HashLength
ASSUME RequestAssumption ==
    \A r \in Request : /\ r.kind \in {"historic", "messages"}
                       /\ r.timeout \in BOOLEAN /\ (r.timeout => r.kind = "historic")
                       /\ r.id \in Seq(Nat) /\ Len(r.id) = HashLength /\ ~ StartsWithPrefix(r.id)
                       /\ \A q \in Request : q.id = r.id => q = r
ASSUME ResponseAssumption ==
    \A a \in Response :
        LET x == a.result
        IN  /\ a \in [id : Seq(Nat), result : [failed : BOOLEAN, text : Seq(Nat),
                                               last : Seq(Nat), cursor : Seq(Nat)]]
            /\ x.failed => x.last = << >> /\ x.cursor = << >>
            /\ ~ x.failed => /\ x.text = << >> /\ Len(x.last) = HashLength
                             /\ Len(x.cursor) = 0 \/ Len(x.cursor) >= CursorSize
ASSUME BatchAssumption == Batch \subseteq Seq(Mail) \ {<< >>}
ASSUME LimitAssumption == {QueueLimit, WireLimit, MaxLink} \subseteq Nat \ {0}

VARIABLES
    link,            \* the number of the connection
    conn,            \* "down", "up", or "closing" at the server's end
    trusted,         \* peer.trusted at the client
    call,            \* call[r]: where the call that makes request r is
    timers,          \* goroutines of expireRequestHistoricMessages
    toServer, toClient,
    jobs,            \* the requests the server works on
    syncing,         \* is the server working on a synchronisation?
    pending,         \* pending[l]: what a message loop still has to queue
    p2pMsgQueue,
    quit,            \* the client was stopped
    announced,       \* history: EventMailServerRequestSent
    expired,         \* history: EventMailServerRequestExpired
    concluded,       \* history: EventMailServerRequestCompleted, [id, result]
    delivered,       \* history: direct messages given to the filters
    mailed,          \* history: mailed[r]: what the server sent for r
    answered,        \* history: what the server answered, [id, result]
    sync             \* history: the synchronisation of this connection

clientVars == <<trusted, call, timers>>
loopVars == <<pending, p2pMsgQueue>>
serverVars == <<jobs, syncing, mailed, answered>>
events == <<announced, expired, concluded, delivered>>
connVars == <<link, conn>>
vars == <<connVars, clientVars, toServer, toClient, serverVars, loopVars, quit, events, sync>>

NoCall == [pc |-> "none", link |-> 0]
NoSync == [asked |-> FALSE, trusting |-> FALSE, mail |-> {}, archived |-> {}, finished |-> FALSE]

Init ==
    /\ link = 0 /\ conn = "down" /\ trusted = FALSE
    /\ call = [r \in Request |-> NoCall] /\ timers = {}
    /\ toServer = << >> /\ toClient = << >>
    /\ jobs = {} /\ syncing = FALSE /\ pending = [l \in 1 .. MaxLink |-> << >>]
    /\ p2pMsgQueue = << >>
    /\ quit = FALSE
    /\ announced = {} /\ expired = {} /\ concluded = {} /\ delivered = {}
    /\ mailed = [r \in Request |-> {}] /\ answered = {} /\ sync = NoSync

-----------------------------------------------------------------------------
(* mailserver_response.go *)

(* CreateMailServerRequestCompletedPayload, CreateMailServerRequestFailedPayload *)
Payload(id, x) == IF x.failed THEN Prefix \o (id \o x.text) ELSE id \o (x.last \o x.cursor)

Drop(s, n) == SubSeq(s, n + 1, Len(s))
Invalid == [id |-> << >>]

FailedEvent(payload) ==
    LET rest == Drop(payload, Len(Prefix))
    IN  [id |-> SubSeq(rest, 1, HashLength),
         result |-> [failed |-> TRUE, text |-> Drop(rest, HashLength),
                     last |-> << >>, cursor |-> << >>]]

(* Faulty form: a cursor of exactly the agreed size is overlooked. *)
CompletedEventShort(payload) ==
    LET rest == Drop(payload, HashLength)
        full == Len(rest) >= HashLength
        tail == IF full THEN Drop(rest, HashLength) ELSE rest
    IN  [id |-> SubSeq(payload, 1, HashLength),
         result |-> [failed |-> FALSE, text |-> << >>,
                     last |-> IF full THEN SubSeq(rest, 1, HashLength) ELSE << >>,
                     cursor |-> IF Len(tail) > CursorSize THEN tail ELSE << >>]]

CompletedEvent(payload) ==
    LET rest == Drop(payload, HashLength)
        full == Len(rest) >= HashLength
        tail == IF full THEN Drop(rest, HashLength) ELSE rest
    IN  [id |-> SubSeq(payload, 1, HashLength),
         result |-> [failed |-> FALSE, text |-> << >>,
                     last |-> IF full THEN SubSeq(rest, 1, HashLength) ELSE << >>,
                     cursor |-> IF Len(tail) >= CursorSize THEN tail ELSE << >>]]

CreateMailServerEvent(payload) ==
    IF Len(payload) < HashLength THEN Invalid
    ELSE IF Len(payload) >= HashLength + Len(Prefix) /\ StartsWithPrefix(payload)
         THEN FailedEvent(payload)
    ELSE IF Len(payload) > 2 * HashLength + CursorSize THEN Invalid
    ELSE CompletedEvent(payload)
-----------------------------------------------------------------------------
(* The connection. *)

Connect ==
    /\ conn = "down" /\ link < MaxLink
    /\ link' = link + 1 /\ conn' = "up"
    /\ trusted' = FALSE /\ sync' = NoSync
    /\ UNCHANGED <<call, timers, toServer, toClient, serverVars, loopVars, quit, events>>

(* Whatever is on its way is lost, and what the server still has to say. *)
CloseConnection ==
    /\ conn' = "down" /\ trusted' = FALSE
    /\ toServer' = << >> /\ toClient' = << >>
    /\ jobs' = {} /\ syncing' = FALSE
    /\ UNCHANGED <<link, call, timers, mailed, answered, quit, events, sync>>

Disconnect == conn # "down" /\ CloseConnection /\ UNCHANGED loopVars

WriteToServer(packet) ==
    /\ Len(toServer) < WireLimit
    /\ toServer' = Append(toServer, packet)

WriteToClient(packet) ==
    /\ conn = "up"
    /\ Len(toClient) < WireLimit
    /\ toClient' = Append(toClient, packet)

-----------------------------------------------------------------------------
(* The client's calls. *)

(* AllowP2PMessagesFromPeer *)
AllowP2PMessagesFromPeer ==
    /\ conn # "down" /\ ~ trusted
    /\ trusted' = TRUE
    /\ UNCHANGED <<connVars, call, timers, toServer, toClient, serverVars, loopVars, quit,
                   events, sync>>

(* Faulty form: only the older kind of request makes the peer trusted. *)
AskTrustHistoric(r) ==
    /\ call[r].pc = "none"
    /\ conn # "down"
    /\ announced' = IF r.kind = "historic" THEN announced \cup {r} ELSE announced
    /\ trusted' = (trusted \/ r.kind = "historic")
    /\ call' = [call EXCEPT ![r] = [pc |-> "send", link |-> link]]
    /\ UNCHANGED <<connVars, timers, toServer, toClient, serverVars, loopVars, quit,
                   expired, concluded, delivered, sync>>

(* Faulty form: no request is announced before it is sent. *)
AskSilently(r) ==
    /\ call[r].pc = "none"
    /\ conn # "down"
    /\ trusted' = TRUE
    /\ call' = [call EXCEPT ![r] = [pc |-> "send", link |-> link]]
    /\ UNCHANGED <<connVars, timers, toServer, toClient, serverVars, loopVars, quit,
                   events, sync>>

(***************************************************************************)
(* A request begins: getPeer finds the peer, which is trusted from now on. *)
(* RequestHistoricMessages announces the request at this point.            *)
(***************************************************************************)
Ask(r) ==
    /\ call[r].pc = "none"
    /\ conn # "down"
    /\ announced' = IF r.kind = "historic" THEN announced \cup {r} ELSE announced
    /\ trusted' = TRUE
    /\ call' = [call EXCEPT ![r] = [pc |-> "send", link |-> link]]
    /\ UNCHANGED <<connVars, timers, toServer, toClient, serverVars, loopVars, quit,
                   expired, concluded, delivered, sync>>

(* Can a call still write to the Peer it found? *)
Reaches(r) == call[r].link = link /\ conn = "up"

(* Faulty form: no timer for a request that could not be sent. *)
SubmitThenTime(r) ==
    /\ call[r].pc = "send"
    /\ IF Reaches(r) THEN WriteToServer([code |-> "request", req |-> r]) ELSE UNCHANGED toServer
    /\ timers' = IF r.timeout /\ Reaches(r) THEN timers \cup {r} ELSE timers
    /\ call' = [call EXCEPT ![r].pc = IF r.kind = "messages" /\ Reaches(r)
                                      THEN "announce" ELSE "done"]
    /\ UNCHANGED <<connVars, trusted, toClient, serverVars, loopVars, quit, events, sync>>

(* The request is sent, or that fails.  The timer starts in both cases. *)
Submit(r) ==
    /\ call[r].pc = "send"
    /\ IF Reaches(r) THEN WriteToServer([code |-> "request", req |-> r]) ELSE UNCHANGED toServer
    /\ timers' = IF r.timeout THEN timers \cup {r} ELSE timers
    /\ call' = [call EXCEPT ![r].pc = IF r.kind = "messages" /\ Reaches(r)
                                      THEN "announce" ELSE "done"]
    /\ UNCHANGED <<connVars, trusted, toClient, serverVars, loopVars, quit, events, sync>>

(* SendMessagesRequest announces a request once it was sent. *)
Announce(r) ==
    /\ call[r].pc = "announce"
    /\ announced' = announced \cup {r}
    /\ call' = [call EXCEPT ![r].pc = "done"]
    /\ UNCHANGED <<connVars, trusted, timers, toServer, toClient, serverVars, loopVars, quit,
                   expired, concluded, delivered, sync>>

(* expireRequestHistoricMessages: the timer fires, or the node was stopped. *)
ExpireRequest(r) ==
    /\ r \in timers
    /\ timers' = timers \ {r}
    /\ expired' = expired \cup {r} \/ (quit /\ UNCHANGED expired)
    /\ UNCHANGED <<connVars, trusted, call, toServer, toClient, serverVars, loopVars, quit,
                   announced, concluded, delivered, sync>>

(* SyncMessages, once for each connection; it does not ask for trust. *)
SyncMessages ==
    /\ conn = "up" /\ ~ sync.asked /\ link \in BusyLink
    /\ WriteToServer([code |-> "sync"])
    /\ sync' = [sync EXCEPT !.asked = TRUE, !.trusting = trusted]
    /\ UNCHANGED <<connVars, clientVars, toClient, serverVars, loopVars, quit, events>>

-----------------------------------------------------------------------------
(* The server. *)

(* p2pRequestCode and p2pSyncRequestCode: the mail server takes over.  The
   loop waits for SyncMail to return. *)
ReadRequest ==
    /\ conn = "up" /\ ~ syncing /\ toServer # << >>
    /\ toServer' = Tail(toServer)
    /\ IF Head(toServer).code = "request"
       THEN jobs' = jobs \cup {Head(toServer).req} /\ UNCHANGED syncing
       ELSE syncing' = TRUE /\ UNCHANGED jobs
    /\ UNCHANGED <<connVars, clientVars, toClient, mailed, answered, loopVars, quit, events, sync>>

(* SendP2PDirect for a request. *)
SendP2PDirect(r, batch) ==
    /\ r \in jobs
    /\ WriteToClient([code |-> "mail", mail |-> batch])
    /\ mailed' = [mailed EXCEPT ![r] = @ \cup Range(batch)]
    /\ UNCHANGED <<connVars, clientVars, toServer, jobs, syncing, answered, loopVars, quit,
                   events, sync>>

(* SendP2PMessage, which nobody has asked for. *)
SendP2PMessage(batch) ==
    /\ link \in BusyLink
    /\ WriteToClient([code |-> "mail", mail |-> batch])
    /\ UNCHANGED <<connVars, clientVars, toServer, serverVars, loopVars, quit, events, sync>>

(* SendHistoricMessageResponse *)
SendHistoricMessageResponse(r, a) ==
    /\ r \in jobs /\ a.id = r.id
    /\ WriteToClient([code |-> "complete", payload |-> Payload(r.id, a.result)])
    /\ jobs' = jobs \ {r}
    /\ answered' = answered \cup {a}
    /\ UNCHANGED <<connVars, clientVars, toServer, syncing, mailed, loopVars, quit, events, sync>>

(* SendSyncResponse *)
SendSyncResponse(batch, final) ==
    /\ syncing
    /\ WriteToClient([code |-> "sync", mail |-> batch, final |-> final])
    /\ syncing' = ~ final
    /\ sync' = [sync EXCEPT !.mail = @ \cup Range(batch)]
    /\ UNCHANGED <<connVars, clientVars, toServer, jobs, mailed, answered, loopVars, quit, events>>

(* SyncMail fails: the error is reported and the message loop returns. *)
FailSync ==
    /\ syncing
    /\ WriteToClient([code |-> "sync", mail |-> << >>, final |-> TRUE])
    /\ syncing' = FALSE
    /\ conn' = "closing"
    /\ UNCHANGED <<link, clientVars, toServer, jobs, mailed, answered, loopVars, quit, events, sync>>

-----------------------------------------------------------------------------
(* The client's message loop: the next packet is read once everything of   *)
(* the one before is in p2pMsgQueue.                                       *)

Reading(code) ==
    /\ conn # "down" /\ pending[link] = << >>
    /\ toClient # << >> /\ Head(toClient).code = code

Mails(batch) == [i \in DOMAIN batch |-> [type |-> "mail", value |-> batch[i]]]

(* p2pMessageCode *)
ReadMail ==
    /\ Reading("mail")
    /\ toClient' = Tail(toClient)
    /\ pending' = IF trusted THEN [pending EXCEPT ![link] = Mails(Head(toClient).mail)] ELSE pending
    /\ UNCHANGED <<connVars, clientVars, toServer, serverVars, p2pMsgQueue, quit, events, sync>>

(* Faulty form: the completion goes to the feed past the queue. *)
ReadCompleteDirectly ==
    /\ Reading("complete")
    /\ LET event == CreateMailServerEvent(Head(toClient).payload)
       IN  IF trusted /\ event = Invalid THEN CloseConnection
           ELSE /\ toClient' = Tail(toClient)
                /\ concluded' = IF trusted THEN concluded \cup {event} ELSE concluded
                /\ UNCHANGED <<connVars, clientVars, toServer, serverVars, quit,
                               announced, expired, delivered, sync>>
    /\ UNCHANGED loopVars

(* p2pRequestCompleteCode: an unreadable completion ends the connection. *)
ReadComplete ==
    /\ Reading("complete")
    /\ LET event == CreateMailServerEvent(Head(toClient).payload)
       IN  IF trusted /\ event = Invalid
           THEN CloseConnection /\ UNCHANGED pending
           ELSE /\ toClient' = Tail(toClient)
                /\ pending' = IF trusted
                              THEN [pending EXCEPT ![link] = <<[type |-> "event", value |-> event]>>]
                              ELSE pending
                /\ UNCHANGED <<connVars, clientVars, toServer, serverVars, quit, events, sync>>
    /\ UNCHANGED p2pMsgQueue

(* Faulty form: the last response of a synchronisation is not archived. *)
ReadSyncResponseUnarchived ==
    /\ Reading("sync")
    /\ toClient' = Tail(toClient)
    /\ sync' = IF ~ trusted THEN sync
               ELSE IF Head(toClient).final THEN [sync EXCEPT !.finished = TRUE]
               ELSE [sync EXCEPT !.archived = @ \cup Range(Head(toClient).mail)]
    /\ UNCHANGED <<connVars, clientVars, toServer, serverVars, loopVars, quit, events>>

(* p2pSyncResponseCode: archive, and report the end. *)
ReadSyncResponse ==
    /\ Reading("sync")
    /\ toClient' = Tail(toClient)
    /\ sync' = IF ~ trusted THEN sync
               ELSE [sync EXCEPT !.archived = @ \cup Range(Head(toClient).mail),
                                 !.finished = @ \/ Head(toClient).final]
    /\ UNCHANGED <<connVars, clientVars, toServer, serverVars, loopVars, quit, events>>

(* Faulty form: the queue has no limit. *)
PostP2PUnbounded(l) ==
    /\ pending[l] # << >>
    /\ p2pMsgQueue' = Append(p2pMsgQueue, Head(pending[l]))
    /\ pending' = [pending EXCEPT ![l] = Tail(@)]
    /\ UNCHANGED <<connVars, clientVars, toServer, toClient, serverVars, quit, events, sync>>

(* postP2P, which waits for room; a loop whose connection is gone finishes
   the packet it has read. *)
PostP2P(l) ==
    /\ pending[l] # << >>
    /\ Len(p2pMsgQueue) < QueueLimit
    /\ p2pMsgQueue' = Append(p2pMsgQueue, Head(pending[l]))
    /\ pending' = [pending EXCEPT ![l] = Tail(@)]
    /\ UNCHANGED <<connVars, clientVars, toServer, toClient, serverVars, quit, events, sync>>

(* processP2P; it may take a few more items before it notices quit. *)
ProcessP2P ==
    /\ p2pMsgQueue # << >>
    /\ p2pMsgQueue' = Tail(p2pMsgQueue)
    /\ LET item == Head(p2pMsgQueue)
       IN  \/ /\ item.type = "mail"
              /\ delivered' = delivered \cup {item.value}
              /\ UNCHANGED concluded
           \/ /\ item.type = "event"
              /\ concluded' = concluded \cup {item.value}
              /\ UNCHANGED delivered
    /\ UNCHANGED <<connVars, clientVars, toServer, toClient, serverVars, pending, quit,
                   announced, expired, sync>>

Stop ==
    /\ ~ quit
    /\ quit' = TRUE
    /\ UNCHANGED <<connVars, clientVars, toServer, toClient, serverVars, loopVars, events, sync>>

-----------------------------------------------------------------------------
ClientLoop == ReadMail \/ ReadComplete \/ ReadSyncResponse

Next ==
    \/ Connect \/ Disconnect \/ Stop
    \/ AllowP2PMessagesFromPeer \/ SyncMessages
    \/ \E r \in Request : Ask(r) \/ Submit(r) \/ Announce(r) \/ ExpireRequest(r)
    \/ ReadRequest \/ FailSync
    \/ \E batch \in Batch : \/ SendP2PMessage(batch)
                             \/ \E r \in Request : SendP2PDirect(r, batch)
    \/ \E r \in Request, a \in Response : SendHistoricMessageResponse(r, a)
    \/ \E batch \in Batch \cup {<< >>}, final \in BOOLEAN : SendSyncResponse(batch, final)
    \/ ClientLoop
    \/ \E l \in 1 .. MaxLink : PostP2P(l)
    \/ ProcessP2P

Spec == Init /\ [][Next]_vars

(***************************************************************************)
(* A call that has begun goes on, timers fire, and the client's loops and  *)
(* the server's loop run.  The mail server need not answer, nobody need    *)
(* ask, and the connection may break at any time or never, but a write     *)
(* that stays blocked breaks it: the transport sets a write deadline.      *)
(***************************************************************************)
Fairness ==
    /\ WF_vars(Len(toServer) = WireLimit /\ Disconnect)
    /\ \A r \in Request : WF_vars(Submit(r) \/ Announce(r))
    /\ \A r \in {q \in Request : q.timeout} : WF_vars(ExpireRequest(r))
    /\ WF_vars(ReadRequest) /\ WF_vars(ClientLoop)
    /\ \A l \in 1 .. MaxLink : WF_vars(PostP2P(l))
    /\ WF_vars(~ quit /\ ProcessP2P)

FairSpec == Spec /\ Fairness

-----------------------------------------------------------------------------
TypeOK ==
    /\ link \in 0 .. MaxLink /\ conn \in {"down", "up", "closing"}
    /\ trusted \in BOOLEAN /\ quit \in BOOLEAN /\ syncing \in BOOLEAN
    /\ call \in [Request -> [pc : {"none", "send", "announce", "done"}, link : 0 .. MaxLink]]
    /\ timers \subseteq Request /\ jobs \subseteq Request
    /\ Len(toServer) <= WireLimit /\ Len(toClient) <= WireLimit
    /\ \A l \in 1 .. MaxLink : \A i \in DOMAIN pending[l] :
          \/ pending[l][i].type = "event"
          \/ pending[l][i].type = "mail" /\ pending[l][i].value \in Mail
    /\ Len(p2pMsgQueue) <= QueueLimit
    /\ announced \subseteq Request /\ expired \subseteq Request
    /\ delivered \subseteq Mail /\ mailed \in [Request -> SUBSET Mail]
    /\ answered \subseteq Response

(* Every part of a completion event that reaches the feed is what the server
   put in its answer: request, error text, last hash and cursor survive
   CreateMailServerRequest...Payload and CreateMailServerEvent. *)
EventIsResponse == concluded \subseteq answered

Completed(r) == \E c \in concluded : c.id = r.id

(* EventMailServerRequestCompleted comes after everything the server sent for
   the request has gone to the filters, since messages and completions pass
   through the one p2pMsgQueue. *)
CompletedAfterDelivery == \A r \in Request : Completed(r) => mailed[r] \subseteq delivered

(* RequestHistoricMessages announces a request before anyone hears that it was
   completed or has expired: the event precedes the send. *)
AnnouncedFirst ==
    \A r \in Request : r.kind = "historic" /\ (Completed(r) \/ r \in expired) => r \in announced

(* EventMailServerSyncFinished means that every envelope the server sent in
   the synchronisation was archived, if the server was trusted when the
   synchronisation was asked for. *)
SyncFinishedIsArchived == sync.finished /\ sync.trusting => sync.mail \subseteq sync.archived

(* A request with a timeout that was announced is reported as completed or as
   expired, be it that the send failed or the connection broke, unless the
   node stops. *)
RequestConcluded ==
    \A r \in {q \in Request : q.timeout} :
        r \in announced ~> Completed(r) \/ r \in expired \/ quit

ResponseUnderway(r) ==
    \E i \in DOMAIN toClient :
        /\ toClient[i].code = "complete"
        /\ CreateMailServerEvent(toClient[i].payload).id = r.id

(* A readable completion on its way to the client is reported unless the
   connection breaks or the node stops: the client still trusts the peer it
   has asked, and waiting for room in the queue ends. *)
ResponseReported ==
    \A r \in Request : ResponseUnderway(r) ~> Completed(r) \/ conn # "up" \/ quit
=============================================================================
