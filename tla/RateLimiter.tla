---------------------------- MODULE RateLimiter -----------------------------
(***************************************************************************)
(* PeerRateLimiter.decorate: the message loop of a peer runs on one end of *)
(* a message pipe, and two goroutines copy packets between the other end   *)
(* and the connection, counting those above the limits.  The three report  *)
(* their errors to a channel, from which decorate takes one; it then       *)
(* closes the pipe and returns, and p2p closes the connection.             *)
(*                                                                         *)
(* Vendored code: p2p.MsgPipe, where a write waits for a reader and then   *)
(* for the payload to be read, and the token buckets of the limits, which  *)
(* may be empty at any packet.                                             *)
(***************************************************************************)
EXTENDS Integers, Sequences, FiniteSets

CONSTANTS
    Stream,          \* packets the peer sends, in order
    Limits,          \* settings of the limiter: see MayHalt
    ErrCapacity      \* capacity of errC: 1 in the code

ASSUME RateLimiterAssumption == Stream \in Seq(Nat) /\ ErrCapacity \in Nat

VARIABLES
    limit,           \* the settings of this limiter
    unread,          \* packets on the connection
    connected,       \* whether the connection is up
    closed,          \* whether the pipe is closed
    copier,          \* goroutine from the connection to the pipe
    writer,          \* goroutine from the pipe to the connection
    loop,            \* runMessageLoop
    handled,         \* packets the loop has handled
    replies,         \* goroutines of sendConfirmation, by the packet each sends next
    exceeded,        \* packets counted as above a limit
    errC,            \* errors in the channel
    returned         \* whether decorate has returned

vars == <<limit, unread, connected, closed, copier, writer, loop, handled, replies,
          exceeded, errC, returned>>

At(pc) == [pc |-> pc]
Confirmation == {"response", "batchAck"}
Holding(pc, packet) == [pc |-> pc, packet |-> packet]

Init ==
    /\ limit \in Limits
    /\ unread = Stream
    /\ connected = TRUE
    /\ closed = FALSE
    /\ copier = At("read") /\ writer = At("read") /\ loop = At("read")
    /\ handled = << >>
    /\ replies = [code \in Confirmation |-> 0]
    /\ exceeded = 0
    /\ errC = 0
    /\ returned = FALSE

-----------------------------------------------------------------------------
(* throttleIP and throttlePeer: whether the bucket is asked at all.  Both    *)
(* look at the limit for IPs.                                                *)
MayHaltIP == limit.perSecIP # 0 /\ ~ limit.whitelistedIP
MayHaltPeer == limit.perSecIP # 0 /\ ~ limit.whitelistedPeer

(* What a packet adds to the counters. *)
Halts == 0 .. (IF MayHaltIP THEN 1 ELSE 0) + (IF MayHaltPeer THEN 1 ELSE 0)

(* Faulty form: a packet above the limits is not passed on. *)
ReadPacketDropHalted ==
    /\ copier.pc = "read"
    /\ connected /\ unread # << >>
    /\ unread' = Tail(unread)
    /\ \E n \in Halts :
           /\ exceeded' = exceeded + n
           /\ copier' = IF n > 0 THEN copier ELSE Holding("write", Head(unread))
    /\ UNCHANGED <<limit, connected, closed, writer, loop, handled, replies, errC, returned>>

(* The copier reads a packet and counts it. *)
ReadPacket ==
    /\ copier.pc = "read"
    /\ connected /\ unread # << >>
    /\ copier' = Holding("write", Head(unread))
    /\ unread' = Tail(unread)
    /\ \E n \in Halts : exceeded' = exceeded + n
    /\ UNCHANGED <<limit, connected, closed, writer, loop, handled, replies, errC, returned>>

(* The loop takes it from the pipe; the copier waits for it to be consumed. *)
PassOn ==
    /\ copier.pc = "write" /\ loop.pc = "read"
    /\ copier' = At("wait")
    /\ loop' = Holding("handle", copier.packet)
    /\ UNCHANGED <<limit, unread, connected, closed, writer, handled, replies, exceeded, errC,
                   returned>>

(* The loop has read the payload: the write of the copier returns. *)
Consume ==
    /\ loop.pc = "handle"
    /\ loop' = Holding("work", loop.packet)
    /\ copier' = IF copier.pc = "wait" THEN At("read") ELSE copier
    /\ UNCHANGED <<limit, unread, connected, closed, writer, handled, replies, exceeded, errC,
                   returned>>

(* It works on the packet, may start a goroutine that confirms it, and goes   *)
(* on or returns with an error.                                               *)
Handle(confirms, fails) ==
    /\ loop.pc = "work"
    /\ handled' = Append(handled, loop.packet)
    /\ replies' = IF confirms THEN [replies EXCEPT !["response"] = @ + 1] ELSE replies
    /\ loop' = IF fails THEN At("report") ELSE At("read")
    /\ UNCHANGED <<limit, unread, connected, closed, copier, writer, exceeded, errC, returned>>

(* An oversized packet is left where it is, or the pipe is closed. *)
LoopFails ==
    /\ \/ loop.pc = "handle"
       \/ loop.pc = "read" /\ closed
    /\ loop' = At("report")
    /\ UNCHANGED <<limit, unread, connected, closed, copier, writer, handled, replies, exceeded,
                   errC, returned>>

(* sendConfirmation: the response goes through the pipe, then the bare         *)
(* acknowledgement; each is given up when the pipe is closed.                 *)
Confirm(code) ==
    /\ replies[code] > 0
    /\ replies' = IF code = "response"
                  THEN [replies EXCEPT !["response"] = @ - 1, !["batchAck"] = @ + 1]
                  ELSE [replies EXCEPT !["batchAck"] = @ - 1]
    /\ \/ writer.pc = "read" /\ writer' = At("write")
       \/ closed /\ UNCHANGED writer
    /\ UNCHANGED <<limit, unread, connected, closed, copier, loop, handled, exceeded, errC,
                   returned>>

(* The writer passes it to the connection. *)
WriteOut ==
    /\ writer.pc = "write" /\ connected
    /\ writer' = At("read")
    /\ UNCHANGED <<limit, unread, connected, closed, copier, loop, handled, replies, exceeded,
                   errC, returned>>

WriterFails ==
    /\ \/ writer.pc = "write" /\ ~ connected
       \/ writer.pc = "read" /\ closed
    /\ writer' = At("report")
    /\ UNCHANGED <<limit, unread, connected, closed, copier, loop, handled, replies, exceeded,
                   errC, returned>>

(* Faulty form: an error of the connection is not reported. *)
CopierFailsSilently ==
    /\ \/ copier.pc = "read" /\ ~ connected /\ copier' = At("end")
       \/ copier.pc = "write" /\ closed /\ copier' = At("report")
       \/ copier.pc = "wait" /\ closed /\ copier' = At("read")
    /\ UNCHANGED <<limit, unread, connected, closed, writer, loop, handled, replies, exceeded,
                   errC, returned>>

(* Either side of the copier fails; a write that waits returns without error. *)
CopierFails ==
    /\ \/ copier.pc = "read" /\ ~ connected /\ copier' = At("report")
       \/ copier.pc = "write" /\ closed /\ copier' = At("report")
       \/ copier.pc = "wait" /\ closed /\ copier' = At("read")
    /\ UNCHANGED <<limit, unread, connected, closed, writer, loop, handled, replies, exceeded,
                   errC, returned>>

-----------------------------------------------------------------------------
(* Faulty form: a channel without a buffer, which decorate reads once. *)
ReportUnbuffered(g) ==
    /\ g.pc = "report" /\ ~ returned /\ errC = 0
    /\ errC' = errC + 1
    /\ UNCHANGED <<limit, unread, connected, closed, handled, replies, exceeded, returned>>

(* errC <- err blocks while the channel is full. *)
Report(g) ==
    /\ g.pc = "report" /\ errC < ErrCapacity
    /\ errC' = errC + 1
    /\ UNCHANGED <<limit, unread, connected, closed, handled, replies, exceeded, returned>>

ReportCopier == Report(copier) /\ copier' = At("end") /\ UNCHANGED <<writer, loop>>
ReportWriter == Report(writer) /\ writer' = At("end") /\ UNCHANGED <<copier, loop>>
ReportLoop == Report(loop) /\ loop' = At("end") /\ UNCHANGED <<copier, writer>>

(* decorate takes an error, and its deferred calls close the pipe. *)
Return ==
    /\ ~ returned /\ errC > 0
    /\ errC' = errC - 1
    /\ returned' = TRUE
    /\ closed' = TRUE
    /\ UNCHANGED <<limit, unread, connected, copier, writer, loop, handled, replies, exceeded>>

(* The peer is lost, or p2p ends the connection when HandlePeer returns. *)
Disconnect ==
    /\ connected
    /\ connected' = FALSE
    /\ UNCHANGED <<limit, unread, closed, copier, writer, loop, handled, replies, exceeded,
                   errC, returned>>

Next ==
    \/ ReadPacket \/ PassOn \/ CopierFails \/ ReportCopier
    \/ Consume
    \/ \E confirms, fails \in BOOLEAN : Handle(confirms, fails)
    \/ LoopFails \/ ReportLoop
    \/ \E code \in Confirmation : Confirm(code)
    \/ WriteOut \/ WriterFails \/ ReportWriter
    \/ Return \/ Disconnect

(***************************************************************************)
(* Every goroutine that can go on does, p2p ends the connection of a       *)
(* handler that has returned, and the peer need not do anything.  A node   *)
(* that is not stopped handles every packet: add may wait for a queue, but *)
(* its consumer empties it (AddReturns of EnvelopePool).                   *)
(***************************************************************************)
Fairness ==
    /\ WF_vars(ReadPacket) /\ WF_vars(PassOn) /\ WF_vars(CopierFails) /\ WF_vars(ReportCopier)
    /\ WF_vars(Consume \/ (\E confirms, fails \in BOOLEAN : Handle(confirms, fails)) \/ LoopFails)
    /\ WF_vars(ReportLoop)
    /\ \A code \in Confirmation : WF_vars(Confirm(code))
    /\ WF_vars(WriteOut) /\ WF_vars(WriterFails) /\ WF_vars(ReportWriter)
    /\ WF_vars(Return) /\ WF_vars(returned /\ Disconnect)

Spec == Init /\ [][Next]_vars
FairSpec == Spec /\ Fairness

-----------------------------------------------------------------------------
(* The packet a goroutine has in its hands. *)
InHand(g) == IF g.pc \in {"write", "handle", "work"} THEN <<g.packet>> ELSE << >>

(***************************************************************************)
(* The loop gets the packets of the peer in the order they came, each one  *)
(* once, none left out: the limits are counted and nothing else, and the   *)
(* two goroutines between connection and loop neither drop nor overtake.   *)
(* Only a loop or a copier that has failed loses the packet in its hands.  *)
(***************************************************************************)
InOrder ==
    /\ handled = SubSeq(Stream, 1, Len(handled))
    /\ copier.pc \in {"read", "write", "wait"} /\ loop.pc \in {"read", "handle", "work"}
       => handled \o InHand(loop) \o InHand(copier) \o unread = Stream

(***************************************************************************)
(* decorate, and with it HandlePeer, returns once the connection is lost   *)
(* or any of the three goroutines has failed, whoever waits for whom.      *)
(***************************************************************************)
DecorateReturns ==
    (~ connected \/ \E g \in {copier.pc, writer.pc, loop.pc} : g = "report") ~> returned

Ended == {g \in {"copier", "writer", "loop"} :
             CASE g = "copier" -> copier.pc = "end"
               [] g = "writer" -> writer.pc = "end"
               [] g = "loop" -> loop.pc = "end"}

(***************************************************************************)
(* Once decorate has returned, at least two of its goroutines end.  The    *)
(* third one does not, as a rule: of three reports one is taken and one    *)
(* fits into the channel, and whoever comes last stays blocked for ever,   *)
(* one goroutine for every connection there has been.                      *)
(***************************************************************************)
OneLeftBehind == returned ~> Cardinality(Ended) >= 2
=============================================================================
