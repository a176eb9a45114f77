------------------------- MODULE RateLimiterProofs -------------------------
(***************************************************************************)
(* Proof that decorate passes packets on in order, for every stream of     *)
(* packets, every setting of the limits and every capacity of errC.        *)
(***************************************************************************)
EXTENDS RateLimiter, SequenceTheorems, TLAPS

CopierLives == copier.pc \in {"read", "write", "wait"}
LoopLives == loop.pc \in {"read", "handle", "work"}
LoopHolds == loop.pc \in {"handle", "work"}

Types ==
    /\ unread \in Seq(Nat) /\ Len(unread) <= Len(Stream)
    /\ handled \in Seq(Nat)
    /\ copier.pc \in {"read", "write", "wait", "report", "end"}
    /\ loop.pc \in {"read", "handle", "work", "report", "end"}
    /\ copier.pc = "write" => copier.packet \in Nat
    /\ LoopHolds => loop.packet \in Nat

(* How many packets were read from the connection, and how many of them the
   copier has passed on. *)
Taken == Len(Stream) - Len(unread)
Passed == IF copier.pc = "write" THEN Taken - 1 ELSE Taken

(***************************************************************************)
(* Where each packet is, by its place in the stream.  A loop that has lost *)
(* its copier may still hold a packet, a copier that has lost its loop     *)
(* holds one in vain.                                                      *)
(***************************************************************************)
InPlace ==
    /\ \A i \in 1 .. Len(unread) : unread[i] = Stream[Taken + i]
    /\ copier.pc = "write" => Taken >= 1 /\ copier.packet = Stream[Taken]
    /\ Len(handled) <= Len(Stream)
    /\ \A i \in 1 .. Len(handled) : handled[i] = Stream[i]
    /\ LoopHolds => Len(handled) < Len(Stream) /\ loop.packet = Stream[Len(handled) + 1]
    /\ CopierLives /\ loop.pc = "read" => Len(handled) = Passed
    /\ CopierLives /\ LoopHolds => Len(handled) + 1 = Passed

PacketsInv == Types /\ InPlace

-----------------------------------------------------------------------------
LEMMA PacketsInit == Init => PacketsInv
  BY RateLimiterAssumption
  DEF Init, PacketsInv, Types, InPlace, At, CopierLives, LoopHolds, Taken, Passed

LEMMA PacketsNext == PacketsInv /\ [Next]_vars => PacketsInv'
<1> SUFFICES ASSUME PacketsInv, [Next]_vars
             PROVE  PacketsInv'
  OBVIOUS
<1> USE RateLimiterAssumption
    DEF PacketsInv, Types, InPlace, At, Holding, CopierLives, LoopHolds, Taken, Passed
<1>1. CASE ReadPacket
  <2>1. /\ unread' \in Seq(Nat) /\ Len(unread') = Len(unread) - 1
        /\ \A i \in 1 .. Len(unread') : unread'[i] = unread[i + 1]
        /\ Head(unread) = unread[1] /\ Head(unread) \in Nat /\ Len(unread) \in Nat \ {0}
    BY <1>1 DEF ReadPacket
  <2>2. copier' = [pc |-> "write", packet |-> Head(unread)] /\ copier.pc = "read"
        /\ handled' = handled /\ loop' = loop
    BY <1>1 DEF ReadPacket
  <2>3. Types'
    BY <2>1, <2>2
  <2>4. Taken' = Taken + 1
    BY <2>1
  <2>5. \A i \in 1 .. Len(unread') : unread'[i] = Stream[Taken' + i]
    <3> SUFFICES ASSUME NEW i \in 1 .. Len(unread')
                 PROVE  unread'[i] = Stream[Taken' + i]
      OBVIOUS
    <3>1. i + 1 \in 1 .. Len(unread) /\ Taken' + i = Taken + (i + 1)
      BY <2>1, <2>4
    <3> QED  BY <2>1, <3>1, Zenon
  <2>6. Taken' >= 1 /\ copier'.packet = Stream[Taken'] /\ Passed' = Passed
    <3>1. 1 \in 1 .. Len(unread)
      BY <2>1
    <3> QED  BY <2>1, <2>2, <2>4, <3>1
  <2>7. InPlace'
    <3>1. copier'.pc = "write" /\ Passed' = Passed /\ CopierLives
      BY <2>2, <2>6
    <3> QED  BY <2>2, <2>5, <2>6, <3>1, Zenon
  <2> QED  BY <2>3, <2>7, Zenon
<1>2. CASE PassOn
  <2>1. /\ copier.pc = "write" /\ loop.pc = "read" /\ unread' = unread /\ handled' = handled
        /\ loop'.pc = "handle" /\ loop'.packet = copier.packet /\ copier'.pc = "wait"
    BY <1>2 DEF PassOn
  <2>2. Types'
    BY <2>1
  <2>3. Len(handled) = Taken - 1 /\ Passed' = Taken /\ Taken' = Taken /\ Taken <= Len(Stream)
    BY <2>1
  <2>4. InPlace'
    BY <2>1, <2>3
  <2> QED  BY <2>2, <2>4, Zenon
<1>3. CASE Consume
  <2>1. /\ loop.pc = "handle" /\ loop'.pc = "work" /\ loop'.packet = loop.packet
        /\ unread' = unread /\ handled' = handled
        /\ copier' = IF copier.pc = "wait" THEN [pc |-> "read"] ELSE copier
    BY <1>3 DEF Consume
  <2> QED  BY <2>1
<1>4. ASSUME NEW confirms \in BOOLEAN, NEW fails \in BOOLEAN, Handle(confirms, fails)
      PROVE  PacketsInv'
  <2>1. /\ handled' = Append(handled, loop.packet) /\ loop.pc = "work" /\ loop.packet \in Nat
        /\ unread' = unread /\ copier' = copier
        /\ loop'.pc \in {"read", "report"}
    BY <1>4 DEF Handle
  <2>2. /\ handled' \in Seq(Nat) /\ Len(handled') = Len(handled) + 1
        /\ \A i \in 1 .. Len(handled) : handled'[i] = handled[i]
        /\ handled'[Len(handled) + 1] = loop.packet
    BY <2>1
  <2>3. Types'
    BY <2>1, <2>2
  <2>4. Len(handled') <= Len(Stream)
    BY <2>1, <2>2
  <2>5. ASSUME NEW i \in 1 .. Len(handled')
        PROVE  handled'[i] = Stream[i]
    <3>1. Len(handled) \in Nat /\ (i \in 1 .. Len(handled) \/ i = Len(handled) + 1)
      BY <2>2
    <3> QED  BY <2>1, <2>2, <3>1, Zenon
  <2>6. CopierLives' => CopierLives /\ Len(handled') = Passed' /\ ~ LoopHolds'
    BY <2>1, <2>2
  <2>7. \A i \in 1 .. Len(unread') : unread'[i] = Stream[Taken' + i]
    BY <2>1, Zenon
  <2>8. copier'.pc = "write" => Taken' >= 1 /\ copier'.packet = Stream[Taken']
    BY <2>1
  <2>9. InPlace'
    BY <2>1, <2>4, <2>5, <2>6, <2>7, <2>8, Zenon
  <2> QED  BY <2>3, <2>9, Zenon
<1>5. CASE LoopFails
  BY <1>5 DEF LoopFails
<1>6. CASE CopierFails
  BY <1>6 DEF CopierFails
<1>7. CASE ReportCopier
  BY <1>7 DEF ReportCopier, Report
<1>8. CASE ReportLoop
  BY <1>8 DEF ReportLoop, Report
<1>9. ASSUME UNCHANGED <<unread, handled, copier, loop>>
      PROVE  PacketsInv'
  BY <1>9
<1> QED
  BY <1>1, <1>2, <1>3, <1>4, <1>5, <1>6, <1>7, <1>8, <1>9
  DEF Next, Confirm, WriteOut, WriterFails, ReportWriter, Report, Return, Disconnect, vars

(* Two pieces of a stream that follow each other make up a larger one. *)
LEMMA ConcatPlaces ==
    ASSUME NEW s \in Seq(Nat), NEW t \in Seq(Nat),
           \A i \in 1 .. Len(s) : s[i] = Stream[i],
           \A i \in 1 .. Len(t) : t[i] = Stream[Len(s) + i]
    PROVE  /\ s \o t \in Seq(Nat) /\ Len(s \o t) = Len(s) + Len(t)
           /\ \A i \in 1 .. Len(s) + Len(t) : (s \o t)[i] = Stream[i]
<1>1. /\ s \o t \in Seq(Nat) /\ Len(s \o t) = Len(s) + Len(t)
      /\ \A i \in 1 .. Len(s) + Len(t) :
             (s \o t)[i] = IF i <= Len(s) THEN s[i] ELSE t[i - Len(s)]
  BY ConcatProperties
<1>2. ASSUME NEW i \in 1 .. Len(s) + Len(t), ~ (i <= Len(s))
      PROVE  t[i - Len(s)] = Stream[i]
  <2>1. i - Len(s) \in 1 .. Len(t) /\ Len(s) + (i - Len(s)) = i
    BY <1>2
  <2> QED  BY <2>1
<1> QED  BY <1>1, <1>2

(* Packets that are in place make up the stream. *)
LEMMA InPlaceInOrder == PacketsInv => InOrder
<1> SUFFICES ASSUME PacketsInv
             PROVE  InOrder
  OBVIOUS
<1> USE RateLimiterAssumption DEF PacketsInv, Types, InPlace
<1>1. handled = SubSeq(Stream, 1, Len(handled))
  <2>1. Len(handled) \in Nat /\ \A i \in 1 .. Len(handled) : Stream[i] \in Nat
    OBVIOUS
  <2>2. /\ SubSeq(Stream, 1, Len(handled)) \in Seq(Nat)
        /\ Len(SubSeq(Stream, 1, Len(handled))) = Len(handled)
        /\ \A i \in 1 .. Len(handled) : SubSeq(Stream, 1, Len(handled))[i] = Stream[i]
    BY <2>1, SubSeqProperties
  <2> QED  BY <2>2, SeqEqual
<1>2. ASSUME CopierLives, LoopLives
      PROVE  handled \o InHand(loop) \o InHand(copier) \o unread = Stream
  <2> DEFINE front == handled \o InHand(loop)
             middle == front \o InHand(copier)
  <2>1. /\ InHand(loop) \in Seq(Nat) /\ Len(handled) + Len(InHand(loop)) = Passed
        /\ \A i \in 1 .. Len(InHand(loop)) : InHand(loop)[i] = Stream[Len(handled) + i]
    <3>1. CASE LoopHolds
      <4>1. InHand(loop) = <<loop.packet>>
        BY <3>1 DEF InHand, LoopHolds
      <4> QED  BY <1>2, <3>1, <4>1 DEF Taken, Passed
    <3>2. CASE loop.pc = "read"
      <4>1. InHand(loop) = << >>
        BY <3>2 DEF InHand
      <4> QED  BY <1>2, <3>2, <4>1 DEF Taken, Passed
    <3> QED  BY <1>2, <3>1, <3>2 DEF LoopLives, LoopHolds
  <2>2. /\ InHand(copier) \in Seq(Nat) /\ Passed + Len(InHand(copier)) = Taken
        /\ \A i \in 1 .. Len(InHand(copier)) : InHand(copier)[i] = Stream[Passed + i]
    <3>1. CASE copier.pc = "write"
      <4>1. InHand(copier) = <<copier.packet>>
        BY <3>1 DEF InHand
      <4> QED  BY <3>1, <4>1 DEF Taken, Passed
    <3>2. CASE copier.pc \in {"read", "wait"}
      <4>1. InHand(copier) = << >>
        BY <3>2 DEF InHand
      <4> QED  BY <3>2, <4>1 DEF Taken, Passed
    <3> QED  BY <1>2, <3>1, <3>2 DEF CopierLives
  <2>3. /\ front \in Seq(Nat) /\ Len(front) = Passed
        /\ \A i \in 1 .. Len(front) : front[i] = Stream[i]
    BY <2>1, ConcatPlaces
  <2> HIDE DEF front
  <2>4. \A i \in 1 .. Len(InHand(copier)) : InHand(copier)[i] = Stream[Len(front) + i]
    BY <2>2, <2>3
  <2>5. /\ unread \in Seq(Nat) /\ Taken + Len(unread) = Len(Stream)
        /\ \A i \in 1 .. Len(unread) : unread[i] = Stream[Taken + i]
    BY DEF Taken
  <2> HIDE DEF PacketsInv, Types, InPlace
  <2>6. /\ middle \in Seq(Nat) /\ Len(middle) = Len(front) + Len(InHand(copier))
        /\ \A i \in 1 .. Len(middle) : middle[i] = Stream[i]
    <3>1. /\ middle \in Seq(Nat) /\ Len(middle) = Len(front) + Len(InHand(copier))
          /\ \A i \in 1 .. Len(front) + Len(InHand(copier)) : middle[i] = Stream[i]
      BY <2>2, <2>3, <2>4, ConcatPlaces, Zenon
    <3> QED  BY <3>1, Zenon
  <2> HIDE DEF middle
  <2>7. Len(middle) = Taken /\ Len(middle) + Len(unread) = Len(Stream)
    BY <2>2, <2>3, <2>6, <2>5
  <2>8. \A i \in 1 .. Len(unread) : unread[i] = Stream[Len(middle) + i]
    BY <2>7, <2>5
  <2>9. /\ middle \o unread \in Seq(Nat) /\ Len(middle \o unread) = Len(Stream)
        /\ \A i \in 1 .. Len(Stream) : (middle \o unread)[i] = Stream[i]
    <3>1. /\ middle \o unread \in Seq(Nat) /\ Len(middle \o unread) = Len(middle) + Len(unread)
          /\ \A i \in 1 .. Len(middle) + Len(unread) : (middle \o unread)[i] = Stream[i]
      BY <2>6, <2>8, <2>5, ConcatPlaces, Zenon
    <3> QED  BY <2>7, <3>1, Zenon
  <2>10. middle \o unread = Stream
    BY <2>9, SeqEqual, Zenon
  <2> QED  BY <2>10, Zenon DEF middle, front
<1> QED  BY <1>1, <1>2, Zenon DEF InOrder, CopierLives, LoopLives

(***************************************************************************)
(* decorate hands the packets of the peer to the message loop in order,    *)
(* each once and none left out, whatever the limits count and whichever of *)
(* its goroutines fails.                                                   *)
(***************************************************************************)
THEOREM PacketsInOrder == Spec => []InOrder
  BY PacketsInit, PacketsNext, InPlaceInOrder, PTL DEF Spec
=============================================================================
