--------------------------- MODULE SettingsProofs ---------------------------
(***************************************************************************)
(* Proofs about Settings, for any number of peers, any values, and both    *)
(* requirements: with one goroutine changing the requirement, no peer is   *)
(* left with an outdated one; what a peer sent in good faith is accepted   *)
(* if the changes are calm; the variables keep their types.                *)
(*                                                                         *)
(* The first invariant names, for a connected peer, who will still tell    *)
(* it: the setter that has not listed or notified it yet, the handshake    *)
(* that has not loaded or sent the value yet, or the last packet on its    *)
(* way.  Otherwise it knows, or its handshake is going to fail because a   *)
(* notification went out before the status.  The second one (PoliteInv)    *)
(* follows the value a peer knows, and the envelopes it sends, against the *)
(* goroutine that makes the new value the tolerated one.                   *)
(***************************************************************************)
EXTENDS Settings, TLAPS

Value == Level \cup SUBSET Topic
Letter == [code : {"status", "powRequirement", "bloomFilterEx"}, val : Value, left : Int]
(* Numbers of peers, of which 0 is one. *)
Count == {Cardinality(S) : S \in SUBSET Peer} \cup {0}
Setting == [pc : {"idle", "count", "list", "notify"}, val : Value, count : Count, todo : SUBSET Peer]
Greeting == [pc : {"out", "load", "send", "done"}, val : Value]

SettingsTypes ==
    /\ initial \in Value /\ required \in Value
    /\ setter \in [Setter -> Setting]
    /\ peers \in SUBSET Peer
    /\ handshake \in [Peer -> Greeting]
    /\ remote \in [Peer -> {"out", "await", "up", "closed"}]
    /\ view \in [Peer -> Value]
    /\ wire \in [Peer -> Seq(Letter)]

(* What the last packet on a wire says; without one, what was known before. *)
Heard(w, v) == IF w = << >> THEN v ELSE w[Len(w)].val

LEMMA Letters ==
    ASSUME NEW w \in Seq(Letter), NEW v
    PROVE  /\ \A m \in Letter : /\ Append(w, m) \in Seq(Letter) /\ Append(w, m) # << >>
                                /\ Heard(Append(w, m), v) = m.val
                                /\ Head(Append(w, m)) = IF w = << >> THEN m ELSE Head(w)
           /\ w # << >> => /\ Tail(w) \in Seq(Letter) /\ Head(w) \in Letter
                           /\ Heard(Tail(w), Head(w).val) = Heard(w, v)
<1>1. ASSUME NEW m \in Letter
      PROVE  /\ Append(w, m) \in Seq(Letter) /\ Append(w, m) # << >>
             /\ Append(w, m)[Len(Append(w, m))] = m
             /\ Head(Append(w, m)) = IF w = << >> THEN m ELSE Head(w)
  <2>1. /\ Append(w, m) \in Seq(Letter) /\ Len(Append(w, m)) = Len(w) + 1
        /\ Append(w, m)[Len(w) + 1] = m /\ Len(w) \in Nat
        /\ \A i \in 1 .. Len(w) : Append(w, m)[i] = w[i]
    OBVIOUS
  <2>2. Append(w, m) # << >> /\ Head(Append(w, m)) = Append(w, m)[1]
    BY <2>1
  <2>3. w = << >> => Len(w) = 0
    OBVIOUS
  <2>4. w # << >> => 1 \in 1 .. Len(w) /\ Head(w) = w[1]
    OBVIOUS
  <2> QED  BY <2>1, <2>2, <2>3, <2>4
<1>2. ASSUME w # << >>
      PROVE  /\ Tail(w) \in Seq(Letter) /\ Head(w) \in Letter
             /\ Heard(Tail(w), Head(w).val) = Heard(w, v)
  <2>1. /\ Tail(w) \in Seq(Letter) /\ Head(w) \in Letter /\ Head(w) = w[1]
        /\ Len(w) \in Nat \ {0} /\ Len(Tail(w)) = Len(w) - 1
        /\ \A i \in 1 .. Len(w) - 1 : Tail(w)[i] = w[i + 1]
    BY <1>2
  <2> DEFINE t == Tail(w)
  <2>2. t \in Seq(Letter) /\ Len(t) = Len(w) - 1 /\ \A i \in 1 .. Len(w) - 1 : t[i] = w[i + 1]
    BY <2>1, Zenon
  <2> HIDE DEF t
  <2>3. t = << >> <=> Len(w) = 1
    BY <2>1, <2>2
  <2>4. CASE Len(w) = 1
    BY <1>2, <2>1, <2>3, <2>4, Zenon DEF Heard, t
  <2>5. CASE Len(w) # 1
    <3>1. Len(w) - 1 \in 1 .. Len(w) - 1 /\ (Len(w) - 1) + 1 = Len(w)
      BY <2>1, <2>5
    <3>2. t[Len(t)] = w[Len(w)]
      BY <2>2, <3>1, Zenon
    <3> QED  BY <1>2, <2>1, <2>3, <2>5, <3>2, Zenon DEF Heard, t
  <2> QED  BY <2>1, <2>4, <2>5, Zenon
<1> QED  BY <1>1, <1>2, Zenon DEF Heard

(* A second passes for the packets on a wire. *)
LEMMA Aged ==
    ASSUME NEW w \in Seq(Letter), NEW a, a = [i \in DOMAIN w |-> [w[i] EXCEPT !.left = @ - 1]], NEW v
    PROVE  /\ a \in Seq(Letter) /\ (a = << >> <=> w = << >>) /\ Heard(a, v) = Heard(w, v)
           /\ w # << >> => Head(a).code = Head(w).code
<1>1. PICK n \in Nat : n = Len(w) /\ DOMAIN w = 1 .. n
  OBVIOUS
<1>2. \A i \in 1 .. n : w[i] \in Letter
  BY <1>1
<1>3. \A i \in 1 .. n : a[i] = [w[i] EXCEPT !.left = @ - 1]
  BY <1>1, Zenon
<1>4. \A i \in 1 .. n : a[i] \in Letter /\ a[i].code = w[i].code /\ a[i].val = w[i].val
  <2> SUFFICES ASSUME NEW x \in Letter
               PROVE  LET y == [x EXCEPT !.left = @ - 1]
                      IN  y \in Letter /\ y.code = x.code /\ y.val = x.val
    BY <1>2, <1>3, Zenon
  <2> QED  BY DEF Letter
<1>5. a \in [1 .. n -> Letter]
  BY <1>1, <1>4, Zenon
<1>6. a \in Seq(Letter) /\ Len(a) = n
  BY <1>5
<1>7. (a = << >> <=> n = 0) /\ (w = << >> <=> n = 0)
  BY <1>1, <1>6
<1>8. n # 0 => 1 \in 1 .. n /\ n \in 1 .. n /\ Head(a) = a[1] /\ Head(w) = w[1]
  BY <1>1, <1>6, <1>7
<1> QED  BY <1>1, <1>4, <1>6, <1>7, <1>8, Zenon DEF Heard

LEMMA InitialTypes == Init => initial \in Value
  BY LevelAssumption, Zenon DEF Init, Initial, Value

(* A packet is written, the others leave the wires alone. *)
Sends(p, m) ==
    /\ m.left = Delay /\ Len(wire[p]) < WireLimit
    /\ wire' = [wire EXCEPT ![p] = Append(@, m)]

LEMMA WriteEffect ==
    ASSUME SettingsTypes, NEW p \in Peer, NEW code \in {"status", "powRequirement", "bloomFilterEx"},
           NEW val \in Value, Write(p, code, val)
    PROVE  \E m \in Letter : /\ m.code = code /\ m.val = val /\ Sends(p, m)
                             /\ wire' \in [Peer -> Seq(Letter)]
<1> DEFINE m == [code |-> code, val |-> val, left |-> Delay]
<1>1. m \in Letter /\ m.code = code /\ m.val = val /\ m.left = Delay
  BY TimeAssumption DEF Letter
<1>2. wire' = [wire EXCEPT ![p] = Append(@, m)] /\ Len(wire[p]) < WireLimit
  BY Zenon DEF Write
<1> HIDE DEF m
<1>3. wire' \in [Peer -> Seq(Letter)]
  BY <1>1, <1>2, Letters, Zenon DEF SettingsTypes
<1>4. Sends(p, m)
  BY <1>1, <1>2, Zenon DEF Sends
<1> QED  BY <1>1, <1>3, <1>4, Zenon

LEMMA SetterTypes ==
    ASSUME SettingsTypes, NEW s \in Setter, SetterStep(s)
    PROVE  SettingsTypes'
<1> USE DEF settingVars, remoteVars
<1>1. /\ setter \in [Setter -> Setting] /\ setter[s] \in Setting
      /\ wire \in [Peer -> Seq(Letter)] /\ required \in Value /\ peers \in SUBSET Peer
  BY Zenon DEF SettingsTypes
<1>2. ASSUME NEW v \in Value, Store(s, v)
      PROVE  SettingsTypes'
  <2> DEFINE q == [Idle EXCEPT !.pc = "count", !.val = v]
  <2>1. Idle \in Setting
    BY DEF SettingsTypes, Idle, Setting, Count
  <2>2. q \in Setting
    BY <2>1, Zenon DEF Setting
  <2>3. setter' = [setter EXCEPT ![s] = q]
    BY <1>2, Zenon DEF Store
  <2> HIDE DEF q
  <2>4. setter' \in [Setter -> Setting]
    BY <1>1, <2>2, <2>3, Zenon
  <2> QED  BY <1>2, <2>4, Zenon DEF Store, SettingsTypes
<1>3. CASE CountPeers(s)
  <2>1. Cardinality(peers) \in Count
    BY <1>1, Zenon DEF Count
  <2> DEFINE q == [setter[s] EXCEPT !.pc = "list", !.count = Cardinality(peers)]
  <2>2. q \in Setting
    BY <1>1, <2>1, Zenon DEF Setting
  <2>3. setter' = [setter EXCEPT ![s] = q]
    BY <1>1, <1>3, Zenon DEF CountPeers
  <2> HIDE DEF q
  <2>4. setter' \in [Setter -> Setting]
    BY <1>1, <2>2, <2>3, Zenon
  <2> QED  BY <1>3, <2>4, Zenon DEF CountPeers, SettingsTypes
<1>4. CASE ListPeers(s)
  <2> DEFINE q == [setter[s] EXCEPT !.pc = "notify", !.todo = peers]
  <2>2. q \in Setting
    BY <1>1, Zenon DEF Setting
  <2>3. setter' = [setter EXCEPT ![s] = q]
    BY <1>1, <1>4, Zenon DEF ListPeers
  <2> HIDE DEF q
  <2>4. setter' \in [Setter -> Setting]
    BY <1>1, <2>2, <2>3
  <2> QED  BY <1>4, <2>4, Zenon DEF ListPeers, SettingsTypes
<1>5. ASSUME NEW p \in Peer, NEW code \in {"powRequirement", "bloomFilterEx"}, Notify(s, p, code)
      PROVE  SettingsTypes'
  <2> DEFINE q == [setter[s] EXCEPT !.todo = @ \ {p}]
  <2>2. q \in Setting /\ setter[s].val \in Value
    BY <1>1, Zenon DEF Setting
  <2>3. setter' = [setter EXCEPT ![s] = q]
    BY <1>1, <1>5, Zenon DEF Notify
  <2> HIDE DEF q
  <2>4. setter' \in [Setter -> Setting]
    BY <1>1, <2>2, <2>3, Zenon
  <2>5. wire' \in [Peer -> Seq(Letter)]
    BY <1>5, <2>2, WriteEffect, Zenon DEF Notify
  <2> QED  BY <1>5, <2>4, <2>5, Zenon DEF Notify, SettingsTypes
<1>6. CASE FinishSet(s)
  <2>1. Idle \in Setting
    BY DEF SettingsTypes, Idle, Setting, Count
  <2> QED  BY <1>1, <1>6, <2>1, Zenon DEF FinishSet, SettingsTypes
<1>7. \A v \in Input : v >= 0 => v \in Value
  BY InputAssumption, Zenon DEF Value
<1>8. \A v \in Filter : v # WrongSize => v \in Value
  BY FilterAssumption, Zenon DEF Value
<1> QED
  BY <1>2, <1>3, <1>4, <1>5, <1>6, <1>7, <1>8, Zenon
  DEF SetterStep, SetMinimumPoW, SetBloomFilter, NotifyAboutPowRequirementChange,
      NotifyAboutBloomFilterChange

LEMMA PeerTypes ==
    ASSUME SettingsTypes, NEW p \in Peer, PeerStep(p)
    PROVE  SettingsTypes'
<1> USE DEF settingVars, remoteVars
<1>1. /\ handshake \in [Peer -> Greeting] /\ handshake[p] \in Greeting
      /\ wire \in [Peer -> Seq(Letter)] /\ wire[p] \in Seq(Letter)
      /\ required \in Value /\ peers \in SUBSET Peer
      /\ remote \in [Peer -> {"out", "await", "up", "closed"}] /\ view \in [Peer -> Value]
  BY Zenon DEF SettingsTypes
<1>2. CASE Track(p)
  <2>1. [handshake[p] EXCEPT !.pc = "load"] \in Greeting
    BY <1>1, Zenon DEF Greeting
  <2>2. handshake' \in [Peer -> Greeting]
    BY <1>1, <1>2, <2>1, Zenon DEF Track
  <2> QED  BY <1>1, <1>2, <2>2, Zenon DEF Track, SettingsTypes
<1>3. CASE LoadRequirements(p)
  <2>1. handshake' \in [Peer -> Greeting]
    BY <1>1, <1>3, Zenon DEF LoadRequirements, Greeting
  <2> QED  BY <1>3, <2>1, Zenon DEF LoadRequirements, SettingsTypes
<1>4. CASE SendStatus(p)
  <2>1. handshake' \in [Peer -> Greeting]
    BY <1>1, <1>4, Zenon DEF SettingsTypes, SendStatus, Greeting
  <2>2. handshake[p].val \in Value
    BY <1>1, Zenon DEF Greeting
  <2>3. wire' \in [Peer -> Seq(Letter)]
    BY <1>4, <2>2, WriteEffect, Zenon DEF SendStatus
  <2> QED  BY <1>4, <2>1, <2>3, Zenon DEF SendStatus, SettingsTypes
<1>5. CASE Leave(p)
  <2>1. handshake' \in [Peer -> Greeting] /\ view' \in [Peer -> Value]
    BY <1>1, <1>5, Zenon DEF SettingsTypes, Leave, Greeting
  <2>2. remote' \in [Peer -> {"out", "await", "up", "closed"}] /\ wire' \in [Peer -> Seq(Letter)]
    BY <1>1, <1>5 DEF Leave
  <2>3. setter' \in [Setter -> Setting]
    <3>1. \A x \in Setting : [x EXCEPT !.todo = @ \ {p}] \in Setting
      BY Zenon DEF Setting
    <3>2. \A s \in Setter : setter[s] \in Setting
      BY Zenon DEF SettingsTypes
    <3>3. setter' = [s \in Setter |-> [setter[s] EXCEPT !.todo = @ \ {p}]]
      BY <1>5, Zenon DEF Leave
    <3> QED  BY <3>1, <3>2, <3>3, Zenon
  <2>4. peers' \in SUBSET Peer /\ UNCHANGED <<initial, required>>
    BY <1>1, <1>5, Zenon DEF Leave
  <2> QED  BY <2>1, <2>2, <2>3, <2>4, Zenon DEF SettingsTypes
<1>6. ASSUME wire[p] # << >>, view' = [view EXCEPT ![p] = Head(wire[p]).val],
             wire' = [wire EXCEPT ![p] = Tail(@)]
      PROVE  view' \in [Peer -> Value] /\ wire' \in [Peer -> Seq(Letter)]
  <2>1. Tail(wire[p]) \in Seq(Letter) /\ Head(wire[p]).val \in Value
    BY <1>1, <1>6, Letters, Zenon DEF Letter
  <2> QED  BY <1>1, <1>6, <2>1, Zenon
<1>7. CASE ReadStatus(p)
  BY <1>1, <1>6, <1>7, Zenon DEF ReadStatus, SettingsTypes
<1>8. CASE RefuseStatus(p)
  <2>1. wire' \in [Peer -> Seq(Letter)]
    BY <1>1, <1>8 DEF RefuseStatus
  <2> QED  BY <1>1, <1>8, <2>1, Zenon DEF RefuseStatus, SettingsTypes
<1>9. ASSUME NEW code, Learn(p, code)
      PROVE  SettingsTypes'
  BY <1>1, <1>6, <1>9, Zenon DEF Learn, SettingsTypes
<1>10. ASSUME NEW w, Broadcast(p, w)
       PROVE  SettingsTypes'
  BY <1>10, Zenon DEF Broadcast, SettingsTypes
<1>11. ASSUME NEW x, Receive(p, x)
       PROVE  SettingsTypes'
  BY <1>11, Zenon DEF Receive, SettingsTypes
<1> QED
  BY <1>2, <1>3, <1>4, <1>5, <1>7, <1>8, <1>9, <1>10, <1>11, Zenon
  DEF PeerStep, ReadPowRequirement, ReadBloomFilter

LEMMA TickTypes ==
    ASSUME SettingsTypes, Tick
    PROVE  /\ SettingsTypes' /\ UNCHANGED <<initial, required, setter, peers, handshake, remote, view>>
           /\ \A p \in Peer : /\ wire'[p] = << >> <=> wire[p] = << >>
                              /\ Heard(wire'[p], view[p]) = Heard(wire[p], view[p])
                              /\ wire[p] # << >> => Head(wire'[p]).code = Head(wire[p]).code
<1>1. UNCHANGED <<initial, required, setter, peers, handshake, remote, view>>
  BY Zenon DEF Tick
<1>2. wire' = [p \in Peer |-> [i \in DOMAIN wire[p] |-> [wire[p][i] EXCEPT !.left = @ - 1]]]
  BY Zenon DEF Tick
<1>3. ASSUME NEW p \in Peer
      PROVE  /\ wire'[p] \in Seq(Letter)
             /\ wire'[p] = << >> <=> wire[p] = << >>
             /\ Heard(wire'[p], view[p]) = Heard(wire[p], view[p])
             /\ wire[p] # << >> => Head(wire'[p]).code = Head(wire[p]).code
  <2>1. PICK w \in Seq(Letter) : w = wire[p]
    BY Zenon DEF SettingsTypes
  <2>2. PICK a : a = [i \in DOMAIN w |-> [w[i] EXCEPT !.left = @ - 1]]
    BY Zenon
  <2>3. wire'[p] = a
    BY <1>2, <2>1, <2>2, Zenon
  <2>4. PICK v : v = view[p]
    BY Zenon
  <2>5. /\ a \in Seq(Letter) /\ (a = << >> <=> w = << >>) /\ Heard(a, v) = Heard(w, v)
        /\ w # << >> => Head(a).code = Head(w).code
    BY <2>2, Aged, Zenon
  <2> QED  BY <2>1, <2>3, <2>4, <2>5, Zenon
<1>4. wire' \in [Peer -> Seq(Letter)]
  BY <1>2, <1>3, Zenon
<1> QED  BY <1>1, <1>3, <1>4, Zenon DEF SettingsTypes

LEMMA SettingsTypesNext ==
    ASSUME SettingsTypes, [Next]_vars
    PROVE  SettingsTypes'
<1>1. CASE UNCHANGED vars
  BY <1>1, Zenon DEF vars, settingVars, remoteVars, SettingsTypes
<1>2. ASSUME NEW g, Adopt(g)
      PROVE  SettingsTypes'
  BY <1>2, Zenon DEF Adopt, remoteVars, SettingsTypes
<1> QED  BY <1>1, <1>2, TickTypes, SetterTypes, PeerTypes, Zenon DEF Next

-----------------------------------------------------------------------------
(* A peer that is not tracked has no connection; before its status is sent, a
   connected one has none to read. *)
TrackInv ==
    \A p \in Peer :
        /\ p \notin peers => /\ wire[p] = << >> /\ handshake[p].pc = "out" /\ remote[p] = "out"
                             /\ \A s \in Setter : p \notin setter[s].todo
        /\ handshake[p].pc \in {"load", "send"} =>
              remote[p] # "up" /\ (wire[p] # << >> => Head(wire[p]).code # "status")
        /\ handshake[p].pc = "out" => remote[p] = "out"

(* Who is going to tell a connected peer the requirement in force. *)
Told(p, s) ==
    \/ setter[s].pc \in {"count", "list"}
    \/ setter[s].pc = "notify" /\ p \in setter[s].todo
    \/ handshake[p].pc = "load"
    \/ handshake[p].pc = "send" /\ handshake[p].val = required /\ wire[p] = << >>
    \/ handshake[p].pc = "done" /\ Heard(wire[p], view[p]) = required
    \/ remote[p] = "await" /\ wire[p] # << >> /\ Head(wire[p]).code # "status"

ToldInv(s) ==
    /\ setter[s].pc # "idle" => setter[s].val = required
    /\ \A p \in Peer : remote[p] \in {"await", "up"} => Told(p, s)

(* What the steps of the setter and of a peer change. *)
SetterChange(u, x) ==
    \/ /\ u.pc = "idle" /\ x.pc = "count" /\ x.val = required' /\ x.todo = {}
       /\ wire' = wire
    \/ /\ UNCHANGED <<required, wire>>
       /\ \/ u.pc = "count" /\ x.pc = "list" /\ x.val = u.val /\ x.todo = u.todo
          \/ u.pc = "list" /\ x.pc = "notify" /\ x.val = u.val /\ x.todo = peers
          \/ u.pc = "notify" /\ u.todo = {} /\ x.pc = "idle" /\ x.todo = {}
    \/ /\ UNCHANGED required /\ u.pc = "notify" /\ x.pc = "notify" /\ x.val = u.val
       /\ \E p \in Peer : \E m \in Letter :
             /\ x.todo = u.todo \ {p} /\ p \in u.todo
             /\ m.code # "status" /\ m.val = u.val /\ Sends(p, m)

LEMMA SetterEffect ==
    ASSUME SettingsTypes, NEW s \in Setter, SetterStep(s)
    PROVE  /\ SetterChange(setter[s], setter'[s])
           /\ \A r \in Setter : r # s => setter'[r] = setter[r]
           /\ UNCHANGED <<peers, handshake, remote, view>>
<1> USE DEF settingVars, remoteVars
<1>1. PICK u \in Setting : u = setter[s]
  BY Zenon DEF SettingsTypes
<1>2. setter \in [Setter -> Setting] /\ Idle.todo = {} /\ Idle.pc = "idle"
  BY Zenon DEF SettingsTypes, Idle
<1>3. UNCHANGED <<peers, handshake, remote, view>>
  BY Zenon DEF SetterStep, SetMinimumPoW, SetBloomFilter, Store, CountPeers, ListPeers, FinishSet,
         NotifyAboutPowRequirementChange, NotifyAboutBloomFilterChange, Notify
<1>4. ASSUME NEW q, setter' = [setter EXCEPT ![s] = q], SetterChange(u, q)
      PROVE  /\ SetterChange(setter[s], setter'[s])
             /\ \A r \in Setter : r # s => setter'[r] = setter[r]
  <2>1. setter'[s] = q /\ \A r \in Setter : r # s => setter'[r] = setter[r]
    BY <1>2, <1>4, Zenon
  <2> QED  BY <1>1, <1>4, <2>1, Zenon
<1>5. ASSUME NEW v, Store(s, v)
      PROVE  /\ SetterChange(setter[s], setter'[s])
             /\ \A r \in Setter : r # s => setter'[r] = setter[r]
  <2>1. PICK q : q = [Idle EXCEPT !.pc = "count", !.val = v]
    BY Zenon
  <2>2. q.pc = "count" /\ q.val = v /\ q.todo = {}
    BY <2>1, Zenon DEF Idle
  <2>3. setter' = [setter EXCEPT ![s] = q] /\ u.pc = "idle" /\ required' = v /\ wire' = wire
    BY <1>1, <1>5, <2>1, Zenon DEF Store
  <2>4. SetterChange(u, q)
    BY <2>2, <2>3, Zenon DEF SetterChange
  <2> QED  BY <1>3, <1>4, <2>3, <2>4, Zenon
<1>6. CASE CountPeers(s)
  <2>1. PICK q : q = [u EXCEPT !.pc = "list", !.count = Cardinality(peers)]
    BY Zenon
  <2>2. q.pc = "list" /\ q.val = u.val /\ q.todo = u.todo
    BY <2>1, Zenon DEF Setting
  <2>3. setter' = [setter EXCEPT ![s] = q] /\ u.pc = "count" /\ UNCHANGED <<required, wire>>
    BY <1>1, <1>2, <1>6, <2>1, Zenon DEF CountPeers
  <2>4. SetterChange(u, q)
    BY <2>2, <2>3, Zenon DEF SetterChange
  <2> QED  BY <1>3, <1>4, <2>3, <2>4, Zenon
<1>7. CASE ListPeers(s)
  <2>1. PICK q : q = [u EXCEPT !.pc = "notify", !.todo = peers]
    BY Zenon
  <2>2. q.pc = "notify" /\ q.val = u.val /\ q.todo = peers
    BY <2>1, Zenon DEF Setting
  <2>3. setter' = [setter EXCEPT ![s] = q] /\ u.pc = "list" /\ UNCHANGED <<required, wire>>
    BY <1>1, <1>2, <1>7, <2>1, Zenon DEF ListPeers
  <2>4. SetterChange(u, q)
    BY <2>2, <2>3, Zenon DEF SetterChange
  <2> QED  BY <1>3, <1>4, <2>3, <2>4, Zenon
<1>8. ASSUME NEW p \in Peer, NEW code \in {"powRequirement", "bloomFilterEx"}, Notify(s, p, code)
      PROVE  /\ SetterChange(setter[s], setter'[s])
             /\ \A r \in Setter : r # s => setter'[r] = setter[r]
  <2>1. PICK q : q = [u EXCEPT !.todo = @ \ {p}]
    BY Zenon
  <2>2. q.pc = u.pc /\ q.val = u.val /\ q.todo = u.todo \ {p}
    BY <2>1, Zenon DEF Setting
  <2>3. /\ setter' = [setter EXCEPT ![s] = q] /\ u.pc = "notify" /\ p \in u.todo
        /\ UNCHANGED required /\ Write(p, code, u.val) /\ u.val \in Value
    BY <1>1, <1>2, <1>8, <2>1, Zenon DEF Notify, Setting
  <2>4. PICK m \in Letter : m.code = code /\ m.val = u.val /\ Sends(p, m)
    BY <2>3, WriteEffect
  <2>5. SetterChange(u, q)
    BY <2>2, <2>3, <2>4, Zenon DEF SetterChange
  <2> QED  BY <1>4, <2>3, <2>5, Zenon
<1>9. CASE FinishSet(s)
  <2>1. /\ setter' = [setter EXCEPT ![s] = Idle] /\ u.pc = "notify" /\ u.todo = {}
        /\ UNCHANGED <<required, wire>>
    BY <1>1, <1>9, Zenon DEF FinishSet
  <2>2. SetterChange(u, Idle)
    BY <1>2, <2>1, Zenon DEF SetterChange
  <2> QED  BY <1>3, <1>4, <2>1, <2>2, Zenon
<1> QED
  BY <1>3, <1>5, <1>6, <1>7, <1>8, <1>9, Zenon
  DEF SetterStep, SetMinimumPoW, SetBloomFilter, NotifyAboutPowRequirementChange,
      NotifyAboutBloomFilterChange

LEMMA TrackSetter ==
    ASSUME SettingsTypes, TrackInv, NEW s \in Setter, SetterStep(s)
    PROVE  TrackInv'
<1> SUFFICES ASSUME NEW p \in Peer
             PROVE  /\ p \notin peers => /\ wire'[p] = << >> /\ handshake[p].pc = "out"
                                         /\ remote[p] = "out"
                                         /\ \A r \in Setter : p \notin setter'[r].todo
                    /\ handshake[p].pc \in {"load", "send"} =>
                          /\ remote[p] # "up"
                          /\ wire'[p] # << >> => Head(wire'[p]).code # "status"
                    /\ handshake[p].pc = "out" => remote[p] = "out"
  BY SetterEffect, Zenon DEF TrackInv
<1>1. PICK u \in Setting, x \in {setter'[s]} : u = setter[s]
  BY Zenon DEF SettingsTypes
<1>2. SetterChange(u, x) /\ \A r \in Setter : r # s => setter'[r] = setter[r]
  BY <1>1, SetterEffect, Zenon
<1>3. /\ p \notin peers => /\ wire[p] = << >> /\ handshake[p].pc = "out" /\ remote[p] = "out"
                           /\ \A r \in Setter : p \notin setter[r].todo
      /\ handshake[p].pc \in {"load", "send"} =>
            remote[p] # "up" /\ (wire[p] # << >> => Head(wire[p]).code # "status")
      /\ handshake[p].pc = "out" => remote[p] = "out"
  BY Zenon DEF TrackInv
<1>4. x.todo \subseteq u.todo \cup peers
  BY <1>2, Zenon DEF SetterChange
<1>5. p \notin peers => \A r \in Setter : p \notin setter'[r].todo
  BY <1>1, <1>2, <1>3, <1>4, Zenon
<1>6. CASE wire' = wire
  BY <1>3, <1>5, <1>6, Zenon
<1>7. ASSUME NEW k \in Peer, NEW m \in Letter, k \in u.todo, m.code # "status", Sends(k, m)
      PROVE  /\ p \notin peers => wire'[p] = << >>
             /\ handshake[p].pc \in {"load", "send"} /\ wire'[p] # << >> =>
                   Head(wire'[p]).code # "status"
  <2>1. wire \in [Peer -> Seq(Letter)]
    BY Zenon DEF SettingsTypes
  <2>2. wire' = [wire EXCEPT ![k] = Append(@, m)]
    BY <1>7, Zenon DEF Sends
  <2>3. CASE k = p
    <3>1. wire'[p] = Append(wire[p], m)
      BY <2>1, <2>2, <2>3, Zenon
    <3>2. Head(Append(wire[p], m)) = IF wire[p] = << >> THEN m ELSE Head(wire[p])
      BY <1>7, <2>1, Letters, Zenon
    <3>3. p \in peers
      BY <1>1, <1>3, <1>7, <2>3, Zenon
    <3> QED  BY <1>3, <1>7, <3>1, <3>2, <3>3, Zenon
  <2>4. CASE k # p
    <3>1. wire'[p] = wire[p]
      BY <2>1, <2>2, <2>4, Zenon
    <3> QED  BY <1>3, <3>1, Zenon
  <2> QED  BY <2>3, <2>4, Zenon
<1> QED  BY <1>2, <1>3, <1>5, <1>6, <1>7, Zenon DEF SetterChange

(* The steps of peer k do not concern another one. *)
LEMMA PeerFrame ==
    ASSUME SettingsTypes, NEW k \in Peer, PeerStep(k)
    PROVE  /\ \A p \in Peer : p # k =>
                 /\ wire'[p] = wire[p] /\ handshake'[p] = handshake[p] /\ remote'[p] = remote[p]
                 /\ view'[p] = view[p] /\ (p \in peers' <=> p \in peers)
           /\ required' = required
           /\ \A s \in Setter : /\ setter'[s].pc = setter[s].pc /\ setter'[s].val = setter[s].val
                                /\ setter'[s].count = setter[s].count
                                /\ setter'[s].todo \in {setter[s].todo, setter[s].todo \ {k}}
                                /\ ~ Leave(k) => setter'[s] = setter[s]
<1> USE DEF settingVars, remoteVars
<1>1. required' = required
  BY Zenon DEF PeerStep, Track, LoadRequirements, SendStatus, Leave, ReadStatus, RefuseStatus,
         ReadPowRequirement, ReadBloomFilter, Learn, Broadcast, Receive
<1>2. ~ Leave(k) => setter' = setter
  BY Zenon DEF PeerStep, Track, LoadRequirements, SendStatus, ReadStatus, RefuseStatus,
         ReadPowRequirement, ReadBloomFilter, Learn, Broadcast, Receive
<1>3. Leave(k) => \A s \in Setter : /\ setter'[s].pc = setter[s].pc /\ setter'[s].val = setter[s].val
                                    /\ setter'[s].count = setter[s].count
                                    /\ setter'[s].todo = setter[s].todo \ {k}
  <2> SUFFICES ASSUME Leave(k), NEW s \in Setter, NEW u \in Setting, u = setter[s]
               PROVE  /\ setter'[s].pc = u.pc /\ setter'[s].val = u.val
                      /\ setter'[s].count = u.count /\ setter'[s].todo = u.todo \ {k}
    BY Zenon DEF SettingsTypes
  <2>1. setter'[s] = [u EXCEPT !.todo = @ \ {k}]
    BY Zenon DEF Leave
  <2> QED  BY <2>1, Zenon DEF Setting
<1>4. ASSUME NEW p \in Peer, p # k
      PROVE  /\ handshake'[p] = handshake[p] /\ remote'[p] = remote[p]
             /\ view'[p] = view[p] /\ (p \in peers' <=> p \in peers)
  BY <1>4, Zenon DEF PeerStep, Track, LoadRequirements, SendStatus, Leave, ReadStatus, RefuseStatus,
              ReadPowRequirement, ReadBloomFilter, Learn, Broadcast, Receive, SettingsTypes
<1>5. ASSUME NEW p \in Peer, p # k
      PROVE  wire'[p] = wire[p]
  BY <1>5, Zenon DEF PeerStep, Track, LoadRequirements, SendStatus, Leave, ReadStatus, RefuseStatus,
              ReadPowRequirement, ReadBloomFilter, Learn, Broadcast, Receive, SettingsTypes, Write
<1> QED  BY <1>1, <1>2, <1>3, <1>4, <1>5, Zenon

(* What the steps of a peer do to its own connection. *)
PeerChange(p) ==
    \/ /\ p \notin peers /\ peers' = peers \cup {p} /\ handshake'[p].pc = "load"
       /\ remote'[p] = "await" /\ wire'[p] = wire[p]
    \/ /\ handshake[p].pc = "load" /\ handshake'[p].pc = "send" /\ handshake'[p].val = required
       /\ UNCHANGED <<peers, remote, view, wire>>
    \/ /\ handshake[p].pc = "send" /\ handshake'[p].pc = "done"
       /\ \E m \in Letter : m.code = "status" /\ m.val = handshake[p].val /\ Sends(p, m)
       /\ UNCHANGED <<peers, remote, view>>
    \/ /\ Leave(p) /\ peers' = peers \ {p} /\ handshake'[p].pc = "out" /\ remote'[p] = "out"
       /\ wire'[p] = << >>
    \/ /\ UNCHANGED <<peers, handshake>> /\ wire[p] # << >>
       /\ (remote[p] = "await" /\ Head(wire[p]).code = "status") \/ remote[p] = "up"
       /\ remote'[p] = "up" /\ view'[p] = Head(wire[p]).val /\ wire'[p] = Tail(wire[p])
    \/ /\ UNCHANGED <<peers, handshake>> /\ remote[p] = "await" /\ remote'[p] = "closed"
       /\ wire'[p] = << >>
    \/ UNCHANGED <<peers, handshake, remote, view, wire>>

LEMMA PeerEffect ==
    ASSUME SettingsTypes, NEW p \in Peer, PeerStep(p)
    PROVE  PeerChange(p)
<1> USE DEF settingVars, remoteVars
<1>1. /\ handshake \in [Peer -> Greeting] /\ remote \in [Peer -> {"out", "await", "up", "closed"}]
      /\ view \in [Peer -> Value] /\ wire \in [Peer -> Seq(Letter)]
  BY Zenon DEF SettingsTypes
<1>2. CASE Track(p)
  <2>1. handshake'[p].pc = "load"
    BY <1>1, <1>2, Zenon DEF Track, Greeting
  <2>2. p \notin peers /\ peers' = peers \cup {p} /\ remote'[p] = "await" /\ wire'[p] = wire[p]
    BY <1>1, <1>2, Zenon DEF Track
  <2> QED  BY <2>1, <2>2, Zenon DEF PeerChange
<1>3. CASE LoadRequirements(p)
  <2>1. /\ handshake[p].pc = "load" /\ handshake'[p].pc = "send" /\ handshake'[p].val = required
        /\ UNCHANGED <<peers, remote, view, wire>>
    BY <1>1, <1>3, Zenon DEF LoadRequirements
  <2> QED  BY <2>1, Zenon DEF PeerChange
<1>4. CASE SendStatus(p)
  <2>1. /\ handshake[p].pc = "send" /\ handshake'[p].pc = "done" /\ UNCHANGED <<peers, remote, view>>
    BY <1>1, <1>4, Zenon DEF SendStatus
  <2>2. handshake[p].val \in Value
    BY <1>1, Zenon DEF Greeting
  <2>3. \E m \in Letter : m.code = "status" /\ m.val = handshake[p].val /\ Sends(p, m)
    BY <1>4, <2>2, WriteEffect DEF SendStatus
  <2> QED  BY <2>1, <2>3, Zenon DEF PeerChange
<1>5. CASE Leave(p)
  <2>1. /\ peers' = peers \ {p} /\ handshake'[p].pc = "out" /\ remote'[p] = "out"
        /\ wire'[p] = << >>
    BY <1>1, <1>5, Zenon DEF Leave
  <2> QED  BY <1>5, <2>1, Zenon DEF PeerChange
<1>6. CASE ReadStatus(p)
  <2>1. /\ UNCHANGED <<peers, handshake>> /\ wire[p] # << >>
        /\ remote[p] = "await" /\ Head(wire[p]).code = "status"
        /\ remote'[p] = "up" /\ view'[p] = Head(wire[p]).val /\ wire'[p] = Tail(wire[p])
    BY <1>1, <1>6, Zenon DEF ReadStatus
  <2> QED  BY <2>1, Zenon DEF PeerChange
<1>7. CASE RefuseStatus(p)
  <2>1. /\ UNCHANGED <<peers, handshake>> /\ remote[p] = "await" /\ remote'[p] = "closed"
        /\ wire'[p] = << >>
    BY <1>1, <1>7, Zenon DEF RefuseStatus
  <2> QED  BY <2>1, Zenon DEF PeerChange
<1>8. ASSUME NEW code, Learn(p, code)
      PROVE  PeerChange(p)
  <2>1. /\ UNCHANGED <<peers, handshake>> /\ wire[p] # << >> /\ remote[p] = "up"
        /\ remote'[p] = "up" /\ view'[p] = Head(wire[p]).val /\ wire'[p] = Tail(wire[p])
    BY <1>1, <1>8, Zenon DEF Learn
  <2> QED  BY <2>1, Zenon DEF PeerChange
<1>9. ASSUME NEW w, Broadcast(p, w) \/ Receive(p, w)
      PROVE  PeerChange(p)
  BY <1>9, Zenon DEF Broadcast, Receive, PeerChange
<1> QED
  BY <1>2, <1>3, <1>4, <1>5, <1>6, <1>7, <1>8, <1>9, Zenon
  DEF PeerStep, ReadPowRequirement, ReadBloomFilter

LEMMA TrackPeer ==
    ASSUME SettingsTypes, TrackInv, NEW k \in Peer, PeerStep(k)
    PROVE  TrackInv'
<1> SUFFICES ASSUME NEW p \in Peer
             PROVE  /\ p \notin peers' => /\ wire'[p] = << >> /\ handshake'[p].pc = "out"
                                          /\ remote'[p] = "out"
                                          /\ \A s \in Setter : p \notin setter'[s].todo
                    /\ handshake'[p].pc \in {"load", "send"} =>
                          /\ remote'[p] # "up"
                          /\ wire'[p] # << >> => Head(wire'[p]).code # "status"
                    /\ handshake'[p].pc = "out" => remote'[p] = "out"
  BY Zenon DEF TrackInv
<1>1. /\ p \notin peers => /\ wire[p] = << >> /\ handshake[p].pc = "out" /\ remote[p] = "out"
                           /\ \A s \in Setter : p \notin setter[s].todo
      /\ handshake[p].pc \in {"load", "send"} =>
            remote[p] # "up" /\ (wire[p] # << >> => Head(wire[p]).code # "status")
      /\ handshake[p].pc = "out" => remote[p] = "out"
  BY Zenon DEF TrackInv
<1>2. CASE k # p
  BY <1>1, <1>2, PeerFrame
<1>3. CASE k = p
  <2>1. PeerChange(p)
    BY <1>3, PeerEffect, Zenon
  <2>2. p \notin peers' => \A s \in Setter : p \notin setter'[s].todo
    <3>1. Leave(p) => \A s \in Setter : p \notin setter'[s].todo
      <4> SUFFICES ASSUME Leave(p), NEW s \in Setter, NEW u \in Setting, u = setter[s]
                   PROVE  p \notin setter'[s].todo
        BY Zenon DEF SettingsTypes
      <4>1. setter'[s] = [u EXCEPT !.todo = @ \ {p}]
        BY Zenon DEF Leave
      <4> QED  BY <4>1 DEF Setting
    <3>2. ~ Leave(p) => setter' = setter \/ \A s \in Setter : setter'[s] = setter[s]
      BY <1>3, PeerFrame, Zenon
    <3>3. ~ Leave(p) => peers \subseteq peers'
      BY <2>1, Zenon DEF PeerChange
    <3> QED  BY <1>1, <3>1, <3>2, <3>3, Zenon
  <2>3. p \notin peers => handshake[p].pc = "out" /\ remote[p] = "out" /\ wire[p] = << >>
    BY <1>1, Zenon
  <2> QED  BY <1>1, <2>1, <2>2, <2>3, Zenon DEF PeerChange
<1> QED  BY <1>2, <1>3, Zenon

(* A packet is the last word on the wire it was sent on. *)
LEMMA LastWord ==
    ASSUME SettingsTypes, NEW p \in Peer, NEW m \in Letter, Sends(p, m)
    PROVE  /\ wire'[p] # << >> /\ \A v : Heard(wire'[p], v) = m.val
           /\ Head(wire'[p]) = IF wire[p] = << >> THEN m ELSE Head(wire[p])
           /\ \A k \in Peer : k # p => wire'[k] = wire[k]
<1>1. wire \in [Peer -> Seq(Letter)]
  BY Zenon DEF SettingsTypes
<1>2. wire' = [wire EXCEPT ![p] = Append(@, m)]
  BY Zenon DEF Sends
<1>3. wire'[p] = Append(wire[p], m) /\ \A k \in Peer : k # p => wire'[k] = wire[k]
  BY <1>1, <1>2, Zenon
<1>4. PICK w \in Seq(Letter) : w = wire[p]
  BY <1>1, Zenon
<1>5. \A v : /\ Append(w, m) # << >> /\ Heard(Append(w, m), v) = m.val
             /\ Head(Append(w, m)) = IF w = << >> THEN m ELSE Head(w)
  BY Letters
<1> QED  BY <1>3, <1>4, <1>5, Zenon

LEMMA ToldSetter ==
    ASSUME SettingsTypes, TrackInv, NEW s \in Setter, ToldInv(s), SetterStep(s)
    PROVE  ToldInv(s)'
<1>1. PICK u \in Setting, x \in {setter'[s]} : u = setter[s]
  BY Zenon DEF SettingsTypes
<1>2. SetterChange(u, x) /\ UNCHANGED <<peers, handshake, remote, view>>
  BY <1>1, SetterEffect, Zenon
<1>3. u.pc # "idle" => u.val = required
  BY <1>1, Zenon DEF ToldInv
<1>4. x.pc # "idle" => x.val = required'
  BY <1>2, <1>3, Zenon DEF SetterChange
<1>5. ASSUME NEW p \in Peer, remote[p] \in {"await", "up"}
      PROVE  Told(p, s)'
  <2>1. Told(p, s) /\ p \in peers
    BY <1>5, Zenon DEF ToldInv, TrackInv
  <2>2. CASE x.pc \in {"count", "list"}
    BY <1>1, <2>2, Zenon DEF Told
  <2>3. CASE x.pc = "notify" /\ p \in x.todo
    BY <1>1, <2>3, Zenon DEF Told
  <2>4. CASE x.pc = "idle" /\ u.pc = "notify" /\ u.todo = {} /\ UNCHANGED <<required, wire>>
    <3>1. \/ handshake[p].pc = "load"
          \/ handshake[p].pc = "send" /\ handshake[p].val = required /\ wire[p] = << >>
          \/ handshake[p].pc = "done" /\ Heard(wire[p], view[p]) = required
          \/ remote[p] = "await" /\ wire[p] # << >> /\ Head(wire[p]).code # "status"
      BY <1>1, <2>1, <2>4, Zenon DEF Told
    <3> QED  BY <1>2, <2>4, <3>1, Zenon DEF Told
  <2>5. ASSUME NEW k \in Peer, NEW m \in Letter, u.pc = "notify", UNCHANGED required,
               x.todo = u.todo \ {k}, k \in u.todo, p \notin x.todo,
               m.code # "status", m.val = u.val, Sends(k, m)
        PROVE  Told(p, s)'
    <3>1. m.val = required
      BY <1>3, <2>5, Zenon
    <3>2. CASE k = p
      <4>1. /\ wire'[p] # << >> /\ Heard(wire'[p], view[p]) = required
            /\ Head(wire'[p]) = IF wire[p] = << >> THEN m ELSE Head(wire[p])
        BY <2>5, <3>1, <3>2, LastWord
      <4>2. handshake[p].pc \in {"load", "send"} =>
               remote[p] # "up" /\ (wire[p] # << >> => Head(wire[p]).code # "status")
        BY Zenon DEF TrackInv
      <4>3. handshake[p].pc \in {"load", "send"} =>
               remote[p] = "await" /\ Head(wire'[p]).code # "status"
        BY <1>5, <2>5, <4>1, <4>2, Zenon
      <4>4. handshake[p].pc \in {"load", "send", "done"}
        <5>1. handshake[p].pc \in {"out", "load", "send", "done"}
          BY Zenon DEF SettingsTypes, Greeting
        <5>2. handshake[p].pc # "out"
          BY <1>5, Zenon DEF TrackInv
        <5> QED  BY <5>1, <5>2, Zenon
      <4>5. CASE handshake[p].pc = "done"
        BY <1>2, <2>5, <4>1, <4>5, Zenon DEF Told
      <4>6. CASE handshake[p].pc \in {"load", "send"}
        BY <1>2, <4>1, <4>3, <4>6, Zenon DEF Told
      <4> QED  BY <4>4, <4>5, <4>6, Zenon
    <3>3. CASE k # p
      <4>1. wire'[p] = wire[p] /\ p \notin u.todo
        BY <2>5, <3>3, LastWord, Zenon
      <4>2. \/ handshake[p].pc = "load"
            \/ handshake[p].pc = "send" /\ handshake[p].val = required /\ wire[p] = << >>
            \/ handshake[p].pc = "done" /\ Heard(wire[p], view[p]) = required
            \/ remote[p] = "await" /\ wire[p] # << >> /\ Head(wire[p]).code # "status"
        BY <1>1, <2>1, <2>5, <4>1, Zenon DEF Told
      <4> QED  BY <1>2, <2>5, <4>1, <4>2, Zenon DEF Told
    <3> QED  BY <3>2, <3>3, Zenon
  <2> QED  BY <1>2, <2>1, <2>2, <2>3, <2>4, <2>5, Zenon DEF SetterChange
<1> QED  BY <1>1, <1>2, <1>4, <1>5, Zenon DEF ToldInv

LEMMA ToldPeer ==
    ASSUME SettingsTypes, TrackInv, NEW s \in Setter, ToldInv(s), NEW k \in Peer, PeerStep(k)
    PROVE  ToldInv(s)'
<1>1. /\ required' = required /\ setter'[s].pc = setter[s].pc /\ setter'[s].val = setter[s].val
      /\ setter[s].todo \ {k} \subseteq setter'[s].todo
      /\ ~ Leave(k) => setter'[s] = setter[s]
  BY PeerFrame, Zenon
<1>2. ASSUME NEW p \in Peer, remote'[p] \in {"await", "up"}
      PROVE  Told(p, s)'
  <2>1. CASE k # p
    <3>1. /\ wire'[p] = wire[p] /\ handshake'[p] = handshake[p] /\ remote'[p] = remote[p]
          /\ view'[p] = view[p]
      BY <2>1, PeerFrame, Zenon
    <3>2. Told(p, s)
      BY <1>2, <3>1, Zenon DEF ToldInv
    <3>3. p \in setter[s].todo => p \in setter'[s].todo
      BY <1>1, <2>1, Zenon
    <3> QED  BY <1>1, <3>1, <3>2, <3>3, Zenon DEF Told
  <2>2. CASE k = p
    <3>1. PeerChange(p)
      BY <2>2, PeerEffect, Zenon
    <3>2. remote[p] \in {"await", "up"} => Told(p, s)
      BY Zenon DEF ToldInv
    <3>3. /\ handshake[p].pc \in {"load", "send"} =>
                remote[p] # "up" /\ (wire[p] # << >> => Head(wire[p]).code # "status")
          /\ handshake[p].pc = "out" => remote[p] = "out"
          /\ handshake[p].pc \in {"out", "load", "send", "done"}
      BY Zenon DEF TrackInv, SettingsTypes, Greeting
    <3>4. ~ Leave(p)
      BY <1>2, Zenon DEF Leave, SettingsTypes
    <3>5. setter'[s] = setter[s]
      BY <1>1, <2>2, <3>4, Zenon
    <3>6. CASE handshake'[p].pc = "load"
      BY <3>6, Zenon DEF Told
    <3>7. CASE /\ handshake[p].pc = "load" /\ handshake'[p].pc = "send" /\ handshake'[p].val = required
               /\ UNCHANGED <<peers, remote, view, wire>>
      BY <1>1, <1>2, <3>3, <3>7, Zenon DEF Told
    <3>8. ASSUME handshake[p].pc = "send", handshake'[p].pc = "done", UNCHANGED <<peers, remote, view>>,
                 NEW m \in Letter, m.code = "status", m.val = handshake[p].val, Sends(p, m)
          PROVE  Told(p, s)'
      <4>1. /\ wire'[p] # << >> /\ Heard(wire'[p], view[p]) = handshake[p].val
            /\ Head(wire'[p]) = IF wire[p] = << >> THEN m ELSE Head(wire[p])
        BY <3>8, LastWord, Zenon
      <4>2. Told(p, s) /\ remote[p] = "await"
        BY <1>2, <3>2, <3>3, <3>8, Zenon
      <4>3. CASE wire[p] # << >>
        <5>1. remote'[p] = "await" /\ wire'[p] # << >> /\ Head(wire'[p]).code # "status"
          BY <3>3, <3>8, <4>1, <4>2, <4>3, Zenon
        <5> QED  BY <5>1, Zenon DEF Told
      <4>4. CASE handshake[p].val = required
        <5>1. handshake'[p].pc = "done" /\ Heard(wire'[p], view'[p]) = required'
          BY <1>1, <3>8, <4>1, <4>4, Zenon
        <5> QED  BY <5>1, Zenon DEF Told
      <4>5. \/ setter[s].pc \in {"count", "list"}
            \/ setter[s].pc = "notify" /\ p \in setter[s].todo
            \/ wire[p] # << >> \/ handshake[p].val = required
        BY <3>8, <4>2, Zenon DEF Told
      <4> QED  BY <3>5, <4>3, <4>4, <4>5, Zenon DEF Told
    <3>9. CASE /\ UNCHANGED <<peers, handshake>> /\ wire[p] # << >>
               /\ (remote[p] = "await" /\ Head(wire[p]).code = "status") \/ remote[p] = "up"
               /\ remote'[p] = "up" /\ view'[p] = Head(wire[p]).val /\ wire'[p] = Tail(wire[p])
      <4>1. handshake[p].pc = "done" /\ Told(p, s)
        BY <3>2, <3>3, <3>9, Zenon
      <4>2. Heard(wire'[p], view'[p]) = Heard(wire[p], view[p])
        <5>1. PICK w \in Seq(Letter) : w = wire[p]
          BY Zenon DEF SettingsTypes
        <5>2. \A v : Heard(Tail(w), Head(w).val) = Heard(w, v)
          BY <3>9, <5>1, Letters, Zenon
        <5> QED  BY <3>9, <5>1, <5>2, Zenon
      <4>3. \/ setter[s].pc \in {"count", "list"}
            \/ setter[s].pc = "notify" /\ p \in setter[s].todo
            \/ Heard(wire[p], view[p]) = required
        BY <3>9, <4>1, Zenon DEF Told
      <4> QED  BY <1>1, <3>5, <3>9, <4>1, <4>2, <4>3, Zenon DEF Told
    <3>10. CASE UNCHANGED <<peers, handshake, remote, view, wire>>
      BY <1>1, <1>2, <3>2, <3>5, <3>10, Zenon DEF Told
    <3> QED  BY <1>2, <3>1, <3>4, <3>6, <3>7, <3>8, <3>9, <3>10, Zenon DEF PeerChange
  <2> QED  BY <2>1, <2>2, Zenon
<1> QED  BY <1>1, <1>2, Zenon DEF ToldInv

-----------------------------------------------------------------------------
(* What else the type invariant says: requirements are of the kind this
   behaviour is about, and nothing outstays its time. *)
Unit == IF kind = "pow" THEN Level ELSE Topic

ValueInv ==
    /\ kind \in Kind /\ initial \in Requirement /\ required \in Requirement
    /\ tolerance = Unset \/ tolerance \in Requirement
    /\ sleeping \subseteq [val : Requirement, left : 0 .. SyncAllowance]
    /\ inbound \in [Peer -> SUBSET [met : Unit, left : 0 .. Delay]]
    /\ crashed \in BOOLEAN /\ hurried \in BOOLEAN

SetterInv ==
    \A s \in Setter : setter[s].val \in Requirement

(* The packets of a wire that may be on it: valid ones, none too old. *)
Fit(w, V) ==
    /\ Len(w) <= WireLimit
    /\ \A i \in DOMAIN w : w[i].val \in V /\ w[i].left \in 0 .. Delay

WireInv ==
    \A p \in Peer :
        /\ handshake[p].val \in Requirement /\ view[p] \in Requirement
        /\ Fit(wire[p], Requirement)

LEMMA InitialRequirement == Init => initial \in Requirement
  BY LevelAssumption, Zenon DEF Init, Initial, Requirement

(* A second passes for records with a time left. *)
LEMMA OlderTypes ==
    ASSUME NEW V, NEW n \in Nat, NEW S, S \subseteq [val : V, left : 0 .. n], \A x \in S : x.left > 0
    PROVE  Older(S) \subseteq [val : V, left : 0 .. n]
<1> SUFFICES ASSUME NEW x \in S
             PROVE  [x EXCEPT !.left = @ - 1] \in [val : V, left : 0 .. n]
  BY Zenon DEF Older
<1>1. x \in [val : V, left : 0 .. n] /\ x.left - 1 \in 0 .. n
  OBVIOUS
<1> QED  BY <1>1, Zenon

LEMMA OlderEnvelopes ==
    ASSUME NEW V, NEW n \in Nat, NEW S, S \subseteq [met : V, left : 0 .. n], \A x \in S : x.left > 0
    PROVE  Older(S) \subseteq [met : V, left : 0 .. n]
<1> SUFFICES ASSUME NEW x \in S
             PROVE  [x EXCEPT !.left = @ - 1] \in [met : V, left : 0 .. n]
  BY Zenon DEF Older
<1>1. x \in [met : V, left : 0 .. n] /\ x.left - 1 \in 0 .. n
  OBVIOUS
<1> QED  BY <1>1, Zenon

(* What is stored is valid. *)
LEMMA StoredValid ==
    ASSUME NEW s \in Setter, NEW v, (v \in Input /\ SetMinimumPoW(s, v)) \/ (v \in Filter /\ SetBloomFilter(s, v))
    PROVE  Store(s, v) /\ v \in Requirement
  BY InputAssumption, FilterAssumption, Zenon DEF SetMinimumPoW, SetBloomFilter, Requirement

LEMMA ValueInvNext ==
    ASSUME SettingsTypes, ValueInv, SetterInv, [Next]_vars
    PROVE  ValueInv' /\ UNCHANGED <<kind, initial>>
<1> USE DEF settingVars, remoteVars
<1>1. UNCHANGED <<kind, initial>>
  BY Zenon DEF vars, Next, SetterStep, PeerStep, SetMinimumPoW, SetBloomFilter, Store, CountPeers,
         ListPeers, FinishSet, NotifyAboutPowRequirementChange, NotifyAboutBloomFilterChange,
         Notify, Adopt, Tick, Track, LoadRequirements, SendStatus, Leave, ReadStatus,
         RefuseStatus, ReadPowRequirement, ReadBloomFilter, Learn, Broadcast, Receive
<1>2. Requirement' = Requirement /\ Unit' = Unit
  BY <1>1, Zenon DEF Requirement, Unit
<1>3. CASE UNCHANGED <<required, tolerance, sleeping, inbound, crashed, hurried>>
  BY <1>1, <1>2, <1>3, Zenon DEF ValueInv
<1>4. CASE Tick
  <2>1. sleeping' \subseteq [val : Requirement, left : 0 .. SyncAllowance]
    BY <1>4, OlderTypes, TimeAssumption, Zenon DEF Tick, ValueInv
  <2>2. \A p \in Peer : inbound'[p] \subseteq [met : Unit, left : 0 .. Delay]
    BY <1>4, OlderEnvelopes, TimeAssumption, Zenon DEF Tick, ValueInv
  <2>3. inbound' \in [Peer -> SUBSET [met : Unit, left : 0 .. Delay]]
    BY <1>4, <2>2, Zenon DEF Tick
  <2> QED  BY <1>1, <1>2, <1>4, <2>1, <2>3, Zenon DEF Tick, ValueInv
<1>5. ASSUME NEW s \in Setter, NEW v \in Requirement, Store(s, v)
      PROVE  ValueInv'
  <2>1. hurried' \in BOOLEAN
    BY <1>5, Zenon DEF Store
  <2> QED  BY <1>1, <1>2, <1>5, <2>1, Zenon DEF Store, ValueInv
<1>6. ASSUME NEW s \in Setter, ListPeers(s)
      PROVE  ValueInv'
  <2>1. crashed' \in BOOLEAN
    BY <1>6, Zenon DEF ListPeers
  <2> QED  BY <1>1, <1>2, <1>6, <2>1, Zenon DEF ListPeers, ValueInv
<1>7. ASSUME NEW s \in Setter, FinishSet(s)
      PROVE  ValueInv'
  <2>1. [val |-> setter[s].val, left |-> SyncAllowance] \in [val : Requirement, left : 0 .. SyncAllowance]
    BY TimeAssumption DEF SetterInv
  <2> QED  BY <1>1, <1>2, <1>7, <2>1, Zenon DEF FinishSet, ValueInv
<1>8. ASSUME NEW g \in sleeping, Adopt(g)
      PROVE  ValueInv'
  BY <1>1, <1>2, <1>8, Zenon DEF Adopt, ValueInv
<1>9. ASSUME NEW p \in Peer, Leave(p)
      PROVE  ValueInv'
  BY <1>1, <1>2, <1>9, Zenon DEF Leave, ValueInv
<1>10. ASSUME NEW p \in Peer, NEW w \in Unit, Broadcast(p, w)
       PROVE  ValueInv'
  <2>1. [met |-> w, left |-> Delay] \in [met : Unit, left : 0 .. Delay]
    BY TimeAssumption
  <2> QED  BY <1>1, <1>2, <1>10, <2>1, Zenon DEF Broadcast, ValueInv
<1>11. ASSUME NEW p \in Peer, NEW x, Receive(p, x)
       PROVE  ValueInv'
  BY <1>1, <1>2, <1>11, Zenon DEF Receive, ValueInv
<1>12. ASSUME NEW s \in Setter, SetterStep(s)
       PROVE  ValueInv'
  <2>1. ASSUME NEW v, (v \in Input /\ SetMinimumPoW(s, v)) \/ (v \in Filter /\ SetBloomFilter(s, v))
        PROVE  ValueInv'
    BY <1>5, <2>1, StoredValid, Zenon
  <2>2. ASSUME \/ CountPeers(s)
               \/ \E p \in Peer : \/ NotifyAboutPowRequirementChange(s, p)
                                 \/ NotifyAboutBloomFilterChange(s, p)
        PROVE  ValueInv'
    BY <1>3, <2>2, Zenon DEF CountPeers, NotifyAboutPowRequirementChange, NotifyAboutBloomFilterChange, Notify
  <2> QED  BY <1>6, <1>7, <1>12, <2>1, <2>2, Zenon DEF SetterStep
<1>13. ASSUME NEW p \in Peer, PeerStep(p)
       PROVE  ValueInv'
  BY <1>3, <1>9, <1>10, <1>11, <1>13, Zenon
     DEF PeerStep, Track, LoadRequirements, SendStatus, ReadStatus, RefuseStatus,
         ReadPowRequirement, ReadBloomFilter, Learn, Unit
<1> QED  BY <1>1, <1>3, <1>4, <1>8, <1>12, <1>13, Zenon DEF Next, vars

LEMMA SetterInvNext ==
    ASSUME SettingsTypes, ValueInv, SetterInv, [Next]_vars
    PROVE  SetterInv'
<1> USE DEF settingVars, remoteVars
<1>1. /\ setter \in [Setter -> Setting] /\ Requirement' = Requirement
      /\ \A s \in Setter : setter[s].val \in Requirement
  BY ValueInvNext, Zenon DEF SettingsTypes, SetterInv, Requirement
<1>2. ASSUME NEW s \in Setter, NEW q, q.val \in Requirement, setter' = [setter EXCEPT ![s] = q]
      PROVE  SetterInv'
  <2>1. \A r \in Setter : setter'[r] = IF r = s THEN q ELSE setter[r]
    BY <1>1, <1>2, Zenon
  <2> QED  BY <1>1, <1>2, <2>1, Zenon DEF SetterInv
<1>3. Idle.val \in Requirement
  BY Zenon DEF ValueInv, Idle
<1>4. ASSUME NEW s \in Setter, NEW v \in Requirement, Store(s, v)
      PROVE  SetterInv'
  <2>1. PICK q : q = [Idle EXCEPT !.pc = "count", !.val = v]
    BY Zenon
  <2>2. q.val = v
    BY <2>1, Zenon DEF Idle
  <2> QED  BY <1>2, <1>4, <2>1, <2>2, Zenon DEF Store
<1>5. ASSUME NEW s \in Setter, CountPeers(s)
      PROVE  SetterInv'
  <2>1. PICK u \in Setting : u = setter[s]
    BY <1>1, Zenon
  <2>2. PICK q : q = [u EXCEPT !.pc = "list", !.count = Cardinality(peers)]
    BY Zenon
  <2>3. q.val = u.val
    BY <2>2, Zenon DEF Setting
  <2>4. setter' = [setter EXCEPT ![s] = q]
    BY <1>1, <1>5, <2>1, <2>2, Zenon DEF CountPeers
  <2> QED  BY <1>1, <1>2, <2>1, <2>3, <2>4, Zenon
<1>6. ASSUME NEW s \in Setter, ListPeers(s)
      PROVE  SetterInv'
  <2>1. PICK u \in Setting : u = setter[s]
    BY <1>1
  <2>2. PICK q : q = [u EXCEPT !.pc = "notify", !.todo = peers]
    BY Zenon
  <2>3. q.val = u.val
    BY <2>2, Zenon DEF Setting
  <2>4. setter' = [setter EXCEPT ![s] = q]
    BY <1>1, <1>6, <2>1, <2>2, Zenon DEF ListPeers
  <2> QED  BY <1>1, <1>2, <2>1, <2>3, <2>4, Zenon
<1>7. ASSUME NEW s \in Setter, NEW p, NEW code, Notify(s, p, code)
      PROVE  SetterInv'
  <2>1. PICK u \in Setting : u = setter[s]
    BY <1>1
  <2>2. PICK q : q = [u EXCEPT !.todo = @ \ {p}]
    BY Zenon
  <2>3. q.val = u.val
    BY <2>2, Zenon DEF Setting
  <2>4. setter' = [setter EXCEPT ![s] = q]
    BY <1>1, <1>7, <2>1, <2>2, Zenon DEF Notify
  <2> QED  BY <1>1, <1>2, <2>1, <2>3, <2>4, Zenon
<1>8. ASSUME NEW s \in Setter, FinishSet(s)
      PROVE  SetterInv'
  BY <1>2, <1>3, <1>8, Zenon DEF FinishSet
<1>9. ASSUME NEW s \in Setter, SetterStep(s)
       PROVE  SetterInv'
  <2>1. ASSUME NEW v, (v \in Input /\ SetMinimumPoW(s, v)) \/ (v \in Filter /\ SetBloomFilter(s, v))
        PROVE  SetterInv'
    BY <1>4, <2>1, StoredValid, Zenon
  <2> QED
    BY <1>5, <1>6, <1>7, <1>8, <1>9, <2>1, Zenon
    DEF SetterStep, NotifyAboutPowRequirementChange, NotifyAboutBloomFilterChange
<1>10. ASSUME NEW k \in Peer, PeerStep(k)
       PROVE  SetterInv'
  BY <1>1, <1>10, PeerFrame, Zenon DEF SetterInv
<1>11. CASE setter' = setter
  BY <1>1, <1>11, Zenon DEF SetterInv
<1> QED  BY <1>9, <1>10, <1>11, Zenon DEF Next, vars, Tick, Adopt

LEMMA FitWires ==
    ASSUME NEW V, NEW w \in Seq(Letter), Fit(w, V)
    PROVE  /\ w # << >> => Fit(Tail(w), V) /\ Head(w).val \in V
           /\ \A m \in Letter :
                 m.val \in V /\ m.left = Delay /\ Len(w) < WireLimit => Fit(Append(w, m), V)
           /\ (\A i \in DOMAIN w : w[i].left > 0) =>
                 Fit([i \in DOMAIN w |-> [w[i] EXCEPT !.left = @ - 1]], V)
<1>1. PICK n \in Nat : n = Len(w) /\ DOMAIN w = 1 .. n
  OBVIOUS
<1>2. ASSUME w # << >>
      PROVE  Fit(Tail(w), V) /\ Head(w).val \in V
  <2>1. /\ n # 0 /\ Head(w) = w[1] /\ DOMAIN Tail(w) = 1 .. n - 1 /\ Len(Tail(w)) = n - 1
        /\ \A i \in 1 .. n - 1 : Tail(w)[i] = w[i + 1]
    BY <1>1, <1>2
  <2>2. \A i \in 1 .. n - 1 : i + 1 \in 1 .. n
    BY <1>1
  <2>3. n - 1 <= WireLimit /\ 1 \in DOMAIN w
    BY <1>1, <2>1, WireAssumption DEF Fit
  <2> QED  BY <1>1, <2>1, <2>2, <2>3, Zenon DEF Fit
<1>3. ASSUME NEW m \in Letter, m.val \in V, m.left = Delay, Len(w) < WireLimit
      PROVE  Fit(Append(w, m), V)
  <2>1. /\ Len(Append(w, m)) = n + 1 /\ DOMAIN Append(w, m) = 1 .. n + 1
        /\ Append(w, m)[n + 1] = m
        /\ \A i \in 1 .. n : Append(w, m)[i] = w[i]
    BY <1>1
  <2>2. n + 1 <= WireLimit /\ Delay \in 0 .. Delay
    BY <1>1, <1>3, WireAssumption, TimeAssumption
  <2>3. \A i \in 1 .. n + 1 : i = n + 1 \/ i \in 1 .. n
    BY <1>1
  <2> QED  BY <1>1, <1>3, <2>1, <2>2, <2>3, Zenon DEF Fit
<1>4. ASSUME \A i \in DOMAIN w : w[i].left > 0
      PROVE  Fit([i \in DOMAIN w |-> [w[i] EXCEPT !.left = @ - 1]], V)
  <2>1. PICK a : a = [i \in DOMAIN w |-> [w[i] EXCEPT !.left = @ - 1]]
    BY Zenon
  <2>2. ASSUME NEW i \in 1 .. n, NEW x \in Letter, x = w[i]
        PROVE  a[i].val = x.val /\ a[i].left = x.left - 1
    <3>1. a[i] = [x EXCEPT !.left = @ - 1]
      BY <1>1, <2>1, <2>2, Zenon
    <3> QED  BY <3>1, Zenon DEF Letter
  <2>3. DOMAIN a = 1 .. n /\ Len(a) = n
    BY <1>1, <2>1
  <2>4. \A i \in 1 .. n : a[i].val \in V /\ a[i].left \in 0 .. Delay
    <3> SUFFICES ASSUME NEW i \in 1 .. n
                 PROVE  a[i].val \in V /\ a[i].left \in 0 .. Delay
      BY Zenon
    <3>1. w[i] \in Letter /\ w[i].val \in V /\ w[i].left \in 0 .. Delay /\ w[i].left > 0
      BY <1>1, <1>4 DEF Fit
    <3>2. a[i].val = w[i].val /\ a[i].left = w[i].left - 1
      BY <2>2, <3>1, Zenon
    <3> QED  BY <3>1, <3>2, TimeAssumption
  <2>5. Fit(a, V)
    BY <1>1, <2>3, <2>4, Zenon DEF Fit
  <2> QED  BY <2>1, <2>5, Zenon
<1> QED  BY <1>2, <1>3, <1>4, Zenon

LEMMA WireInvNext ==
    ASSUME SettingsTypes, ValueInv, SetterInv, WireInv, [Next]_vars
    PROVE  WireInv'
<1> USE DEF settingVars, remoteVars
<1>1. /\ Requirement' = Requirement /\ wire \in [Peer -> Seq(Letter)] /\ required \in Requirement
      /\ handshake \in [Peer -> Greeting] /\ view \in [Peer -> Value]
  BY ValueInvNext, Zenon DEF SettingsTypes, Requirement, ValueInv
<1>2. \A p \in Peer : /\ handshake[p].val \in Requirement /\ view[p] \in Requirement
                      /\ Fit(wire[p], Requirement)
  BY Zenon DEF WireInv
<1>3. ASSUME \A p \in Peer : /\ handshake'[p].val \in Requirement /\ view'[p] \in Requirement
                             /\ Fit(wire'[p], Requirement)
      PROVE  WireInv'
  BY <1>1, <1>3, Zenon DEF WireInv, Fit
<1>4. ASSUME NEW p \in Peer, NEW m \in Letter, Sends(p, m), m.val \in Requirement
      PROVE  \A k \in Peer : Fit(wire'[k], Requirement)
  <2>1. PICK w \in Seq(Letter) : w = wire[p]
    BY <1>1, Zenon
  <2>2. Fit(Append(w, m), Requirement)
    BY <1>2, <1>4, <2>1, FitWires, Zenon DEF Sends
  <2>3. \A k \in Peer : wire'[k] = IF k = p THEN Append(w, m) ELSE wire[k]
    BY <1>1, <1>4, <2>1, Zenon DEF Sends
  <2> QED  BY <1>2, <2>2, <2>3, Zenon
<1>5. CASE Tick
  <2>1. ASSUME NEW p \in Peer
        PROVE  Fit(wire'[p], Requirement)
    <3>1. PICK w \in Seq(Letter) : w = wire[p]
      BY <1>1, Zenon
    <3>2. \A i \in DOMAIN w : w[i].left > 0
      BY <1>5, <3>1, Zenon DEF Tick
    <3>3. wire'[p] = [i \in DOMAIN w |-> [w[i] EXCEPT !.left = @ - 1]]
      BY <1>5, <3>1, Zenon DEF Tick
    <3>4. PICK V : V = Requirement
      BY Zenon
    <3>5. Fit(w, V)
      BY <1>2, <3>1, <3>4, Zenon
    <3>6. Fit([i \in DOMAIN w |-> [w[i] EXCEPT !.left = @ - 1]], V)
      BY <3>2, <3>5, FitWires, Zenon
    <3> QED  BY <3>3, <3>4, <3>6, Zenon
  <2> QED  BY <1>2, <1>3, <1>5, <2>1, Zenon DEF Tick
<1>6. ASSUME NEW s \in Setter, SetterStep(s)
      PROVE  WireInv'
  <2>1. SetterChange(setter[s], setter'[s]) /\ UNCHANGED <<handshake, view>>
    BY <1>6, SetterEffect, Zenon
  <2>2. \A k \in Peer : Fit(wire'[k], Requirement)
    <3>1. CASE wire' = wire
      BY <1>2, <3>1, Zenon
    <3>2. CASE \E p \in Peer : \E m \in Letter : m.val = setter[s].val /\ Sends(p, m)
      BY <1>4, <3>2, Zenon DEF SetterInv
    <3> QED  BY <2>1, <3>1, <3>2, Zenon DEF SetterChange
  <2> QED  BY <1>2, <1>3, <2>1, <2>2, Zenon
<1>7. ASSUME NEW k \in Peer, PeerStep(k)
      PROVE  WireInv'
  <2>1. \A p \in Peer : p # k => /\ wire'[p] = wire[p] /\ handshake'[p] = handshake[p]
                                 /\ view'[p] = view[p]
    BY <1>7, PeerFrame, Zenon
  <2>2. SUFFICES /\ handshake'[k].val \in Requirement /\ view'[k] \in Requirement
                 /\ Fit(wire'[k], Requirement)
    <3>1. \A p \in Peer : /\ handshake'[p].val \in Requirement /\ view'[p] \in Requirement
                          /\ Fit(wire'[p], Requirement)
      BY <1>2, <2>1, <2>2, Zenon
    <3> QED  BY <1>3, <3>1, Zenon
  <2>3. PICK w \in Seq(Letter), h \in Greeting : w = wire[k] /\ h = handshake[k]
    BY <1>1, Zenon
  <2>4. h.val \in Requirement /\ view[k] \in Requirement /\ Fit(w, Requirement)
    BY <1>2, <2>3, Zenon
  <2>5. Fit(<< >>, Requirement) /\ initial \in Requirement
    BY WireAssumption DEF Fit, ValueInv
  <2>6. CASE Track(k)
    <3>1. handshake'[k] = [h EXCEPT !.pc = "load"] /\ wire'[k] = w /\ view' = view
      BY <1>1, <2>3, <2>6, Zenon DEF Track
    <3>2. handshake'[k].val = h.val
      BY <3>1, Zenon DEF Greeting
    <3> QED  BY <2>4, <3>1, <3>2, Zenon
  <2>7. CASE LoadRequirements(k)
    BY <1>1, <2>3, <2>4, <2>7, Zenon DEF LoadRequirements
  <2>8. CASE SendStatus(k)
    <3>1. handshake'[k].val = initial /\ view' = view
      BY <1>1, <2>8, Zenon DEF SendStatus
    <3>2. h.val \in Value
      BY Zenon DEF Greeting
    <3>3. \E m \in Letter : m.val = h.val /\ Sends(k, m)
      BY <2>3, <2>8, <3>2, WriteEffect DEF SendStatus
    <3> QED  BY <1>4, <2>4, <2>5, <3>1, <3>3, Zenon
  <2>9. CASE Leave(k)
    <3>1. handshake'[k].val = initial /\ view'[k] = initial /\ wire'[k] = << >>
      BY <1>1, <2>9, Zenon DEF Leave
    <3> QED  BY <2>5, <3>1, Zenon
  <2>10. ASSUME w # << >>, view'[k] = Head(w).val, wire'[k] = Tail(w), handshake' = handshake
         PROVE  /\ handshake'[k].val \in Requirement /\ view'[k] \in Requirement
                /\ Fit(wire'[k], Requirement)
    BY <2>3, <2>4, <2>10, FitWires, Zenon
  <2>11. CASE ReadStatus(k)
    <3>1. w # << >> /\ view'[k] = Head(w).val /\ wire'[k] = Tail(w) /\ handshake' = handshake
      BY <1>1, <2>3, <2>11, Zenon DEF ReadStatus
    <3> QED  BY <2>10, <3>1, Zenon
  <2>12. ASSUME NEW code, Learn(k, code)
         PROVE  /\ handshake'[k].val \in Requirement /\ view'[k] \in Requirement
                /\ Fit(wire'[k], Requirement)
    <3>1. w # << >> /\ view'[k] = Head(w).val /\ wire'[k] = Tail(w) /\ handshake' = handshake
      BY <1>1, <2>3, <2>12, Zenon DEF Learn
    <3> QED  BY <2>10, <3>1
  <2>13. CASE RefuseStatus(k)
    <3>1. handshake' = handshake /\ view' = view /\ wire'[k] = << >>
      BY <1>1, <2>13, Zenon DEF RefuseStatus
    <3> QED  BY <1>2, <2>5, <3>1, Zenon
  <2>14. CASE UNCHANGED <<handshake, view, wire>>
    BY <1>2, <2>14, Zenon
  <2> QED
    BY <1>7, <2>6, <2>7, <2>8, <2>9, <2>11, <2>12, <2>13, <2>14, Zenon
    DEF PeerStep, ReadPowRequirement, ReadBloomFilter, Broadcast, Receive
<1>8. CASE UNCHANGED <<handshake, view, wire>>
  BY <1>2, <1>3, <1>8, Zenon
<1> QED  BY <1>5, <1>6, <1>7, <1>8, Zenon DEF Next, vars, Adopt

(* The types of the state, in an inductive form. *)
TypesInv == SettingsTypes /\ ValueInv /\ SetterInv /\ WireInv

LEMMA TypesInvariance == Spec => []TypesInv
<1>1. Init => TypesInv
  <2> SUFFICES ASSUME Init
               PROVE  TypesInv
    BY Zenon
  <2>1. Idle \in Setting /\ initial \in Value /\ initial \in Requirement
    BY InitialTypes, InitialRequirement, Zenon DEF Idle, Setting, Count
  <2>2. SettingsTypes
    BY <2>1 DEF Init, SettingsTypes, Greeting
  <2>3. ValueInv
    BY <2>1, Zenon DEF Init, ValueInv
  <2>4. SetterInv
    BY <2>1, Zenon DEF Init, SetterInv, Idle
  <2>5. WireInv
    BY <2>1, WireAssumption DEF Init, WireInv, Fit
  <2> QED  BY <2>2, <2>3, <2>4, <2>5, Zenon DEF TypesInv
<1>2. TypesInv /\ [Next]_vars => TypesInv'
  BY SettingsTypesNext, ValueInvNext, SetterInvNext, WireInvNext, Zenon DEF TypesInv
<1> QED  BY <1>1, <1>2, PTL DEF Spec

-----------------------------------------------------------------------------
(* The inductive invariant, for the only goroutine s that changes settings. *)
SettingsInv(s) == SettingsTypes /\ TrackInv /\ ToldInv(s)

LEMMA SettingsInvInit ==
    ASSUME NEW s \in Setter, Init
    PROVE  SettingsInv(s)
<1>1. Idle \in Setting /\ initial \in Value
  BY InitialTypes, Zenon DEF Idle, Setting, Count
<1>2. SettingsTypes
  BY <1>1 DEF Init, SettingsTypes, Greeting
<1>3. \A r \in Setter : setter[r].pc = "idle" /\ setter[r].todo = {}
  BY Zenon DEF Init, Idle
<1>4. \A p \in Peer : wire[p] = << >> /\ handshake[p].pc = "out" /\ remote[p] = "out"
  BY Zenon DEF Init
<1>5. TrackInv /\ ToldInv(s)
  BY <1>3, <1>4, Zenon DEF TrackInv, ToldInv
<1> QED  BY <1>2, <1>5, Zenon DEF SettingsInv

LEMMA SettingsInvNext ==
    ASSUME NEW s \in Setter, Setter = {s}, SettingsInv(s), [Next]_vars
    PROVE  SettingsInv(s)'
<1> USE DEF SettingsInv
<1>1. SettingsTypes'
  BY SettingsTypesNext, Zenon
<1>2. CASE UNCHANGED <<required, setter, peers, handshake, remote, view, wire>>
  BY <1>1, <1>2, Zenon DEF TrackInv, ToldInv, Told
<1>3. CASE UNCHANGED vars \/ \E g \in sleeping : Adopt(g)
  <2>1. UNCHANGED <<required, setter, peers, handshake, remote, view, wire>>
    BY <1>3, Zenon DEF vars, Adopt, settingVars, remoteVars
  <2> QED  BY <1>2, <2>1, Zenon
<1>4. CASE Tick
  BY <1>1, <1>4, TickTypes DEF TrackInv, ToldInv, Told
<1>5. CASE SetterStep(s)
  BY <1>1, <1>5, TrackSetter, ToldSetter, Zenon
<1>6. ASSUME NEW k \in Peer, PeerStep(k)
      PROVE  SettingsInv(s)'
  BY <1>1, <1>6, TrackPeer, ToldPeer, Zenon
<1> QED  BY <1>3, <1>4, <1>5, <1>6, Zenon DEF Next

(***************************************************************************)
(* With one goroutine that calls SetMinimumPoW or SetBloomFilter, a        *)
(* connected peer knows the requirement in force once the call has         *)
(* returned and its packets are read, for any number of peers that come    *)
(* and go meanwhile.  (With two such goroutines it does not: their         *)
(* notifications may cross.)                                               *)
(***************************************************************************)
THEOREM ViewsAreCurrent ==
    ASSUME NEW s, Setter = {s}
    PROVE  Spec => []QuietViewCurrent
<1>1. s \in Setter
  BY Zenon
<1>2. Init => SettingsInv(s)
  BY <1>1, SettingsInvInit, Zenon
<1>3. SettingsInv(s) /\ [Next]_vars => SettingsInv(s)'
  BY <1>1, SettingsInvNext, Zenon
<1>4. SettingsInv(s) => QuietViewCurrent
  <2> SUFFICES ASSUME SettingsInv(s), NEW p \in Peer, setter[s].pc = "idle", wire[p] = << >>,
                      remote[p] = "up"
               PROVE  view[p] = required
    BY <1>1, Zenon DEF QuietViewCurrent
  <2>1. Told(p, s) /\ handshake[p].pc \notin {"load", "send"}
    BY Zenon DEF SettingsInv, ToldInv, TrackInv
  <2> QED  BY <2>1, Zenon DEF Told, Heard
<1> QED  BY <1>2, <1>3, <1>4, PTL DEF Spec
-----------------------------------------------------------------------------
(***************************************************************************)
(* The purpose of the tolerated value.  As long as each change comes after *)
(* the last one has settled, one goroutine at a time changes the           *)
(* requirement, and then at most one sleeps before it adopts its value.    *)
(***************************************************************************)

(* The handshake of p is not going to fail on a notification that came first. *)
Live(p) ==
    /\ remote[p] \in {"await", "up"}
    /\ ~ (remote[p] = "await" /\ wire[p] # << >> /\ Head(wire[p]).code # "status")

(* The requirements p knows of or may still come to know of. *)
Words(p) ==
    (IF remote[p] = "up" THEN {view[p]} ELSE {})
        \cup {wire[p][i].val : i \in DOMAIN wire[p]}
        \cup (IF handshake[p].pc = "send" THEN {handshake[p].val} ELSE {})

(* What meets v is tolerated, or the default that is exceeds what was required. *)
Covered(v) == DefaultIsTooMuch \/ \A x \in Unit : Meets(x, v) => Meets(x, Tolerated)

(* Of the goroutines that change the requirement, only s may be at it, and
   none if one sleeps. *)
Phase(s) ==
    /\ \A r \in Setter : r # s => setter[r].pc = "idle"
    /\ \A g \in sleeping : g.val = required
    /\ \A g, h \in sleeping : g = h
    /\ setter[s].pc # "idle" => sleeping = {}

(* Nobody goes by a requirement that is neither in force nor tolerated. *)
Known ==
    /\ \A p \in Peer : Live(p) => \A v \in Words(p) : v = required \/ Covered(v)
    /\ \A p \in Peer : \A x \in inbound[p] :
           DefaultIsTooMuch \/ Meets(x.met, required) \/ Meets(x.met, Tolerated)

(* When all has settled, everybody goes by the requirement in force. *)
Calm ==
    /\ Covered(required)
    /\ \A p \in Peer : Live(p) => Words(p) \subseteq {required}
    /\ \A p \in Peer : \A x \in inbound[p] : Meets(x.met, required)

(* While g sleeps, the last word of the change arrives within a delay, and
   what was sent before it does within two. *)
Fading(g) ==
    /\ \A p \in Peer :
           Live(p) /\ ~ (Words(p) \subseteq {required}) =>
               wire[p] # << >> /\ wire[p][Len(wire[p])].left + SyncAllowance <= g.left + Delay
    /\ \A p \in Peer : \A x \in inbound[p] :
           Meets(x.met, required) \/ x.left + SyncAllowance <= g.left + 2 * Delay

PoliteInv(s) ==
    /\ ToldInv(s) /\ Phase(s) /\ Known
    /\ setter[s].pc = "idle" /\ sleeping = {} => Calm
    /\ \A g \in sleeping : Fading(g)

(* A second passes: nobody comes to know of another requirement. *)
LEMMA WordsTick ==
    ASSUME SettingsTypes, Tick, NEW p \in Peer
    PROVE  /\ Live(p)' <=> Live(p)
           /\ Words(p)' = Words(p)
           /\ wire'[p] = << >> <=> wire[p] = << >>
           /\ wire[p] # << >> => wire'[p][Len(wire'[p])].left = wire[p][Len(wire[p])].left - 1
<1>1. /\ UNCHANGED <<remote, view, handshake>> /\ (wire'[p] = << >> <=> wire[p] = << >>)
      /\ wire[p] # << >> => Head(wire'[p]).code = Head(wire[p]).code
  BY TickTypes, Zenon
<1>2. PICK w \in Seq(Letter) : w = wire[p]
  BY DEF SettingsTypes
<1>3. PICK a : a = [i \in DOMAIN w |-> [w[i] EXCEPT !.left = @ - 1]]
  BY Zenon
<1>4. a = wire'[p]
  BY <1>2, <1>3, Zenon DEF Tick
<1>5. /\ DOMAIN a = DOMAIN w /\ Len(a) = Len(w)
      /\ \A i \in DOMAIN a : a[i].val = w[i].val /\ a[i].left = w[i].left - 1
  <2>1. PICK n \in Nat : n = Len(w) /\ DOMAIN w = 1 .. n
    OBVIOUS
  <2>2. DOMAIN a = 1 .. n /\ Len(a) = n
    BY <1>3, <2>1
  <2>3. \A x \in Letter : /\ [x EXCEPT !.left = @ - 1].val = x.val
                          /\ [x EXCEPT !.left = @ - 1].left = x.left - 1
    BY Zenon DEF Letter
  <2>4. \A i \in 1 .. n : w[i] \in Letter /\ a[i] = [w[i] EXCEPT !.left = @ - 1]
    BY <1>3, <2>1
  <2> QED  BY <2>1, <2>2, <2>3, <2>4, Zenon
<1>6. Live(p)' <=> Live(p)
  BY <1>1, Zenon DEF Live
<1>7. {a[i].val : i \in DOMAIN a} = {w[i].val : i \in DOMAIN w}
  BY <1>5, Zenon
<1>8. Words(p)' = Words(p)
  <2>1. {wire'[p][i].val : i \in DOMAIN wire'[p]} = {wire[p][i].val : i \in DOMAIN wire[p]}
    BY <1>2, <1>4, <1>7, Zenon
  <2> QED  BY <1>1, <2>1, Zenon DEF Words
<1>9. w # << >> => Len(w) \in DOMAIN w
  OBVIOUS
<1> QED  BY <1>1, <1>2, <1>4, <1>5, <1>6, <1>8, <1>9, Zenon

(* Apart from a change of the requirement, the goroutines that notify spread
   the one in force. *)
LEMMA WordsSetter ==
    ASSUME SettingsTypes, NEW s \in Setter, ToldInv(s), SetterStep(s), required' = required,
           setter[s].pc # "idle", NEW p \in Peer, Live(p)', NEW v \in Words(p)'
    PROVE  v = required \/ (Live(p) /\ v \in Words(p))
<1>1. PICK u \in Setting, x \in {setter'[s]} : u = setter[s]
  BY Zenon DEF SettingsTypes
<1>2. SetterChange(u, x) /\ UNCHANGED <<peers, handshake, remote, view>>
  BY <1>1, SetterEffect, Zenon
<1>3. u.pc # "idle" /\ u.val = required
  BY <1>1, Zenon DEF ToldInv
<1>4. CASE wire' = wire
  BY <1>2, <1>4, Zenon DEF Live, Words
<1>5. ASSUME NEW k \in Peer, NEW m \in Letter, m.code # "status", m.val = u.val, Sends(k, m)
      PROVE  v = required \/ (Live(p) /\ v \in Words(p))
  <2>1. /\ wire'[k] # << >>
        /\ Head(wire'[k]) = IF wire[k] = << >> THEN m ELSE Head(wire[k])
        /\ \A q \in Peer : q # k => wire'[q] = wire[q]
    BY <1>5, LastWord, Zenon
  <2>2. CASE k # p
    BY <1>2, <2>1, <2>2, Zenon DEF Live, Words
  <2>3. CASE k = p
    <3>1. PICK w \in Seq(Letter) : w = wire[p]
      BY Zenon DEF SettingsTypes
    <3>2. wire'[p] = Append(w, m)
      BY <1>5, <2>3, <3>1, Zenon DEF Sends, SettingsTypes
    <3>3. \A i \in DOMAIN Append(w, m) : Append(w, m)[i] = m \/ (i \in DOMAIN w /\ Append(w, m)[i] = w[i])
      OBVIOUS
    <3>4. Live(p)
      BY <1>2, <1>5, <2>1, <2>3, Zenon DEF Live
    <3>5. v = m.val \/ v \in Words(p)
      BY <1>2, <3>1, <3>2, <3>3 DEF Words
    <3> QED  BY <1>3, <1>5, <3>4, <3>5, Zenon
  <2> QED  BY <2>2, <2>3, Zenon
<1> QED  BY <1>2, <1>3, <1>4, <1>5, Zenon DEF SetterChange

(* So do the steps of a peer, for which the handshake loads it. *)
LEMMA WordsPeer ==
    ASSUME SettingsTypes, TrackInv, NEW k \in Peer, PeerStep(k),
           NEW p \in Peer, Live(p)', NEW v \in Words(p)'
    PROVE  v = required \/ (Live(p) /\ v \in Words(p))
<1>1. CASE k # p
  <2>1. /\ wire'[p] = wire[p] /\ handshake'[p] = handshake[p] /\ remote'[p] = remote[p]
        /\ view'[p] = view[p]
    BY <1>1, PeerFrame, Zenon
  <2> QED  BY <2>1, Zenon DEF Live, Words
<1>2. CASE k = p
  <2>1. PeerChange(p)
    BY <1>2, PeerEffect, Zenon
  <2>2. /\ handshake[p].pc \in {"load", "send"} =>
              remote[p] # "up" /\ (wire[p] # << >> => Head(wire[p]).code # "status")
        /\ p \notin peers => wire[p] = << >>
    BY Zenon DEF TrackInv
  <2>3. PICK w \in Seq(Letter) : w = wire[p]
    BY Zenon DEF SettingsTypes
  <2>4. CASE /\ p \notin peers /\ handshake'[p].pc = "load" /\ remote'[p] = "await" /\ wire'[p] = wire[p]
    BY <2>2, <2>4 DEF Words
  <2>5. CASE /\ handshake'[p].pc = "send" /\ handshake'[p].val = required /\ UNCHANGED <<remote, view, wire>>
    BY <2>5, Zenon DEF Words, Live
  <2>6. ASSUME handshake[p].pc = "send", handshake'[p].pc = "done", UNCHANGED <<remote, view>>,
               NEW m \in Letter, m.code = "status", m.val = handshake[p].val, Sends(p, m)
        PROVE  Live(p) /\ v \in Words(p)
    <3>1. wire'[p] # << >> /\ Head(wire'[p]) = IF wire[p] = << >> THEN m ELSE Head(wire[p])
      BY <2>6, LastWord, Zenon
    <3>2. wire[p] = << >> /\ remote[p] = "await"
      BY <2>2, <2>6, <3>1, Zenon DEF Live
    <3>3. wire'[p] = Append(w, m) /\ w = << >>
      BY <2>3, <2>6, <3>2, Zenon DEF Sends, SettingsTypes
    <3>4. \A i \in DOMAIN Append(w, m) : Append(w, m)[i] = m
      BY <3>3
    <3>5. v = m.val
      BY <2>6, <3>2, <3>3, <3>4, Zenon DEF Words
    <3> QED  BY <2>6, <3>2, <3>5, Zenon DEF Live, Words
  <2>7. CASE Leave(p) /\ remote'[p] = "out"
    BY <2>7, Zenon DEF Live
  <2>8. CASE /\ UNCHANGED <<peers, handshake>> /\ wire[p] # << >>
             /\ (remote[p] = "await" /\ Head(wire[p]).code = "status") \/ remote[p] = "up"
             /\ remote'[p] = "up" /\ view'[p] = Head(wire[p]).val /\ wire'[p] = Tail(wire[p])
    <3>1. Live(p)
      BY <2>8, Zenon DEF Live
    <3>2. /\ 1 \in DOMAIN w /\ Head(w) = w[1]
          /\ \A i \in DOMAIN Tail(w) : i + 1 \in DOMAIN w /\ Tail(w)[i] = w[i + 1]
      BY <2>3, <2>8
    <3>3. v \in Words(p)
      BY <2>3, <2>8, <3>2 DEF Words
    <3> QED  BY <3>1, <3>3, Zenon
  <2>9. CASE remote'[p] = "closed"
    BY <2>9, Zenon DEF Live
  <2>10. CASE UNCHANGED <<peers, handshake, remote, view, wire>>
    BY <2>10, Zenon DEF Live, Words
  <2> QED  BY <2>1, <2>4, <2>5, <2>6, <2>7, <2>8, <2>9, <2>10, Zenon DEF PeerChange
<1> QED  BY <1>1, <1>2, Zenon

(* With no goroutine left to notify, the last word on the wire of a peer that
   needs it stays the last until it is read. *)
LEMMA LastWordStays ==
    ASSUME SettingsTypes, TrackInv, TrackInv', NEW s \in Setter, ToldInv(s)', setter'[s].pc = "idle",
           NEW k \in Peer, PeerStep(k), NEW p \in Peer, Live(p)', NEW v \in Words(p)', v # required,
           wire[p] # << >>
    PROVE  wire'[p] # << >> /\ wire'[p][Len(wire'[p])] = wire[p][Len(wire[p])]
<1>1. CASE k # p
  BY <1>1, PeerFrame, Zenon
<1>2. CASE k = p
  <2>1. PeerChange(p) /\ required' = required
    BY <1>2, PeerEffect, PeerFrame, Zenon
  <2>2. /\ handshake[p].pc \in {"load", "send"} =>
              remote[p] # "up" /\ (wire[p] # << >> => Head(wire[p]).code # "status")
        /\ p \notin peers => wire[p] = << >>
    BY Zenon DEF TrackInv
  <2>3. PICK w \in Seq(Letter) : w = wire[p]
    BY Zenon DEF SettingsTypes
  <2>4. CASE wire' = wire
    BY <2>4, Zenon
  <2>5. ASSUME handshake[p].pc = "send", UNCHANGED remote, NEW m \in Letter, Sends(p, m)
        PROVE  FALSE
    <3>1. wire'[p] # << >> /\ Head(wire'[p]) = Head(wire[p])
      BY <2>5, LastWord, Zenon
    <3> QED  BY <2>2, <2>5, <3>1, Zenon DEF Live
  <2>6. CASE /\ remote'[p] = "up" /\ view'[p] = Head(wire[p]).val /\ wire'[p] = Tail(wire[p])
    <3>1. CASE Tail(w) # << >>
      BY <2>3, <2>6, <3>1
    <3>2. CASE Tail(w) = << >>
      <4>1. handshake'[p].pc \notin {"load", "send"}
        BY <2>6, Zenon DEF TrackInv
      <4>2. Told(p, s)'
        BY <2>6, Zenon DEF ToldInv
      <4>3. wire'[p] = << >>
        BY <2>3, <2>6, <3>2, Zenon
      <4>4. view'[p] = required
        BY <2>1, <2>6, <4>1, <4>2, <4>3, Zenon DEF Told, Heard
      <4>5. DOMAIN wire'[p] = {}
        BY <4>3
      <4>6. v = view'[p]
        BY <2>6, <4>1, <4>5, Zenon DEF Words
      <4> QED  BY <4>4, <4>6, Zenon
    <3> QED  BY <3>1, <3>2, Zenon
  <2>7. CASE remote'[p] \in {"out", "closed"} \/ p \notin peers
    BY <2>2, <2>7, Zenon DEF Live
  <2>8. \/ wire' = wire
        \/ handshake[p].pc = "send" /\ UNCHANGED remote /\ \E m \in Letter : Sends(p, m)
        \/ remote'[p] = "up" /\ view'[p] = Head(wire[p]).val /\ wire'[p] = Tail(wire[p])
        \/ remote'[p] \in {"out", "closed"} \/ p \notin peers
    BY <2>1, Zenon DEF PeerChange
  <2> QED  BY <2>4, <2>5, <2>6, <2>7, <2>8, Zenon
<1> QED  BY <1>1, <1>2, Zenon

(* The goroutine s that notifies leaves the settings alone; at the end of its
   call one is left asleep. *)
LEMMA SetterQuiet ==
    ASSUME SettingsTypes, NEW s \in Setter, SetterStep(s), setter[s].pc # "idle"
    PROVE  /\ UNCHANGED <<kind, initial, required, tolerance, inbound, hurried>>
           /\ FinishSet(s) \/ (sleeping' = sleeping /\ setter'[s].pc # "idle")
<1> USE DEF settingVars, remoteVars
<1>1. \A v : ~ SetMinimumPoW(s, v) /\ ~ SetBloomFilter(s, v)
  BY Zenon DEF SetMinimumPoW, SetBloomFilter, Store
<1>2. UNCHANGED <<kind, initial, required, tolerance, inbound, hurried>>
  BY <1>1, Zenon DEF SetterStep, CountPeers, ListPeers, FinishSet, NotifyAboutPowRequirementChange,
                     NotifyAboutBloomFilterChange, Notify
<1>3. FinishSet(s) \/ sleeping' = sleeping
  BY <1>1, Zenon DEF SetterStep, CountPeers, ListPeers, NotifyAboutPowRequirementChange,
                     NotifyAboutBloomFilterChange, Notify
<1>4. FinishSet(s) \/ setter'[s].pc # "idle"
  <2>1. setter[s] \in Setting /\ setter \in [Setter -> Setting]
    BY Zenon DEF SettingsTypes
  <2>2. \/ FinishSet(s)
        \/ setter' = [setter EXCEPT ![s].pc = "list", ![s].count = Cardinality(peers)]
        \/ setter' = [setter EXCEPT ![s].pc = "notify", ![s].todo = peers]
        \/ \E p \in Peer : setter' = [setter EXCEPT ![s].todo = @ \ {p}]
    BY <1>1, Zenon DEF SetterStep, CountPeers, ListPeers, NotifyAboutPowRequirementChange,
                       NotifyAboutBloomFilterChange, Notify
  <2>3. ASSUME NEW p, setter' = [setter EXCEPT ![s].todo = @ \ {p}]
        PROVE  setter'[s].pc # "idle"
    BY <2>1, <2>3, Zenon DEF Setting
  <2>4. \/ setter' = [setter EXCEPT ![s].pc = "list", ![s].count = Cardinality(peers)]
        \/ setter' = [setter EXCEPT ![s].pc = "notify", ![s].todo = peers]
        => setter'[s].pc # "idle"
    BY <2>1 DEF Setting
  <2> QED  BY <2>2, <2>3, <2>4, Zenon
<1> QED  BY <1>2, <1>3, <1>4, Zenon

(* Nor does a peer change them; what it sends meets what it knows. *)
LEMMA PeerQuiet ==
    ASSUME SettingsTypes, ValueInv, NEW k \in Peer, PeerStep(k)
    PROVE  /\ UNCHANGED <<kind, initial, required, tolerance, sleeping, hurried>>
           /\ \A p \in Peer : \A x \in inbound'[p] :
                  \/ x \in inbound[p]
                  \/ /\ x.met \in Unit /\ x.left = Delay
                     /\ Live(p) /\ view[p] \in Words(p) /\ Meets(x.met, view[p])
<1> USE DEF settingVars, remoteVars
<1>1. UNCHANGED <<kind, initial, required, tolerance, sleeping, hurried>>
  BY Zenon DEF PeerStep, Track, LoadRequirements, SendStatus, Leave, ReadStatus, RefuseStatus,
               ReadPowRequirement, ReadBloomFilter, Learn, Broadcast, Receive
<1>2. \/ inbound' = inbound
      \/ inbound' = [inbound EXCEPT ![k] = {}]
      \/ \E w \in Unit : Broadcast(k, w)
      \/ \E x \in inbound[k] : inbound' = [inbound EXCEPT ![k] = @ \ {x}]
  BY Zenon DEF PeerStep, Track, LoadRequirements, SendStatus, Leave, ReadStatus, RefuseStatus,
               ReadPowRequirement, ReadBloomFilter, Learn, Receive, Unit
<1>3. ASSUME NEW w \in Unit, Broadcast(k, w), NEW p \in Peer, NEW x \in inbound'[p], x \notin inbound[p]
      PROVE  /\ x.met \in Unit /\ x.left = Delay
             /\ Live(p) /\ view[p] \in Words(p) /\ Meets(x.met, view[p])
  <2>1. p = k /\ x = [met |-> w, left |-> Delay]
    BY <1>3, Zenon DEF Broadcast, ValueInv
  <2>2. remote[p] = "up" /\ Meets(w, view[p])
    BY <1>3, <2>1, Zenon DEF Broadcast
  <2> QED  BY <2>1, <2>2, Zenon DEF Live, Words
<1>4. ASSUME ~ \E w \in Unit : Broadcast(k, w), NEW p \in Peer
      PROVE  inbound'[p] \subseteq inbound[p]
  BY <1>2, <1>4, Zenon DEF ValueInv
<1> QED  BY <1>1, <1>3, <1>4, Zenon

(* As long as the settings stay, what meets them does. *)
LEMMA SameSettings ==
    ASSUME UNCHANGED <<kind, initial, tolerance>>
    PROVE  /\ Unit' = Unit /\ Tolerated' = Tolerated /\ DefaultIsTooMuch' = DefaultIsTooMuch
           /\ \A x, v : Meets(x, v)' <=> Meets(x, v)
           /\ \A v : Covered(v)' <=> Covered(v)
<1>1. Unit' = Unit /\ Tolerated' = Tolerated /\ DefaultIsTooMuch' = DefaultIsTooMuch
  BY Zenon DEF Unit, Tolerated, MinPowTolerance, BloomFilterTolerance, DefaultIsTooMuch
<1>2. \A x, v : Meets(x, v)' <=> Meets(x, v)
  BY Zenon DEF Meets
<1> QED  BY <1>1, <1>2, Zenon DEF Covered

(* Steps that spread the requirement in force, and envelopes sent by it or by
   what is tolerated. *)
LEMMA Spread ==
    ASSUME UNCHANGED <<kind, initial, required, tolerance>>, Known,
           \A p \in Peer : Live(p)' => \A v \in Words(p)' : v = required \/ (Live(p) /\ v \in Words(p)),
           \A p \in Peer : \A x \in inbound'[p] :
               \/ x \in inbound[p]
               \/ x.met \in Unit /\ Live(p) /\ view[p] \in Words(p) /\ Meets(x.met, view[p])
    PROVE  Known' /\ (Calm => Calm')
<1>1. /\ Unit' = Unit /\ Tolerated' = Tolerated /\ DefaultIsTooMuch' = DefaultIsTooMuch
      /\ \A x, v : Meets(x, v)' <=> Meets(x, v)
      /\ \A v : Covered(v)' <=> Covered(v)
  BY SameSettings, Zenon
<1>2. ASSUME NEW p \in Peer, Live(p)', NEW v \in Words(p)'
      PROVE  (v = required \/ Covered(v)) /\ (Calm => v = required)
  BY <1>2, Zenon DEF Known, Calm
<1>3. ASSUME NEW p \in Peer, NEW x \in inbound'[p]
      PROVE  /\ DefaultIsTooMuch \/ Meets(x.met, required) \/ Meets(x.met, Tolerated)
             /\ Calm => Meets(x.met, required)
  <2>1. CASE x \in inbound[p]
    BY <2>1, Zenon DEF Known, Calm
  <2>2. CASE x.met \in Unit /\ Live(p) /\ view[p] \in Words(p) /\ Meets(x.met, view[p])
    BY <2>2, Zenon DEF Known, Calm, Covered
  <2> QED  BY <1>3, <2>1, <2>2, Zenon
<1>4. Known'
  BY <1>1, <1>2, <1>3, Zenon DEF Known
<1>5. Calm => Calm'
  BY <1>1, <1>2, <1>3, Zenon DEF Calm
<1> QED  BY <1>4, <1>5, Zenon

(* A second passes. *)
LEMMA PoliteTick ==
    ASSUME TypesInv, Tick, NEW s \in Setter, PoliteInv(s)
    PROVE  PoliteInv(s)'
<1>1. UNCHANGED <<kind, initial, required, tolerance, setter, handshake, remote, view>>
  BY Zenon DEF Tick
<1>2. SettingsTypes /\ ValueInv
  BY Zenon DEF TypesInv
<1>3. /\ \A x, v : Meets(x, v)' <=> Meets(x, v)
      /\ Tolerated' = Tolerated /\ DefaultIsTooMuch' = DefaultIsTooMuch
      /\ \A v : Covered(v)' <=> Covered(v)
  BY <1>1, SameSettings, Zenon
<1>4. \A p \in Peer : /\ Live(p)' <=> Live(p)
                      /\ Words(p)' = Words(p)
                      /\ wire'[p] = << >> <=> wire[p] = << >>
                      /\ wire[p] # << >> => wire'[p][Len(wire'[p])].left = wire[p][Len(wire[p])].left - 1
  BY <1>2, WordsTick, Zenon
<1>5. ASSUME NEW p \in Peer, NEW x \in inbound'[p]
      PROVE  \E y \in inbound[p] : x.met = y.met /\ x.left = y.left - 1 /\ y.left \in Nat
  <2>1. PICK y \in inbound[p] : x = [y EXCEPT !.left = @ - 1]
    BY <1>5, Zenon DEF Tick, Older
  <2>2. y \in [met : Unit, left : 0 .. Delay]
    BY <1>2, Zenon DEF ValueInv
  <2> QED  BY <2>1, <2>2, TimeAssumption
<1>6. ASSUME NEW h \in sleeping'
      PROVE  \E g \in sleeping : h = [val |-> g.val, left |-> g.left - 1] /\ g.left \in Nat
  <2>1. PICK g \in sleeping : h = [g EXCEPT !.left = @ - 1]
    BY <1>6, Zenon DEF Tick, Older
  <2>2. g \in [val : Requirement, left : 0 .. SyncAllowance]
    BY <1>2, Zenon DEF ValueInv
  <2> QED  BY <2>1, <2>2, TimeAssumption
<1>7. ToldInv(s)'
  BY <1>2, TickTypes, Zenon DEF PoliteInv, ToldInv, Told
<1>8. sleeping' = {} <=> sleeping = {}
  BY Zenon DEF Tick, Older
<1>9. Phase(s)'
  BY <1>1, <1>6, <1>8 DEF PoliteInv, Phase
<1>10. Known'
  BY <1>1, <1>3, <1>4, <1>5 DEF PoliteInv, Known
<1>11. setter'[s].pc = "idle" /\ sleeping' = {} => Calm'
  BY <1>1, <1>3, <1>4, <1>5, <1>8 DEF PoliteInv, Calm
<1>12. ASSUME NEW h \in sleeping'
       PROVE  Fading(h)'
  <2>1. PICK g \in sleeping : h = [val |-> g.val, left |-> g.left - 1] /\ g.left \in Nat
    BY <1>6, Zenon
  <2>2. Fading(g) /\ h.left = g.left - 1
    BY <2>1, Zenon DEF PoliteInv
  <2>3. ASSUME NEW p \in Peer, Live(p)', ~ (Words(p)' \subseteq {required})
        PROVE  wire'[p] # << >> /\ wire'[p][Len(wire'[p])].left + SyncAllowance <= h.left + Delay
    <3>1. PICK n \in Int : n = wire[p][Len(wire[p])].left
      <4>1. PICK w \in Seq(Letter) : w = wire[p]
        BY <1>2, Zenon DEF SettingsTypes
      <4>2. w # << >>
        BY <1>4, <2>2, <2>3, <4>1, Zenon DEF Fading
      <4>3. w[Len(w)] \in Letter
        BY <4>2
      <4> QED  BY <4>1, <4>3, Zenon DEF Letter
    <3>2. wire[p] # << >> /\ n + SyncAllowance <= g.left + Delay
      BY <1>4, <2>2, <2>3, <3>1, Zenon DEF Fading
    <3>3. wire'[p] # << >> /\ wire'[p][Len(wire'[p])].left = n - 1
      BY <1>4, <3>1, <3>2, Zenon
    <3> QED  BY <2>1, <2>2, <3>2, <3>3, TimeAssumption
  <2>4. ASSUME NEW p \in Peer, NEW x \in inbound'[p], ~ Meets(x.met, required)
        PROVE  x.left + SyncAllowance <= h.left + 2 * Delay
    <3>1. PICK y \in inbound[p] : x.met = y.met /\ x.left = y.left - 1 /\ y.left \in Nat
      BY <1>5, Zenon
    <3>2. y.left + SyncAllowance <= g.left + 2 * Delay
      BY <2>2, <2>4, <3>1, Zenon DEF Fading
    <3> QED  BY <2>1, <2>2, <3>1, <3>2, TimeAssumption
  <2> QED  BY <1>1, <1>3, <2>3, <2>4, Zenon DEF Fading
<1> QED  BY <1>7, <1>9, <1>10, <1>11, <1>12, Zenon DEF PoliteInv

(* While a goroutine sleeps, the words and the envelopes that do not go by the
   requirement in force run out of time. *)
LEMMA FadingPeer ==
    ASSUME TypesInv, TrackInv, TrackInv', NEW s \in Setter, ToldInv(s)', setter'[s].pc = "idle",
           NEW k \in Peer, PeerStep(k), NEW g \in sleeping, Fading(g)
    PROVE  Fading(g)'
<1>1. SettingsTypes /\ ValueInv
  BY Zenon DEF TypesInv
<1>2. /\ UNCHANGED <<kind, initial, required, tolerance>>
      /\ \A p \in Peer : \A x \in inbound'[p] :
             \/ x \in inbound[p]
             \/ /\ x.met \in Unit /\ x.left = Delay
                /\ Live(p) /\ view[p] \in Words(p) /\ Meets(x.met, view[p])
  BY <1>1, PeerQuiet, Zenon
<1>3. \A x, v : Meets(x, v)' <=> Meets(x, v)
  BY <1>2, SameSettings, Zenon
<1>4. ASSUME NEW p \in Peer, Live(p)', NEW v \in Words(p)', v # required
      PROVE  wire'[p] # << >> /\ wire'[p][Len(wire'[p])].left + SyncAllowance <= g.left + Delay
  <2>1. Live(p) /\ v \in Words(p)
    BY <1>1, <1>4, WordsPeer, Zenon
  <2>2. wire[p] # << >> /\ wire[p][Len(wire[p])].left + SyncAllowance <= g.left + Delay
    BY <1>4, <2>1, Zenon DEF Fading
  <2>3. wire'[p] # << >> /\ wire'[p][Len(wire'[p])] = wire[p][Len(wire[p])]
    BY <1>1, <1>4, <2>2, LastWordStays, Zenon
  <2> QED  BY <2>2, <2>3, Zenon
<1>5. ASSUME NEW p \in Peer, NEW x \in inbound'[p], ~ Meets(x.met, required)
      PROVE  x.left + SyncAllowance <= g.left + 2 * Delay
  <2>1. CASE x \in inbound[p]
    BY <1>5, <2>1, Zenon DEF Fading
  <2>2. CASE /\ x.left = Delay /\ Live(p) /\ view[p] \in Words(p) /\ Meets(x.met, view[p])
    <3>1. ~ (Words(p) \subseteq {required})
      BY <1>5, <2>2, Zenon
    <3>2. wire[p] # << >> /\ wire[p][Len(wire[p])].left + SyncAllowance <= g.left + Delay
      BY <2>2, <3>1, Zenon DEF Fading
    <3>3. PICK n \in Nat : n = wire[p][Len(wire[p])].left
      <4>1. PICK w \in Seq(Letter) : w = wire[p]
        BY <1>1, Zenon DEF SettingsTypes
      <4>2. Len(w) \in DOMAIN w
        BY <3>2, <4>1
      <4>3. w[Len(w)].left \in 0 .. Delay
        BY <4>1, <4>2, Zenon DEF TypesInv, WireInv, Fit
      <4> QED  BY <4>1, <4>3, TimeAssumption
    <3>4. g.left \in Nat /\ n + SyncAllowance <= g.left + Delay
      BY <1>1, <3>2, <3>3, TimeAssumption DEF ValueInv
    <3> QED  BY <2>2, <3>4, TimeAssumption
  <2> QED  BY <1>2, <1>5, <2>1, <2>2, Zenon
<1>6. \A p \in Peer :
          Live(p)' /\ ~ (Words(p)' \subseteq {required}) =>
              wire'[p] # << >> /\ wire'[p][Len(wire'[p])].left + SyncAllowance <= g.left + Delay
  BY <1>4, Zenon
<1> QED  BY <1>2, <1>3, <1>5, <1>6, Zenon DEF Fading

(* A step of a peer. *)
LEMMA PolitePeer ==
    ASSUME TypesInv, TrackInv, TrackInv', NEW k \in Peer, PeerStep(k), NEW s \in Setter, PoliteInv(s)
    PROVE  PoliteInv(s)'
<1>1. SettingsTypes /\ ValueInv /\ ToldInv(s) /\ Phase(s) /\ Known
  BY Zenon DEF TypesInv, PoliteInv
<1>2. /\ UNCHANGED <<kind, initial, required, tolerance, sleeping>>
      /\ \A p \in Peer : \A x \in inbound'[p] :
             \/ x \in inbound[p]
             \/ /\ x.met \in Unit /\ x.left = Delay
                /\ Live(p) /\ view[p] \in Words(p) /\ Meets(x.met, view[p])
  BY <1>1, PeerQuiet, Zenon
<1>3. \A r \in Setter : setter'[r].pc = setter[r].pc
  BY <1>1, PeerFrame, Zenon
<1>4. ToldInv(s)'
  BY <1>1, ToldPeer, Zenon
<1>5. Phase(s)'
  BY <1>1, <1>2, <1>3, Zenon DEF Phase
<1>6. \A p \in Peer : Live(p)' => \A v \in Words(p)' : v = required \/ (Live(p) /\ v \in Words(p))
  BY <1>1, WordsPeer, Zenon
<1>7. Known' /\ (Calm => Calm')
  BY <1>1, <1>2, <1>6, Spread, Zenon
<1>8. ASSUME NEW g \in sleeping'
      PROVE  Fading(g)'
  <2>1. g \in sleeping /\ Fading(g) /\ setter'[s].pc = "idle"
    BY <1>1, <1>2, <1>3, Zenon DEF PoliteInv, Phase
  <2> QED  BY <1>4, <2>1, FadingPeer, Zenon
<1> QED  BY <1>2, <1>3, <1>4, <1>5, <1>7, <1>8, Zenon DEF PoliteInv

(* The requirement is stored after the last change has settled. *)
LEMMA PoliteStore ==
    ASSUME TypesInv, NEW s \in Setter, PoliteInv(s), NEW r \in Setter, NEW v, Store(r, v), ~ hurried'
    PROVE  PoliteInv(r)'
<1> USE DEF settingVars, remoteVars
<1>1. sleeping = {} /\ \A q \in Setter : setter[q].pc = "idle"
  BY Zenon DEF Store, Settled
<1>2. Calm
  BY <1>1, Zenon DEF PoliteInv
<1>3. UNCHANGED <<kind, initial, tolerance, sleeping, handshake, remote, view, wire, inbound>>
  BY Zenon DEF Store
<1>4. setter'[r].pc = "count" /\ setter'[r].val = required'
      /\ \A q \in Setter : q # r => setter'[q] = setter[q]
  BY Zenon DEF Store, Idle, TypesInv, SettingsTypes
<1>5. /\ Unit' = Unit /\ Tolerated' = Tolerated /\ DefaultIsTooMuch' = DefaultIsTooMuch
      /\ \A x, u : Meets(x, u)' <=> Meets(x, u)
      /\ \A u : Covered(u)' <=> Covered(u)
  BY <1>3, SameSettings, Zenon
<1>6. \A p \in Peer : (Live(p)' <=> Live(p)) /\ Words(p)' = Words(p)
  BY <1>3, Zenon DEF Live, Words
<1>7. ToldInv(r)'
  BY <1>4, Zenon DEF ToldInv, Told
<1>8. Phase(r)'
  BY <1>1, <1>3, <1>4, Zenon DEF Phase
<1>9. Known'
  <2>1. \A p \in Peer : \A x \in inbound[p] : x.met \in Unit /\ Meets(x.met, required)
    BY <1>2 DEF Calm, TypesInv, ValueInv
  <2>2. \A p \in Peer : \A x \in inbound[p] : DefaultIsTooMuch \/ Meets(x.met, Tolerated)
    BY <1>2, <2>1, Zenon DEF Calm, Covered
  <2>3. \A p \in Peer : Live(p) => \A u \in Words(p) : Covered(u)
    BY <1>2, Zenon DEF Calm
  <2> QED  BY <1>3, <1>5, <1>6, <2>2, <2>3, Zenon DEF Known
<1> QED  BY <1>1, <1>3, <1>4, <1>7, <1>8, <1>9, Zenon DEF PoliteInv

(* The call returns, and leaves a goroutine asleep. *)
LEMMA FadingBegins ==
    ASSUME TypesInv, TrackInv, NEW s \in Setter, PoliteInv(s), ToldInv(s)', FinishSet(s)
    PROVE  \A g \in sleeping' : g.val = required /\ Fading(g)'
<1> USE DEF settingVars, remoteVars
<1>1. UNCHANGED <<kind, initial, required, tolerance, handshake, remote, view, wire, inbound>>
  BY Zenon DEF FinishSet
<1>2. setter[s].pc = "notify" /\ setter[s].val = required /\ sleeping = {}
  BY Zenon DEF FinishSet, PoliteInv, ToldInv, Phase
<1>3. sleeping' = {[val |-> required, left |-> SyncAllowance]}
  BY <1>2, Zenon DEF FinishSet
<1>4. setter'[s].pc = "idle"
  BY Zenon DEF FinishSet, Idle, TypesInv, SettingsTypes
<1>5. \A x, v : Meets(x, v)' <=> Meets(x, v)
  BY <1>1, SameSettings, Zenon
<1>6. ASSUME NEW p \in Peer, Live(p), ~ (Words(p) \subseteq {required})
      PROVE  wire[p] # << >> /\ wire[p][Len(wire[p])].left <= Delay
  <2>1. PICK w \in Seq(Letter) : w = wire[p]
    BY Zenon DEF TypesInv, SettingsTypes
  <2>2. CASE w = << >>
    <3>1. DOMAIN wire[p] = {}
      BY <2>1, <2>2
    <3>2. /\ handshake[p].pc \in {"load", "send"} => remote[p] # "up"
      BY Zenon DEF TrackInv
    <3>3. \/ handshake[p].pc = "load"
          \/ handshake[p].pc = "send" /\ handshake[p].val = required
          \/ handshake[p].pc = "done" /\ view[p] = required
      BY <1>1, <1>4, <1>6, <2>1, <2>2, Zenon DEF ToldInv, Told, Heard, Live
    <3> QED  BY <1>6, <3>1, <3>2, <3>3, Zenon DEF Words
  <2>3. CASE w # << >>
    <3>1. Len(w) \in DOMAIN w
      BY <2>3
    <3>2. w[Len(w)].left \in 0 .. Delay
      BY <2>1, <3>1, Zenon DEF TypesInv, WireInv, Fit
    <3> QED  BY <2>1, <2>3, <3>2, TimeAssumption
  <2> QED  BY <2>2, <2>3, Zenon
<1>7. \A p \in Peer : \A x \in inbound[p] : x.left \in 0 .. Delay
  BY DEF TypesInv, ValueInv
<1>8. \A p \in Peer : (Live(p)' <=> Live(p)) /\ Words(p)' = Words(p)
  BY <1>1, Zenon DEF Live, Words
<1>9. ASSUME NEW g, g = [val |-> required, left |-> SyncAllowance]
      PROVE  g.val = required /\ Fading(g)'
  <2>1. g.val = required /\ g.left = SyncAllowance
    BY <1>9, Zenon
  <2>2. \A p \in Peer : Live(p) /\ ~ (Words(p) \subseteq {required}) =>
            wire[p] # << >> /\ wire[p][Len(wire[p])].left + SyncAllowance <= g.left + Delay
    <3> SUFFICES ASSUME NEW p \in Peer, Live(p), ~ (Words(p) \subseteq {required})
                 PROVE  wire[p] # << >> /\ wire[p][Len(wire[p])].left + SyncAllowance <= g.left + Delay
      BY Zenon
    <3>1. PICK w \in Seq(Letter) : w = wire[p]
      BY Zenon DEF TypesInv, SettingsTypes
    <3>2. w # << >> /\ w[Len(w)].left <= Delay
      BY <1>6, <3>1, Zenon
    <3>3. w[Len(w)] \in Letter
      BY <3>2
    <3>4. w[Len(w)].left \in Int
      BY <3>3, Zenon DEF Letter
    <3> QED  BY <2>1, <3>1, <3>2, <3>4, TimeAssumption
  <2>3. \A p \in Peer : \A x \in inbound[p] : x.left + SyncAllowance <= g.left + 2 * Delay
    BY <1>7, <2>1, TimeAssumption
  <2> QED  BY <1>1, <1>8, <2>1, <2>2, <2>3, Zenon DEF Fading
<1> QED  BY <1>3, <1>9, Zenon

(* A step of a goroutine that changes the requirement. *)
LEMMA PoliteSetter ==
    ASSUME TypesInv, TrackInv, NEW s \in Setter, PoliteInv(s), NEW r \in Setter, SetterStep(r), ~ hurried'
    PROVE  \E q \in Setter : PoliteInv(q)'
<1> USE DEF settingVars, remoteVars
<1>1. SettingsTypes /\ ToldInv(s) /\ Phase(s) /\ Known
  BY Zenon DEF TypesInv, PoliteInv
<1>2. CASE setter[r].pc = "idle"
  <2>1. \E v : Store(r, v)
    BY <1>2, Zenon DEF SetterStep, SetMinimumPoW, SetBloomFilter, CountPeers, ListPeers, FinishSet,
                       NotifyAboutPowRequirementChange, NotifyAboutBloomFilterChange, Notify
  <2> QED  BY <2>1, PoliteStore, Zenon
<1>3. CASE setter[r].pc # "idle"
  <2>1. r = s
    BY <1>1, <1>3, Zenon DEF Phase
  <2>2. /\ UNCHANGED <<kind, initial, required, tolerance, inbound>>
        /\ FinishSet(s) \/ (sleeping' = sleeping /\ setter'[s].pc # "idle")
    BY <1>1, <1>3, <2>1, SetterQuiet, Zenon
  <2>3. \A q \in Setter : q # s => setter'[q] = setter[q]
    BY <1>1, <2>1, SetterEffect, Zenon
  <2>4. ToldInv(s)' /\ sleeping = {}
    BY <1>1, <1>3, <2>1, ToldSetter, Zenon DEF Phase
  <2>5. \A p \in Peer : Live(p)' => \A v \in Words(p)' : v = required \/ (Live(p) /\ v \in Words(p))
    BY <1>1, <1>3, <2>1, <2>2, WordsSetter, Zenon
  <2>6. Known'
    BY <1>1, <2>2, <2>5, Spread, Zenon
  <2>7. CASE FinishSet(s)
    <3>1. /\ \A g \in sleeping' : g.val = required' /\ Fading(g)'
          /\ \A g, h \in sleeping' : g = h
          /\ sleeping' # {}
      BY <2>2, <2>4, <2>7, FadingBegins, Zenon DEF FinishSet
    <3>2. setter'[s].pc = "idle"
      BY <1>1, <2>7, Zenon DEF FinishSet, Idle, SettingsTypes
    <3>3. Phase(s)'
      BY <1>1, <2>3, <3>1, <3>2, Zenon DEF Phase
    <3> QED  BY <2>4, <2>6, <3>1, <3>3, Zenon DEF PoliteInv
  <2>8. CASE sleeping' = sleeping /\ setter'[s].pc # "idle"
    <3>1. Phase(s)'
      BY <1>1, <2>3, <2>4, <2>8, Zenon DEF Phase
    <3> QED  BY <2>4, <2>6, <2>8, <3>1, Zenon DEF PoliteInv
  <2> QED  BY <2>2, <2>7, <2>8, Zenon
<1> QED  BY <1>2, <1>3, Zenon

(* The goroutine that slept stores its value as the tolerated one. *)
LEMMA PoliteAdopt ==
    ASSUME TypesInv, SyncAllowance > 2 * Delay, NEW s \in Setter, PoliteInv(s),
           NEW g \in sleeping, Adopt(g)
    PROVE  PoliteInv(s)'
<1> USE DEF settingVars, remoteVars
<1>1. UNCHANGED <<kind, initial, required, setter, handshake, remote, view, wire, inbound>>
  BY Zenon DEF Adopt
<1>2. g.left = 0 /\ g.val = required /\ tolerance' = required /\ sleeping' = {}
  BY Zenon DEF Adopt, PoliteInv, Phase
<1>3. Fading(g) /\ ToldInv(s) /\ Phase(s)
  BY Zenon DEF PoliteInv
<1>4. \A x, v : Meets(x, v)' <=> Meets(x, v)
  BY <1>1, Zenon DEF Meets
<1>5. required \in Requirement /\ required # Unset
  BY UnsetAssumption, Zenon DEF TypesInv, ValueInv, Requirement
<1>6. Tolerated' = required
  BY <1>2, <1>5, Zenon DEF Tolerated, MinPowTolerance, BloomFilterTolerance
<1>7. ASSUME NEW p \in Peer, Live(p), ~ (Words(p) \subseteq {required})
      PROVE  FALSE
  <2>1. PICK w \in Seq(Letter) : w = wire[p]
    BY Zenon DEF TypesInv, SettingsTypes
  <2>2. w # << >> /\ w[Len(w)].left + SyncAllowance <= g.left + Delay
    BY <1>3, <1>7, <2>1, Zenon DEF Fading
  <2>3. Len(w) \in DOMAIN w
    BY <2>2
  <2>4. w[Len(w)].left \in 0 .. Delay
    BY <2>1, <2>3, Zenon DEF TypesInv, WireInv, Fit
  <2> QED  BY <1>2, <2>2, <2>4, TimeAssumption
<1>8. ASSUME NEW p \in Peer, NEW x \in inbound[p]
      PROVE  Meets(x.met, required)
  <2>1. x.left \in 0 .. Delay
    BY DEF TypesInv, ValueInv
  <2>2. Meets(x.met, required) \/ x.left + SyncAllowance <= g.left + 2 * Delay
    BY <1>3, Zenon DEF Fading
  <2> QED  BY <1>2, <2>1, <2>2, TimeAssumption
<1>9. \A p \in Peer : (Live(p)' <=> Live(p)) /\ Words(p)' = Words(p)
  BY <1>1, Zenon DEF Live, Words
<1>10. Calm'
  BY <1>1, <1>4, <1>6, <1>7, <1>8, <1>9, Zenon DEF Calm, Covered
<1>11. Known'
  BY <1>10, Zenon DEF Calm, Known
<1>12. ToldInv(s)'
  BY <1>1, <1>3, Zenon DEF ToldInv, Told
<1>13. Phase(s)'
  BY <1>1, <1>2, <1>3, Zenon DEF Phase
<1> QED  BY <1>2, <1>10, <1>11, <1>12, <1>13, Zenon DEF PoliteInv

PoliteState == TypesInv /\ TrackInv /\ (hurried \/ \E s \in Setter : PoliteInv(s))

LEMMA PoliteInit ==
    ASSUME NEW s \in Setter, TypesInv, Init
    PROVE  PoliteState
<1>1. TrackInv /\ ToldInv(s)
  BY SettingsInvInit, Zenon DEF SettingsInv
<1>2. \A r \in Setter : setter[r].pc = "idle"
  BY Zenon DEF Init, Idle
<1>3. /\ sleeping = {} /\ required = initial /\ tolerance = Unset
      /\ \A p \in Peer : remote[p] = "out" /\ inbound[p] = {}
  BY Zenon DEF Init
<1>4. \A p \in Peer : ~ Live(p)
  BY <1>3, Zenon DEF Live
<1>5. Covered(required)
  <2>1. (initial \in Level /\ DefaultPow \in Level /\ Level \subseteq Int) \/ kind # "pow"
    BY LevelAssumption, InputAssumption, Zenon DEF Init, Initial
  <2>2. CASE kind = "pow" /\ ~ DefaultIsTooMuch
    <3>1. required = initial /\ Tolerated = DefaultPow /\ Unit = Level /\ ~ (initial < DefaultPow)
      BY <1>3, <2>2, Zenon DEF Tolerated, MinPowTolerance, Unit, DefaultIsTooMuch
    <3>2. \A x \in Level : x >= initial => x >= DefaultPow
      BY <2>1, <2>2, <3>1
    <3> QED  BY <2>2, <3>1, <3>2, Zenon DEF Covered, Meets
  <2>3. CASE kind # "pow"
    <3>1. Tolerated = Topic /\ Unit = Topic
      BY <1>3, <2>3, Zenon DEF Tolerated, BloomFilterTolerance, Unit
    <3> QED  BY <2>3, <3>1, Zenon DEF Covered, Meets
  <2> QED  BY <2>2, <2>3, Zenon DEF Covered
<1>6. Phase(s) /\ Known /\ Calm
  BY <1>2, <1>3, <1>4, <1>5, Zenon DEF Phase, Known, Calm
<1> QED  BY <1>1, <1>3, <1>6, Zenon DEF PoliteState, PoliteInv

LEMMA PoliteNext ==
    ASSUME SyncAllowance > 2 * Delay, PoliteState, TypesInv', [Next]_vars
    PROVE  PoliteState'
<1>1. TypesInv /\ TrackInv /\ SettingsTypes
  BY Zenon DEF PoliteState, TypesInv
<1>2. CASE UNCHANGED vars
  <2>1. UNCHANGED <<kind, initial, required, tolerance, sleeping, hurried, setter, peers, handshake, remote,
                    view, inbound, wire>>
    BY <1>2, Zenon DEF vars, settingVars, remoteVars
  <2>2. TrackInv'
    BY <1>1, <2>1, Zenon DEF TrackInv
  <2>3. ASSUME NEW s \in Setter, PoliteInv(s)
        PROVE  PoliteInv(s)'
    <3>1. ToldInv(s)'
      BY <2>1, <2>3, Zenon DEF PoliteInv, ToldInv, Told
    <3>2. Phase(s)'
      BY <2>1, <2>3, Zenon DEF PoliteInv, Phase
    <3>3. /\ \A x, v : Meets(x, v)' <=> Meets(x, v)
          /\ Tolerated' = Tolerated /\ DefaultIsTooMuch' = DefaultIsTooMuch
          /\ \A v : Covered(v)' <=> Covered(v)
      BY <2>1, SameSettings, Zenon
    <3>4. \A p \in Peer : (Live(p)' <=> Live(p)) /\ Words(p)' = Words(p)
      BY <2>1, Zenon DEF Live, Words
    <3>5. Known' /\ (Calm => Calm')
      BY <2>1, <2>3, <3>3, <3>4, Zenon DEF PoliteInv, Known, Calm
    <3>6. \A g \in sleeping : Fading(g)'
      BY <2>1, <2>3, <3>3, <3>4, Zenon DEF PoliteInv, Fading
    <3> QED  BY <2>1, <2>3, <3>1, <3>2, <3>5, <3>6, Zenon DEF PoliteInv
  <2> QED  BY <2>1, <2>2, <2>3, Zenon DEF PoliteState
<1>3. CASE Tick
  <2>1. TrackInv'
    BY <1>1, <1>3, TickTypes, Zenon DEF TrackInv
  <2>2. hurried' = hurried
    BY <1>3, Zenon DEF Tick
  <2> QED  BY <1>1, <1>3, <2>1, <2>2, PoliteTick, Zenon DEF PoliteState
<1>4. ASSUME NEW r \in Setter, SetterStep(r)
      PROVE  PoliteState'
  <2>1. TrackInv'
    BY <1>1, <1>4, TrackSetter, Zenon
  <2>2. hurried => hurried'
    <3>1. CASE setter[r].pc = "idle"
      BY <1>4, <3>1, Zenon DEF SetterStep, SetMinimumPoW, SetBloomFilter, Store, CountPeers, ListPeers,
             FinishSet, NotifyAboutPowRequirementChange, NotifyAboutBloomFilterChange, Notify
    <3>2. CASE setter[r].pc # "idle"
      BY <1>1, <1>4, <3>2, SetterQuiet, Zenon
    <3> QED  BY <3>1, <3>2, Zenon
  <2>3. CASE hurried'
    BY <2>1, <2>3, Zenon DEF PoliteState
  <2>4. CASE ~ hurried'
    <3>1. PICK s \in Setter : PoliteInv(s)
      BY <2>2, <2>4, Zenon DEF PoliteState
    <3>2. \E q \in Setter : PoliteInv(q)'
      BY <1>1, <1>4, <2>4, <3>1, PoliteSetter, Zenon
    <3> QED  BY <2>1, <3>2, Zenon DEF PoliteState
  <2> QED  BY <2>3, <2>4, Zenon
<1>5. ASSUME NEW g \in sleeping, Adopt(g)
      PROVE  PoliteState'
  <2>1. UNCHANGED <<hurried, setter, peers, handshake, remote, wire>>
    BY <1>5, Zenon DEF Adopt, remoteVars
  <2>2. TrackInv'
    BY <1>1, <2>1, Zenon DEF TrackInv
  <2> QED  BY <1>1, <1>5, <2>1, <2>2, PoliteAdopt, Zenon DEF PoliteState
<1>6. ASSUME NEW k \in Peer, PeerStep(k)
      PROVE  PoliteState'
  <2>1. TrackInv' /\ ValueInv
    BY <1>1, <1>6, TrackPeer, Zenon DEF TypesInv
  <2>2. hurried' = hurried
    BY <1>1, <1>6, <2>1, PeerQuiet, Zenon
  <2> QED  BY <1>1, <1>6, <2>1, <2>2, PolitePeer, Zenon DEF PoliteState
<1> QED  BY <1>2, <1>3, <1>4, <1>5, <1>6, Zenon DEF Next

(***************************************************************************)
(* An envelope that met the requirement its sender knew of when it sent it *)
(* passes the check of PoW or bloom filter in add, whenever it arrives and *)
(* for any number of peers and of goroutines that call SetMinimumPoW or    *)
(* SetBloomFilter: if each call comes after the last one has settled,      *)
(* syncAllowance covers the time of a notification and of an envelope, and *)
(* a change has settled or the configured PoW is not below the default.    *)
(***************************************************************************)
THEOREM PolitePeersAreAccepted ==
    ASSUME Setter # {}, SyncAllowance > 2 * Delay
    PROVE  Spec => []PolitePeerAccepted
<1>1. PICK s \in Setter : TRUE
  BY Zenon
<1>2. Init /\ TypesInv => PoliteState
  BY <1>1, PoliteInit, Zenon
<1>3. PoliteState /\ TypesInv' /\ [Next]_vars => PoliteState'
  BY PoliteNext, Zenon
<1>4. PoliteState => PolitePeerAccepted
  BY Zenon DEF PoliteState, PoliteInv, Known, PolitePeerAccepted, GoodFaithAccepted
<1> QED  BY <1>2, <1>3, <1>4, TypesInvariance, PTL DEF Spec

-----------------------------------------------------------------------------
(* The numbers of peers are bounded by that of all peers. *)
INSTANCE FiniteSetTheorems

(***************************************************************************)
(* The settings hold valid values of their kind only, whatever the calls   *)
(* of SetMinimumPoW and SetBloomFilter ask for, no wire exceeds its limit, *)
(* and nothing sleeps or travels longer than it may.                       *)
(***************************************************************************)
THEOREM SettingsTypeCorrect == Spec => []TypeOK
<1>1. TypesInv => TypeOK
  <2> SUFFICES ASSUME TypesInv
               PROVE  TypeOK
    BY Zenon
  <2> USE DEF TypesInv
  <2>1. setter \in [Setter -> [pc : {"idle", "count", "list", "notify"}, val : Requirement,
                               count : 0 .. Cardinality(Peer), todo : SUBSET Peer]]
    <3>1. Count \subseteq 0 .. Cardinality(Peer)
      BY PeerAssumption, FS_CardinalityType, FS_Subset DEF Count
    <3>2. \A s \in Setter : setter[s] \in Setting
      BY Zenon DEF SettingsTypes
    <3>3. ASSUME NEW u \in Setting, u.val \in Requirement
          PROVE  u \in [pc : {"idle", "count", "list", "notify"}, val : Requirement,
                        count : 0 .. Cardinality(Peer), todo : SUBSET Peer]
      BY <3>1, <3>3, Zenon DEF Setting
    <3> QED  BY <3>2, <3>3, Zenon DEF SettingsTypes, SetterInv
  <2>2. handshake \in [Peer -> [pc : {"out", "load", "send", "done"}, val : Requirement]]
    BY Zenon DEF SettingsTypes, WireInv, Greeting
  <2>3. view \in [Peer -> Requirement]
    BY Zenon DEF SettingsTypes, WireInv
  <2>4. ASSUME NEW p \in Peer
        PROVE  Len(wire[p]) <= WireLimit /\ wire[p] \in Seq(PacketType)
    <3>1. PICK w \in Seq(Letter) : w = wire[p]
      BY Zenon DEF SettingsTypes
    <3>2. Fit(w, Requirement)
      BY <3>1, Zenon DEF WireInv
    <3>3. \A x \in Letter : x.val \in Requirement /\ x.left \in 0 .. Delay => x \in PacketType
      BY Zenon DEF Letter, PacketType
    <3>4. \A i \in 1 .. Len(w) : /\ w[i] \in Letter /\ w[i].val \in Requirement
                                 /\ w[i].left \in 0 .. Delay
      BY <3>2 DEF Fit
    <3>5. \A i \in 1 .. Len(w) : w[i] \in PacketType
      BY <3>3, <3>4, Zenon
    <3>6. w \in Seq(PacketType)
      BY <3>5
    <3> QED  BY <3>1, <3>2, <3>6, Zenon DEF Fit
  <2>5. \A p \in Peer : \A x \in inbound[p] : x.left \in 0 .. Delay
    BY DEF ValueInv
  <2> QED  BY <2>1, <2>2, <2>3, <2>4, <2>5 DEF TypeOK, SettingsTypes, ValueInv
<1> QED  BY <1>1, TypesInvariance, PTL

=============================================================================
