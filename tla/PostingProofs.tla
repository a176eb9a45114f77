--------------------------- MODULE PostingProofs ----------------------------
(***************************************************************************)
(* Proofs about Posting, the key store it looks into and the coding of     *)
(* messages, for any requests, keys, number of clients and width of time:  *)
(*   - the key store implements KeyMap, alone and beside the requests;     *)
(*   - ValidateAndParse undoes NewSentMessage and Sign for every payload   *)
(*     whose length takes at most three digits (RoundTrip);                *)
(*   - PostInv, the inductive invariant of the goroutines of Post, and the *)
(*     four properties of what leaves that follow from it.                 *)
(***************************************************************************)
EXTENDS Posting, TLAPS

-----------------------------------------------------------------------------
(***************************************************************************)
(* The key store implements KeyMap.  An identity is only ever stored under *)
(* the identifier derived from it, so that the store AddKeyPair makes      *)
(* without a second check binds a free identifier or binds again what is   *)
(* bound; every other store is made under the lock that found the          *)
(* identifier free.                                                        *)
(***************************************************************************)

(* The keys in the maps and in the hands of callers; identities stay under  *)
(* their own identifiers.                                                   *)
KeyInv ==
    /\ DOMAIN privateKeys \subseteq Id
    /\ \A id \in DOMAIN privateKeys :
           privateKeys[id] \in Identity /\ IdOf(privateKeys[id]) = id
    /\ privateKeys = [id \in DOMAIN privateKeys |-> privateKeys[id]]
    /\ DOMAIN symKeys \subseteq Id
    /\ call \in [Caller -> [pc : {"idle"}] \cup [pc : {"pair"}, key : Identity]
                            \cup [pc : {"password"}, id : Id, key : SymKey]]

(* toDeterministicID yields an identifier. *)
LEMMA ToDeterministicIDType ==
    ASSUME NEW x \in Id \cup Name
    PROVE  ToDeterministicID(x) \in Id
  BY NameAssumption, Zenon DEF ToDeterministicID

LEMMA IdOfType ==
    ASSUME NEW k \in Identity
    PROVE  IdOf(k) \in Id
  BY NameAssumption, Zenon DEF IdOf

(* An identifier that a call looks up for a key pair is the pair's own. *)
LEMMA OwnIdentifier ==
    ASSUME NEW k \in Identity
    PROVE  HasKeyPair(IdOf(k)) <=> IdOf(k) \in DOMAIN privateKeys
  BY IdOfType, Zenon DEF HasKeyPair, ToDeterministicID

(* Every kind of step of the store on the key pairs keeps the invariant. *)
LEMMA KeyInvStep ==
    ASSUME KeyInv, [KeyStep]_keyVars
    PROVE  KeyInv'
<1> USE DEF KeyInv
<1>1. ASSUME NEW k \in Identity, NewKeyPair(k) PROVE KeyInv'
  BY <1>1, IdOfType, Zenon DEF NewKeyPair, Stored
<1>2. ASSUME NEW k \in Identity, SelectKeyPair(k) PROVE KeyInv'
  BY <1>2, IdOfType DEF SelectKeyPair, Stored
<1>3. ASSUME NEW c \in Caller, NEW k \in Identity, AddKeyPair(c, k) PROVE KeyInv'
  BY <1>3, Zenon DEF AddKeyPair
<1>4. ASSUME NEW c \in Caller, NEW id \in Id, NEW key \in SymKey,
             AddSymKeyFromPassword(c, id, key)
      PROVE  KeyInv'
  BY <1>4, Zenon DEF AddSymKeyFromPassword
<1>5. ASSUME NEW c \in Caller, StoreKeyPair(c) PROVE KeyInv'
  <2>1. call[c].key \in Identity
    BY <1>5, Zenon DEF StoreKeyPair
  <2>2. QED
    BY <1>5, <2>1, IdOfType, Zenon DEF StoreKeyPair, Stored, NoCall
<1>6. ASSUME NEW c \in Caller, StorePasswordKey(c) PROVE KeyInv'
  <2>1. call[c].id \in Id
    BY <1>6, Zenon DEF StorePasswordKey
  <2>2. DOMAIN symKeys' \subseteq Id
    BY <1>6, <2>1 DEF StorePasswordKey, AddUnder, Stored
  <2>3. QED
    BY <1>6, <2>2, Zenon DEF StorePasswordKey, NoCall
<1>7. ASSUME NEW id \in Id, NEW key \in SymKey,
             GenerateSymKey(id, key) \/ AddSymKeyDirect(id, key)
      PROVE  KeyInv'
  BY <1>7, Zenon DEF GenerateSymKey, AddSymKeyDirect, AddUnder, Stored
<1>8. ASSUME NEW x \in Id \cup Name, NEW key \in SymKey, AddSymKey(x, key) PROVE KeyInv'
  BY <1>8, ToDeterministicIDType, Zenon DEF AddSymKey, AddUnder, Stored
<1>9. ASSUME NEW x \in Id \cup Name, DeleteKeyPair(x) \/ DeleteSymKey(x) PROVE KeyInv'
  BY <1>9, Zenon DEF DeleteKeyPair, DeleteSymKey, Deleted, Restrict
<1>10. CASE DeleteKeyPairs
  BY <1>10 DEF DeleteKeyPairs
<1>11. CASE UNCHANGED keyVars
  BY <1>11, Zenon DEF keyVars
<1>12. QED
  BY <1>1, <1>2, <1>3, <1>4, <1>5, <1>6, <1>7, <1>8, <1>9, <1>10, <1>11, Zenon DEF KeyStep

(* Binding a free identifier to a symmetric key is a step of the map. *)
LEMMA AddUnderBinds ==
    ASSUME NEW id \in Id, NEW key \in SymKey, AddUnder(id, key), UNCHANGED privateKeys
    PROVE  Keys!BindSymKey
  BY Zenon DEF AddUnder, HasSymKey, Stored, Keys!BindSymKey, Keys!Bound

(* Each step of the store is one of the map, or changes neither map. *)
LEMMA StepImplements ==
    ASSUME KeyInv, [KeyStep]_keyVars
    PROVE  [Keys!Next]_(Keys!mapVars)
<1> USE DEF Keys!Next, Keys!mapVars
<1>1. ASSUME NEW k \in Identity, NewKeyPair(k) PROVE Keys!BindKeyPair
  BY <1>1, IdOfType, OwnIdentifier, Zenon DEF NewKeyPair, Stored, Keys!BindKeyPair, Keys!Bound
<1>2. ASSUME NEW k \in Identity, SelectKeyPair(k) PROVE Keys!SelectKeyPair
  <2>1. IdOf(k) \in DOMAIN privateKeys => privateKeys[IdOf(k)] = k
    BY NameAssumption DEF KeyInv, IdOf
  <2>2. QED
    BY <1>2, <2>1, IdOfType, Zenon DEF SelectKeyPair, Stored, Keys!SelectKeyPair, Keys!Bound
<1>3. ASSUME NEW c \in Caller, NEW k \in Identity, AddKeyPair(c, k)
      PROVE  UNCHANGED Keys!mapVars
  BY <1>3, Zenon DEF AddKeyPair
<1>4. ASSUME NEW c \in Caller, NEW id \in Id, NEW key \in SymKey,
             AddSymKeyFromPassword(c, id, key)
      PROVE  UNCHANGED Keys!mapVars
  BY <1>4, Zenon DEF AddSymKeyFromPassword
<1>5. ASSUME NEW c \in Caller, StoreKeyPair(c)
      PROVE  Keys!BindKeyPair \/ UNCHANGED Keys!mapVars
  <2> DEFINE k == call[c].key
  <2>1. k \in Identity
    BY <1>5, Zenon DEF StoreKeyPair, KeyInv
  <2>2. CASE IdOf(k) \in DOMAIN privateKeys
    <3>1. privateKeys[IdOf(k)] = k
      BY <2>1, <2>2, NameAssumption DEF KeyInv, IdOf
    <3>2. Stored(privateKeys, IdOf(k), k) = [id \in DOMAIN privateKeys |-> privateKeys[id]]
      BY <2>2, <3>1, Zenon DEF Stored
    <3>3. QED
      BY <1>5, <3>2, Zenon DEF StoreKeyPair, KeyInv
  <2>3. CASE IdOf(k) \notin DOMAIN privateKeys
    BY <1>5, <2>1, <2>3, IdOfType, Zenon DEF StoreKeyPair, Stored, Keys!BindKeyPair, Keys!Bound
  <2>4. QED
    BY <2>2, <2>3, Zenon
<1>6. ASSUME NEW c \in Caller, StorePasswordKey(c)
      PROVE  Keys!BindSymKey \/ UNCHANGED Keys!mapVars
  <2>1. call[c].id \in Id /\ call[c].key \in SymKey
    BY <1>6, Zenon DEF StorePasswordKey, KeyInv
  <2>2. QED
    BY <1>6, <2>1, AddUnderBinds, Zenon DEF StorePasswordKey
<1>7. ASSUME NEW id \in Id, NEW key \in SymKey,
             GenerateSymKey(id, key) \/ AddSymKeyDirect(id, key)
      PROVE  Keys!BindSymKey
  BY <1>7, AddUnderBinds, Zenon DEF GenerateSymKey, AddSymKeyDirect
<1>8. ASSUME NEW x \in Id \cup Name, NEW key \in SymKey, AddSymKey(x, key)
      PROVE  Keys!BindSymKey
  BY <1>8, ToDeterministicIDType, AddUnderBinds, Zenon DEF AddSymKey
<1>9. ASSUME NEW x \in Id \cup Name, DeleteKeyPair(x) \/ DeleteSymKey(x)
      PROVE  Keys!Remove
  BY <1>9, Zenon DEF DeleteKeyPair, DeleteSymKey, Deleted, Restrict, Keys!Restrict, Keys!Remove
<1>10. CASE DeleteKeyPairs
  <2>1. privateKeys' = Keys!Restrict(privateKeys, {})
    BY <1>10 DEF DeleteKeyPairs, Keys!Restrict
  <2>2. QED
    BY <1>10, <2>1, Zenon DEF DeleteKeyPairs, Keys!Remove
<1>11. CASE UNCHANGED keyVars
  BY <1>11, Zenon DEF keyVars
<1>12. QED
  BY <1>1, <1>2, <1>3, <1>4, <1>5, <1>6, <1>7, <1>8, <1>9, <1>10, <1>11, Zenon DEF KeyStep

(***************************************************************************)
(* However the calls that touch the key store interleave (the whisper      *)
(* methods from NewKeyPair to DeleteSymKey), no binding of an identifier   *)
(* to a key is ever replaced: the store implements KeyMap.                 *)
(***************************************************************************)
THEOREM KeyStoreImplementsKeyMap == KeySpec => ImplementsKeyMap
<1>1. KeyInit => KeyInv
  BY DEF KeyInit, KeyInv, NoCall
<1>2. KeyInit => Keys!Init
  BY DEF KeyInit, Keys!Init
<1>3. QED
  BY <1>1, <1>2, KeyInvStep, StepImplements, PTL DEF KeySpec, ImplementsKeyMap, Keys!Spec

(* The same among the requests of Post, which leave the maps alone. *)
LEMMA PostingKeySteps == [Next]_vars => [KeyStep]_keyVars
BY Zenon DEF Next, vars, postVars, keyVars, PostStep, Post, FindSource, FindKey, Wrap, Seal,
       SendP2PMessage, CheckPow, Send, SetMinimumPoW, AdoptMinimumPoW, Tick

LEMMA PostingKeys == Spec => KeySpec
<1>1. Init => KeyInit
  BY Zenon DEF Init
<1>. QED  BY <1>1, PostingKeySteps, PTL DEF Spec, KeySpec

(***************************************************************************)
(* While requests of Post look their keys up, no binding of an identifier  *)
(* to a key is replaced either.                                            *)
(***************************************************************************)
THEOREM PostingImplementsKeyMap == Spec => ImplementsKeyMap
BY PostingKeys, KeyStoreImplementsKeyMap, PTL

LEMMA KeyInvariance == Spec => []KeyInv
<1>1. KeyInit => KeyInv
  BY DEF KeyInit, KeyInv, NoCall
<1>. QED  BY <1>1, KeyInvStep, PostingKeys, PTL DEF KeySpec

-----------------------------------------------------------------------------
(* Sequences and numbers. *)

(* A sequence of that length, and what the two halves of one hold. *)
IsSeq(s, S, n) == n \in Nat /\ s \in Seq(S) /\ Len(s) = n

LEMMA WiderSeq ==
    ASSUME NEW S, NEW T, S \subseteq T, NEW s, NEW n, IsSeq(s, S, n)
    PROVE  IsSeq(s, T, n)
BY DEF IsSeq

Halves(s, a, b, S, m, n) ==
    /\ IsSeq(s, S, m + n)
    /\ \A i \in 1 .. m : s[i] = a[i]
    /\ \A i \in 1 .. n : s[m + i] = b[i]

LEMMA Concatenation ==
    ASSUME NEW S, NEW a, NEW b, NEW m, NEW n, IsSeq(a, S, m), IsSeq(b, S, n)
    PROVE  Halves(a \o b, a, b, S, m, n)
<1>1. /\ a \in Seq(S) /\ b \in Seq(S) /\ m = Len(a) /\ n = Len(b)
      /\ m \in Nat /\ n \in Nat
  BY Zenon DEF IsSeq
<1>2. a \o b \in Seq(S) /\ Len(a \o b) = m + n /\ m + n \in Nat
  BY <1>1
<1>3. \A i \in 1 .. m : (a \o b)[i] = a[i]
  BY <1>1
<1>4. \A i \in 1 .. n : (a \o b)[m + i] = b[i]
  BY <1>1
<1>. QED  BY <1>2, <1>3, <1>4, Zenon DEF IsSeq, Halves

(* A stretch of s that is b, element by element, is cut out as b. *)
Occurs(s, b, n) ==
    n \in Nat /\ n + Len(b) <= Len(s) /\ \A i \in 1 .. Len(b) : s[n + i] = b[i]

LEMMA CutOut ==
    ASSUME NEW S, NEW s \in Seq(S), NEW b \in Seq(S), NEW n, Occurs(s, b, n)
    PROVE  SubSeq(s, n + 1, n + Len(b)) = b
<1>1. n \in Nat /\ n + Len(b) <= Len(s) /\ \A i \in 1 .. Len(b) : s[n + i] = b[i]
  BY Zenon DEF Occurs
<1>2. /\ SubSeq(s, n + 1, n + Len(b)) \in Seq(S)
      /\ Len(SubSeq(s, n + 1, n + Len(b))) = Len(b)
  BY <1>1
<1>3. \A i \in 1 .. Len(b) : SubSeq(s, n + 1, n + Len(b))[i] = b[i]
  BY <1>1
<1>. DEFINE c == SubSeq(s, n + 1, n + Len(b))
<1>4. c \in Seq(S) /\ Len(c) = Len(b) /\ \A i \in 1 .. Len(b) : c[i] = b[i]
  BY <1>2, <1>3, Zenon
<1>. HIDE DEF c
<1>5. c = b
  BY <1>4
<1>. QED  BY <1>5, Zenon DEF c

(* The flags hold the size of the size field and the signature's bit. *)
LEMMA Flags ==
    ASSUME NEW f \in 1 .. 3
    PROVE  /\ (f \div 4) % 2 = 0 /\ ((f + 4) \div 4) % 2 = 1
           /\ f % 4 = f /\ (f + 4) % 4 = f
OBVIOUS

(* Rounded up to the next multiple, or by a whole one. *)
LEMMA RoundUp ==
    ASSUME NEW P \in Nat \ {0}, NEW x \in Nat
    PROVE  (x + (P - (x % P))) % P = 0 /\ P - (x % P) \in Nat
<1>1. x % P \in 0 .. P - 1
  OBVIOUS
<1>2. (x + (P - (x % P))) % P = 0
  OBVIOUS
<1>. QED  BY <1>1, <1>2

LEMMA Digits ==
    ASSUME NEW B \in Nat \ {0, 1}, NEW n \in Nat
    PROVE  /\ n < B => n % B = n
           /\ n < B * B => (n % B) + ((n \div B) % B) * B = n
           /\ n < B * B * B =>
                  (n % B) + ((n \div B) % B) * B + ((n \div (B * B)) % B) * (B * B) = n
<1>. DEFINE q == n \div B
            r == n % B
            q2 == q \div B
            r2 == q % B
<1>1. q \in Nat /\ r \in 0 .. B - 1 /\ n = B * q + r
  OBVIOUS
<1>. HIDE DEF q, r
<1>2. q2 \in Nat /\ r2 \in 0 .. B - 1 /\ q = B * q2 + r2
  BY <1>1
<1>. HIDE DEF q2, r2
<1>3. n = (B * B) * q2 + (B * r2 + r)
  <2>1. B * q = B * (B * q2 + r2)
    BY <1>2, Zenon
  <2>2. B * (B * q2 + r2) = (B * B) * q2 + B * r2
    BY <1>2
  <2>. QED  BY <1>1, <1>2, <2>1, <2>2
<1>4. B * r2 + r \in 0 .. B * B - 1
  <2>1. B * r2 <= B * (B - 1)
    BY <1>2
  <2>2. B * (B - 1) = B * B - B
    OBVIOUS
  <2>3. B * r2 \in Nat /\ B * B \in Nat
    BY <1>2
  <2>. QED  BY <1>1, <2>1, <2>2, <2>3
<1>5. n \div (B * B) = q2
  <2>. DEFINE C == B * B
              t == B * r2 + r
  <2>1. C \in Nat \ {0} /\ t \in 0 .. C - 1 /\ n = C * q2 + t
    BY <1>3, <1>4
  <2>. HIDE DEF C, t
  <2>2. n \div C = q2
    BY <1>2, <2>1
  <2>. QED  BY <2>2, Zenon DEF C
<1>6. n < B => n % B = n
  OBVIOUS
<1>7. n < B * B => q < B
  <2>1. q >= B => B * q >= B * B
    BY <1>1
  <2>. QED  BY <1>1, <2>1
<1>8. n < B * B * B => q2 < B
  <2>1. q2 >= B => (B * B) * q2 >= (B * B) * B
    BY <1>2
  <2>2. (B * B) * q2 \in Nat /\ (B * B) * B \in Nat
    BY <1>2
  <2>3. n >= (B * B) * q2
    BY <1>3, <1>4, <2>2
  <2>. QED  BY <1>2, <2>1, <2>2, <2>3
<1>9. n < B * B => r + (q % B) * B = n
  <2>1. n < B * B => q % B = q
    BY <1>1, <1>7
  <2>. QED  BY <1>1, <2>1
<1>10. n < B * B * B => r + r2 * B + (q2 % B) * (B * B) = n
  <2>1. n < B * B * B => q2 % B = q2
    BY <1>2, <1>8
  <2>. QED  BY <1>1, <1>2, <1>3, <2>1
<1>. QED  BY <1>5, <1>6, <1>9, <1>10, Zenon DEF q, r, q2, r2
-----------------------------------------------------------------------------
(* The size field. *)

LEMMA PlaceValues ==
    /\ Place[1] = 1 /\ Place[2] = Base /\ Place[3] = Base * Base
    /\ Place[4] = Base * Base * Base
    /\ Base * Base \in Nat /\ Base * Base * Base \in Nat
    /\ Base < Base * Base /\ Base * Base < Base * Base * Base
<1>. Base \in Nat /\ Base >= 2
  BY CodingAssumption
<1>1. Base * Base \in Nat /\ Base * Base * Base \in Nat
  OBVIOUS
<1>2. Base < Base * Base
  OBVIOUS
<1>3. Base * Base < Base * Base * Base
  <2>. DEFINE C == Base * Base
  <2>1. C \in Nat /\ C > 0
    BY <1>1, <1>2
  <2>. HIDE DEF C
  <2>2. C < C * Base
    BY <2>1
  <2>. QED  BY <2>2, Zenon DEF C
<1>. QED  BY <1>1, <1>2, <1>3, Zenon DEF Place

(* As many digits as the number takes, and three for what can leave. *)
LEMMA FieldSize ==
    ASSUME NEW n \in Nat
    PROVE  /\ PayloadSizeFieldSize(n) \in 1 .. 4
           /\ n < Place[4] => /\ PayloadSizeFieldSize(n) \in 1 .. 3
                              /\ n < Place[PayloadSizeFieldSize(n) + 1]
<1>. DEFINE Fits(s) == (s = 1 \/ Place[s] <= n) /\ (s = 4 \/ n < Place[s + 1])
<1>1. \E s \in 1 .. 4 : Fits(s)
  <2>1. Fits(1) \/ Fits(2) \/ Fits(3) \/ Fits(4)
    BY PlaceValues, CodingAssumption
  <2>. QED  BY <2>1
<1>2. PayloadSizeFieldSize(n) \in 1 .. 4 /\ Fits(PayloadSizeFieldSize(n))
  BY <1>1, Zenon DEF PayloadSizeFieldSize
<1>. DEFINE s == PayloadSizeFieldSize(n)
<1>. HIDE DEF s
<1>3. s \in 1 .. 4 /\ Fits(s)
  BY <1>2, Zenon DEF s
<1>4. n < Place[4] => s \in 1 .. 3 /\ n < Place[s + 1]
  BY <1>3, PlaceValues
<1>. QED  BY <1>3, <1>4, Zenon DEF s

(* The loop of bytesToUintLittleEndian, for the lengths the mask lets through. *)
LEMMA LoopValue ==
    ASSUME NEW b, Len(b) \in 1 .. 3, \A i \in 1 .. Len(b) : b[i] * Place[i] \in Nat
    PROVE  BytesToUintLittleEndian(b) =
               b[1] * Place[1] + (IF Len(b) > 1 THEN b[2] * Place[2] ELSE 0)
                               + (IF Len(b) > 2 THEN b[3] * Place[3] ELSE 0)
<1>. DEFINE n == Len(b)
            t == [i \in 1 .. n |-> b[i] * Place[i]]
            Step(f) == [i \in 0 .. n |-> IF i = 0 THEN 0 ELSE f[i - 1] + b[i] * Place[i]]
            g == [i \in 0 .. n |-> CASE i = 0 -> 0
                                     [] i = 1 -> t[1]
                                     [] i = 2 -> t[1] + t[2]
                                     [] OTHER -> t[1] + t[2] + t[3]]
            res == CHOOSE f : f = Step(f)
<1>1. n \in 1 .. 3 /\ \A i \in 1 .. n : t[i] = b[i] * Place[i] /\ t[i] \in Nat
  BY Zenon
<1>2. g = Step(g)
  <2>1. \A i \in 0 .. n : g[i] = IF i = 0 THEN 0 ELSE g[i - 1] + t[i]
    <3>. HIDE DEF t, n
    <3>1. 0 .. n \in SUBSET (0 .. 3)
      BY <1>1
    <3>. QED  BY <1>1, <3>1
  <2>2. \A i \in 0 .. n : i # 0 => t[i] = b[i] * Place[i]
    BY <1>1
  <2>3. DOMAIN g = 0 .. n /\ g = [i \in DOMAIN g |-> g[i]]
    OBVIOUS
  <2>. HIDE DEF g, t, n
  <2>4. \A i \in 0 .. n : g[i] = Step(g)[i]
    BY <2>1, <2>2, Zenon
  <2>5. DOMAIN Step(g) = 0 .. n /\ Step(g) = [i \in DOMAIN Step(g) |-> Step(g)[i]]
    BY Zenon
  <2>. HIDE DEF Step
  <2>. QED  BY <2>3, <2>4, <2>5, Zenon
<1>3. res = Step(res)
  <2>. HIDE DEF g, Step
  <2>. QED  BY <1>2, Zenon
<1>. HIDE DEF res
<1>4. \A i \in 0 .. n : res[i] = IF i = 0 THEN 0 ELSE res[i - 1] + b[i] * Place[i]
  BY <1>3, Zenon
<1>5. BytesToUintLittleEndian(b) = res[n]
  BY Zenon DEF BytesToUintLittleEndian, res
<1>. HIDE DEF n
<1>6. res[0] = 0
  BY <1>1, <1>4
<1>7. res[1] = t[1]
  <2>1. res[1] = res[1 - 1] + b[1] * Place[1]
    BY <1>1, <1>4
  <2>. QED  BY <1>1, <1>6, <2>1
<1>8. n > 1 => res[2] = t[1] + t[2]
  <2>1. n > 1 => res[2] = res[2 - 1] + b[2] * Place[2]
    BY <1>1, <1>4
  <2>. QED  BY <1>1, <1>7, <2>1
<1>9. n > 2 => res[3] = t[1] + t[2] + t[3]
  <2>1. n > 2 => res[3] = res[3 - 1] + b[3] * Place[3]
    BY <1>1, <1>4
  <2>. QED  BY <1>1, <1>8, <2>1
<1>. HIDE DEF t
<1>10. res[n] = t[1] + (IF n > 1 THEN t[2] ELSE 0) + (IF n > 2 THEN t[3] ELSE 0)
  BY <1>1, <1>7, <1>8, <1>9
<1>11. n > 0 /\ t[1] = b[1] * Place[1]
       /\ (n > 1 => t[2] = b[2] * Place[2]) /\ (n > 2 => t[3] = b[3] * Place[3])
  BY <1>1
<1>. QED  BY <1>5, <1>10, <1>11, Zenon DEF n

(* ValidateAndParse reads back the size that addPayloadSizeField wrote. *)
LEMMA SizeReadBack ==
    ASSUME NEW n \in Nat, n < Place[4]
    PROVE  BytesToUintLittleEndian(PayloadSizeField(n)) = n
<1>. DEFINE s == PayloadSizeFieldSize(n)
            b == PayloadSizeField(n)
            d == [i \in 1 .. 4 |-> (n \div Place[i]) % Base]
<1>1. s \in 1 .. 3 /\ n < Place[s + 1]
  BY FieldSize, Zenon
<1>. HIDE DEF s
<1>2. Base \in Nat \ {0, 1}
  BY CodingAssumption, Zenon
<1>3. b = [i \in 1 .. s |-> (n \div Place[i]) % Base]
  BY Zenon DEF PayloadSizeField, s
<1>4. Len(b) = s /\ \A i \in 1 .. s : b[i] = (n \div Place[i]) % Base
  BY <1>1, <1>3
<1>. HIDE DEF b
<1>5. \A i \in 1 .. 3 : (n \div Place[i]) % Base \in Nat /\ Place[i] \in Nat
  BY <1>2, PlaceValues
<1>6. \A i \in 1 .. s : b[i] * Place[i] \in Nat
  <2>1. \A i \in 1 .. s : i \in 1 .. 3
    BY <1>1
  <2>2. \A i \in 1 .. s : b[i] \in Nat /\ Place[i] \in Nat
    BY <1>4, <1>5, <2>1, Zenon
  <2>3. \A x, y \in Nat : x * y \in Nat
    OBVIOUS
  <2>. QED  BY <2>2, <2>3, Zenon
<1>7. BytesToUintLittleEndian(b) =
          b[1] * Place[1] + (IF s > 1 THEN b[2] * Place[2] ELSE 0)
                          + (IF s > 2 THEN b[3] * Place[3] ELSE 0)
  BY <1>1, <1>4, <1>6, LoopValue, Zenon
<1>8. b[1] * Place[1] = n % Base
  <2>1. b[1] = (n \div 1) % Base
    BY <1>1, <1>4, PlaceValues
  <2>2. n \div 1 = n
    OBVIOUS
  <2>. QED  BY <1>2, <2>1, <2>2, PlaceValues
<1>9. CASE s = 1
  <2>1. n < Base
    BY <1>1, <1>9, PlaceValues
  <2>2. n % Base = n
    BY <1>2, <2>1, Digits, Zenon
  <2>. QED  BY <1>7, <1>8, <1>9, <2>2 DEF b
<1>10. CASE s = 2
  <2>1. n < Base * Base
    BY <1>1, <1>10, PlaceValues
  <2>2. (n % Base) + ((n \div Base) % Base) * Base = n
    BY <1>2, <2>1, Digits, Zenon
  <2>3. b[2] * Place[2] = ((n \div Base) % Base) * Base
    BY <1>4, <1>10, PlaceValues
  <2>4. BytesToUintLittleEndian(b) = (n % Base) + b[2] * Place[2] + 0
    BY <1>7, <1>8, <1>10
  <2>. QED  BY <1>2, <2>2, <2>3, <2>4 DEF b
<1>11. CASE s = 3
  <2>1. n < Base * Base * Base
    BY <1>1, <1>11, PlaceValues, Zenon
  <2>2. (n % Base) + ((n \div Base) % Base) * Base
            + ((n \div (Base * Base)) % Base) * (Base * Base) = n
    BY <1>2, <2>1, Digits, Zenon
  <2>3. /\ b[2] * Place[2] = ((n \div Base) % Base) * Base
        /\ b[3] * Place[3] = ((n \div (Base * Base)) % Base) * (Base * Base)
    BY <1>4, <1>11, PlaceValues
  <2>4. BytesToUintLittleEndian(b) = (n % Base) + b[2] * Place[2] + b[3] * Place[3]
    BY <1>7, <1>8, <1>11
  <2>. QED  BY <2>2, <2>3, <2>4, Zenon DEF b
<1>. QED  BY <1>1, <1>9, <1>10, <1>11
-----------------------------------------------------------------------------
(* Messages. *)

(* The padding NewSentMessage appends. *)
Padded(payload, padding, signed) ==
    IF padding # << >> THEN padding ELSE RandomBytes(PaddingSize(payload, signed))

(* raw holds the flags, the size, the payload and the padding one after the
   other, and then as many bytes more. *)
Layout(raw, flags, payload, pad, more) ==
    LET fs == PayloadSizeFieldSize(Len(payload))
        n == Len(payload)
    IN  /\ Len(raw) = 1 + fs + n + Len(pad) + more
        /\ raw[1] = flags
        /\ \A i \in 1 .. fs : raw[1 + i] = PayloadSizeField(n)[i]
        /\ \A i \in 1 .. n : raw[1 + fs + i] = payload[i]
        /\ \A i \in 1 .. Len(pad) : raw[1 + fs + n + i] = pad[i]

LEMMA FieldType ==
    ASSUME NEW n \in Nat
    PROVE  /\ PayloadSizeField(n) \in Seq(Nat)
           /\ Len(PayloadSizeField(n)) = PayloadSizeFieldSize(n)
<1>. DEFINE s == PayloadSizeFieldSize(n)
            d == [i \in 1 .. s |-> (n \div Place[i]) % Base]
<1>1. s \in 1 .. 4
  BY FieldSize, Zenon
<1>2. \A i \in 1 .. 4 : (n \div Place[i]) % Base \in Nat
  <2>1. \A i \in 1 .. 4 : Place[i] \in Nat \ {0}
    BY PlaceValues, CodingAssumption
  <2>2. \A m \in Nat \ {0} : (n \div m) % Base \in Nat
    BY CodingAssumption
  <2>. QED  BY <2>1, <2>2, Zenon
<1>. HIDE DEF s
<1>3. d \in Seq(Nat) /\ Len(d) = s
  BY <1>1, <1>2
<1>. QED  BY <1>3, Zenon DEF PayloadSizeField, s

(* The padding closes a multiple of the limit, signature included. *)
LEMMA PaddingLength ==
    ASSUME NEW payload \in Seq(Nat), NEW signed \in BOOLEAN
    PROVE  /\ PaddingSize(payload, signed) \in Nat
           /\ (1 + PayloadSizeFieldSize(Len(payload)) + Len(payload)
                 + PaddingSize(payload, signed)
                 + (IF signed THEN SigLength ELSE 0)) % PadLimit = 0
<1>. DEFINE sig == IF signed THEN SigLength ELSE 0
            x == 1 + PayloadSizeFieldSize(Len(payload)) + Len(payload) + sig
<1>1. sig \in Nat /\ PadLimit \in Nat \ {0} /\ Len(payload) \in Nat
  BY CodingAssumption
<1>2. PayloadSizeFieldSize(Len(payload)) \in Nat
  BY <1>1, FieldSize
<1>3. x \in Nat /\ PaddingSize(payload, signed) = PadLimit - (x % PadLimit)
  BY <1>1, <1>2 DEF PaddingSize
<1>. HIDE DEF x
<1>4. PadLimit - (x % PadLimit) \in Nat /\ (x + (PadLimit - (x % PadLimit))) % PadLimit = 0
  BY <1>1, <1>3, RoundUp, Zenon
<1>. HIDE DEF sig
<1>5. 1 + PayloadSizeFieldSize(Len(payload)) + Len(payload) + PaddingSize(payload, signed)
          + sig = x + PaddingSize(payload, signed)
  BY <1>1, <1>2, <1>3, <1>4, SMTT(20) DEF x
<1>. QED  BY <1>3, <1>4, <1>5, Zenon DEF sig

LEMMA PaddedType ==
    ASSUME NEW payload \in Seq(Nat), NEW padding \in Seq(Nat), NEW signed \in BOOLEAN
    PROVE  /\ Padded(payload, padding, signed) \in Seq(Nat)
           /\ padding = << >> =>
                  Len(Padded(payload, padding, signed)) = PaddingSize(payload, signed)
           /\ padding # << >> => Padded(payload, padding, signed) = padding
<1>1. ASSUME NEW m \in Nat PROVE RandomBytes(m) \in Seq(Nat) /\ Len(RandomBytes(m)) = m
  BY CodingAssumption DEF RandomBytes
<1>. QED  BY <1>1, PaddingLength, Zenon DEF Padded

LEMMA MessageLayout ==
    ASSUME NEW payload \in Seq(Nat), NEW padding \in Seq(Nat), NEW signed \in BOOLEAN
    PROVE  LET raw == NewSentMessage(payload, padding, signed)
           IN  /\ raw \in Seq(Nat)
               /\ Layout(raw, PayloadSizeFieldSize(Len(payload)), payload,
                         Padded(payload, padding, signed), 0)
<1>. DEFINE n == Len(payload)
            fs == PayloadSizeFieldSize(n)
            field == PayloadSizeField(n)
            pad == Padded(payload, padding, signed)
            a == <<fs>> \o field
            b == a \o payload
            raw == b \o pad
<1>1. n \in Nat /\ fs \in 1 .. 4 /\ field \in Seq(Nat) /\ Len(field) = fs
  BY FieldSize, FieldType
<1>2. pad \in Seq(Nat) /\ Len(pad) \in Nat
  BY PaddedType
<1>3. NewSentMessage(payload, padding, signed) = raw
  BY Zenon DEF NewSentMessage, Padded
<1>. HIDE DEF fs, field, pad
<1>4. IsSeq(a, Nat, 1 + fs) /\ a[1] = fs /\ \A i \in 1 .. fs : a[1 + i] = field[i]
  BY <1>1 DEF IsSeq
<1>. HIDE DEF a
<1>5. /\ IsSeq(b, Nat, (1 + fs) + n)
      /\ \A i \in 1 .. 1 + fs : b[i] = a[i]
      /\ \A i \in 1 .. n : b[(1 + fs) + i] = payload[i]
  <2>1. IsSeq(payload, Nat, n)
    BY <1>1, Zenon DEF IsSeq
  <2>. HIDE DEF n
  <2>2. Halves(b, a, payload, Nat, 1 + fs, n)
    BY <1>4, <2>1, Concatenation, Zenon
  <2>. QED  BY <2>2, Zenon DEF Halves
<1>. HIDE DEF b, n
<1>6. /\ IsSeq(raw, Nat, ((1 + fs) + n) + Len(pad))
      /\ \A i \in 1 .. (1 + fs) + n : raw[i] = b[i]
      /\ \A i \in 1 .. Len(pad) : raw[((1 + fs) + n) + i] = pad[i]
  <2>1. IsSeq(pad, Nat, Len(pad))
    BY <1>2, Zenon DEF IsSeq
  <2>2. Halves(raw, b, pad, Nat, (1 + fs) + n, Len(pad))
    BY <1>5, <2>1, Concatenation, Zenon
  <2>. HIDE DEF raw
  <2>. QED  BY <2>2, Zenon DEF Halves
<1>. HIDE DEF raw
<1>7. raw[1] = fs /\ \A i \in 1 .. fs : raw[1 + i] = field[i]
  <2>1. /\ 1 \in 1 .. 1 + fs /\ 1 \in 1 .. (1 + fs) + n
        /\ \A i \in 1 .. fs : 1 + i \in 1 .. 1 + fs /\ 1 + i \in 1 .. (1 + fs) + n
    BY <1>1
  <2>. QED  BY <1>4, <1>5, <1>6, <2>1
<1>8. \A i \in 1 .. n : raw[1 + fs + i] = payload[i]
  <2>1. \A i \in 1 .. n : (1 + fs) + i \in 1 .. (1 + fs) + n
    BY <1>1
  <2>. QED  BY <1>5, <1>6, <2>1, Zenon
<1>9. Len(raw) = 1 + fs + n + Len(pad) + 0
  BY <1>1, <1>2, <1>6 DEF IsSeq
<1>10. Layout(raw, fs, payload, pad, 0)
  BY <1>6, <1>7, <1>8, <1>9, Zenon DEF Layout, fs, field, n
<1>. QED  BY <1>3, <1>6, <1>10, Zenon DEF IsSeq, fs, pad, raw, n
(* What ValidateAndParse makes of a message laid out like that. *)
LEMMA Parsed ==
    ASSUME NEW S, Nat \subseteq S, NEW raw \in Seq(S), NEW payload \in Seq(Nat),
           NEW pad \in Seq(Nat), NEW signed \in BOOLEAN, Len(payload) < Place[4],
           Layout(raw, PayloadSizeFieldSize(Len(payload)) + (IF signed THEN 4 ELSE 0),
                  payload, pad, IF signed THEN SigLength ELSE 0),
           signed => LET end == 1 + PayloadSizeFieldSize(Len(payload)) + Len(payload) + Len(pad)
                     IN  SigToPubKey(SubSeq(raw, 1, end), SubSeq(raw, end + 1, Len(raw))) # Nobody
    PROVE  LET end == 1 + PayloadSizeFieldSize(Len(payload)) + Len(payload) + Len(pad)
               m == ValidateAndParse(raw)
           IN  /\ m.ok /\ m.payload = payload /\ m.padding = pad
               /\ m.src = IF signed
                          THEN SigToPubKey(SubSeq(raw, 1, end), SubSeq(raw, end + 1, Len(raw)))
                          ELSE Nobody
<1>. DEFINE n == Len(payload)
            fs == PayloadSizeFieldSize(n)
            sz == PayloadSizeField(n)
            end == 1 + fs + n + Len(pad)
            more == IF signed THEN SigLength ELSE 0
            size == BytesToUintLittleEndian(SubSeq(raw, 2, 1 + (raw[1] % (SizeMask + 1))))
<1>1. n \in Nat /\ Len(pad) \in Nat /\ fs \in 1 .. 3 /\ sz \in Seq(Nat) /\ Len(sz) = fs
  <2>1. n \in Nat /\ Len(pad) \in Nat
    OBVIOUS
  <2>2. fs \in 1 .. 3
    BY <2>1, FieldSize, Zenon
  <2>. QED  BY <2>1, <2>2, FieldType, Zenon
<1>2. more \in Nat
  BY CodingAssumption, Zenon
<1>3. /\ Len(raw) = end + more
      /\ raw[1] = fs + (IF signed THEN 4 ELSE 0)
      /\ \A i \in 1 .. fs : raw[1 + i] = sz[i]
      /\ \A i \in 1 .. n : raw[1 + fs + i] = payload[i]
      /\ \A i \in 1 .. Len(pad) : raw[1 + fs + n + i] = pad[i]
  BY Zenon DEF Layout
<1>4. BytesToUintLittleEndian(sz) = n
  BY <1>1, SizeReadBack, Zenon
<1>. HIDE DEF n, fs, sz, more
<1>5. raw[1] % (SizeMask + 1) = fs /\ (IsMessageSigned(raw) <=> signed)
  <2>1. SizeMask + 1 = 4
    BY DEF SizeMask
  <2>2. /\ (fs \div 4) % 2 = 0 /\ ((fs + 4) \div 4) % 2 = 1
        /\ fs % 4 = fs /\ (fs + 4) % 4 = fs
    BY <1>1, Flags, Zenon
  <2>3. fs + 0 = fs /\ 0 # 1
    BY <1>1
  <2>4. CASE signed
    BY <1>3, <2>1, <2>2, <2>4, Zenon DEF SignatureFlag, IsMessageSigned
  <2>5. CASE ~ signed
    <3>1. raw[1] = fs
      BY <1>3, <2>3, <2>5, Zenon
    <3>. QED  BY <2>1, <2>2, <2>3, <2>5, <3>1, Zenon DEF SignatureFlag, IsMessageSigned
  <2>. QED  BY <2>4, <2>5, Zenon
<1>6. sz \in Seq(S) /\ payload \in Seq(S) /\ pad \in Seq(S)
  BY <1>1
<1>7. SubSeq(raw, 2, 1 + fs) = sz
  <2>0. Occurs(raw, sz, 1)
    BY <1>1, <1>2, <1>3 DEF Occurs
  <2>1. SubSeq(raw, 1 + 1, 1 + Len(sz)) = sz
    BY <1>6, <2>0, CutOut, Zenon
  <2>. QED  BY <1>1, <2>1
<1>8. SubSeq(raw, 2 + fs, 1 + fs + n) = payload
  <2>0. Occurs(raw, payload, 1 + fs)
    BY <1>1, <1>2, <1>3 DEF Occurs, n
  <2>1. SubSeq(raw, (1 + fs) + 1, (1 + fs) + Len(payload)) = payload
    BY <1>6, <2>0, CutOut, Zenon
  <2>2. (1 + fs) + 1 = 2 + fs
    BY <1>1
  <2>. QED  BY <2>1, <2>2, Zenon DEF n
<1>9. SubSeq(raw, 2 + fs + n, end) = pad
  <2>0. Occurs(raw, pad, 1 + fs + n)
    BY <1>1, <1>2, <1>3 DEF Occurs
  <2>1. SubSeq(raw, (1 + fs + n) + 1, (1 + fs + n) + Len(pad)) = pad
    BY <1>6, <2>0, CutOut, Zenon
  <2>2. (1 + fs + n) + 1 = 2 + fs + n
    BY <1>1
  <2>. QED  BY <2>1, <2>2, Zenon
<1>10. size = n
  BY <1>4, <1>5, <1>7, Zenon
<1>11. Len(raw) > 0 /\ Len(raw) - more = end /\ end > 1 /\ end >= 1 + fs + n /\ end >= 1 + fs
  BY <1>1, <1>2, <1>3
<1>. DEFINE sgd == Len(raw) > 0 /\ IsMessageSigned(raw)
            e == Len(raw) - IF sgd THEN SigLength ELSE 0
            f == raw[1] % (SizeMask + 1)
            key == IF sgd THEN SigToPubKey(SubSeq(raw, 1, e), SubSeq(raw, e + 1, Len(raw)))
                   ELSE Nobody
<1>12. sgd = signed /\ e = end /\ f = fs /\ sgd \in BOOLEAN
  BY <1>5, <1>11, Zenon DEF more, IsMessageSigned
<1>13. ValidateAndParse(raw) =
           IF \/ e < 1
              \/ sgd /\ (e <= 1 \/ key = Nobody)
              \/ e < 1 + f
              \/ e < 1 + f + size
           THEN Malformed
           ELSE [ok      |-> TRUE,
                 src     |-> key,
                 payload |-> SubSeq(raw, 2 + f, 1 + f + size),
                 padding |-> SubSeq(raw, 2 + f + size, e)]
  BY Zenon DEF ValidateAndParse
<1>14. /\ key = IF signed THEN SigToPubKey(SubSeq(raw, 1, end), SubSeq(raw, end + 1, Len(raw)))
                ELSE Nobody
       /\ ~ (sgd /\ key = Nobody)
  BY <1>12, Zenon DEF fs, n
<1>. HIDE DEF size, sgd, e, f, end, key
<1>15. ~ (e < 1 \/ (sgd /\ (e <= 1 \/ key = Nobody)) \/ e < 1 + f \/ e < 1 + f + size)
  <2>1. end \in Int /\ end > 1 /\ end >= 1 + fs + n /\ end >= 1 + fs
    BY <1>1, <1>11 DEF end
  <2>2. ~ (e < 1 \/ e <= 1 \/ e < 1 + f \/ e < 1 + f + size)
    BY <1>1, <1>10, <1>12, <2>1
  <2>. QED  BY <1>14, <2>2, Zenon
<1>16. ValidateAndParse(raw) =
           [ok |-> TRUE,
            src |-> IF signed
                    THEN SigToPubKey(SubSeq(raw, 1, end), SubSeq(raw, end + 1, Len(raw)))
                    ELSE Nobody,
            payload |-> payload, padding |-> pad]
  BY <1>8, <1>9, <1>10, <1>12, <1>13, <1>15, <1>14, Zenon
<1>. QED  BY <1>16 DEF end, fs, n
(* Sign sets the flag and appends the signature, of whatever is flagged. *)
SignedAs(s, m, payload, pad, src) ==
    \E d : /\ s \in Seq(Nat \cup {src, d})
           /\ Layout(s, PayloadSizeFieldSize(Len(payload)) + 4, payload, pad, SigLength)
           /\ Digest(SubSeq(s, 1, m)) = d
           /\ s[m + 1] = src /\ s[m + 2] = d

LEMMA SignedLayout ==
    ASSUME NEW raw \in Seq(Nat), NEW payload \in Seq(Nat), NEW pad \in Seq(Nat), NEW src,
           Len(payload) < Place[4],
           Layout(raw, PayloadSizeFieldSize(Len(payload)), payload, pad, 0)
    PROVE  SignedAs(Sign(raw, src), Len(raw), payload, pad, src)
<1>. DEFINE n == Len(payload)
            fs == PayloadSizeFieldSize(n)
            m == Len(raw)
            flagged == [raw EXCEPT ![1] = @ + SignatureFlag]
            d == Digest(flagged)
            S == Nat \cup {src, d}
            sig == <<src, d>> \o RandomBytes(SigLength - 2)
            s == flagged \o sig
<1>1. n \in Nat /\ Len(pad) \in Nat /\ fs \in 1 .. 3
  BY FieldSize
<1>2. /\ m = 1 + fs + n + Len(pad)
      /\ raw[1] = fs
      /\ \A i \in 1 .. fs : raw[1 + i] = PayloadSizeField(n)[i]
      /\ \A i \in 1 .. n : raw[1 + fs + i] = payload[i]
      /\ \A i \in 1 .. Len(pad) : raw[1 + fs + n + i] = pad[i]
  <2>1. Len(raw) = 1 + fs + n + Len(pad) + 0
    BY Zenon DEF Layout
  <2>2. m = 1 + fs + n + Len(pad)
    BY <1>1, <2>1
  <2>. QED  BY <2>2, Zenon DEF Layout
<1>. HIDE DEF n, fs
<1>3. ~ IsMessageSigned(raw)
  <2>1. (fs \div 4) % 2 = 0
    BY <1>1, Flags, Zenon
  <2>2. 0 # 1
    OBVIOUS
  <2>. QED  BY <1>2, <2>1, <2>2, Zenon DEF IsMessageSigned, SignatureFlag
<1>4. Sign(raw, src) = s
  BY <1>3, Zenon DEF Sign, Signature
<1>5. /\ IsSeq(flagged, Nat, m)
      /\ flagged[1] = fs + 4
      /\ \A i \in 2 .. m : flagged[i] = raw[i]
  BY <1>1, <1>2, SMTT(20) DEF IsSeq, SignatureFlag
<1>. HIDE DEF flagged, d, m
<1>6. IsSeq(sig, S, SigLength) /\ sig[1] = src /\ sig[2] = d
  <2>. DEFINE k == SigLength - 2
  <2>1. k \in Nat /\ Base \in Nat \ {0} /\ SigLength = 2 + k
    BY CodingAssumption
  <2>. HIDE DEF k
  <2>2. RandomBytes(k) \in Seq(S) /\ Len(RandomBytes(k)) = k
    <3>1. \A i \in 1 .. k : (k + i) % Base \in Nat
      BY <2>1
    <3>. QED  BY <2>1, <3>1 DEF RandomBytes
  <2>. DEFINE rnd == RandomBytes(k)
  <2>. HIDE DEF rnd
  <2>3. rnd \in Seq(S) /\ Len(rnd) = k
    BY <2>2, Zenon DEF rnd
  <2>4. /\ <<src, d>> \o rnd \in Seq(S) /\ Len(<<src, d>> \o rnd) = 2 + k
        /\ (<<src, d>> \o rnd)[1] = src /\ (<<src, d>> \o rnd)[2] = d
    BY <2>1, <2>3
  <2>. QED  BY <2>1, <2>4 DEF IsSeq, rnd, k
<1>. HIDE DEF sig
<1>7. Halves(s, flagged, sig, S, m, SigLength)
  <2>1. Nat \subseteq S
    BY Zenon
  <2>. HIDE DEF S
  <2>2. IsSeq(flagged, S, m)
    BY <1>5, <2>1, WiderSeq, Zenon
  <2>. QED  BY <1>6, <2>2, Concatenation, Zenon
<1>8. /\ IsSeq(s, S, m + SigLength)
      /\ \A i \in 1 .. m : s[i] = flagged[i]
      /\ \A i \in 1 .. SigLength : s[m + i] = sig[i]
  <2>. HIDE DEF s, S
  <2>. QED  BY <1>7, Zenon DEF Halves
<1>. HIDE DEF s
<1>9. s[m + 1] = src /\ s[m + 2] = d
  <2>1. 1 \in 1 .. SigLength /\ 2 \in 1 .. SigLength
    BY CodingAssumption
  <2>. QED  BY <1>6, <1>8, <2>1, Zenon
<1>10. Digest(SubSeq(s, 1, m)) = d
  <2>0. Nat \subseteq S
    OBVIOUS
  <2>. HIDE DEF S
  <2>1. flagged \in Seq(S) /\ Len(flagged) = m /\ m \in Nat /\ SigLength \in Nat
    <3>1. IsSeq(flagged, S, m)
      BY <1>5, <2>0, WiderSeq, Zenon
    <3>. QED  BY <3>1, CodingAssumption, Zenon DEF IsSeq
  <2>2. \A i \in 1 .. m : s[0 + i] = flagged[i]
    BY <1>8, <2>1
  <2>3. s \in Seq(S) /\ 0 + Len(flagged) <= Len(s)
    BY <1>8, <2>1 DEF IsSeq
  <2>4. SubSeq(s, 0 + 1, 0 + Len(flagged)) = flagged
    <3>1. Occurs(s, flagged, 0)
      BY <2>1, <2>2, <2>3 DEF Occurs
    <3>. QED  BY <2>1, <2>3, <3>1, CutOut, Zenon
  <2>5. SubSeq(s, 1, m) = flagged
    BY <2>1, <2>4
  <2>. QED  BY <2>5, Zenon DEF d
<1>11. \A i \in 2 .. m : s[i] = raw[i]
  <2>1. \A i \in 2 .. m : i \in 1 .. m
    BY <1>1, <1>2
  <2>. QED  BY <1>5, <1>8, <2>1, Zenon
<1>12. s[1] = fs + 4 /\ Len(s) = 1 + fs + n + Len(pad) + SigLength
  <2>1. 1 \in 1 .. m
    BY <1>1, <1>2
  <2>. QED  BY <1>1, <1>2, <1>5, <1>8, <2>1, CodingAssumption, Zenon DEF IsSeq
<1>13. Layout(s, fs + 4, payload, pad, SigLength)
  <2>1. /\ \A i \in 1 .. fs : 1 + i \in 2 .. m
        /\ \A i \in 1 .. n : 1 + fs + i \in 2 .. m
        /\ \A i \in 1 .. Len(pad) : 1 + fs + n + i \in 2 .. m
    BY <1>1, <1>2
  <2>2. \A i \in 1 .. fs : s[1 + i] = PayloadSizeField(n)[i]
    BY <1>2, <1>11, <2>1, Zenon
  <2>3. \A i \in 1 .. n : s[1 + fs + i] = payload[i]
    BY <1>2, <1>11, <2>1, Zenon
  <2>4. \A i \in 1 .. Len(pad) : s[1 + fs + n + i] = pad[i]
    BY <1>2, <1>11, <2>1, Zenon
  <2>. QED  BY <1>12, <2>2, <2>3, <2>4, Zenon DEF Layout, fs, n
<1>14. s \in Seq(Nat \cup {src, d})
  BY <1>8, Zenon DEF IsSeq
<1>. QED  BY <1>4, <1>9, <1>10, <1>13, <1>14, Zenon DEF SignedAs, fs, n, m
(* The text that is encrypted, for a message with a source or without. *)
Text(payload, padding, src) ==
    LET raw == NewSentMessage(payload, padding, src # Nobody)
    IN  IF src = Nobody THEN raw ELSE Sign(raw, src)

LEMMA TextLength ==
    ASSUME NEW payload \in Seq(Nat), NEW padding \in Seq(Nat), NEW src
    PROVE  Len(Text(payload, padding, src)) \in Nat /\ Len(payload) <= Len(Text(payload, padding, src))
<1>. DEFINE signed == src # Nobody
            raw == NewSentMessage(payload, padding, signed)
            fs == PayloadSizeFieldSize(Len(payload))
            pad == Padded(payload, padding, signed)
            flagged == [raw EXCEPT ![1] = @ + SignatureFlag]
            d == Digest(flagged)
<1>1. raw \in Seq(Nat) /\ Layout(raw, fs, payload, pad, 0)
  <2>1. signed \in BOOLEAN
    BY Zenon
  <2>. HIDE DEF signed
  <2>. QED  BY <2>1, MessageLayout, Zenon
<1>2. fs \in Nat /\ pad \in Seq(Nat)
  <2>1. Len(payload) \in Nat /\ signed \in BOOLEAN
    OBVIOUS
  <2>. HIDE DEF signed
  <2>2. fs \in 1 .. 4 /\ pad \in Seq(Nat)
    BY <2>1, FieldSize, PaddedType, Zenon
  <2>. QED  BY <2>2
<1>. HIDE DEF raw, fs, pad
<1>3. Len(raw) = 1 + fs + Len(payload) + Len(pad) + 0
  BY <1>1, Zenon DEF Layout, fs
<1>4. Len(raw) \in Nat /\ Len(payload) <= Len(raw)
  BY <1>1, <1>2, <1>3
<1>5. flagged \in Seq(Int) /\ Len(flagged) = Len(raw)
  <2>1. flagged \in [1 .. Len(raw) -> Int]
    BY <1>1, <1>2, <1>3 DEF SignatureFlag
  <2>. HIDE DEF flagged
  <2>. QED  BY <1>4, <2>1, SMTT(20)
<1>. HIDE DEF flagged, d
<1>6. LET s == flagged \o Signature(src, flagged)
      IN  Len(s) \in Nat /\ Len(raw) <= Len(s)
  <2>. DEFINE S == Int \cup {src, d}
              rnd == RandomBytes(SigLength - 2)
  <2>1. SigLength - 2 \in Nat /\ Base \in Nat \ {0}
    BY CodingAssumption
  <2>2. rnd \in Seq(S)
    <3>. DEFINE k == SigLength - 2
    <3>1. \A i \in 1 .. k : (k + i) % Base \in S
      BY <2>1
    <3>2. k \in Nat
      BY <2>1, Zenon
    <3>. HIDE DEF S, k
    <3>3. [i \in 1 .. k |-> (k + i) % Base] \in Seq(S)
      BY <3>1, <3>2
    <3>. QED  BY <3>3, Zenon DEF RandomBytes, k
  <2>. HIDE DEF rnd
  <2>3. <<src, d>> \o rnd \in Seq(S) /\ flagged \in Seq(S)
    BY <1>5, <2>2
  <2>. DEFINE sig == <<src, d>> \o rnd
  <2>. HIDE DEF S, sig
  <2>4. Len(flagged \o sig) \in Nat /\ Len(raw) <= Len(flagged \o sig)
    BY <1>5, <2>3 DEF sig
  <2>. QED  BY <2>4, Zenon DEF Signature, sig, rnd, d
<1>7. Text(payload, padding, src) = IF src = Nobody THEN raw ELSE Sign(raw, src)
  BY Zenon DEF Text, raw
<1>8. Sign(raw, src) = raw \/ Sign(raw, src) = flagged \o Signature(src, flagged)
  BY Zenon DEF Sign, flagged
<1>9. \/ Text(payload, padding, src) = raw
      \/ Text(payload, padding, src) = flagged \o Signature(src, flagged)
  BY <1>7, <1>8, Zenon
<1>. DEFINE t == Text(payload, padding, src)
            u == flagged \o Signature(src, flagged)
<1>10. Len(u) \in Nat /\ Len(raw) <= Len(u) /\ (t = raw \/ t = u)
  BY <1>6, <1>9, Zenon
<1>. HIDE DEF t, u
<1>11. Len(payload) \in Nat
  OBVIOUS
<1>12. Len(t) \in Nat /\ Len(payload) <= Len(t)
  BY <1>4, <1>10, <1>11
<1>. QED  BY <1>12, Zenon DEF t

(***************************************************************************)
(* ValidateAndParse undoes NewSentMessage and Sign for every payload whose *)
(* length takes three digits, and without padding of the client's the text *)
(* is a multiple of the limit long.                                        *)
(***************************************************************************)
ReadBack(payload, padding, src) ==
    LET t == Text(payload, padding, src)
        m == ValidateAndParse(t)
    IN  /\ m.ok /\ m.payload = payload /\ m.src = src
        /\ padding # << >> => m.padding = padding
        /\ padding = << >> => Len(t) % PadLimit = 0

LEMMA RoundTrip ==
    ASSUME NEW payload \in Seq(Nat), NEW padding \in Seq(Nat), NEW src, Len(payload) < Place[4]
    PROVE  ReadBack(payload, padding, src)
<1>. DEFINE n == Len(payload)
            fs == PayloadSizeFieldSize(n)
            signed == src # Nobody
            pad == Padded(payload, padding, signed)
            raw == NewSentMessage(payload, padding, signed)
            t == Text(payload, padding, src)
            end == 1 + fs + n + Len(pad)
            more == IF signed THEN SigLength ELSE 0
<1>1. n \in Nat /\ fs \in 1 .. 3 /\ signed \in BOOLEAN
  <2>1. n \in Nat
    OBVIOUS
  <2>. QED  BY <2>1, FieldSize, Zenon
<1>2. t = IF signed THEN Sign(raw, src) ELSE raw
  BY Zenon DEF Text
<1>. HIDE DEF signed
<1>3. raw \in Seq(Nat) /\ Layout(raw, fs, payload, pad, 0)
  BY <1>1, MessageLayout, Zenon
<1>4. /\ pad \in Seq(Nat)
      /\ padding = << >> => Len(pad) = PaddingSize(payload, signed)
      /\ padding # << >> => pad = padding
  BY <1>1, PaddedType, Zenon
<1>. HIDE DEF raw, pad, fs, t
<1>5. Len(raw) = end
  <2>1. Len(raw) = 1 + fs + n + Len(pad) + 0
    BY <1>3, Zenon DEF Layout, fs
  <2>. QED  BY <1>1, <1>4, <2>1
<1>. DEFINE Laid(S) ==
        /\ Nat \subseteq S /\ t \in Seq(S)
        /\ Layout(t, fs + (IF signed THEN 4 ELSE 0), payload, pad, more)
            Undone(S) ==
        /\ signed => /\ Digest(SubSeq(t, 1, end)) = t[end + 2]
                     /\ t[end + 1] = src
<1>6. \E S : Laid(S) /\ Undone(S)
  <2>1. CASE signed
    <3>1. PICK d : /\ t \in Seq(Nat \cup {src, d})
                   /\ Layout(t, fs + 4, payload, pad, SigLength)
                   /\ Digest(SubSeq(t, 1, Len(raw))) = d
                   /\ t[Len(raw) + 1] = src /\ t[Len(raw) + 2] = d
      <4>1. SignedAs(Sign(raw, src), Len(raw), payload, pad, src)
        BY <1>3, <1>4, SignedLayout, Zenon DEF fs
      <4>2. SignedAs(t, Len(raw), payload, pad, src)
        BY <1>2, <2>1, <4>1, Zenon
      <4>. QED  BY <4>2, Zenon DEF SignedAs, fs
    <3>2. Nat \subseteq Nat \cup {src, d}
      BY Zenon
    <3>3. Laid(Nat \cup {src, d}) /\ Undone(Nat \cup {src, d})
      BY <1>5, <2>1, <3>1, <3>2, Zenon
    <3>. HIDE DEF Laid, Undone
    <3>. QED  BY <3>3, Zenon
  <2>2. CASE ~ signed
    <3>1. fs + 0 = fs
      BY <1>1
    <3>. WITNESS Nat
    <3>. QED  BY <1>2, <1>3, <2>2, <3>1, Zenon
  <2>. QED  BY <2>1, <2>2, Zenon
<1>7. PICK S : Laid(S) /\ Undone(S)
  BY <1>6, Zenon
<1>8. Len(t) = end + more
  BY <1>7, Zenon DEF Layout, fs
<1>9. more \in Nat /\ end \in Nat /\ (signed => more >= 2)
  BY <1>1, <1>4, CodingAssumption
<1>10. signed => SigToPubKey(SubSeq(t, 1, end), SubSeq(t, end + 1, Len(t))) = src
  <2>. SUFFICES ASSUME signed
                PROVE  SigToPubKey(SubSeq(t, 1, end), SubSeq(t, end + 1, Len(t))) = src
    BY Zenon
  <2>. DEFINE b == SubSeq(t, end + 1, Len(t))
  <2>1. b[1] = t[end + 1] /\ b[2] = t[end + 2]
    <3>1. t \in Seq(S) /\ Len(t) >= end + 2
      BY <1>7, <1>8, <1>9
    <3>. HIDE DEF end
    <3>. QED  BY <1>9, <3>1
  <2>. HIDE DEF b
  <2>2. SigToPubKey(SubSeq(t, 1, end), b) = src
    BY <1>7, <2>1, Zenon DEF SigToPubKey
  <2>. QED  BY <2>2, Zenon DEF b
<1>. DEFINE m == ValidateAndParse(t)
<1>11. /\ m.ok /\ m.payload = payload /\ m.padding = pad
      /\ m.src = IF signed
                 THEN SigToPubKey(SubSeq(t, 1, end), SubSeq(t, end + 1, Len(t)))
                 ELSE Nobody
  <2>1. signed => SigToPubKey(SubSeq(t, 1, end), SubSeq(t, end + 1, Len(t))) # Nobody
    BY <1>10, Zenon DEF signed
  <2>. QED  BY <1>1, <1>4, <1>7, <2>1, Parsed, Zenon DEF fs
<1>. HIDE DEF m
<1>12. m.src = src
  <2>1. ~ signed => src = Nobody
    BY Zenon DEF signed
  <2>. QED  BY <1>11, <1>10, <2>1, Zenon
<1>13. padding = << >> => Len(t) % PadLimit = 0
  <2>1. (1 + fs + n + PaddingSize(payload, signed) + more) % PadLimit = 0
    BY <1>1, PaddingLength, Zenon DEF fs
  <2>. QED  BY <1>4, <1>8, <2>1, Zenon
<1>. QED  BY <1>4, <1>11, <1>12, <1>13, Zenon DEF ReadBack, t, m
-----------------------------------------------------------------------------
(* Powers of two. *)

INSTANCE WellFoundedInduction

LEMMA LeastNumber ==
    ASSUME NEW T, T \subseteq Nat, T # {}
    PROVE  \E n \in T : \A m \in T : n <= m
<1>1. IsWellFoundedOn(OpToRel(<, Nat), Nat)
  BY NatLessThanWellFounded, Zenon
<1>2. PICK n \in T : \A m \in T : ~ (<<m, n>> \in OpToRel(<, Nat))
  BY <1>1, WFMin, Zenon
<1>3. ASSUME NEW m \in T, m < n
      PROVE  <<m, n>> \in OpToRel(<, Nat)
  BY <1>3, Zenon DEF OpToRel
<1>4. \A m \in T : ~ (m < n)
  BY <1>2, <1>3, Zenon
<1>. QED  BY <1>4

(* The powers up to n, as a table. *)
Doubles(f, n) ==
    /\ f \in [0 .. n -> Nat]
    /\ f[0] = 1
    /\ \A b \in 1 .. n : f[b] = 2 * f[b - 1]

LEMMA DoublesExist == \A n \in Nat : \E f : Doubles(f, n)
<1>. DEFINE T == {n \in Nat : ~ \E f : Doubles(f, n)}
<1>1. SUFFICES ASSUME T # {} PROVE FALSE
  BY Zenon
<1>2. PICK n \in T : \A m \in T : n <= m
  <2>1. T \subseteq Nat
    BY Zenon
  <2>. QED  BY <1>1, <2>1, LeastNumber, Zenon
<1>3. n \in Nat /\ ~ \E f : Doubles(f, n)
  BY Zenon
<1>4. n # 0
  <2>1. Doubles([b \in 0 .. 0 |-> 1], 0)
    BY DEF Doubles
  <2>. QED  BY <1>3, <2>1, Zenon
<1>5. n - 1 \in Nat /\ n - 1 < n
  BY <1>3, <1>4
<1>6. n - 1 \notin T
  BY <1>2, <1>3, <1>5
<1>7. PICK f : Doubles(f, n - 1)
  BY <1>5, <1>6, Zenon
<1>. HIDE DEF T
<1>8. Doubles([b \in 0 .. n |-> IF b = n THEN 2 * f[n - 1] ELSE f[b]], n)
  BY <1>3, <1>5, <1>7 DEF Doubles
<1>. QED  BY <1>3, <1>8, Zenon

LEMMA TwoToType == \A b \in 0 .. HashBits : TwoTo[b] \in Nat
<1>. DEFINE Step(f) == [b \in 0 .. HashBits |-> IF b = 0 THEN 1 ELSE 2 * f[b - 1]]
<1>1. HashBits \in Nat
  BY SizeAssumption, Zenon
<1>2. \E f : f = Step(f)
  <2>1. PICK f : Doubles(f, HashBits)
    BY <1>1, DoublesExist, Zenon
  <2>2. f = Step(f)
    BY <1>1, <2>1 DEF Doubles
  <2>. QED  BY <2>2, Zenon
<1>3. TwoTo = Step(TwoTo)
  BY <1>2, Zenon DEF TwoTo
<1>4. \A b \in 0 .. HashBits : TwoTo[b] = IF b = 0 THEN 1 ELSE 2 * TwoTo[b - 1]
  BY <1>3, Zenon
<1>. DEFINE T == {b \in 0 .. HashBits : TwoTo[b] \notin Nat}
<1>5. SUFFICES ASSUME T # {} PROVE FALSE
  BY Zenon
<1>6. PICK n \in T : \A m \in T : n <= m
  <2>1. T \subseteq Nat
    BY <1>1
  <2>. QED  BY <1>5, <2>1, LeastNumber, Zenon
<1>7. n \in 0 .. HashBits /\ TwoTo[n] \notin Nat
  BY Zenon
<1>8. n # 0
  BY <1>1, <1>4, <1>7
<1>9. n - 1 \in 0 .. HashBits /\ n - 1 < n
  BY <1>1, <1>7, <1>8
<1>10. TwoTo[n - 1] \in Nat
  <2>1. n - 1 \notin T
    BY <1>1, <1>6, <1>7, <1>9
  <2>. QED  BY <1>9, <2>1, Zenon
<1>11. TwoTo[n] = 2 * TwoTo[n - 1]
  BY <1>4, <1>7, <1>8, Zenon
<1>. QED  BY <1>7, <1>10, <1>11
-----------------------------------------------------------------------------
(***************************************************************************)
(* The inductive invariant.  A goroutine has the source the request names, *)
(* found in a store where identities stay under their own identifiers; its *)
(* envelope carries the text of the request with that source, is not sent  *)
(* later than the clock says, and has the zeros that the target asks for.  *)
(* What leaves is, besides, short enough for a size field of three digits. *)
(***************************************************************************)
IsSource(r, src) ==
    IF r.sig = NoName THEN src = Nobody
    ELSE src \in Identity /\ IdOf(src) = ToDeterministicID(r.sig)

Carries(e, r, key) ==
    \E src \in Identity \cup {Nobody} :
        IsSource(r, src) /\ e.data = Encrypted(Text(r.payload, r.padding, src), key)

AtSource(x) ==
    /\ x.pc = "source" /\ x = [pc |-> x.pc, req |-> x.req]
    /\ x.req \in Request

AtKey(x) ==
    /\ x.pc = "key" /\ x = [pc |-> x.pc, req |-> x.req, src |-> x.src]
    /\ x.req \in Request /\ IsSource(x.req, x.src)

AtWrap(x) ==
    /\ x.pc = "wrap" /\ x = [pc |-> x.pc, req |-> x.req, src |-> x.src, key |-> x.key]
    /\ x.req \in Request /\ IsSource(x.req, x.src)

AtSeal(x, t) ==
    /\ x.pc = "seal"
    /\ x = [pc |-> x.pc, req |-> x.req, key |-> x.key, start |-> x.start, env |-> x.env]
    /\ x.req \in Request /\ x.start \in 0 .. t
    /\ \E src \in Identity \cup {Nobody} :
           IsSource(x.req, src) /\ x.env = Wrapped(x.req, src, x.key, x.start)

WorkDone(e, r, zeros) ==
    r.powTarget > 0 => r.powTarget * Size(e) * e.ttl <= TwoTo[zeros]

Ready(x, t) ==
    /\ x.pc \in {"check", "send"}
    /\ x = [pc |-> x.pc, req |-> x.req, key |-> x.key, zeros |-> x.zeros, env |-> x.env]
    /\ x.req \in Request /\ Carries(x.env, x.req, x.key)
    /\ Sent(x.env) \in 0 .. t /\ x.env.ttl \in Uint32
    /\ x.zeros \in 0 .. HashBits /\ WorkDone(x.env, x.req, x.zeros)

PostOK(x, t) ==
    x = NoPost \/ AtSource(x) \/ AtKey(x) \/ AtWrap(x) \/ AtSeal(x, t) \/ Ready(x, t)

LeftOK(l) ==
    /\ l.req \in Request /\ Carries(l.env, l.req, l.key)
    /\ Sent(l.env) <= l.at /\ Size(l.env) < Place[4]

PostInv ==
    /\ now \in 0 .. MaxTime
    /\ \E v, w \in Level :
           settings = [minPow |-> v, minPowTolerance |-> w, maxMessageSize |-> MaxMessageSize,
                       bloom |-> NodeBloom, bloomTolerance |-> NodeBloom]
    /\ DOMAIN post = Poster /\ post = [p \in Poster |-> post[p]]
    /\ \A p \in Poster : PostOK(post[p], now)
    /\ \A l \in left : LeftOK(l)

-----------------------------------------------------------------------------
(* Times and work. *)

LEMMA SentWhen ==
    ASSUME NEW t \in Uint32, NEW ttl \in Uint32, NEW x \in Nat, t + x \in Uint32
    PROVE  /\ Plus(t, ttl) \in Uint32
           /\ Minus(Plus(Plus(t, ttl), x), ttl) = t + x
BY WordAssumption DEF Uint32, Plus, Minus

(* The zeros that are worth the target to Seal are worth it to add. *)
LEMMA WorkIsWorth ==
    ASSUME NEW t \in Nat, NEW v \in Nat, v <= t, NEW s \in Nat, NEW l \in Nat, NEW w \in Nat,
           NEW R \in 1 .. s, t * s * l <= w
    PROVE  w \div R >= v * l
<1>1. w \div R >= t * l
  OBVIOUS
<1>2. v * l <= t * l
  OBVIOUS
<1>3. v * l \in Int /\ t * l \in Int /\ w \div R \in Int
  OBVIOUS
<1>. QED  BY <1>1, <1>2, <1>3

(* The envelope of a request that is given a source. *)
LEMMA RequestFields ==
    ASSUME NEW r \in Request
    PROVE  /\ r.ttl \in Uint32 /\ r.powTime \in Uint32 /\ r.powTarget \in Int
           /\ r.payload \in Seq(Nat) /\ r.padding \in Seq(Nat)
           /\ r.sig \in Id \cup Name \cup {NoName}
<1>1. r \in RequestType
  BY RequestAssumption, Zenon
<1>. QED  BY <1>1, Zenon DEF RequestType

IsWrapped(e, r, src, key, t) ==
    /\ e.data = Encrypted(Text(r.payload, r.padding, src), key)
    /\ e.ttl \in Uint32
    /\ e = [expiry |-> Plus(t, e.ttl), ttl |-> e.ttl, topic |-> r.topic, data |-> e.data]

LEMMA WrappedIs ==
    ASSUME NEW r \in Request, NEW src, NEW key, NEW t \in Uint32
    PROVE  IsWrapped(Wrapped(r, src, key, t), r, src, key, t)
<1>. DEFINE ttl == IF r.ttl = 0 THEN DefaultTTL ELSE r.ttl
            txt == Text(r.payload, r.padding, src)
<1>1. Wrapped(r, src, key, t) = [expiry |-> Plus(t, ttl), ttl |-> ttl, topic |-> r.topic,
                                 data |-> Encrypted(txt, key)]
  BY Zenon DEF Wrapped, Text
<1>2. ttl \in Uint32
  BY RequestFields, TimeAssumption, Zenon
<1>. HIDE DEF ttl, txt
<1>. QED  BY <1>1, <1>2 DEF IsWrapped, txt

LEMMA CarriedSize ==
    ASSUME NEW r \in Request, NEW e, NEW key, Carries(e, r, key)
    PROVE  Size(e) \in Nat /\ Len(r.payload) <= Size(e) /\ Len(r.payload) \in Nat
<1>1. PICK src : e.data = Encrypted(Text(r.payload, r.padding, src), key)
  BY Zenon DEF Carries
<1>2. r.payload \in Seq(Nat) /\ r.padding \in Seq(Nat)
  BY RequestFields, Zenon
<1>. DEFINE txt == Text(r.payload, r.padding, src)
<1>3. Len(txt) \in Nat /\ Len(r.payload) <= Len(txt)
  BY <1>2, TextLength, Zenon
<1>4. e.data.raw = txt
  BY <1>1 DEF Encrypted
<1>5. Size(e) = Header + (Len(txt) + Overhead)
  BY <1>4, Zenon DEF Size, DataLength
<1>6. Len(r.payload) \in Nat
  BY <1>2
<1>. HIDE DEF txt
<1>. QED  BY <1>3, <1>5, <1>6, SizeAssumption
-----------------------------------------------------------------------------
(* Each step keeps the invariant. *)

LEMMA GoOnKeeps ==
    ASSUME PostInv, NEW p \in Poster, NEW x, PostOK(x, now), GoOn(p, x),
           UNCHANGED <<now, settings>>
    PROVE  PostInv'
<1>1. post' = [q \in Poster |-> IF q = p THEN x ELSE post[q]] /\ left' = left
  BY Zenon DEF PostInv, GoOn
<1>2. now' = now /\ settings' = settings
  BY Zenon
<1>3. \A q \in Poster : PostOK(post'[q], now')
  BY <1>1, <1>2, Zenon DEF PostInv
<1>4. DOMAIN post' = Poster /\ post' = [q \in Poster |-> post'[q]]
  BY <1>1, Zenon
<1>. QED  BY <1>1, <1>2, <1>3, <1>4, Zenon DEF PostInv

LEMMA FailKeeps ==
    ASSUME PostInv, NEW p \in Poster, Fail(p), UNCHANGED <<now, settings>>
    PROVE  PostInv'
<1>1. PostOK(NoPost, now)
  BY Zenon DEF PostOK
<1>. QED  BY <1>1, GoOnKeeps, Zenon DEF Fail

LEMMA LeaveKeeps ==
    ASSUME PostInv, NEW p \in Poster, Ready(post[p], now), Leave(p),
           Size(post[p].env) < Place[4], UNCHANGED <<now, settings>>
    PROVE  PostInv'
<1>. DEFINE l == [env |-> post[p].env, req |-> post[p].req, key |-> post[p].key, at |-> now]
<1>1. post' = [q \in Poster |-> IF q = p THEN NoPost ELSE post[q]] /\ left' = left \cup {l}
  BY Zenon DEF PostInv, Leave
<1>2. now' = now /\ settings' = settings
  BY Zenon
<1>3. \A q \in Poster : PostOK(post'[q], now')
  BY <1>1, <1>2, Zenon DEF PostInv, PostOK
<1>4. DOMAIN post' = Poster /\ post' = [q \in Poster |-> post'[q]]
  BY <1>1, Zenon
<1>5. LeftOK(l)
  <2>1. l.env = post[p].env /\ l.req = post[p].req /\ l.key = post[p].key /\ l.at = now
    BY Zenon
  <2>. HIDE DEF l
  <2>2. Sent(post[p].env) <= now /\ now \in Int
    <3>1. Sent(post[p].env) \in 0 .. now /\ now \in 0 .. MaxTime
      BY Zenon DEF PostInv, Ready
    <3>. QED  BY <3>1
  <2>. QED  BY <2>1, <2>2, Zenon DEF LeftOK, Ready
<1>. HIDE DEF l
<1>6. \A m \in left' : LeftOK(m)
  BY <1>1, <1>5, Zenon DEF PostInv
<1>. QED  BY <1>2, <1>3, <1>4, <1>6, Zenon DEF PostInv

(* The states of the goroutines tell them apart. *)
LEMMA Stage ==
    ASSUME PostInv, NEW p \in Poster
    PROVE  /\ post[p].pc = "source" => AtSource(post[p])
           /\ post[p].pc = "key" => AtKey(post[p])
           /\ post[p].pc = "wrap" => AtWrap(post[p])
           /\ post[p].pc = "seal" => AtSeal(post[p], now)
           /\ post[p].pc \in {"check", "send"} => Ready(post[p], now)
<1>. DEFINE x == post[p]
<1>1. PostOK(x, now)
  BY Zenon DEF PostInv
<1>. HIDE DEF x
<1>2. x = NoPost => x.pc = "idle"
  BY DEF NoPost
<1>3. /\ AtSource(x) => x.pc = "source"
      /\ AtKey(x) => x.pc = "key"
      /\ AtWrap(x) => x.pc = "wrap"
      /\ AtSeal(x, now) => x.pc = "seal"
      /\ Ready(x, now) => x.pc \in {"check", "send"}
  BY Zenon DEF AtSource, AtKey, AtWrap, AtSeal, Ready
<1>4. /\ x.pc = "source" => AtSource(x)
      /\ x.pc = "key" => AtKey(x)
      /\ x.pc = "wrap" => AtWrap(x)
      /\ x.pc = "seal" => AtSeal(x, now)
      /\ x.pc \in {"check", "send"} => Ready(x, now)
  BY <1>1, <1>2, <1>3, Zenon DEF PostOK
<1>. QED  BY <1>4, Zenon DEF x

LEMMA PostKeeps ==
    ASSUME PostInv, NEW p \in Poster, NEW r \in Request, Post(p, r)
    PROVE  PostInv'
<1>. DEFINE x == [pc |-> "source", req |-> r]
<1>1. AtSource(x)
  BY Zenon DEF AtSource
<1>2. PostOK(x, now)
  BY <1>1, Zenon DEF PostOK
<1>3. GoOn(p, x) /\ UNCHANGED <<now, settings>>
  BY Zenon DEF Post
<1>. QED  BY <1>2, <1>3, GoOnKeeps, Zenon

LEMMA FindSourceKeeps ==
    ASSUME KeyInv, PostInv, NEW p \in Poster, FindSource(p)
    PROVE  PostInv'
<1>. DEFINE r == post[p].req
            x(k) == [pc |-> "key", req |-> r, src |-> k]
<1>1. r \in Request /\ UNCHANGED <<now, settings>>
  <2>1. post[p].pc = "source" /\ UNCHANGED <<now, settings>>
    BY Zenon DEF FindSource
  <2>. QED  BY <2>1, Stage, Zenon DEF AtSource
<1>2. \/ r.sig = NoName /\ GoOn(p, x(Nobody))
      \/ r.sig # NoName /\ HasKeyPair(r.sig) /\ GoOn(p, x(privateKeys[ToDeterministicID(r.sig)]))
      \/ Fail(p)
  BY Zenon DEF FindSource
<1>. HIDE DEF r
<1>3. ASSUME NEW k, IsSource(r, k) PROVE PostOK(x(k), now)
  <2>1. /\ x(k).pc = "key" /\ x(k) = [pc |-> x(k).pc, req |-> x(k).req, src |-> x(k).src]
        /\ x(k).req = r /\ x(k).src = k
    BY Zenon
  <2>. HIDE DEF x
  <2>. QED  BY <1>1, <1>3, <2>1, Zenon DEF PostOK, AtKey
<1>4. CASE r.sig = NoName /\ GoOn(p, x(Nobody))
  <2>1. IsSource(r, Nobody)
    BY <1>4, Zenon DEF IsSource
  <2>2. PostOK(x(Nobody), now)
    BY <1>3, <2>1, Zenon
  <2>. HIDE DEF x
  <2>. QED  BY <1>1, <1>4, <2>2, GoOnKeeps, Zenon
<1>5. CASE /\ r.sig # NoName /\ HasKeyPair(r.sig)
           /\ GoOn(p, x(privateKeys[ToDeterministicID(r.sig)]))
  <2>. DEFINE k == privateKeys[ToDeterministicID(r.sig)]
  <2>1. IsSource(r, k)
    BY <1>5, Zenon DEF IsSource, HasKeyPair, KeyInv
  <2>. HIDE DEF k
  <2>2. PostOK(x(k), now)
    BY <1>3, <2>1, Zenon
  <2>. HIDE DEF x
  <2>. QED  BY <1>1, <1>5, <2>2, GoOnKeeps, Zenon DEF k
<1>. QED  BY <1>1, <1>2, <1>4, <1>5, FailKeeps, Zenon
LEMMA FindKeyKeeps ==
    ASSUME PostInv, NEW p \in Poster, FindKey(p)
    PROVE  PostInv'
<1>. DEFINE r == post[p].req
            src == post[p].src
            x(k) == [pc |-> "wrap", req |-> r, src |-> src, key |-> k]
<1>1. r \in Request /\ IsSource(r, src) /\ UNCHANGED <<now, settings>>
  <2>1. post[p].pc = "key" /\ UNCHANGED <<now, settings>>
    BY Zenon DEF FindKey
  <2>. QED  BY <2>1, Stage, Zenon DEF AtKey
<1>2. (\E k : GoOn(p, x(k))) \/ Fail(p)
  <2>1. \/ GoOn(p, x(r.publicKey))
        \/ GoOn(p, x(symKeys[r.symKeyID]))
        \/ Fail(p)
    BY Zenon DEF FindKey
  <2>. HIDE DEF x, r
  <2>. QED  BY <2>1, Zenon
<1>. HIDE DEF r, src
<1>3. ASSUME NEW k PROVE PostOK(x(k), now)
  <2>1. /\ x(k).pc = "wrap" /\ x(k).req = r /\ x(k).src = src
        /\ x(k) = [pc |-> x(k).pc, req |-> x(k).req, src |-> x(k).src, key |-> x(k).key]
    BY Zenon
  <2>. HIDE DEF x
  <2>. QED  BY <1>1, <2>1, Zenon DEF PostOK, AtWrap
<1>. HIDE DEF x
<1>. QED  BY <1>1, <1>2, <1>3, GoOnKeeps, FailKeeps, Zenon

LEMMA WrapKeeps ==
    ASSUME PostInv, NEW p \in Poster, Wrap(p)
    PROVE  PostInv'
<1>. DEFINE r == post[p].req
            src == post[p].src
            key == post[p].key
            e == Wrapped(r, src, key, now)
            x == [pc |-> "seal", req |-> r, key |-> key, start |-> now, env |-> e]
<1>1. r \in Request /\ IsSource(r, src) /\ UNCHANGED <<now, settings>>
  <2>1. post[p].pc = "wrap" /\ UNCHANGED <<now, settings>>
    BY Zenon DEF Wrap
  <2>. QED  BY <2>1, Stage, Zenon DEF AtWrap
<1>2. GoOn(p, x)
  BY Zenon DEF Wrap
<1>3. now \in 0 .. now
  <2>1. now \in 0 .. MaxTime
    BY Zenon DEF PostInv
  <2>. QED  BY <2>1
<1>. HIDE DEF r, src, key
<1>4. src \in Identity \cup {Nobody}
  BY <1>1, Zenon DEF IsSource
<1>5. /\ x.pc = "seal" /\ x.req = r /\ x.start = now /\ x.env = e /\ x.key = key
      /\ x = [pc |-> x.pc, req |-> x.req, key |-> x.key, start |-> x.start, env |-> x.env]
  BY Zenon
<1>. HIDE DEF x
<1>6. AtSeal(x, now)
  BY <1>1, <1>3, <1>4, <1>5, Zenon DEF AtSeal
<1>7. PostOK(x, now)
  BY <1>6, Zenon DEF PostOK
<1>. QED  BY <1>1, <1>2, <1>7, GoOnKeeps, Zenon

(* Seal leaves data and ttl as they are, and moves the expiry by what has passed. *)
LEMMA SealedKeeps ==
    ASSUME PostInv, NEW p \in Poster, AtSeal(post[p], now), NEW z \in 0 .. HashBits,
           NEW extra \in Nat, post[p].start + extra <= now,
           WorkDone(post[p].env, post[p].req, z),
           Sealed(p, z, extra), UNCHANGED <<now, settings>>
    PROVE  PostInv'
<1>. DEFINE r == post[p].req
            key == post[p].key
            t == post[p].start
            e == post[p].env
            f == [e EXCEPT !.expiry = Plus(@, extra)]
            x == [pc |-> "check", req |-> r, key |-> key, zeros |-> z, env |-> f]
<1>1. GoOn(p, x)
  BY Zenon DEF Sealed
<1>2. PICK src \in Identity \cup {Nobody} :
          r \in Request /\ t \in 0 .. now /\ IsSource(r, src) /\ e = Wrapped(r, src, key, t)
  BY Zenon DEF AtSeal
<1>3. now \in Uint32 /\ t \in Uint32 /\ t + extra \in Uint32 /\ t + extra \in 0 .. now
  <2>1. now \in 0 .. MaxTime /\ MaxTime \in 0 .. Word - 1
    BY TimeAssumption, Zenon DEF PostInv, Uint32
  <2>2. t \in 0 .. now /\ t + extra <= now
    BY <1>2, Zenon
  <2>. HIDE DEF t
  <2>. QED  BY <2>1, <2>2, WordAssumption DEF Uint32
<1>. HIDE DEF r, key, t
<1>4. /\ e.data = Encrypted(Text(r.payload, r.padding, src), key)
      /\ e.ttl \in Uint32
      /\ e = [expiry |-> Plus(t, e.ttl), ttl |-> e.ttl, topic |-> r.topic, data |-> e.data]
  <2>1. IsWrapped(Wrapped(r, src, key, t), r, src, key, t)
    BY <1>2, <1>3, WrappedIs, Zenon
  <2>2. IsWrapped(e, r, src, key, t)
    BY <1>2, <2>1, Zenon
  <2>. QED  BY <2>2, Zenon DEF IsWrapped
<1>5. WorkDone(e, r, z)
  BY Zenon DEF r
<1>. HIDE DEF e
<1>6. f.data = e.data /\ f.ttl = e.ttl /\ f.expiry = Plus(Plus(t, e.ttl), extra)
  BY <1>4
<1>7. /\ x.pc = "check" /\ x.req = r /\ x.key = key /\ x.zeros = z /\ x.env = f
      /\ x = [pc |-> x.pc, req |-> x.req, key |-> x.key, zeros |-> x.zeros, env |-> x.env]
  BY Zenon
<1>. HIDE DEF x, f
<1>8. Sent(f) = t + extra
  <2>1. Minus(Plus(Plus(t, e.ttl), extra), e.ttl) = t + extra
    BY <1>3, <1>4, SentWhen, Zenon
  <2>. QED  BY <1>6, <2>1, Zenon DEF Sent
<1>9. Carries(f, r, key)
  BY <1>2, <1>4, <1>6, Zenon DEF Carries
<1>10. WorkDone(f, r, z)
  BY <1>5, <1>6, Zenon DEF WorkDone, Size, DataLength
<1>11. Ready(x, now)
  <2>1. x.pc \in {"check", "send"}
    BY <1>7, Zenon
  <2>. QED  BY <1>2, <1>3, <1>4, <1>6, <1>7, <1>8, <1>9, <1>10, <2>1, Zenon DEF Ready
<1>12. PostOK(x, now)
  BY <1>11, Zenon DEF PostOK
<1>. QED  BY <1>1, <1>12, GoOnKeeps, Zenon
LEMMA SealKeeps ==
    ASSUME PostInv, NEW p \in Poster, Seal(p)
    PROVE  PostInv'
<1>. DEFINE r == post[p].req
            t == post[p].start
            e == post[p].env
<1>1. AtSeal(post[p], now) /\ UNCHANGED <<now, settings>>
  <2>1. post[p].pc = "seal" /\ UNCHANGED <<now, settings>>
    BY Zenon DEF Seal
  <2>. QED  BY <2>1, Stage, Zenon
<1>2. r.powTarget \in Int /\ r.powTime \in Nat /\ t \in 0 .. now /\ now \in Nat
  <2>1. r \in Request /\ t \in 0 .. now
    BY <1>1, Zenon DEF AtSeal
  <2>2. now \in Nat
    BY DEF PostInv
  <2>3. r.powTarget \in Int /\ r.powTime \in Uint32
    BY <2>1, RequestFields, Zenon
  <2>4. \A y \in Uint32 : y \in Nat
    BY WordAssumption DEF Uint32
  <2>. QED  BY <2>1, <2>2, <2>3, <2>4, Zenon
<1>3. \/ r.powTarget = 0 /\ \E z \in 0 .. HashBits : Sealed(p, z, 0)
      \/ /\ r.powTarget < 0 /\ WorkTimeOver(p)
         /\ \E z \in 0 .. HashBits : Sealed(p, z, r.powTime)
      \/ r.powTarget > 0 /\ \E z \in ReachesPow(e, r.powTarget) : Sealed(p, z, 0)
      \/ Fail(p)
  BY Zenon DEF Seal
<1>4. t + 0 <= now /\ (WorkTimeOver(p) => t + r.powTime <= now) /\ 0 \in Nat
  <2>1. WorkTimeOver(p) => now >= t + r.powTime
    BY Zenon DEF WorkTimeOver
  <2>. HIDE DEF t, r
  <2>. QED  BY <1>2, <2>1
<1>5. CASE r.powTarget = 0 /\ \E z \in 0 .. HashBits : Sealed(p, z, 0)
  <2>1. PICK z \in 0 .. HashBits : Sealed(p, z, 0)
    BY <1>5, Zenon
  <2>2. WorkDone(e, r, z)
    <3>1. ~ r.powTarget > 0
      BY <1>5
    <3>. QED  BY <3>1, Zenon DEF WorkDone
  <2>. QED  BY <1>1, <1>4, <2>1, <2>2, SealedKeeps, Zenon
<1>6. CASE /\ r.powTarget < 0 /\ WorkTimeOver(p)
           /\ \E z \in 0 .. HashBits : Sealed(p, z, r.powTime)
  <2>1. PICK z \in 0 .. HashBits : Sealed(p, z, r.powTime)
    BY <1>6, Zenon
  <2>2. WorkDone(e, r, z)
    <3>1. ~ r.powTarget > 0
      BY <1>2, <1>6
    <3>. QED  BY <3>1, Zenon DEF WorkDone
  <2>. QED  BY <1>1, <1>2, <1>4, <1>6, <2>1, <2>2, SealedKeeps, Zenon
<1>7. CASE r.powTarget > 0 /\ \E z \in ReachesPow(e, r.powTarget) : Sealed(p, z, 0)
  <2>1. PICK z \in ReachesPow(e, r.powTarget) : Sealed(p, z, 0)
    BY <1>7, Zenon
  <2>2. z \in 1 .. HashBits /\ r.powTarget * Size(e) * e.ttl <= TwoTo[z]
    BY <2>1, Zenon DEF ReachesPow
  <2>3. z \in 0 .. HashBits
    BY <2>2, SizeAssumption
  <2>4. WorkDone(e, r, z)
    BY <2>2, Zenon DEF WorkDone
  <2>. QED  BY <1>1, <1>4, <2>1, <2>3, <2>4, SealedKeeps, Zenon
<1>. QED  BY <1>1, <1>3, <1>5, <1>6, <1>7, FailKeeps, Zenon

LEMMA SendP2PMessageKeeps ==
    ASSUME PostInv, NEW p \in Poster, SendP2PMessage(p)
    PROVE  PostInv'
<1>1. /\ post[p].pc = "check" /\ UNCHANGED <<now, settings>>
      /\ (Size(post[p].env) < Place[4] /\ Leave(p)) \/ Fail(p)
  BY Zenon DEF SendP2PMessage
<1>2. Ready(post[p], now)
  BY <1>1, Stage, Zenon
<1>. QED  BY <1>1, <1>2, LeaveKeeps, FailKeeps, Zenon

LEMMA CheckPowKeeps ==
    ASSUME PostInv, NEW p \in Poster, CheckPow(p)
    PROVE  PostInv'
<1>. DEFINE x == [post[p] EXCEPT !.pc = "send"]
<1>1. /\ post[p].pc = "check" /\ UNCHANGED <<now, settings>>
      /\ GoOn(p, x) \/ Fail(p)
  BY Zenon DEF CheckPow
<1>2. Ready(post[p], now)
  BY <1>1, Stage, Zenon
<1>. DEFINE y == post[p]
<1>3. Ready(y, now) /\ x = [y EXCEPT !.pc = "send"]
  BY <1>2, Zenon
<1>. HIDE DEF y, x
<1>4. y = [pc |-> y.pc, req |-> y.req, key |-> y.key, zeros |-> y.zeros, env |-> y.env]
  BY <1>3, Zenon DEF Ready
<1>5. /\ x.pc = "send" /\ x.req = y.req /\ x.key = y.key /\ x.zeros = y.zeros /\ x.env = y.env
      /\ x = [pc |-> x.pc, req |-> x.req, key |-> x.key, zeros |-> x.zeros, env |-> x.env]
  BY <1>3, <1>4, Zenon
<1>6. x.pc \in {"check", "send"}
  BY <1>5, Zenon
<1>7. Ready(x, now)
  BY <1>3, <1>5, <1>6, Zenon DEF Ready
<1>8. PostOK(x, now)
  BY <1>7, Zenon DEF PostOK
<1>. QED  BY <1>1, <1>8, GoOnKeeps, FailKeeps, Zenon

(* What add lets through is no longer than the largest message. *)
LEMMA SendKeeps ==
    ASSUME PostInv, NEW p \in Poster, Send(p)
    PROVE  PostInv'
<1>. DEFINE e == post[p].env
            s == Seen(e, post[p].zeros)
<1>1. /\ post[p].pc = "send" /\ UNCHANGED <<now, settings>>
      /\ (Admitted(s, now, settings) /\ Leave(p)) \/ Fail(p)
  BY Zenon DEF Send
<1>2. Ready(post[p], now)
  BY <1>1, Stage, Zenon
<1>3. ASSUME Admitted(s, now, settings) PROVE Size(e) < Place[4]
  <2>1. s.size <= settings.maxMessageSize
    BY <1>3, Zenon DEF Admitted, SizeAllowed
  <2>2. s.size = Size(e)
    BY Zenon DEF Seen
  <2>3. settings.maxMessageSize = MaxMessageSize
    BY DEF PostInv
  <2>4. Size(e) \in Nat
    BY <1>2, CarriedSize, Zenon DEF Ready
  <2>5. Place[4] \in Nat
    BY PlaceValues, Zenon
  <2>. HIDE DEF e, s
  <2>. QED  BY <2>1, <2>2, <2>3, <2>4, <2>5, SizeAssumption
<1>. QED  BY <1>1, <1>2, <1>3, LeaveKeeps, FailKeeps, Zenon
LEMMA SettingsKeep ==
    ASSUME PostInv, NEW u \in Level, SetMinimumPoW(u) \/ AdoptMinimumPoW(u)
    PROVE  PostInv'
<1>1. now' = now /\ post' = post /\ left' = left
  BY Zenon DEF SetMinimumPoW, AdoptMinimumPoW
<1>2. PICK v \in Level, w \in Level :
          settings = [minPow |-> v, minPowTolerance |-> w, maxMessageSize |-> MaxMessageSize,
                      bloom |-> NodeBloom, bloomTolerance |-> NodeBloom]
  BY Zenon DEF PostInv
<1>3. \/ settings' = [minPow |-> u, minPowTolerance |-> w, maxMessageSize |-> MaxMessageSize,
                      bloom |-> NodeBloom, bloomTolerance |-> NodeBloom]
      \/ settings' = [minPow |-> v, minPowTolerance |-> u, maxMessageSize |-> MaxMessageSize,
                      bloom |-> NodeBloom, bloomTolerance |-> NodeBloom]
  BY <1>2, Zenon DEF SetMinimumPoW, AdoptMinimumPoW
<1>. QED  BY <1>1, <1>3, Zenon DEF PostInv

LEMMA TickKeeps ==
    ASSUME PostInv, Tick
    PROVE  PostInv'
<1>1. settings' = settings /\ post' = post /\ left' = left
  BY Zenon DEF Tick
<1>2. now' \in 0 .. MaxTime /\ \A t \in 0 .. now : t \in 0 .. now'
  BY TimeAssumption DEF Tick, PostInv, Uint32
<1>3. ASSUME NEW x, PostOK(x, now) PROVE PostOK(x, now')
  BY <1>2, <1>3, Zenon DEF PostOK, AtSeal, Ready
<1>. QED  BY <1>1, <1>2, <1>3, Zenon DEF PostInv

LEMMA NextKeeps ==
    ASSUME KeyInv, PostInv, [Next]_vars
    PROVE  PostInv'
<1>1. ASSUME NEW p \in Poster, PostStep(p) PROVE PostInv'
  BY <1>1, FindSourceKeeps, FindKeyKeeps, WrapKeeps, SealKeeps, SendP2PMessageKeeps,
     CheckPowKeeps, SendKeeps, Zenon DEF PostStep
<1>2. CASE UNCHANGED postVars
  BY <1>2, Zenon DEF PostInv, postVars
<1>3. CASE UNCHANGED vars
  <2>1. UNCHANGED postVars
    BY <1>3, Zenon DEF vars
  <2>. QED  BY <1>2, <2>1, Zenon
<1>. QED  BY <1>1, <1>2, <1>3, PostKeeps, SettingsKeep, TickKeeps, Zenon DEF Next

LEMMA PostInvariance == Spec => []PostInv
<1>1. Init => PostInv
  <2>. SUFFICES ASSUME Init PROVE PostInv
    BY Zenon
  <2>1. now \in 0 .. MaxTime
    BY TimeAssumption DEF Init, Uint32
  <2>2. DOMAIN post = Poster /\ post = [p \in Poster |-> post[p]]
    BY Zenon DEF Init
  <2>3. \A p \in Poster : PostOK(post[p], now)
    BY Zenon DEF Init, PostOK
  <2>4. left = {}
    BY Zenon DEF Init
  <2>5. \E v, w \in Level :
           settings = [minPow |-> v, minPowTolerance |-> w, maxMessageSize |-> MaxMessageSize,
                       bloom |-> NodeBloom, bloomTolerance |-> NodeBloom]
    BY Zenon DEF Init
  <2>. QED  BY <2>1, <2>2, <2>3, <2>4, <2>5, Zenon DEF PostInv
<1>. QED  BY <1>1, NextKeeps, KeyInvariance, PTL DEF Spec

-----------------------------------------------------------------------------
(* What follows from the invariant. *)

(* An envelope that has left is read back, whatever its request. *)
LEMMA LeftReadBack ==
    ASSUME PostInv, NEW l \in left
    PROVE  \E src : /\ IsSource(l.req, src)
                    /\ l.env.data = Encrypted(Text(l.req.payload, l.req.padding, src), l.key)
                    /\ ReadBack(l.req.payload, l.req.padding, src)
<1>1. LeftOK(l)
  BY Zenon DEF PostInv
<1>2. PICK src : IsSource(l.req, src)
                 /\ l.env.data = Encrypted(Text(l.req.payload, l.req.padding, src), l.key)
  BY <1>1, Zenon DEF LeftOK, Carries
<1>3. l.req.payload \in Seq(Nat) /\ l.req.padding \in Seq(Nat)
  BY <1>1, RequestFields, Zenon DEF LeftOK
<1>4. Len(l.req.payload) < Place[4]
  <2>1. Size(l.env) \in Nat /\ Len(l.req.payload) <= Size(l.env) /\ Len(l.req.payload) \in Nat
    BY <1>1, CarriedSize, Zenon DEF LeftOK
  <2>2. Size(l.env) < Place[4]
    BY <1>1, Zenon DEF LeftOK
  <2>3. Place[4] \in Nat
    BY PlaceValues, Zenon
  <2>. QED  BY <2>1, <2>2, <2>3
<1>5. ReadBack(l.req.payload, l.req.padding, src)
  BY <1>3, <1>4, RoundTrip, Zenon
<1>. QED  BY <1>2, <1>5, Zenon
(***************************************************************************)
(* Whoever holds the key reads the payload that was posted, the client's   *)
(* padding and the identity the request named, for every payload and       *)
(* padding, however calls on the key store interleave with Post.           *)
(***************************************************************************)
THEOREM PostedMessagesAreRead == Spec => []ReadAsPosted
<1>1. PostInv => ReadAsPosted
  <2>. SUFFICES ASSUME PostInv, NEW l \in left
                PROVE  LET m == Open(l.env, l.key) IN
                       /\ m.ok
                       /\ m.payload = l.req.payload
                       /\ l.req.padding # << >> => m.padding = l.req.padding
                       /\ IF l.req.sig = NoName THEN m.src = Nobody
                          ELSE m.src \in Identity /\ IdOf(m.src) = ToDeterministicID(l.req.sig)
    BY Zenon DEF ReadAsPosted
  <2>. DEFINE r == l.req
              txt(src) == Text(r.payload, r.padding, src)
              m == Open(l.env, l.key)
  <2>1. PICK src : /\ IsSource(r, src)
                   /\ l.env.data = Encrypted(txt(src), l.key)
                   /\ ReadBack(r.payload, r.padding, src)
    BY LeftReadBack, Zenon
  <2>. HIDE DEF r
  <2>2. l.env.data.key = l.key /\ l.env.data.raw = txt(src)
    <3>. HIDE DEF txt
    <3>. QED  BY <2>1 DEF Encrypted
  <2>3. m = ValidateAndParse(txt(src))
    BY <2>2, Zenon DEF Open
  <2>. HIDE DEF m
  <2>4. /\ m.ok /\ m.payload = r.payload /\ m.src = src
        /\ r.padding # << >> => m.padding = r.padding
    BY <2>1, <2>3, Zenon DEF ReadBack
  <2>5. IF r.sig = NoName THEN m.src = Nobody
        ELSE m.src \in Identity /\ IdOf(m.src) = ToDeterministicID(r.sig)
    BY <2>1, <2>4, Zenon DEF IsSource
  <2>. QED  BY <2>4, <2>5, Zenon DEF r, m
<1>. QED  BY <1>1, PostInvariance, PTL

(***************************************************************************)
(* Without padding of the client's own every plain text is a multiple of   *)
(* padSizeLimit long: appendPadding reckons with the signature that Sign   *)
(* adds later, and with the size field.                                    *)
(***************************************************************************)
THEOREM LengthsAreHidden == Spec => []LengthHidden
<1>1. PostInv => LengthHidden
  <2>. SUFFICES ASSUME PostInv, NEW l \in left, l.req.padding = << >>
                PROVE  Len(l.env.data.raw) % PadLimit = 0
    BY Zenon DEF LengthHidden
  <2>. DEFINE r == l.req
              txt(src) == Text(r.payload, r.padding, src)
  <2>1. PICK src : /\ l.env.data = Encrypted(txt(src), l.key)
                   /\ ReadBack(r.payload, r.padding, src)
    BY LeftReadBack, Zenon
  <2>2. Len(txt(src)) % PadLimit = 0
    BY <2>1, Zenon DEF ReadBack
  <2>. HIDE DEF txt
  <2>3. l.env.data.raw = txt(src)
    BY <2>1 DEF Encrypted
  <2>. QED  BY <2>2, <2>3, Zenon
<1>. QED  BY <1>1, PostInvariance, PTL

(***************************************************************************)
(* The work Seal does for a target is worth the target to add, whatever    *)
(* time has passed and whatever the settings are by then: Seal reckons     *)
(* with size(), add with the encoded length, and the time the envelope     *)
(* claims to be sent is never ahead of the clock.                          *)
(***************************************************************************)
THEOREM WorkIsAccepted == Spec => []WorkAccepted
<1>1. PostInv => WorkAccepted
  <2>. SUFFICES ASSUME PostInv, NEW p \in Poster,
                       post[p].pc = "send",
                       RlpSize(post[p].env) \in 1 .. Size(post[p].env),
                       \/ settings.minPow <= post[p].req.powTarget
                       \/ settings.minPowTolerance <= post[p].req.powTarget
                PROVE  PowAllowed(Seen(post[p].env, post[p].zeros), now, settings)
    BY Zenon DEF WorkAccepted
  <2>. DEFINE e == post[p].env
              z == post[p].zeros
              g == post[p].req.powTarget
              s == Seen(e, z)
  <2>1. Ready(post[p], now)
    <3>1. post[p].pc \in {"check", "send"}
      BY Zenon
    <3>. QED  BY <3>1, Stage, Zenon
  <2>2. /\ Sent(e) \in 0 .. now /\ e.ttl \in Uint32 /\ z \in 0 .. HashBits
        /\ g > 0 => g * Size(e) * e.ttl <= TwoTo[z]
    BY <2>1, Zenon DEF Ready, WorkDone
  <2>3. Size(e) \in Nat
    BY <2>1, CarriedSize, Zenon DEF Ready
  <2>4. g \in Int
    BY <2>1, RequestFields, Zenon DEF Ready
  <2>5. settings.minPow \in Nat /\ settings.minPowTolerance \in Nat /\ now \in Nat
    BY TimeAssumption DEF PostInv
  <2>6. s.expiry = e.expiry /\ s.ttl = e.ttl /\ s.work = TwoTo[z] \div RlpSize(e)
    BY Zenon DEF Seen
  <2>7. RlpSize(e) \in 1 .. Size(e)
    BY Zenon
  <2>8. settings.minPow <= g \/ settings.minPowTolerance <= g
    BY Zenon
  <2>. HIDE DEF e, z, g, s
  <2>9. ChargedTTL(s, now) = e.ttl
    <3>1. Sent(s) = Sent(e)
      BY <2>6, Zenon DEF Sent
    <3>2. ~ Sent(e) > now
      BY <2>2, <2>5
    <3>. QED  BY <2>6, <3>1, <3>2, Zenon DEF ChargedTTL
  <2>10. TwoTo[z] \in Nat /\ e.ttl \in Nat
    BY <2>2, TwoToType, WordAssumption DEF Uint32
  <2>11. ASSUME NEW v \in Nat, v <= g PROVE PowReaches(s, now, v)
    <3>. DEFINE w == TwoTo[z]
                R == RlpSize(e)
                size == Size(e)
                l == e.ttl
    <3>1. w \div R >= v * l
      <4>1. w \in Nat /\ R \in 1 .. size /\ size \in Nat /\ l \in Nat /\ (g > 0 => g * size * l <= w)
        BY <2>2, <2>3, <2>7, <2>10
      <4>. HIDE DEF w, R, size, l
      <4>2. CASE g > 0
        <5>1. g \in Nat /\ g * size * l <= w
          BY <2>4, <4>1, <4>2
        <5>. QED  BY <2>11, <4>1, <5>1, WorkIsWorth, Zenon
      <4>3. CASE ~ g > 0
        <5>1. v = 0
          BY <2>4, <2>11, <4>3
        <5>2. w \div R \in Nat
          BY <4>1
        <5>. QED  BY <4>1, <5>1, <5>2
      <4>. QED  BY <4>2, <4>3, Zenon
    <3>. QED  BY <2>6, <2>9, <3>1, Zenon DEF PowReaches
  <2>12. PowAllowed(s, now, settings)
    BY <2>5, <2>8, <2>11, Zenon DEF PowAllowed
  <2>. QED  BY <2>12, Zenon DEF s, e, z
<1>. QED  BY <1>1, PostInvariance, PTL

(***************************************************************************)
(* No envelope leaves before the time it claims to be sent: Seal adds the  *)
(* time to work to the expiry only where it spends all of it.              *)
(***************************************************************************)
THEOREM PostsLeaveOnTime == Spec => []LeavesOnTime
<1>1. PostInv => LeavesOnTime
  BY Zenon DEF PostInv, LeftOK, LeavesOnTime
<1>. QED  BY <1>1, PostInvariance, PTL
=============================================================================
