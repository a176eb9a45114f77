------------------------------ MODULE KeyStore ------------------------------
(***************************************************************************)
(* The keys a node keeps for its clients, and the calls that change them,  *)
(* as the RPC service passes them on.  Each of them holds keyMu while it   *)
(* touches a map and is one step, but for two that release it between a    *)
(* check and a store: AddKeyPair, and AddSymKeyFromPassword, which derives *)
(* the key in between and takes a tenth of a second for it.                *)
(*                                                                         *)
(* An identifier is a string of 2 * keyIDSize hex digits.  A string of any *)
(* other length (a name, or a public key) is hashed to an identifier where *)
(* the code calls toDeterministicID; the symmetric keys are looked up and  *)
(* deleted under the string as it is given.                                *)
(***************************************************************************)
EXTENDS Functions, FiniteSets

CONSTANTS
    Id,              \* identifiers
    Name,            \* other strings, public keys among them
    Derived,         \* Derived[n]: makeDeterministicID of a name
    Identity,        \* key pairs
    PublicKey,       \* PublicKey[k]: the name of a key pair
    SymKey,          \* byte strings, not nil, given as symmetric keys
    AesKey,          \* those of aesKeyLength
    ZeroKey,         \* the one of them with zeros only
    Caller           \* goroutines with a call that takes two steps

ASSUME NameAssumption ==
    /\ Id \cap Name = {}
    /\ Derived \in [Name -> Id]
    /\ PublicKey \in [Identity -> Name]
    /\ \A k, l \in Identity : Derived[PublicKey[k]] = Derived[PublicKey[l]] => k = l
ASSUME KeyAssumption == AesKey \subseteq SymKey /\ ZeroKey \in AesKey

VARIABLES
    privateKeys,     \* whisper.privateKeys
    symKeys,         \* whisper.symKeys
    call             \* call[c]: the key a caller has checked and not stored

keyVars == <<privateKeys, symKeys, call>>

NoCall == [pc |-> "idle"]

KeyInit ==
    /\ privateKeys = << >>
    /\ symKeys = << >>
    /\ call = [c \in Caller |-> NoCall]

ToDeterministicID(x) == IF x \in Id THEN x ELSE Derived[x]
IdOf(k) == Derived[PublicKey[k]]

HasKeyPair(x) == ToDeterministicID(x) \in DOMAIN privateKeys
HasSymKey(x) == x \in DOMAIN symKeys

(* map[id] = key *)
Stored(map, id, key) == [x \in DOMAIN map \cup {id} |-> IF x = id THEN key ELSE map[x]]
Deleted(map, id) == Restrict(map, DOMAIN map \ {id})

-----------------------------------------------------------------------------
(* A key pair that is new, or was imported before. *)
NewKeyPair(k) ==
    /\ ~ HasKeyPair(IdOf(k))
    /\ privateKeys' = Stored(privateKeys, IdOf(k), k)
    /\ UNCHANGED <<symKeys, call>>

DeleteKeyPair(x) ==
    /\ HasKeyPair(x)
    /\ privateKeys' = Deleted(privateKeys, ToDeterministicID(x))
    /\ UNCHANGED <<symKeys, call>>

SelectKeyPair(k) ==
    /\ privateKeys' = Stored(<< >>, IdOf(k), k)
    /\ UNCHANGED <<symKeys, call>>

DeleteKeyPairs ==
    /\ privateKeys' = << >>
    /\ UNCHANGED <<symKeys, call>>

(* AddKeyPair finds the identity unknown, under a read lock ... *)
AddKeyPair(c, k) ==
    /\ call[c] = NoCall
    /\ ~ HasKeyPair(IdOf(k))
    /\ call' = [call EXCEPT ![c] = [pc |-> "pair", key |-> k]]
    /\ UNCHANGED <<privateKeys, symKeys>>

(* ... and stores it under another lock, without looking again. *)
StoreKeyPair(c) ==
    /\ call[c].pc = "pair"
    /\ privateKeys' = Stored(privateKeys, IdOf(call[c].key), call[c].key)
    /\ call' = [call EXCEPT ![c] = NoCall]
    /\ UNCHANGED symKeys

-----------------------------------------------------------------------------
(* The end of a call that adds a symmetric key. *)
AddUnder(id, key) ==
    /\ ~ HasSymKey(id)
    /\ symKeys' = Stored(symKeys, id, key)

(* validateDataIntegrity, of a symmetric key. *)
ValidSymKey(key) == key \in AesKey \ {ZeroKey}

(* The key and the identifier are random. *)
GenerateSymKey(id, key) ==
    /\ ValidSymKey(key)
    /\ AddUnder(id, key)
    /\ UNCHANGED <<privateKeys, call>>

(* A key of the right length, under a random identifier. *)
AddSymKeyDirect(id, key) ==
    /\ key \in AesKey
    /\ AddUnder(id, key)
    /\ UNCHANGED <<privateKeys, call>>

(* Any bytes, under a name the caller has chosen. *)
AddSymKey(x, key) ==
    /\ AddUnder(ToDeterministicID(x), key)
    /\ UNCHANGED <<privateKeys, call>>

(* The random identifier is free, and the key is being derived ... *)
AddSymKeyFromPassword(c, id, key) ==
    /\ call[c] = NoCall
    /\ key \in AesKey
    /\ ~ HasSymKey(id)
    /\ call' = [call EXCEPT ![c] = [pc |-> "password", id |-> id, key |-> key]]
    /\ UNCHANGED <<privateKeys, symKeys>>

(* Faulty form: the check made before the derivation is trusted. *)
StorePasswordKeyUnchecked(c) ==
    /\ call[c].pc = "password"
    /\ symKeys' = Stored(symKeys, call[c].id, call[c].key)
    /\ call' = [call EXCEPT ![c] = NoCall]
    /\ UNCHANGED privateKeys

(* ... and is stored if it still is, or the call fails. *)
StorePasswordKey(c) ==
    /\ call[c].pc = "password"
    /\ IF HasSymKey(call[c].id) THEN UNCHANGED symKeys
       ELSE AddUnder(call[c].id, call[c].key)
    /\ call' = [call EXCEPT ![c] = NoCall]
    /\ UNCHANGED privateKeys

DeleteSymKey(x) ==
    /\ HasSymKey(x)
    /\ symKeys' = Deleted(symKeys, x)
    /\ UNCHANGED <<privateKeys, call>>

KeyStep ==
    \/ \E k \in Identity : NewKeyPair(k) \/ SelectKeyPair(k)
    \/ \E c \in Caller, k \in Identity : AddKeyPair(c, k)
    \/ \E c \in Caller, id \in Id, key \in SymKey : AddSymKeyFromPassword(c, id, key)
    \/ \E c \in Caller : StoreKeyPair(c) \/ StorePasswordKey(c)
    \/ \E id \in Id, key \in SymKey : GenerateSymKey(id, key) \/ AddSymKeyDirect(id, key)
    \/ \E x \in Id \cup Name, key \in SymKey : AddSymKey(x, key)
    \/ \E x \in Id \cup Name : DeleteKeyPair(x) \/ DeleteSymKey(x)
    \/ DeleteKeyPairs

KeySpec == KeyInit /\ [][KeyStep]_keyVars

-----------------------------------------------------------------------------
(***************************************************************************)
(* However the calls of several clients interleave, the store behaves like *)
(* two plain maps whose bindings are never replaced: a client that was     *)
(* given an identifier uses its own key under it until somebody deletes it *)
(* on purpose.  AddKeyPair may store what another call has stored since    *)
(* its check (the same key); AddSymKeyFromPassword checks twice.           *)
(***************************************************************************)
Keys == INSTANCE KeyMap

ImplementsKeyMap == Keys!Spec
=============================================================================
