------------------------------- MODULE KeyMap -------------------------------
(***************************************************************************)
(* What the key store of a node promises: two maps from identifiers to     *)
(* keys.  An identifier is bound to a key when it has none and keeps the   *)
(* key until it is removed; nobody's key is replaced under an identifier   *)
(* that is in use.  KeyStore implements it.                                *)
(***************************************************************************)
EXTENDS Functions

CONSTANTS Id, Identity, SymKey

VARIABLES
    privateKeys,     \* id -> key pair
    symKeys          \* id -> symmetric key

mapVars == <<privateKeys, symKeys>>

Init == privateKeys = << >> /\ symKeys = << >>

(* The map with one more binding. *)
Bound(map, id, key) == [x \in DOMAIN map \cup {id} |-> IF x = id THEN key ELSE map[x]]

BindSymKey ==
    \E id \in Id \ DOMAIN symKeys, key \in SymKey :
        symKeys' = Bound(symKeys, id, key) /\ UNCHANGED privateKeys

BindKeyPair ==
    \E id \in Id \ DOMAIN privateKeys, k \in Identity :
        privateKeys' = Bound(privateKeys, id, k) /\ UNCHANGED symKeys

(* All identities but one are dropped, or all of them. *)
SelectKeyPair ==
    \E id \in Id, k \in Identity :
        /\ id \in DOMAIN privateKeys => privateKeys[id] = k
        /\ privateKeys' = Bound(<< >>, id, k)
        /\ UNCHANGED symKeys

Remove ==
    \/ \E S \in SUBSET DOMAIN privateKeys :
           privateKeys' = Restrict(privateKeys, S) /\ UNCHANGED symKeys
    \/ \E S \in SUBSET DOMAIN symKeys :
           symKeys' = Restrict(symKeys, S) /\ UNCHANGED privateKeys

Next == BindSymKey \/ BindKeyPair \/ SelectKeyPair \/ Remove

Spec == Init /\ [][Next]_mapVars
=============================================================================
