----------------------------- MODULE MCSettings -----------------------------
(* Small instances of Settings. *)
EXTENDS Settings, TLC

(* A value SetMinimumPoW turns down, and two it accepts. *)
MCInput == {-1, 1, 2}

(* A filter of another size, and one for each topic. *)
MCFilter == {WrongSize} \cup {{t} : t \in Topic}

MCSymmetry == Permutations(Peer) \cup Permutations(Topic)
=============================================================================
