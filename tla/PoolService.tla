---------------------------- MODULE PoolService ----------------------------
(***************************************************************************)
(* What the envelope pool of a node promises to the rest of the node,      *)
(* without goroutines, locks, queues or an index by expiry: a set that     *)
(* takes in one envelope at a time and gives up all the expired ones, and  *)
(* only those, at once.  EnvelopePool implements it.                       *)
(***************************************************************************)
EXTENDS Admission

CONSTANTS Envelope, NodeSettings, MaxTime

VARIABLES
    now,             \* the clock of the node
    pool,            \* the envelopes in the pool
    accepted         \* how often each envelope was taken in

serviceVars == <<now, pool, accepted>>

Init ==
    /\ now = 1
    /\ pool = {}
    /\ accepted = [e \in Envelope |-> 0]

Tick ==
    /\ now < MaxTime
    /\ now' = now + 1
    /\ UNCHANGED <<pool, accepted>>

(* The work of e covers the seconds it has left to live. *)
PaysFor(e, p) == e.work >= p * (e.expiry - now)

(***************************************************************************)
(* What is taken in is small enough, of interest, and not there already.   *)
(* While it is alive it is taken in for the first time and has done its    *)
(* work; it may also have expired since add made its checks.               *)
(***************************************************************************)
Accept(e) ==
    /\ e \notin pool
    /\ SizeAllowed(e, NodeSettings)
    /\ BloomAllowed(e, NodeSettings)
    /\ ~ Expired(e, now) => /\ accepted[e] = 0
                            /\ \/ PaysFor(e, NodeSettings.minPow)
                               \/ PaysFor(e, NodeSettings.minPowTolerance)
    /\ pool' = pool \cup {e}
    /\ accepted' = [accepted EXCEPT ![e] = @ + 1]
    /\ UNCHANGED now

Sweep ==
    /\ pool' = {e \in pool : ~ Expired(e, now)}
    /\ UNCHANGED <<now, accepted>>

Next == Tick \/ Sweep \/ \E e \in Envelope : Accept(e)

Spec == Init /\ [][Next]_serviceVars
=============================================================================
