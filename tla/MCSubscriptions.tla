--------------------------- MODULE MCSubscriptions ---------------------------
(* Small instances of Subscriptions: two topics that share a bit. *)
EXTENDS Subscriptions, TLC

MCTopic == {"a", "b"}
MCBit == 1 .. 3
MCTopicToBloom == [t \in MCTopic |-> IF t = "a" THEN {1, 2} ELSE {2, 3}]

Make(call, topics, key, src, pow, allowP2P) ==
    [call |-> call, topics |-> topics, symmetric |-> key = "k", key |-> key, src |-> src,
     pow |-> pow, allowP2P |-> allowP2P]

(* A filter on a topic without demands, one on both topics that wants the
   messages of a sender with some PoW, one on every topic with another key, one
   that gives both topics to Messages, and one that is refused. *)
OnA == Make("NewMessageFilter", <<"a">>, "k", "any", 0, TRUE)
OnBoth == Make("NewMessageFilter", <<"a", "b">>, "k", "s", 2, TRUE)
OnAll == Make("Messages", << >>, "l", "any", 1, FALSE)
OnB == Make("Messages", <<"a", "b">>, "k", "s", 0, FALSE)
NoTopics == Make("Messages", << >>, "k", "any", 0, TRUE)

MCCriteria == {OnA, OnB, OnBoth, OnAll, NoTopics}
MCTopicCriteria == {OnA, OnB}
MCMessagesCriteria == {OnB, OnAll}

MCEnvelope ==
    {[topic |-> "a", key |-> "k", src |-> "s", pow |-> 2],
     [topic |-> "a", key |-> "k", src |-> "anonymous", pow |-> 3],
     [topic |-> "b", key |-> "l", src |-> "s", pow |-> 2]}

(* Nothing is advertised at first; the user may advertise everything, which
   is also how a node behaves whose bloom filter was never set. *)
MCNoBloom == {{}}
MCUserBloom == {MCBit}
MCNoUserBloom == {}

(* Identifiers are random and only compared. *)
MCSymmetry == Permutations(Id)
=============================================================================
