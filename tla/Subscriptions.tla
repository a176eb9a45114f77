---------------------------- MODULE Subscriptions ----------------------------
(***************************************************************************)
(* The filters of a node and the bloom filter it advertises for them:      *)
(* Subscribe (Filters.Install, then updateBloomFilter), Unsubscribe,       *)
(* SetBloomFilter, the dispatch of an envelope to the filters              *)
(* (NotifyWatchers) and the retrieval of messages by the client.           *)
(*                                                                         *)
(* Install, Uninstall and NotifyWatchers hold the mutex of Filters and are *)
(* one step each.  updateBloomFilter holds none: it reads the advertised   *)
(* filter twice and then stores a new one, in three steps.                 *)
(*                                                                         *)
(* Clients subscribe with criteria, records [call, topics, symmetric, key, *)
(* src, pow, allowP2P]: the RPC call, a sequence of topics, the key and    *)
(* its kind, a source or AnySource.  A filter is known by its criteria;    *)
(* FilterTopics are the topics the call made of them, none for all.  An    *)
(* envelope is a record [topic, key, src, pow]: the key that opens it, who *)
(* signed it and its PoW.  A message is known by the hash of its envelope, *)
(* that is, the envelope.                                                  *)
(***************************************************************************)
EXTENDS Naturals, FiniteSets, Sequences, Functions

CONSTANTS
    Topic,
    Bit,             \* positions of a bloom filter
    TopicToBloom,    \* the bits of each topic
    Criteria,        \* what clients subscribe with, each of them once
    Envelope,        \* envelopes that may arrive
    AnySource,       \* the src of a filter that takes messages of anybody
    Id,              \* identifiers GenerateRandomID may return
    Subscriber,      \* goroutines that call Subscribe
    InitialBloom,    \* advertised filters to start from
    UserBloom        \* filters the user sets with SetBloomFilter

ASSUME BloomAssumption ==
    /\ TopicToBloom \in [Topic -> SUBSET Bit]
    /\ InitialBloom \subseteq SUBSET Bit
    /\ UserBloom \subseteq SUBSET Bit
ASSUME CriteriaAssumption ==
    \A c \in Criteria : /\ c.call \in {"Messages", "NewMessageFilter"}
                        /\ c.topics \in Seq(Topic) /\ c.pow \in Nat
ASSUME EnvelopeAssumption == \A e \in Envelope : e.topic \in Topic /\ e.pow \in Nat

(***************************************************************************)
(* The two calls that subscribe.  Messages wants topics with a symmetric   *)
(* key; the slices it appends all refer to its loop variable, which holds  *)
(* the last topic in the end.                                              *)
(***************************************************************************)
Accepted(c) == c.call = "Messages" /\ c.symmetric => c.topics # << >>

FilterTopics(c) ==
    IF c.call = "Messages" /\ c.topics # << >> THEN {c.topics[Len(c.topics)]} ELSE Range(c.topics)

Filter == {c \in Criteria : Accepted(c)}

VARIABLES
    watchers,         \* Filters.watchers: id -> filter
    topicMatcher,     \* Filters.topicMatcher
    allTopicsMatcher, \* Filters.allTopicsMatcher
    store,            \* store[f]: the MemoryMessageStore of a filter
    bloom,            \* settings[bloomFilterIdx]; Bit also stands for nil
    sub,              \* sub[s]: where a call of Subscribe is
    used,             \* history: filters that were subscribed
    due,              \* history: due[f]: pooled envelopes that came since the
                      \* last retrieval and that f wanted
    dueDirect         \* history: dueDirect[f]: the same for direct messages

filterVars == <<watchers, topicMatcher, allTopicsMatcher>>
histories == <<due, dueDirect>>
vars == <<filterVars, store, bloom, sub, used, histories>>

NotCalling == [pc |-> "idle", aggregate |-> {}]

Init ==
    /\ watchers = << >>
    /\ topicMatcher = [t \in Topic |-> {}]
    /\ allTopicsMatcher = {}
    /\ store = [f \in Filter |-> {}]
    /\ bloom \in InitialBloom
    /\ sub = [s \in Subscriber |-> NotCalling]
    /\ used = {}
    /\ due = [f \in Filter |-> {}]
    /\ dueDirect = [f \in Filter |-> {}]

Installed == {watchers[id] : id \in DOMAIN watchers}

-----------------------------------------------------------------------------
(* Faulty form: positions are off by one. *)
AggregateShifted(f) == UNION {{b + 1 : b \in TopicToBloom[t]} : t \in FilterTopics(f)}

(* The bits of all topics of a filter. *)
Aggregate(f) == UNION {TopicToBloom[t] : t \in FilterTopics(f)}

(* Filters.Install, with addTopicMatcher. *)
Install(id, f) ==
    /\ watchers' = [x \in DOMAIN watchers \cup {id} |-> IF x = id THEN f ELSE watchers[x]]
    /\ allTopicsMatcher' = allTopicsMatcher \cup {g \in {f} : FilterTopics(g) = {}}
    /\ topicMatcher' = [t \in Topic |-> IF t \in FilterTopics(f) THEN topicMatcher[t] \cup {f}
                                       ELSE topicMatcher[t]]

(* Faulty form: the id may be in use. *)
SubscribeAnyId(s, id, f) ==
    /\ sub[s].pc = "idle"
    /\ f \notin used
    /\ Install(id, f)
    /\ used' = used \cup {f}
    /\ sub' = [sub EXCEPT ![s] = [pc |-> "match", aggregate |-> Aggregate(f)]]
    /\ UNCHANGED <<store, bloom, histories>>

(* Subscribe begins: a fresh filter gets a fresh id. *)
Subscribe(s, id, f) ==
    /\ sub[s].pc = "idle"
    /\ f \notin used
    /\ id \notin DOMAIN watchers
    /\ Install(id, f)
    /\ used' = used \cup {f}
    /\ sub' = [sub EXCEPT ![s] = [pc |-> "match", aggregate |-> Aggregate(f)]]
    /\ UNCHANGED <<store, bloom, histories>>

(* updateBloomFilter: does the advertised filter cover the topics? *)
MatchBloom(s) ==
    /\ sub[s].pc = "match"
    /\ sub' = [sub EXCEPT ![s] = IF @.aggregate \subseteq bloom THEN NotCalling
                                 ELSE [@ EXCEPT !.pc = "merge"]]
    /\ UNCHANGED <<filterVars, store, bloom, used, histories>>

(* Faulty form: the advertised filter is replaced, not merged. *)
MergeNothing(s) ==
    /\ sub[s].pc = "merge"
    /\ sub' = [sub EXCEPT ![s].pc = "store"]
    /\ UNCHANGED <<filterVars, store, bloom, used, histories>>

(* The advertised filter is read again and merged ... *)
MergeBloom(s) ==
    /\ sub[s].pc = "merge"
    /\ sub' = [sub EXCEPT ![s] = [pc |-> "store", aggregate |-> @.aggregate \cup bloom]]
    /\ UNCHANGED <<filterVars, store, bloom, used, histories>>

(* ... and the result stored by SetBloomFilter. *)
StoreBloom(s) ==
    /\ sub[s].pc = "store"
    /\ bloom' = sub[s].aggregate
    /\ sub' = [sub EXCEPT ![s] = NotCalling]
    /\ UNCHANGED <<filterVars, store, used, histories>>

SetBloomFilter(b) ==
    /\ bloom' = b
    /\ UNCHANGED <<filterVars, store, sub, used, histories>>

(* Unsubscribe: Filters.Uninstall, with removeFromTopicMatchers. *)
Unsubscribe(id) ==
    /\ id \in DOMAIN watchers
    /\ LET f == watchers[id]
       IN  /\ watchers' = [x \in DOMAIN watchers \ {id} |-> watchers[x]]
           /\ allTopicsMatcher' = allTopicsMatcher \ {f}
           /\ topicMatcher' = [t \in Topic |-> IF t \in FilterTopics(f) THEN topicMatcher[t] \ {f}
                                              ELSE topicMatcher[t]]
    /\ UNCHANGED <<store, bloom, sub, used, histories>>

-----------------------------------------------------------------------------
(* MatchEnvelope looks at the cached PoW, MatchMessage at that of the message. *)
MatchEnvelope(f, cached) == f.pow = 0 \/ cached >= f.pow
(* Faulty form: the key is not compared once the message is open. *)
MatchAnyMessage(f, e) == e.pow >= f.pow
MatchMessage(f, e) == e.pow >= f.pow /\ f.key = e.key
SourceMatches(f, e) == f.src = AnySource \/ f.src = e.src

(***************************************************************************)
(* What NotifyWatchers has done so far: whether the message is open, the   *)
(* PoW cached in the envelope (Open computes it), and who was triggered.   *)
(***************************************************************************)
NotifyOne(state, f, e, p2p) ==
    IF p2p /\ ~ f.allowP2P THEN state
    ELSE LET match == IF state.open THEN MatchMessage(f, e) ELSE MatchEnvelope(f, state.cached)
             open  == state.open \/ (match /\ f.key = e.key)
         IN  [open |-> open,
              cached |-> IF open THEN e.pow ELSE state.cached,
              triggered |-> IF match /\ open /\ SourceMatches(f, e)
                            THEN state.triggered \cup {f} ELSE state.triggered]

(* The filters it triggers when it goes through the candidates in this order. *)
Triggered(e, p2p, cached, order) ==
    LET after[i \in 0 .. Len(order)] ==
            IF i = 0 THEN [open |-> FALSE, cached |-> cached, triggered |-> {}]
            ELSE NotifyOne(after[i - 1], order[i], e, p2p)
    IN  after[Len(order)].triggered

(* getWatchersByTopic: two Go maps, one after the other, each in any order. *)
AnyOrder(S) == Bijection(1 .. Cardinality(S), S)
Candidates(e) ==
    {all \o some : all \in AnyOrder(allTopicsMatcher), some \in AnyOrder(topicMatcher[e.topic])}

(* NotifyWatchers: the message goes to the stores of the filters triggered. *)
NotifyWatchers(e, p2p, cached) ==
    \E order \in Candidates(e) :
        LET triggered == Triggered(e, p2p, cached, order)
        IN  store' = [f \in Filter |-> IF f \in triggered THEN store[f] \cup {e} ELSE store[f]]

(* What a client means by its criteria. *)
Wants(f, e, p2p) ==
    /\ f.topics = << >> \/ e.topic \in Range(f.topics)
    /\ p2p => f.allowP2P
    /\ f.key = e.key
    /\ e.pow >= f.pow
    /\ SourceMatches(f, e)

Noted(history, e, p2p) ==
    [f \in Filter |-> IF f \in Installed /\ Wants(f, e, p2p) THEN history[f] \cup {e}
                      ELSE history[f]]

(* processQueue for an envelope of the pool, posted by add to the queue of
   direct messages in light client mode; add has computed its PoW. *)
NotifyPooled(e, p2p) ==
    /\ NotifyWatchers(e, p2p, e.pow)
    /\ due' = Noted(due, e, p2p)
    /\ UNCHANGED <<filterVars, bloom, sub, used, dueDirect>>

(* processP2P for a message of a trusted peer, whose PoW nobody has computed. *)
NotifyDirect(e) ==
    /\ NotifyWatchers(e, TRUE, 0)
    /\ dueDirect' = Noted(dueDirect, e, TRUE)
    /\ UNCHANGED <<filterVars, bloom, sub, used, due>>

(* Filter.Retrieve, which empties the store; the client may do so late. *)
Retrieve(f) ==
    /\ store[f] # {}
    /\ store' = [store EXCEPT ![f] = {}]
    /\ due' = [due EXCEPT ![f] = {}]
    /\ dueDirect' = [dueDirect EXCEPT ![f] = {}]
    /\ UNCHANGED <<filterVars, bloom, sub, used>>

SubscribeStep(s) ==
    \/ \E id \in Id, f \in Filter : Subscribe(s, id, f)
    \/ MatchBloom(s) \/ MergeBloom(s) \/ StoreBloom(s)

Next ==
    \/ \E s \in Subscriber : SubscribeStep(s)
    \/ \E b \in UserBloom : SetBloomFilter(b)
    \/ \E id \in Id : Unsubscribe(id)
    \/ \E e \in Envelope, p2p \in BOOLEAN : NotifyPooled(e, p2p)
    \/ \E e \in Envelope : NotifyDirect(e)
    \/ \E f \in Filter : Retrieve(f)

Spec == Init /\ [][Next]_vars

-----------------------------------------------------------------------------
(* The variables keep their types. *)
TypeOK ==
    /\ DOMAIN watchers \subseteq Id /\ Installed \subseteq used
    /\ topicMatcher \in [Topic -> SUBSET Filter]
    /\ allTopicsMatcher \subseteq Filter
    /\ store \in [Filter -> SUBSET Envelope]
    /\ bloom \subseteq Bit
    /\ \A s \in Subscriber : sub[s].pc \in {"idle", "match", "merge", "store"}
                             /\ sub[s].aggregate \subseteq Bit
    /\ used \subseteq Filter

(***************************************************************************)
(* The matchers are an index of the watchers: a filter is in the matchers  *)
(* of its topics, or in that of all topics, exactly while it is installed. *)
(* Install and Uninstall maintain the three maps separately.               *)
(***************************************************************************)
MatchersIndexWatchers ==
    /\ allTopicsMatcher = {f \in Installed : FilterTopics(f) = {}}
    /\ \A t \in Topic : topicMatcher[t] = {f \in Installed : t \in FilterTopics(f)}

(* An envelope is on one of the topics a filter was installed with. *)
OnTopic(f, e) == FilterTopics(f) = {} \/ e.topic \in FilterTopics(f)

(***************************************************************************)
(* NotifyWatchers serves every installed filter as if it were the only     *)
(* one: a filter holds no message but those that were on its topics and    *)
(* met its key, source, PoW and rule on direct messages when they came,    *)
(* and all such from the pool.  The message is decrypted once, for the     *)
(* first filter whose key fits, and the others are judged by the result,   *)
(* in the arbitrary order of two maps.                                     *)
(***************************************************************************)
StoredIsMatched ==
    \A f \in Filter :
        /\ \A e \in store[f] : OnTopic(f, e) /\ e \in due[f] \cup dueDirect[f]
        /\ \A e \in due[f] : OnTopic(f, e) => e \in store[f]

Quiet == \A s \in Subscriber : sub[s].pc = "idle"

(***************************************************************************)
(* When no Subscribe is under way, the advertised bloom filter lets the    *)
(* topics of every installed filter through: peers send, and add accepts,  *)
(* what the clients have asked for.                                        *)
(***************************************************************************)
AdvertisedCoversTopics ==
    Quiet => \A f \in Installed : Aggregate(f) \subseteq bloom

-----------------------------------------------------------------------------
(* What a comment of the code says and the code does not do. *)

(***************************************************************************)
(* A subscription delivers the messages "that match the given set of       *)
(* criteria": all that came from the pool and met the criteria its client  *)
(* gave, the list of topics included, and no others.                       *)
(***************************************************************************)
StoredIsWanted ==
    \A f \in Filter :
        due[f] \subseteq store[f] /\ store[f] \subseteq due[f] \cup dueDirect[f]
=============================================================================
