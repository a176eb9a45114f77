------------------------ MODULE SubscriptionsProofs ------------------------
(***************************************************************************)
(* Proofs about Subscriptions: the matchers index the watchers, one caller *)
(* of Subscribe at a time keeps the advertised bloom filter wide enough,   *)
(* and the stores hold what matches their filters, for every set of topics,*)
(* criteria, envelopes and identifiers.  The last one is about the loop of *)
(* NotifyWatchers: its turns are followed to the first one that goes wrong *)
(* (a least counterexample), over any order of finitely many filters.      *)
(***************************************************************************)
EXTENDS Subscriptions, TLAPS

(* A filter has one id: it is subscribed once, under an id not in use. *)
OneIdEach == \A i, j \in DOMAIN watchers : watchers[i] = watchers[j] => i = j

SubState == [pc : {"idle", "match", "merge", "store"}, aggregate : SUBSET Bit]

(* TypeOK, with the types it leaves to the reader. *)
Types ==
    /\ DOMAIN watchers \subseteq Id /\ used \subseteq Filter
    /\ \A id \in DOMAIN watchers : watchers[id] \in used
    /\ topicMatcher \in [Topic -> SUBSET Filter]
    /\ allTopicsMatcher \subseteq Filter
    /\ store \in [Filter -> SUBSET Envelope]
    /\ bloom \subseteq Bit
    /\ sub \in [Subscriber -> SubState]

SubscriptionsInv == Types /\ OneIdEach /\ MatchersIndexWatchers

-----------------------------------------------------------------------------
(* The bits of the topics of a filter are positions of a bloom filter. *)
LEMMA AggregateType ==
    ASSUME NEW f \in Filter
    PROVE  Aggregate(f) \subseteq Bit
<1>1. FilterTopics(f) \subseteq Topic
  <2>1. f.topics \in Seq(Topic)
    BY CriteriaAssumption, Zenon DEF Filter
  <2>2. f.topics # << >> => f.topics[Len(f.topics)] \in Topic
    BY <2>1
  <2>3. Range(f.topics) \subseteq Topic
    BY <2>1 DEF Range
  <2> QED  BY <2>2, <2>3, Zenon DEF FilterTopics
<1> QED  BY <1>1, BloomAssumption DEF Aggregate

(* Filters.Install keeps the three maps in step, whatever else changes. *)
LEMMA InstallIndexes ==
    ASSUME SubscriptionsInv, NEW id \in Id, NEW f \in Filter,
           f \notin used, id \notin DOMAIN watchers, Install(id, f), used' = used \cup {f}
    PROVE  /\ DOMAIN watchers' \subseteq Id
           /\ \A x \in DOMAIN watchers' : watchers'[x] \in used'
           /\ topicMatcher' \in [Topic -> SUBSET Filter]
           /\ allTopicsMatcher' \subseteq Filter
           /\ OneIdEach' /\ MatchersIndexWatchers'
           /\ Installed' = Installed \cup {f}
<1> USE DEF SubscriptionsInv, Types
<1>1. /\ DOMAIN watchers' = DOMAIN watchers \cup {id}
      /\ watchers'[id] = f
      /\ \A x \in DOMAIN watchers : watchers'[x] = watchers[x]
  BY Zenon DEF Install
<1>2. Installed' = Installed \cup {f}
  BY <1>1 DEF Installed
<1>3. \A x \in DOMAIN watchers' : watchers'[x] \in used'
  BY <1>1, Zenon
<1>4. OneIdEach'
  BY <1>1, Zenon DEF OneIdEach
<1>5. /\ topicMatcher' \in [Topic -> SUBSET Filter]
      /\ allTopicsMatcher' \subseteq Filter
  BY Zenon DEF Install
<1>6. allTopicsMatcher' = {g \in Installed' : FilterTopics(g) = {}}
  BY <1>2, Zenon DEF Install, MatchersIndexWatchers
<1>7. ASSUME NEW t \in Topic
      PROVE  topicMatcher'[t] = {g \in Installed' : t \in FilterTopics(g)}
  BY <1>2, Zenon DEF Install, MatchersIndexWatchers
<1> QED  BY <1>1, <1>2, <1>3, <1>4, <1>5, <1>6, <1>7, Zenon DEF MatchersIndexWatchers

(* So does Uninstall, as nobody else has the filter. *)
LEMMA UnsubscribeIndexes ==
    ASSUME SubscriptionsInv, NEW id \in Id, Unsubscribe(id)
    PROVE  SubscriptionsInv' /\ Installed' = Installed \ {watchers[id]}
<1> USE DEF SubscriptionsInv, Types
<1> DEFINE f == watchers[id]
<1>1. /\ DOMAIN watchers' = DOMAIN watchers \ {id}
      /\ \A x \in DOMAIN watchers' : watchers'[x] = watchers[x]
      /\ id \in DOMAIN watchers
  BY Zenon DEF Unsubscribe
<1>2. \A x \in DOMAIN watchers' : watchers[x] # f
  BY <1>1, Zenon DEF OneIdEach
<1>3. Installed' = Installed \ {f}
  BY <1>1, <1>2, Zenon DEF Installed
<1>4. OneIdEach'
  BY <1>1, Zenon DEF OneIdEach
<1>5. Types'
  BY <1>1, Zenon DEF Unsubscribe
<1>6. allTopicsMatcher' = {g \in Installed' : FilterTopics(g) = {}}
  BY <1>3, Zenon DEF Unsubscribe, MatchersIndexWatchers
<1>7. ASSUME NEW t \in Topic
      PROVE  topicMatcher'[t] = {g \in Installed' : t \in FilterTopics(g)}
  BY <1>3, Zenon DEF Unsubscribe, MatchersIndexWatchers
<1> QED  BY <1>3, <1>4, <1>5, <1>6, <1>7, Zenon DEF MatchersIndexWatchers

(* NotifyWatchers only puts envelopes into the stores. *)
LEMMA NotifyStores ==
    ASSUME Types, NEW e \in Envelope, NEW p2p, NEW cached, NotifyWatchers(e, p2p, cached)
    PROVE  store' \in [Filter -> SUBSET Envelope]
<1>1. PICK order \in Candidates(e) :
          store' = [f \in Filter |-> IF f \in Triggered(e, p2p, cached, order)
                                     THEN store[f] \cup {e} ELSE store[f]]
  BY Zenon DEF NotifyWatchers
<1>2. \A f \in Filter : store[f] \subseteq Envelope
  BY Zenon DEF Types
<1> QED  BY <1>1, <1>2, Zenon

-----------------------------------------------------------------------------
LEMMA SubscriptionsInit == Init => SubscriptionsInv
  BY BloomAssumption
  DEF Init, SubscriptionsInv, Types, OneIdEach, MatchersIndexWatchers, Installed, SubState,
      NotCalling

(* Steps that change none of the maps keep the index. *)
LEMMA IndexUnchanged ==
    ASSUME SubscriptionsInv, UNCHANGED filterVars
    PROVE  OneIdEach' /\ MatchersIndexWatchers' /\ Installed' = Installed
  BY DEF filterVars, SubscriptionsInv, OneIdEach, MatchersIndexWatchers, Installed

LEMMA SubscribeStepInv ==
    ASSUME SubscriptionsInv, NEW s \in Subscriber, SubscribeStep(s)
    PROVE  SubscriptionsInv'
<1>1. ASSUME NEW id \in Id, NEW f \in Filter, Subscribe(s, id, f)
      PROVE  SubscriptionsInv'
  <2>1. Install(id, f) /\ f \notin used /\ id \notin DOMAIN watchers /\ used' = used \cup {f}
    BY <1>1, Zenon DEF Subscribe
  <2>2. [pc |-> "match", aggregate |-> Aggregate(f)] \in SubState
    BY AggregateType, Zenon DEF SubState
  <2>3. sub' \in [Subscriber -> SubState] /\ UNCHANGED <<store, bloom>>
    BY <1>1, <2>2, Zenon DEF Subscribe, SubscriptionsInv, Types
  <2> QED  BY <2>1, <2>3, InstallIndexes, Zenon DEF SubscriptionsInv, Types
<1>2. CASE MatchBloom(s)
  <2>1. Types'
    BY <1>2, Zenon DEF MatchBloom, filterVars, SubscriptionsInv, Types, SubState, NotCalling
  <2> QED  BY <1>2, <2>1, IndexUnchanged, Zenon DEF MatchBloom, SubscriptionsInv
<1>3. CASE MergeBloom(s)
  <2>1. Types'
    BY <1>3, Zenon DEF MergeBloom, filterVars, SubscriptionsInv, Types, SubState
  <2> QED  BY <1>3, <2>1, IndexUnchanged, Zenon DEF MergeBloom, SubscriptionsInv
<1>4. CASE StoreBloom(s)
  <2>1. Types'
    BY <1>4, Zenon DEF StoreBloom, filterVars, SubscriptionsInv, Types, SubState, NotCalling
  <2> QED  BY <1>4, <2>1, IndexUnchanged, Zenon DEF StoreBloom, SubscriptionsInv
<1> QED  BY <1>1, <1>2, <1>3, <1>4, Zenon DEF SubscribeStep

LEMMA SubscriptionsNext == SubscriptionsInv /\ [Next]_vars => SubscriptionsInv'
<1> SUFFICES ASSUME SubscriptionsInv, [Next]_vars
             PROVE  SubscriptionsInv'
  BY Zenon
<1>1. ASSUME NEW s \in Subscriber, SubscribeStep(s)
      PROVE  SubscriptionsInv'
  BY <1>1, SubscribeStepInv, Zenon
<1>2. ASSUME NEW b \in UserBloom, SetBloomFilter(b)
      PROVE  SubscriptionsInv'
  <2>1. Types'
    BY <1>2, BloomAssumption, Zenon DEF SetBloomFilter, filterVars, SubscriptionsInv, Types
  <2> QED  BY <1>2, <2>1, IndexUnchanged, Zenon DEF SetBloomFilter, SubscriptionsInv
<1>3. ASSUME NEW id \in Id, Unsubscribe(id)
      PROVE  SubscriptionsInv'
  BY <1>3, UnsubscribeIndexes, Zenon
<1>4. ASSUME NEW e \in Envelope, NEW p2p \in BOOLEAN, NotifyPooled(e, p2p)
      PROVE  SubscriptionsInv'
  <2>1. store' \in [Filter -> SUBSET Envelope]
    BY <1>4, NotifyStores, Zenon DEF NotifyPooled, SubscriptionsInv
  <2>2. Types'
    BY <1>4, <2>1, Zenon DEF NotifyPooled, filterVars, SubscriptionsInv, Types
  <2> QED  BY <1>4, <2>2, IndexUnchanged, Zenon DEF NotifyPooled, SubscriptionsInv
<1>5. ASSUME NEW e \in Envelope, NotifyDirect(e)
      PROVE  SubscriptionsInv'
  <2>1. store' \in [Filter -> SUBSET Envelope]
    BY <1>5, NotifyStores, Zenon DEF NotifyDirect, SubscriptionsInv
  <2>2. Types'
    BY <1>5, <2>1, Zenon DEF NotifyDirect, filterVars, SubscriptionsInv, Types
  <2> QED  BY <1>5, <2>2, IndexUnchanged, Zenon DEF NotifyDirect, SubscriptionsInv
<1>6. ASSUME NEW f \in Filter, Retrieve(f)
      PROVE  SubscriptionsInv'
  <2>1. Types'
    BY <1>6, Zenon DEF Retrieve, filterVars, SubscriptionsInv, Types
  <2> QED  BY <1>6, <2>1, IndexUnchanged, Zenon DEF Retrieve, SubscriptionsInv
<1>7. CASE UNCHANGED vars
  <2>1. Types'
    BY <1>7, Zenon DEF vars, filterVars, SubscriptionsInv, Types
  <2> QED  BY <1>7, <2>1, IndexUnchanged, Zenon DEF vars, SubscriptionsInv
<1> QED  BY <1>1, <1>2, <1>3, <1>4, <1>5, <1>6, <1>7, Zenon DEF Next

(***************************************************************************)
(* However calls of Subscribe, Unsubscribe and NotifyWatchers interleave,  *)
(* the matchers that getWatchersByTopic reads agree with the watchers.     *)
(***************************************************************************)
THEOREM FiltersIndexed == Spec => []MatchersIndexWatchers
<1>1. SubscriptionsInv => MatchersIndexWatchers
  BY Zenon DEF SubscriptionsInv
<1> QED  BY <1>1, SubscriptionsInit, SubscriptionsNext, PTL DEF Spec

(* Every step keeps the types of the variables: those of the invariant. *)
THEOREM SubscriptionsTypeCorrect == Spec => []TypeOK
<1>1. SubscriptionsInv => TypeOK
  BY Zenon DEF SubscriptionsInv, Types, TypeOK, Installed, SubState
<1> QED  BY <1>1, SubscriptionsInit, SubscriptionsNext, PTL DEF Spec

-----------------------------------------------------------------------------
(***************************************************************************)
(* Where the topics of an installed filter are while a call of Subscribe   *)
(* is under way: advertised, or in the hands of the call, and all of them  *)
(* in its hands when it is about to store.                                 *)
(***************************************************************************)
Covered(s) ==
    \A f \in Installed :
        /\ sub[s].pc = "idle" => Aggregate(f) \subseteq bloom
        /\ sub[s].pc \in {"match", "merge"} => Aggregate(f) \subseteq bloom \cup sub[s].aggregate
        /\ sub[s].pc = "store" => Aggregate(f) \subseteq sub[s].aggregate

LEMMA CoveredNext ==
    ASSUME NEW s \in Subscriber, Subscriber = {s}, UserBloom \subseteq {Bit},
           SubscriptionsInv, Covered(s), [Next]_vars
    PROVE  Covered(s)'
<1>1. ASSUME NEW id \in Id, NEW f \in Filter, Subscribe(s, id, f)
      PROVE  Covered(s)'
  <2>1. Install(id, f) /\ f \notin used /\ id \notin DOMAIN watchers /\ used' = used \cup {f}
    BY <1>1, Zenon DEF Subscribe
  <2>2. Installed' = Installed \cup {f}
    BY <2>1, InstallIndexes, Zenon
  <2>3. /\ sub[s].pc = "idle" /\ bloom' = bloom
        /\ sub'[s].pc = "match" /\ sub'[s].aggregate = Aggregate(f)
    BY <1>1, Zenon DEF Subscribe, SubscriptionsInv, Types
  <2>4. \A g : Aggregate(g)' = Aggregate(g)
    BY Zenon DEF Aggregate, FilterTopics
  <2>5. \A g \in Installed' : Aggregate(g) \subseteq bloom' \cup sub'[s].aggregate
    BY <2>2, <2>3, Zenon DEF Covered
  <2> QED  BY <2>3, <2>4, <2>5, Zenon DEF Covered
<1>2. CASE MatchBloom(s)
  <2>1. Installed' = Installed
    BY <1>2, IndexUnchanged, Zenon DEF MatchBloom
  <2> QED  BY <1>2, <2>1 DEF MatchBloom, Covered, SubscriptionsInv, Types, SubState, NotCalling,
                             Aggregate, FilterTopics
<1>3. CASE MergeBloom(s)
  <2>1. Installed' = Installed
    BY <1>3, IndexUnchanged, Zenon DEF MergeBloom
  <2> QED  BY <1>3, <2>1, Zenon DEF MergeBloom, Covered, SubscriptionsInv, Types, SubState
<1>4. CASE StoreBloom(s)
  <2>1. Installed' = Installed
    BY <1>4, IndexUnchanged, Zenon DEF StoreBloom
  <2> QED  BY <1>4, <2>1, Zenon DEF StoreBloom, Covered, SubscriptionsInv, Types, SubState, NotCalling
<1>5. ASSUME NEW b \in UserBloom, SetBloomFilter(b)
      PROVE  Covered(s)'
  <2>1. Installed' = Installed /\ bloom' = Bit /\ sub' = sub
    BY <1>5, IndexUnchanged, Zenon DEF SetBloomFilter
  <2>2. \A f \in Installed : Aggregate(f) \subseteq Bit
    BY AggregateType, Zenon DEF Installed, SubscriptionsInv, Types
  <2> QED  BY <2>1, <2>2, Zenon DEF Covered
<1>6. ASSUME NEW id \in Id, Unsubscribe(id)
      PROVE  Covered(s)'
  <2>1. Installed' \subseteq Installed /\ bloom' = bloom /\ sub' = sub
    BY <1>6, UnsubscribeIndexes, Zenon DEF Unsubscribe
  <2> QED  BY <2>1, Zenon DEF Covered
<1>7. ASSUME UNCHANGED <<filterVars, bloom, sub>>
      PROVE  Covered(s)'
  BY <1>7, IndexUnchanged, Zenon DEF Covered
<1> QED
  BY <1>1, <1>2, <1>3, <1>4, <1>5, <1>6, <1>7, Zenon
  DEF Next, SubscribeStep, NotifyPooled, NotifyDirect, Retrieve, vars

(***************************************************************************)
(* With one caller of Subscribe at a time, and a user who narrows nothing, *)
(* updateBloomFilter keeps what is advertised wide enough for every filter *)
(* installed.  SubscriptionsConcurrent shows that one caller is needed.    *)
(***************************************************************************)
THEOREM FiltersAdvertised ==
    ASSUME NEW CONSTANT s \in Subscriber, Subscriber = {s}, UserBloom \subseteq {Bit}
    PROVE  Spec => []AdvertisedCoversTopics
<1>1. Init => Covered(s)
  BY DEF Init, Covered, Installed
<1>2. SubscriptionsInv /\ Covered(s) /\ [Next]_vars => Covered(s)'
  BY CoveredNext, Zenon
<1>3. Covered(s) => AdvertisedCoversTopics
  BY Zenon DEF Covered, AdvertisedCoversTopics, Quiet
<1> QED  BY <1>1, <1>2, <1>3, SubscriptionsInit, SubscriptionsNext, PTL DEF Spec
-----------------------------------------------------------------------------
INSTANCE FiniteSetTheorems

(* Go maps hold finitely many filters. *)
FiniteMatchers == IsFiniteSet(allTopicsMatcher) /\ \A t \in Topic : IsFiniteSet(topicMatcher[t])

LEMMA FiniteMatchersInit == Init => FiniteMatchers
  BY FS_EmptySet, Zenon DEF Init, FiniteMatchers

LEMMA FiniteMatchersNext ==
    ASSUME Types, FiniteMatchers, [Next]_vars
    PROVE  FiniteMatchers'
<1> USE DEF FiniteMatchers
<1>1. ASSUME NEW s \in Subscriber, NEW id \in Id, NEW f \in Filter, Subscribe(s, id, f)
      PROVE  FiniteMatchers'
  <2>1. Install(id, f)
    BY <1>1, Zenon DEF Subscribe
  <2>2. allTopicsMatcher' = allTopicsMatcher \/ allTopicsMatcher' = allTopicsMatcher \cup {f}
    BY <2>1, Zenon DEF Install
  <2>3. IsFiniteSet(allTopicsMatcher')
    BY <2>2, FS_AddElement, Zenon
  <2>4. ASSUME NEW t \in Topic
        PROVE  IsFiniteSet(topicMatcher'[t])
    <3>1. topicMatcher'[t] = topicMatcher[t] \/ topicMatcher'[t] = topicMatcher[t] \cup {f}
      BY <2>1, Zenon DEF Install
    <3> QED  BY <3>1, FS_AddElement, Zenon
  <2> QED  BY <2>3, <2>4, Zenon
<1>2. ASSUME NEW id \in Id, Unsubscribe(id)
      PROVE  FiniteMatchers'
  <2> DEFINE f == watchers[id]
  <2>1. allTopicsMatcher' = allTopicsMatcher \ {f}
    BY <1>2, Zenon DEF Unsubscribe
  <2>2. IsFiniteSet(allTopicsMatcher')
    BY <2>1, FS_RemoveElement, Zenon
  <2>3. ASSUME NEW t \in Topic
        PROVE  IsFiniteSet(topicMatcher'[t])
    <3>1. topicMatcher'[t] = topicMatcher[t] \/ topicMatcher'[t] = topicMatcher[t] \ {f}
      BY <1>2, Zenon DEF Unsubscribe
    <3>2. IsFiniteSet(topicMatcher[t])
      BY Zenon
    <3>3. IsFiniteSet(topicMatcher[t] \ {f})
      BY <3>2, FS_RemoveElement, Zenon
    <3> QED  BY <3>1, <3>2, <3>3, Zenon
  <2> QED  BY <2>2, <2>3, Zenon
<1>3. ASSUME UNCHANGED filterVars
      PROVE  FiniteMatchers'
  BY <1>3, Zenon DEF filterVars
<1> QED
  BY <1>1, <1>2, <1>3, Zenon
  DEF Next, SubscribeStep, MatchBloom, MergeBloom, StoreBloom, SetBloomFilter, NotifyPooled,
      NotifyDirect, Retrieve, vars

(* The candidates are the filters of the two matchers, in some order. *)
LEMMA CandidatesAreMatchers ==
    ASSUME Types, FiniteMatchers, NEW e \in Envelope, NEW order \in Candidates(e)
    PROVE  /\ order \in Seq(Filter)
           /\ Range(order) = allTopicsMatcher \cup topicMatcher[e.topic]
<1>1. PICK all \in AnyOrder(allTopicsMatcher), some \in AnyOrder(topicMatcher[e.topic]) :
          order = all \o some
  BY DEF Candidates
<1>2. e.topic \in Topic
  BY EnvelopeAssumption, Zenon
<1>3. ASSUME NEW S \in SUBSET Filter, IsFiniteSet(S), NEW q \in AnyOrder(S)
      PROVE  q \in Seq(Filter) /\ Range(q) = S
  <2>1. PICK n \in Nat : n = Cardinality(S)
    BY <1>3, FS_CardinalityType, Zenon
  <2>2. q \in [1 .. n -> S] /\ \A x \in S : \E i \in 1 .. n : q[i] = x
    BY <1>3, <2>1, Zenon DEF AnyOrder, Bijection, Injection, Surjection
  <2>3. q \in Seq(Filter)
    BY <2>2
  <2> QED  BY <2>2, <2>3, Zenon DEF Range
<1>4. all \in Seq(Filter) /\ Range(all) = allTopicsMatcher
  BY <1>3, Zenon DEF FiniteMatchers, Types
<1>5. some \in Seq(Filter) /\ Range(some) = topicMatcher[e.topic]
  BY <1>2, <1>3, Zenon DEF FiniteMatchers, Types
<1>6. order \in Seq(Filter) /\ Len(order) = Len(all) + Len(some)
  BY <1>1, <1>4, <1>5
<1>7. /\ \A i \in 1 .. Len(all) : order[i] = all[i]
      /\ \A i \in 1 .. Len(some) : order[Len(all) + i] = some[i]
  BY <1>1, <1>4, <1>5
<1>8. \A i \in 1 .. Len(order) :
          i \in 1 .. Len(all) \/ \E j \in 1 .. Len(some) : i = Len(all) + j
  <2> TAKE i \in 1 .. Len(order)
  <2>1. i \in 1 .. Len(all) \/ (i - Len(all) \in 1 .. Len(some) /\ i = Len(all) + (i - Len(all)))
    BY <1>4, <1>5, <1>6
  <2> QED  BY <2>1, Zenon
<1>9. /\ \A i \in 1 .. Len(all) : i \in 1 .. Len(order)
      /\ \A j \in 1 .. Len(some) : Len(all) + j \in 1 .. Len(order)
  BY <1>4, <1>5, <1>6
<1>10. \A q \in Seq(Filter) : Range(q) = {q[i] : i \in 1 .. Len(q)}
  BY DEF Range
<1>11. \A x : x \in Range(order) <=> \E i \in 1 .. Len(order) : x = order[i]
  BY <1>6, <1>10, Zenon
<1>12. \A x : x \in Range(all) <=> \E i \in 1 .. Len(all) : x = all[i]
  BY <1>4, <1>10, Zenon
<1>13. \A x : x \in Range(some) <=> \E i \in 1 .. Len(some) : x = some[i]
  BY <1>5, <1>10, Zenon
<1>14. ASSUME NEW i \in 1 .. Len(order)
       PROVE  order[i] \in Range(all) \cup Range(some)
  <2>1. CASE i \in 1 .. Len(all)
    BY <1>7, <1>12, <2>1, Zenon
  <2>2. ASSUME NEW j \in 1 .. Len(some), i = Len(all) + j
        PROVE  order[i] \in Range(all) \cup Range(some)
    BY <1>7, <1>13, <2>2, Zenon
  <2> QED  BY <1>8, <2>1, <2>2, Zenon
<1>15. \A i \in 1 .. Len(all) : all[i] \in Range(order)
  BY <1>7, <1>9, <1>11, Zenon
<1>16. \A j \in 1 .. Len(some) : some[j] \in Range(order)
  BY <1>7, <1>9, <1>11, Zenon
<1>17. \A x : x \in Range(order) <=> x \in Range(all) \cup Range(some)
  BY <1>11, <1>12, <1>13, <1>14, <1>15, <1>16, Zenon
<1> QED  BY <1>4, <1>5, <1>6, <1>17, Zenon

-----------------------------------------------------------------------------
(* What a client means by its criteria, apart from the topics. *)
Meets(f, e, p2p) ==
    /\ p2p => f.allowP2P
    /\ f.key = e.key
    /\ e.pow >= f.pow
    /\ SourceMatches(f, e)

LEMMA LeastNumber ==
    ASSUME NEW T, T \subseteq Nat, T # {}
    PROVE  \E n \in T : \A m \in T : n <= m
<1>1. IsWellFoundedOn(OpToRel(<, Nat), Nat)
  BY NatLessThanWellFounded, Zenon
<1>2. PICK n \in T : \A m \in T : ~ (<<m, n>> \in OpToRel(<, Nat))
  BY <1>1, WFMin, Zenon
<1>3. ASSUME NEW m \in T, m < n
      PROVE  <<m, n>> \in OpToRel(<, Nat)
  BY <1>3, Zenon DEF OpToRel
<1>4. \A m \in T : ~ (m < n)
  BY <1>2, <1>3, Zenon
<1> QED  BY <1>4

(***************************************************************************)
(* One turn of the loop of NotifyWatchers.  Whether the message is open    *)
(* already makes no difference, if the PoW in the envelope is the real one *)
(* or has not been computed: then only filters that want none match.       *)
(***************************************************************************)
NotifyState(e, s) ==
    /\ DOMAIN s = {"open", "cached", "triggered"}
    /\ s.open \in BOOLEAN /\ s.cached \in {0, e.pow}

LEMMA NotifyOneEffect ==
    ASSUME NEW e \in Envelope, NEW p2p \in BOOLEAN, NEW f \in Filter, NEW s, NotifyState(e, s)
    PROVE  LET t == NotifyOne(s, f, e, p2p) IN
           /\ NotifyState(e, t)
           /\ t.triggered \subseteq s.triggered \cup {g \in {f} : Meets(g, e, p2p)}
           /\ s.cached = e.pow => /\ t.cached = e.pow
                                  /\ {g \in {f} : Meets(g, e, p2p)} \subseteq t.triggered
           /\ s.triggered \subseteq t.triggered
<1>1. e.pow \in Nat /\ f.pow \in Nat
  BY EnvelopeAssumption, CriteriaAssumption, Zenon DEF Filter
<1>2. CASE p2p /\ ~ f.allowP2P
  BY <1>2, Zenon DEF NotifyOne, Meets
<1>3. CASE ~ (p2p /\ ~ f.allowP2P)
  <2> DEFINE match == IF s.open THEN MatchMessage(f, e) ELSE MatchEnvelope(f, s.cached)
             open == s.open \/ (match /\ f.key = e.key)
             t == NotifyOne(s, f, e, p2p)
  <2>1. t = [open |-> open, cached |-> IF open THEN e.pow ELSE s.cached,
             triggered |-> IF match /\ open /\ SourceMatches(f, e)
                           THEN s.triggered \cup {f} ELSE s.triggered]
    BY <1>3, Zenon DEF NotifyOne
  <2>2. NotifyState(e, t)
    BY <2>1 DEF NotifyState
  <2>3. match /\ open => f.key = e.key /\ e.pow >= f.pow
    BY <1>1 DEF MatchMessage, MatchEnvelope, NotifyState
  <2>4. s.cached = e.pow /\ f.key = e.key /\ e.pow >= f.pow => match /\ open
    BY <1>1, Zenon DEF MatchMessage, MatchEnvelope
  <2>5. SourceMatches(f, e) \in BOOLEAN
    BY Zenon DEF SourceMatches
  <2> HIDE DEF match, open
  <2> QED  BY <1>3, <2>1, <2>2, <2>3, <2>4, <2>5 DEF Meets
<1> QED  BY <1>2, <1>3, Zenon
(***************************************************************************)
(* In whichever order NotifyWatchers goes through the candidates, it       *)
(* triggers none that the envelope does not suit, and all that it suits if *)
(* its PoW is known beforehand.                                            *)
(***************************************************************************)
LEMMA TriggeredMeets ==
    ASSUME NEW e \in Envelope, NEW p2p \in BOOLEAN, NEW cached \in {0, e.pow},
           NEW order \in Seq(Filter)
    PROVE  /\ \A f \in Triggered(e, p2p, cached, order) :
                  f \in Range(order) /\ Meets(f, e, p2p)
           /\ cached = e.pow => \A f \in Range(order) :
                  Meets(f, e, p2p) => f \in Triggered(e, p2p, cached, order)
<1> DEFINE base == [open |-> FALSE, cached |-> cached, triggered |-> {}]
           Step(g, n) == [i \in 0 .. n |-> IF i = 0 THEN base
                                           ELSE NotifyOne(g[i - 1], order[i], e, p2p)]
           after == CHOOSE g : g = Step(g, Len(order))
<1>1. Triggered(e, p2p, cached, order) = after[Len(order)].triggered
  BY Zenon DEF Triggered
<1>2. Len(order) \in Nat /\ \A i \in 1 .. Len(order) : order[i] \in Filter
  OBVIOUS
<1> HIDE DEF base
<1>3. \A n \in Nat : \E g : g = Step(g, n)
  <2> DEFINE Undefined == {n \in Nat : ~ \E g : g = Step(g, n)}
  <2> SUFFICES ASSUME Undefined # {} PROVE FALSE
    BY Zenon
  <2>1. PICK n \in Undefined : \A m \in Undefined : n <= m
    BY LeastNumber, Zenon
  <2>2. n # 0
    <3> DEFINE g == [i \in 0 .. 0 |-> base]
    <3>1. g = Step(g, 0)
      OBVIOUS
    <3> QED  BY <3>1, Zenon
  <2>3. n - 1 \in Nat /\ n - 1 \notin Undefined
    <3>1. n \in Nat
      BY Zenon
    <3> HIDE DEF Undefined
    <3> QED  BY <2>1, <2>2, <3>1
  <2>4. PICK g : g = Step(g, n - 1)
    BY <2>3, Zenon
  <2> DEFINE h == Step(g, n)
  <2>5. \A i \in 0 .. n - 1 : h[i] = g[i]
    <3>1. \A i \in 0 .. n - 1 : g[i] = IF i = 0 THEN base
                                       ELSE NotifyOne(g[i - 1], order[i], e, p2p)
      BY <2>4, Zenon
    <3>2. \A i \in 0 .. n - 1 : i \in 0 .. n
      OBVIOUS
    <3>3. \A i \in 0 .. n - 1 : h[i] = IF i = 0 THEN base
                                       ELSE NotifyOne(g[i - 1], order[i], e, p2p)
      BY <3>2, Zenon
    <3> QED  BY <3>1, <3>3, Zenon
  <2>6. \A i \in 0 .. n : i # 0 => h[i - 1] = g[i - 1]
    <3>1. \A i \in 0 .. n : i # 0 => i - 1 \in 0 .. n - 1
      OBVIOUS
    <3> QED  BY <2>5, <3>1, Zenon
  <2>7. h = Step(h, n)
    BY <2>6, Zenon
  <2> QED  BY <2>7, Zenon
<1>4. after = Step(after, Len(order))
  <2>1. \E g : g = Step(g, Len(order))
    BY <1>2, <1>3, Zenon
  <2> QED  BY <2>1, Zenon
<1>5. \A i \in 0 .. Len(order) :
          after[i] = IF i = 0 THEN base ELSE NotifyOne(after[i - 1], order[i], e, p2p)
  <2> HIDE DEF after
  <2> QED  BY <1>4, Zenon
<1> HIDE DEF after
<1> DEFINE Right(i) ==
               /\ NotifyState(e, after[i])
               /\ \A f \in after[i].triggered : f \in Range(order) /\ Meets(f, e, p2p)
               /\ cached = e.pow =>
                      /\ after[i].cached = e.pow
                      /\ \A j \in 1 .. i : Meets(order[j], e, p2p) => order[j] \in after[i].triggered
<1>6. Right(0)
  <2>1. after[0] = base
    BY <1>2, <1>5
  <2>2. NotifyState(e, base) /\ base.triggered = {} /\ base.cached = cached
    BY Zenon DEF NotifyState, base
  <2> QED  BY <2>1, <2>2
<1>7. ASSUME NEW i \in 1 .. Len(order), Right(i - 1)
      PROVE  Right(i)
  <2> DEFINE s == after[i - 1]
             t == NotifyOne(s, order[i], e, p2p)
  <2>1. after[i] = t /\ order[i] \in Filter /\ order[i] \in Range(order)
    BY <1>2, <1>5 DEF Range
  <2>2. NotifyState(e, s)
    BY <1>7, Zenon
  <2>3. /\ NotifyState(e, t)
        /\ t.triggered \subseteq s.triggered \cup {g \in {order[i]} : Meets(g, e, p2p)}
        /\ s.cached = e.pow => /\ t.cached = e.pow
                               /\ {g \in {order[i]} : Meets(g, e, p2p)} \subseteq t.triggered
        /\ s.triggered \subseteq t.triggered
    BY <2>1, <2>2, NotifyOneEffect, Zenon
  <2>4. \A f \in s.triggered : f \in Range(order) /\ Meets(f, e, p2p)
    BY <1>7, Zenon
  <2>5. cached = e.pow =>
            /\ s.cached = e.pow
            /\ \A j \in 1 .. i - 1 : Meets(order[j], e, p2p) => order[j] \in s.triggered
    BY <1>7, Zenon
  <2>6. \A j \in 1 .. i : j \in 1 .. i - 1 \/ j = i
    OBVIOUS
  <2> HIDE DEF s, t
  <2>7. \A f \in t.triggered : f \in Range(order) /\ Meets(f, e, p2p)
    BY <2>1, <2>3, <2>4, Zenon
  <2>8. ASSUME cached = e.pow, NEW j \in 1 .. i, Meets(order[j], e, p2p)
        PROVE  order[j] \in t.triggered
    BY <2>3, <2>5, <2>6, <2>8, Zenon
  <2> QED  BY <2>1, <2>3, <2>5, <2>7, <2>8, Zenon
<1>8. \A i \in 0 .. Len(order) : Right(i)
  <2> DEFINE Wrong == {i \in 0 .. Len(order) : ~ Right(i)}
  <2> HIDE DEF Right
  <2> SUFFICES ASSUME Wrong # {} PROVE FALSE
    BY Zenon DEF Wrong
  <2>1. PICK i \in Wrong : \A m \in Wrong : i <= m
    <3>1. Wrong \subseteq Nat
      BY <1>2
    <3> HIDE DEF Wrong
    <3> QED  BY <3>1, LeastNumber, Zenon
  <2>2. i # 0
    BY <1>6, <2>1, Zenon
  <2>3. i \in 1 .. Len(order) /\ i - 1 \in 0 .. Len(order) /\ i - 1 \notin Wrong
    <3>1. i \in 0 .. Len(order)
      BY Zenon
    <3> HIDE DEF Wrong
    <3> QED  BY <1>2, <2>1, <2>2, <3>1
  <2> QED  BY <1>7, <2>1, <2>3, Zenon
<1>9. Right(Len(order))
  BY <1>2, <1>8
<1>10. \A f \in Range(order) : \E j \in 1 .. Len(order) : f = order[j]
  BY DEF Range
<1> QED  BY <1>1, <1>9, <1>10, Zenon
-----------------------------------------------------------------------------
(* FilterTopics(f) are none only if the client gave none, and some of those it gave. *)
LEMMA FilterTopicsGiven ==
    ASSUME NEW f \in Filter
    PROVE  /\ FilterTopics(f) = {} <=> f.topics = << >>
           /\ FilterTopics(f) \subseteq Range(f.topics)
           /\ f.call = "NewMessageFilter" => FilterTopics(f) = Range(f.topics)
<1>1. f.topics \in Seq(Topic)
  BY CriteriaAssumption DEF Filter
<1>2. f.topics # << >> => f.topics[1] \in Range(f.topics)
                          /\ f.topics[Len(f.topics)] \in Range(f.topics)
  BY <1>1 DEF Range
<1>3. f.topics = << >> => Range(f.topics) = {}
  BY <1>1 DEF Range
<1> QED  BY <1>2, <1>3, Zenon DEF FilterTopics

(***************************************************************************)
(* NotifyWatchers puts an envelope into the store of no filter but those   *)
(* installed that want it and are looked up by its topic; and of all of    *)
(* them, if the PoW is known.                                              *)
(***************************************************************************)
LEMMA NotifyMatches ==
    ASSUME SubscriptionsInv, FiniteMatchers, NEW e \in Envelope, NEW p2p \in BOOLEAN,
           NEW cached \in {0, e.pow}, NotifyWatchers(e, p2p, cached), NEW f \in Filter
    PROVE  /\ store[f] \subseteq store'[f]
           /\ store'[f] \subseteq store[f] \cup {e}
           /\ store'[f] # store[f] => f \in Installed /\ Wants(f, e, p2p) /\ OnTopic(f, e)
           /\ cached = e.pow /\ f \in Installed /\ Wants(f, e, p2p) /\ OnTopic(f, e)
              => e \in store'[f]
<1>1. PICK order \in Candidates(e) :
          store' = [g \in Filter |-> IF g \in Triggered(e, p2p, cached, order)
                                     THEN store[g] \cup {e} ELSE store[g]]
  BY Zenon DEF NotifyWatchers
<1> DEFINE triggered == Triggered(e, p2p, cached, order)
<1>2. store'[f] = IF f \in triggered THEN store[f] \cup {e} ELSE store[f]
  BY <1>1, Zenon
<1>3. order \in Seq(Filter) /\ Range(order) = allTopicsMatcher \cup topicMatcher[e.topic]
  BY CandidatesAreMatchers, Zenon DEF SubscriptionsInv
<1>4. e.topic \in Topic
  BY EnvelopeAssumption, Zenon
<1>5. f \in Range(order) <=> f \in Installed /\ OnTopic(f, e)
  BY <1>3, <1>4, Zenon DEF SubscriptionsInv, MatchersIndexWatchers, OnTopic
<1>6. /\ f \in triggered => f \in Range(order) /\ Meets(f, e, p2p)
      /\ cached = e.pow /\ f \in Range(order) /\ Meets(f, e, p2p) => f \in triggered
  BY <1>3, TriggeredMeets, Zenon
<1>7. Wants(f, e, p2p) => Meets(f, e, p2p)
  BY Zenon DEF Wants, Meets
<1>8. OnTopic(f, e) /\ Meets(f, e, p2p) => Wants(f, e, p2p)
  BY FilterTopicsGiven, Zenon DEF OnTopic, Wants, Meets
<1> HIDE DEF triggered
<1> QED  BY <1>2, <1>5, <1>6, <1>7, <1>8, Zenon
HistoryTypes == /\ due \in [Filter -> SUBSET Envelope]
                /\ dueDirect \in [Filter -> SUBSET Envelope]

MatchedInv == SubscriptionsInv /\ FiniteMatchers /\ HistoryTypes /\ StoredIsMatched

(* StoredIsMatched for one filter. *)
StoredMatched(f) ==
    /\ \A e \in store[f] : OnTopic(f, e) /\ e \in due[f] \cup dueDirect[f]
    /\ \A e \in due[f] : OnTopic(f, e) => e \in store[f]

LEMMA StoredMatchedEach == StoredIsMatched <=> \A f \in Filter : StoredMatched(f)
  BY Zenon DEF StoredIsMatched, StoredMatched, OnTopic

LEMMA StoredMatchedPooled ==
    ASSUME MatchedInv, NEW e \in Envelope, NEW p2p \in BOOLEAN, NotifyPooled(e, p2p)
    PROVE  HistoryTypes' /\ StoredIsMatched'
<1>1. NotifyWatchers(e, p2p, e.pow) /\ dueDirect' = dueDirect
  BY Zenon DEF NotifyPooled
<1>2. due' = [f \in Filter |-> IF f \in Installed /\ Wants(f, e, p2p) THEN due[f] \cup {e}
                               ELSE due[f]]
  BY Zenon DEF NotifyPooled, Noted
<1>3. HistoryTypes'
  BY <1>1, <1>2, Zenon DEF MatchedInv, HistoryTypes
<1>4. ASSUME NEW f \in Filter
      PROVE  StoredMatched(f)'
  <2>1. /\ store[f] \subseteq store'[f]
        /\ store'[f] \subseteq store[f] \cup {e}
        /\ store'[f] # store[f] => f \in Installed /\ Wants(f, e, p2p) /\ OnTopic(f, e)
        /\ f \in Installed /\ Wants(f, e, p2p) /\ OnTopic(f, e) => e \in store'[f]
    <3>1. e.pow \in {0, e.pow}
      BY Zenon
    <3>2. PICK cached \in {0, e.pow} : cached = e.pow
      BY <3>1, Zenon
    <3>3. NotifyWatchers(e, p2p, cached)
      BY <1>1, <3>2, Zenon
    <3>4. /\ store[f] \subseteq store'[f]
          /\ store'[f] \subseteq store[f] \cup {e}
          /\ store'[f] # store[f] => f \in Installed /\ Wants(f, e, p2p) /\ OnTopic(f, e)
          /\ cached = e.pow /\ f \in Installed /\ Wants(f, e, p2p) /\ OnTopic(f, e)
             => e \in store'[f]
      BY <3>3, NotifyMatches DEF MatchedInv
    <3> QED  BY <3>2, <3>4, Zenon
  <2>2. due'[f] = IF f \in Installed /\ Wants(f, e, p2p) THEN due[f] \cup {e} ELSE due[f]
    BY <1>2, Zenon
  <2>3. StoredMatched(f)
    BY StoredMatchedEach, Zenon DEF MatchedInv
  <2>4. \A x \in store'[f] : OnTopic(f, x) /\ x \in due'[f] \cup dueDirect'[f]
    BY <1>1, <2>1, <2>2, <2>3, Zenon DEF StoredMatched
  <2>5. \A x \in due'[f] : OnTopic(f, x) => x \in store'[f]
    BY <2>1, <2>2, <2>3, Zenon DEF StoredMatched
  <2> QED  BY <2>4, <2>5, Zenon DEF StoredMatched, OnTopic
<1> QED  BY <1>3, <1>4, Zenon DEF StoredIsMatched, StoredMatched, OnTopic

LEMMA StoredMatchedDirect ==
    ASSUME MatchedInv, NEW e \in Envelope, NotifyDirect(e)
    PROVE  HistoryTypes' /\ StoredIsMatched'
<1>1. NotifyWatchers(e, TRUE, 0) /\ due' = due
  BY Zenon DEF NotifyDirect
<1>2. dueDirect' = [f \in Filter |-> IF f \in Installed /\ Wants(f, e, TRUE)
                                     THEN dueDirect[f] \cup {e} ELSE dueDirect[f]]
  BY Zenon DEF NotifyDirect, Noted
<1>3. HistoryTypes'
  BY <1>1, <1>2, Zenon DEF MatchedInv, HistoryTypes
<1>4. ASSUME NEW f \in Filter
      PROVE  StoredMatched(f)'
  <2>1. /\ store[f] \subseteq store'[f]
        /\ store'[f] \subseteq store[f] \cup {e}
        /\ store'[f] # store[f] => f \in Installed /\ Wants(f, e, TRUE) /\ OnTopic(f, e)
    BY <1>1, NotifyMatches, Zenon DEF MatchedInv
  <2>2. dueDirect'[f] = IF f \in Installed /\ Wants(f, e, TRUE) THEN dueDirect[f] \cup {e}
                        ELSE dueDirect[f]
    BY <1>2, Zenon
  <2>3. StoredMatched(f)
    BY StoredMatchedEach, Zenon DEF MatchedInv
  <2>4. \A x \in store'[f] : OnTopic(f, x) /\ x \in due'[f] \cup dueDirect'[f]
    BY <1>1, <2>1, <2>2, <2>3, Zenon DEF StoredMatched
  <2> QED  BY <1>1, <2>1, <2>3, <2>4, Zenon DEF StoredMatched, OnTopic
<1> QED  BY <1>3, <1>4, Zenon DEF StoredIsMatched, StoredMatched, OnTopic

LEMMA MatchedInvNext == MatchedInv /\ [Next]_vars => MatchedInv'
<1> SUFFICES ASSUME MatchedInv, [Next]_vars
             PROVE  MatchedInv'
  OBVIOUS
<1>1. SubscriptionsInv' /\ FiniteMatchers'
  BY SubscriptionsNext, FiniteMatchersNext, Zenon DEF MatchedInv, SubscriptionsInv
<1>2. ASSUME NEW f \in Filter, Retrieve(f)
      PROVE  HistoryTypes' /\ StoredIsMatched'
  <2>1. HistoryTypes'
    BY <1>2, Zenon DEF Retrieve, MatchedInv, HistoryTypes
  <2>2. \A g \in Filter : /\ g # f => /\ store'[g] = store[g]
                                      /\ due'[g] = due[g] /\ dueDirect'[g] = dueDirect[g]
                          /\ g = f => store'[g] = {} /\ due'[g] = {}
    BY <1>2, Zenon DEF Retrieve, MatchedInv, SubscriptionsInv, Types, HistoryTypes
  <2> QED  BY <2>1, <2>2, Zenon DEF MatchedInv, StoredIsMatched
<1>3. ASSUME UNCHANGED <<store, histories>>
      PROVE  HistoryTypes' /\ StoredIsMatched'
  BY <1>3, Zenon DEF histories, MatchedInv, HistoryTypes, StoredIsMatched
<1>4. HistoryTypes' /\ StoredIsMatched'
  BY <1>2, <1>3, StoredMatchedPooled, StoredMatchedDirect, Zenon
  DEF Next, SubscribeStep, Subscribe, MatchBloom, MergeBloom, StoreBloom, SetBloomFilter,
      Unsubscribe, vars
<1> QED  BY <1>1, <1>4, Zenon DEF MatchedInv

(***************************************************************************)
(* Whichever order the Go maps are read in, whatever is installed and      *)
(* removed between two envelopes and however late the client looks: a      *)
(* filter holds nothing but what was on its topics and met the rest of its *)
(* criteria, and everything of that kind that came from the pool.          *)
(***************************************************************************)
THEOREM FiltersGetWhatMatches == Spec => []StoredIsMatched
<1>1. Init => MatchedInv
  <2>1. Init => HistoryTypes /\ StoredIsMatched
    BY Zenon DEF Init, HistoryTypes, StoredIsMatched
  <2> QED  BY <2>1, SubscriptionsInit, FiniteMatchersInit, Zenon DEF MatchedInv
<1>2. MatchedInv => StoredIsMatched
  BY Zenon DEF MatchedInv
<1> QED  BY <1>1, <1>2, MatchedInvNext, PTL DEF Spec
=============================================================================
