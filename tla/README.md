# Whisper v6: a TLA+ verification project

This directory models the Whisper v6 node of `src/whisperv6`: how envelopes
enter the pool of a node, reach its filters, travel between peers and expire,
how a node changes what it asks of its peers while all that goes on, how it
fetches old envelopes from a mail server, what becomes of a message a client
posts, and how the rate limiter sits between a connection and its loop. The
models are checked by TLC on small instances; every safety property that holds
there is also proved with TLAPS, for every instance.

## 1. The system

| part | state | operations | interacts with |
|---|---|---|---|
| Admission (`add`, checks; `Envelope.PoW`) | none | time, size, PoW and bloom checks | settings, clock |
| Envelope pool (`whisper.go`) | `envelopes`, `expirations`, `stats`, `messageQueue`, `p2pMsgQueue`, `overflow`, `quit` | `add`, `expire`, `postEvent`, `processQueue`, `processP2P`, `Stop` | message loops, filters, mail server archive |
| Peer (`peer.go`) | `known`, `powRequirement`, `bloomFilter`, `trusted`, `confirmationsEnabled` | `broadcast`, `mark`, `expire`, `handshake`, notifications | pool, wire |
| Message loop (`runMessageLoop`) | none of its own | one handler per packet code | everything |
| Dynamic settings | `settings` map: PoW, bloom filter and their tolerated values | `SetMinimumPoW`, `SetBloomFilter`, getters | peers (notifications), admission |
| Filters (`filter.go`) | `watchers`, `topicMatcher`, `allTopicsMatcher`, a store per filter | `Install`, `Uninstall`, `NotifyWatchers`, `Retrieve` | queues, advertised bloom filter |
| Mail server protocol | `trusted`, pending timers | requests, responses, sync, expiry | message loop, event feed |
| Key store | `privateKeys`, `symKeys` | add, generate, select, delete, look up | API, filters |
| Rate limiter (`rate_limiter.go`) | token buckets, pipe, error channel | `decorate`, `throttleIP`, `throttlePeer` | message loop |
| Message coding (`message.go`, `envelope.go`, `topic.go`) | none | pad, sign, wrap, seal, parse | API, filters |
| RPC API (`api.go`) | `lastUsed`, never read | `Post`, `Messages`, filters and keys | keys, coding, pool, filters |
| Client, configuration, metrics | counters | thin | all of the above |

A node runs, for every connection, a message loop and an update goroutine;
beside them the `update` goroutine (expiration), one `processQueue` goroutine
per CPU, `processP2P`, goroutines for confirmations, and sleeping goroutines
that adopt tolerated values. They share the maps above under four mutexes, two
bounded channels and a settings map.

What makes this hard to test:

* `add` reads the clock and makes its checks before it takes `poolMu`, and
  updates statistics, queue and archive after it has released it;
* the receiving side of a connection adds an envelope to the pool and then
  marks it as known, while the sending side chooses, writes and then marks;
* connections break and return at any of these points; clocks differ;
* a peer connects while the requirement is being changed;
* the advertised bloom filter is a read-modify-write without a lock;
* `NotifyWatchers` decrypts once, in map order, on behalf of all filters;
* a request to a mail server, its timer, the answer and the messages it
  completes run in different goroutines, and trust ends with a connection;
* a request to post a message reads keys, clock and settings at different
  times, with seconds of work in between;
* the rate limiter connects three goroutines by a pipe and an error channel
  that is read once.

`PROJECT.json` lists the hazards line by line, with the properties that would
catch each going wrong.

## 2. Modules

**Admission** holds the checks of `add` as operators over an envelope, the
settings and a clock. Arithmetic on expiry and TTL is modulo `Word` (2^32 in the
code). An envelope is `[expiry, ttl, size, work, bloom]`; `work` stands for
2^bits / size, so that PoW >= p is `work >= p * charged ttl`.
The hash of an envelope is the envelope itself.

**EnvelopePool** is one node's pool. Each adder is a goroutine in `add`:

| action | code |
|---|---|
| `Add` | the checks, up to the lock |
| `Insert` | the block under `poolMu` |
| `Account` | `statsMu` |
| `Measure`, `Flag`, `Post` | `postEvent`, `checkOverflow`: the length is read, the flag stored, the channel written (it blocks when full) |
| `Archive` | the mail server, after the queue |
| `Expire` | `expire`, under both locks, hence one step |
| `Take`, `Deliver`, `Exit` | `processQueue`, `processP2P`; `Exit` also stands for the return of `update` |
| `Stop` | closing `quit` |

**Gossip** is a set of nodes and links. For each end of a link,
`ChooseBundle`, `WriteBundle` and `MarkBundle` are `peer.broadcast`,
`ExpireKnown` and `RemoveKnown` are `peer.expire` (what it finds not cached may be
pooled again before it is removed from the known list), `ReadMessages`, `AddNext`, `InsertNext`,
`MarkNext` and `FinishBundle` are `messagesCode` in the loop,
`SendConfirmation` and `ReadAck` the acknowledgements, and `ReadOversized`,
`Disconnect` and `Connect` the life of the connection. `Send` makes the checks of
`add` for a caller on the node itself and `InsertSent` is the block under
`poolMu`. Both ends run this code, so a response always has version 1 and can be
decoded; what the loop does with others is left out. A failed write closes the
connection, as the p2p layer does. What the peers advertised does not change
here. Light client mode does not occur in this module: it decides which queue an
envelope is posted to, and does not affect forwarding.

**PoolService** says what a pool promises: envelopes are accepted and swept in
one step each, an envelope that is alive is accepted at most once and has paid
for the time it has left. EnvelopePool implements it; the refinement mapping
takes `pool` to `envelopes`, `accepted` to the count of insertions (`inserted`),
and everything but `Tick`, `Insert` and `Expire` to stuttering.

**Settings** is one node that changes what it requires of its peers, the PoW or
the bloom filter (`kind`; the two are changed by the same code and do not touch
each other's state). `SetMinimumPoW` or `SetBloomFilter`, `CountPeers`,
`ListPeers`, `NotifyAboutPowRequirementChange` or
`NotifyAboutBloomFilterChange`, `FinishSet` and `Adopt` are one call and the
goroutine it leaves behind; `Track`, `LoadRequirements`, `SendStatus` and `Leave`
are `HandlePeer` and the handshake; `ReadStatus`, `RefuseStatus`,
`ReadPowRequirement`, `ReadBloomFilter` and `Broadcast` are the other end, and
`Receive` is the check of what it sends. `Config` holds the PoW values a node may
be configured with, `initial` the one it was. A PoW is an integer here: `NaN` and
`+Inf`, which are not below 0 and so pass the check of `SetMinimumPoW`, do not
occur. `getPeers` panics when the peer set
changes between its two looks at it: `crashed` ends the behaviour.

**Subscriptions** is the filters of one node and the bloom filter advertised
for them: `Subscribe`, then `MatchBloom`, `MergeBloom` and `StoreBloom`
(`updateBloomFilter`), `SetBloomFilter`, `Unsubscribe`, `NotifyPooled` and
`NotifyDirect` (`NotifyWatchers` on a pooled envelope, whose PoW is cached, and
on a direct message, whose PoW is not), `Retrieve`. A client subscribes with
criteria, by `Messages` or by `NewMessageFilter`: `Accepted` and `FilterTopics`
say which criteria make a filter and for which topics. Criteria are used once,
as each RPC call makes a `Filter` of its own.

**MailServer** is a client and a mail server on one connection at a time.
`Ask`, `Submit` and `Announce` are the two kinds of request
(`RequestHistoricMessagesWithTimeout` announces before it sends and starts a timer
even if the send failed; `SendMessagesRequest` announces after a successful
send), `ExpireRequest` is the timer, `SyncMessages` and
`AllowP2PMessagesFromPeer` are the other calls. `ReadRequest`, `SendP2PDirect`,
`SendP2PMessage`, `SendHistoricMessageResponse`, `SendSyncResponse` and `FailSync`
are the server's end; `ReadMail`, `ReadComplete` and `ReadSyncResponse` are the
client's message loop, `PostP2P` and `ProcessP2P` the queue behind it. A packet
of mail carries a list of envelopes, which are posted one after the other, or a
single one (`Batch` says which lists a server sends with `SendP2PDirect`). A
completion travels as bytes: `Payload` and `CreateMailServerEvent` build and
read them. The server's answers are unconstrained: it may send anything, late or
never, within the sizes the format can carry. Requests and sync requests are
valid ones; `Validate` turns others away without an effect.

**KeyMap** promises two maps from identifiers to keys in which a key is never
replaced under an identifier in use. **KeyStore** has the calls that change them.
Each is one step under `keyMu`, but `AddKeyPair`/`StoreKeyPair` and
`AddSymKeyFromPassword`/`StorePasswordKey`, which release it between a look and a
store. KeyStore implements KeyMap, with the two maps mapped to themselves.

**Coding** has the layout of a message as operators: flags, size field, padding
and signature (`NewSentMessage`, `Sign`) and their inverse (`ValidateAndParse`,
`SigToPubKey`). A byte is below `Base`; a signature holds its signer and a digest
of the bytes it covers. From a signature over other bytes a key is recovered that
belongs to nobody the model knows (`Stranger`); a message that is marked as signed
and yields no key at all is turned away. `Place` says what a digit of the size field counts for.

**Posting** composes KeyStore, Coding and Admission: `Post`, `FindSource`,
`FindKey`, `Wrap`, `Seal`, `CheckPow`, `SendP2PMessage`, `Send` and `Leave` are the
steps of `PublicWhisperAPI.Post`, between which keys are added and deleted, the
clock advances and `SetMinimumPoW` and `AdoptMinimumPoW` change the settings.
`Open` is what a receiver makes of the envelope. Of the nonce `Seal` finds only
the leading zeros of the hash matter: any number of them without a target or with
a negative one, and one of `ReachesPow` with a positive one, since the loop stops
at the first hash that reaches `powToFirstBit`. `HashBits` is 256 in the code.

**RateLimiter** is `decorate`: a goroutine that copies packets from the connection
to a pipe (`ReadPacket`, `PassOn`, `CopierFails`), one that copies them back
(`WriteOut`, `WriterFails`), the message loop at the other end of the pipe
(`Consume`, `Handle`, `LoopFails`) with its confirmations (`Confirm`, once for the
response and once for the bare acknowledgement), their reports to the
error channel (`ReportCopier`, `ReportWriter`, `ReportLoop`), and the return that
closes the pipe. A packet passes the pipe without a buffer: the writer waits
until the reader has consumed it, and may go on while the reader still works on
it. Token buckets may be empty at any packet.

Admission is shared by PoolService, EnvelopePool, Gossip and Posting. Apart from
Posting and the refinements, each module takes the others' behaviour as its
input: Gossip inlines the pool steps that race with a broadcast, EnvelopePool takes
any admitted envelope at any time, Subscriptions any dispatched one. `MC*`
modules give the constants of the checked instances. Operators marked "Faulty
form" are variants of the definition that follows them, used to see that a
property would notice such a mistake; no specification uses them.

## 3. What is checked

| run | instance | what it shows |
|---|---|---|
| EnvelopePool | 2 adders, 1 worker, 3 envelopes (the sending time of one wraps around and it is refused), queue of 1, clock 1..4 | the pool and its index agree, duplicates are caught while an envelope lives, pooled envelopes have paid for their lifetime, statistics add up, delivery and archive once per insertion |
| EnvelopePoolLive | light client, 1 adder, queue of 1, clock 1..3, fair | the pool drains, `add` returns, what was pooled is delivered, unless the node stops |
| Gossip | 2 nodes with clocks 1 s apart, 2 envelopes, 1 confirming node, clock 1..2, fair; one node sends both envelopes, or both send the same one | what is marked known is on its way, at the peer, or turned down; nothing is sent twice while it lives; acknowledgements are true; a wanted envelope reaches the peer, is turned down or expires, or the connection is gone |
| Settings | 1 caller, 2 peers, 2 levels or 2 topics, configured PoW at or below the default, `syncAllowance` 3, delay at most 1 | connected peers end up with the value in force; what was sent in good faith is accepted, unless changes follow each other too fast or the tolerated PoW is still the default one and above the configured one |
| Subscriptions | 1 subscriber, 5 criteria, 3 envelopes, 3 ids | the matchers index the watchers, each filter gets what matches it and nothing else, in whichever order the filters are visited, the advertised filter covers the topics |
| MailServer | 2 requests, 2 envelopes sent as one batch, hashes of 2 bytes, 2 connections, queue of 1, fair | an event says what the server answered, comes after the messages it completes and after the announcement; a finished synchronisation is archived; a request with a timeout comes to an end; an answer is reported |
| Posting | 1 request at a time of 10 shapes, 1 caller on the key store, 2 key pairs, 3 symmetric keys, bytes below 4, padding to 11, hashes of 5 bits, clock 0..2 | what leaves is read as it was posted, its length is padded, its work is accepted, it does not leave before its sending time, and the key store implements KeyMap |
| RateLimiter | 3 packets, limits on, off, and with a whitelist, error channel of 1, fair | packets are handled in order and without a gap, `decorate` returns after any failure, at most one goroutine stays behind |

Four runs state what a comment of the code says and end in a counterexample:

* **GossipBadEnvelope**: an envelope with too little PoW does not end the
  connection, since `TimeSyncError` is an interface every error satisfies;
* **SettingsTolerance**: `MinPowTolerance` is said to be that of `MinPow()` before
  any change and the old value for a while after one, and is the built-in default
  until the first change has settled: a node configured with less refuses
  envelopes that met its old requirement;
* **SubscriptionsMessages**: `Messages` appends slices of its loop variable, so
  that of several topics only the last one counts and messages on the others do
  not reach the client, although the comment promises "messages ... that match
  the given set of criteria" (`NewMessageFilter` copies the topics);
* **SubscriptionsConcurrent**: two calls of `Subscribe` lose topics.

Further differences met while modelling, visible in the models and listed as
hazards: the overflow flag stays raised over an empty queue until the next
`add`; a light client forwards what it receives; an envelope can be sent back
once to its sender, between `add` and `mark`; a bundle of acceptable envelopes
can be rejected as oversized for ever; `peer.expire` drops one hash per cycle,
since its callback ends the iteration, where its comment says that it removes all
expired ones; `getPeers` sizes its array outside the lock and panics if the peer
set changes before it is filled; after two quick changes the tolerated PoW is
neither the old nor the new value; concurrent callers of `SetMinimumPoW` may
notify in the wrong order; a notification may precede the status packet; a
direct message may miss a filter that asks for PoW; a filter without topics
does not widen the bloom filter; `SendMessagesRequest` may announce a request
after its completion; sync responses are ignored as long as nobody has made the
peer trusted; an envelope
of 64 KiB or more can miss its own PoW target by the byte its encoding grows;
and every connection under a rate limiter may leave one goroutine behind.

### Bounds

* **Clock** (`MaxTime`): enough for every envelope to be early, alive, expired
  and removed. `Word` is 64 there: small, but above every time and charge.
* **Queues**: length 1, so that a full queue, an empty one and the halving
  threshold of the overflow flag occur.
* **Adders, peers, subscribers**: two suffice for a race of a pair; the code has
  no three-way interaction, as every critical section is per lock.
* **WireLimit**: packets in flight per direction; 1 in Gossip, where a bundle
  holds several envelopes, 2 in Settings, so that status and notification can be
  on the way together.
* **Settings**: `SyncAllowance` 3 exceeds twice the `Delay` of 1 (a notification
  may take one delay and an envelope sent just before it another). With 2 the
  property fails: the code's 10 s are an assumption on delays.
  `SleeperLimit` bounds the goroutines asleep at a time. `Config` is {1, 2} and
  `DefaultPow` 2: a node configured below the default, and one at it.
* **MailServer**: two connections, so that a call can hold the `Peer` of the one
  before; a packet per direction, so that writes block; `BusyLink` confines
  synchronisation and unasked messages to the first connection, which already
  meets requests, trust gained half way and a break.
* **Posting**: `Base` 4 and `PadLimit` 11 bring payloads to both sides of a size
  field of one, two and three bytes and of the padding; `RlpOverhead` has a step
  like the real encoding; `HashBits` 5 leaves targets that can be reached and
  others that cannot. One envelope leaves per behaviour (`MaxPosts`): posts
  share nothing but what the other actions already change.
* **RateLimiter**: three packets put one in each pair of hands and one on the
  connection.

`CHECK_DEADLOCK FALSE` appears where the system may stop: after `Stop`, at the
last tick of the clock, or after a panic.

### Fairness

EnvelopePool assumes weak fairness of the clock, the expiration ticker, each
running `add` and each consumer: the Go scheduler runs every runnable goroutine
and tickers fire. Nothing is assumed of callers of `add` or of `Stop`. Gossip
assumes it of the update goroutine and the message loop of each end, and nothing
of the clock, `Send`, confirmations, `peer.expire` or the connections.
MailServer assumes it of calls under way, timers, both message loops and
`processP2P` until `Stop`, and that a write which stays blocked ends the
connection (the p2p transport sets a write deadline,
`vendor/github.com/ethereum/go-ethereum/p2p/rlpx.go`). The server need never
answer. RateLimiter assumes it of every goroutine of `decorate`, and that p2p ends
the connection once the handler has returned; the peer need do nothing. That the
loop comes to the end of every packet takes a node that is not stopped: `add` may
wait for room in a queue, and `AddReturns` says that it gets it until `Stop`.

## 4. What is proved

Each theorem holds for every value of the constants that satisfies the named
assumptions of its module.

| module | theorem | statement |
|---|---|---|
| EnvelopePoolProofs | `PoolTypeCorrect` | `TypeOK`, the queue bounds included |
| | `PoolIndexed` | `ExpirationsIndexPool`: `expire` never meets a hash that is not pooled, and nothing pooled is unfiled |
| | `PoolDeduplicates` | `AcceptedOnceWhileAlive` |
| | `PoolPaid` | `PooledHasPaid` |
| | `PoolImplementsService` | EnvelopePool implements PoolService |
| | `PoolMemoryAccounted` | `MemoryAccounted` |
| | `PoolClearedAccounted` | `ClearedAccounted` |
| | `PoolDeliversOnce` | `DeliveredOncePerInsertion` |
| | `PoolArchivesOnce` | `ArchivedOncePerInsertion` |
| GossipProofs | `NothingLost` | `KnownIsShared` |
| | `SentOnce` | `SentOnceWhileAlive` |
| | `AcksAreTrue` | `AcknowledgedIsProcessed` |
| | `GossipTypeCorrect` | `TypeOK` |
| SettingsProofs | `ViewsAreCurrent` | `QuietViewCurrent`, if there is one caller |
| | `PolitePeersAreAccepted` | `PolitePeerAccepted`, if the sync allowance exceeds twice the delay |
| | `SettingsTypeCorrect` | `TypeOK` |
| SubscriptionsProofs | `FiltersIndexed` | `MatchersIndexWatchers`, for any number of subscribers |
| | `FiltersAdvertised` | `AdvertisedCoversTopics`, if there is one subscriber and the user sets no bloom filter but the full one |
| | `FiltersGetWhatMatches` | `StoredIsMatched` |
| | `SubscriptionsTypeCorrect` | `TypeOK` |
| MailServerProofs | `MailServerTypes` | `TypeOK` |
| | `CompletionsAreAnswers` | `EventIsResponse` |
| | `RequestsAnnouncedFirst` | `AnnouncedFirst` |
| MailDeliveryProofs | `MailDeliveredFirst` | `CompletedAfterDelivery` |
| | `SyncArchivedFirst` | `SyncFinishedIsArchived` |
| PostingProofs | `KeyStoreImplementsKeyMap` | KeyStore implements KeyMap |
| | `PostingImplementsKeyMap` | and so does Posting, whose requests read the store |
| | `PostedMessagesAreRead` | `ReadAsPosted` |
| | `LengthsAreHidden` | `LengthHidden` |
| | `WorkIsAccepted` | `WorkAccepted` |
| | `PostsLeaveOnTime` | `LeavesOnTime` |
| RateLimiterProofs | `PacketsInOrder` | `InOrder` |

**Pool.** The inductive invariant is `PoolInv`. `AcceptedOnceWhileAlive` is not
inductive: a second insertion is excluded because a live envelope was inserted
exactly once if and only if it is pooled (`InsertedIffPooled`), which `Expire`
keeps since it removes only what has expired. `PooledHasPaid` is not inductive
either, because `Insert` acts on checks made earlier: the envelope carried by an
adder must have paid too (`CarriedHasPaid`), which holds as the clock only
advances (`PaidStable`). `ChargedForLifetime` covers the arithmetic of the charge,
wrap-around included. For the refinement, what an adder carries has also passed
the size and bloom checks (`CarriedAllowed`). The assumptions: `Word` is positive
and exceeds twice the sync allowance; envelopes have fields in range; the p2p
consumer is not a worker; the queue limit is positive; the clock stays within
`Word`; there are finitely many envelopes, adders and workers.

The statistics are sums over sets of envelopes. `AccountInv` relates them to the
pool less what adders carry between `poolMu` and `statsMu`; that a sum grows by
the term of an element that joins the set, and shrinks by those that `expire`
removes, are lemmas about `SumFunction`, proved by a least counterexample over
the cardinality. For the deliveries, `Deliveries` says that the insertions of an
envelope equal the deliveries plus the places it is at on its way (the hands of
an adder, a queue, the hands of a consumer), and a step moves it from one place
to the next (`Joins`, `Tally`); `Archivals` is the same with the adders alone.

**Key store** (in PostingProofs). By `KeyInv` every key pair is bound under the identifier derived
from its own public key, so that a store without a second look, as in
`AddKeyPair`, can only repeat what is bound. It rests on `NameAssumption`:
different public keys have different derived identifiers. The steps of Posting are
steps of the store or leave it alone.

**Posting.** `RoundTrip` says that `ValidateAndParse` undoes `NewSentMessage` and
`Sign`, for every payload and padding, every width of a byte and every signer, as
long as the length of the payload takes at most three digits: `Layout` describes
the parts of the text, `SizeReadBack` is positional notation (`Digits`), and the
flags keep the size of the size field apart from the signature's bit. A length
of four digits would set that bit; it cannot leave, because `add` and
`SendP2PMessage` both refuse such sizes (`SizeAssumption`: the largest message is
below `Place[4]`, 2^24 in the code). `PaddingLength` is the arithmetic of
`appendPadding`. The inductive invariant `PostInv` has one clause per stage of a
goroutine: it holds the source the request names, which is what `KeyInv` says of
the store at the moment of `FindSource`; from `Wrap` on its envelope carries the
text of the request with that source; from `Seal` on the envelope is not sent
later than the clock says and has the zeros its target asks for. `SentWhen` covers
the wrapping arithmetic, `WorkIsWorth` the division by the encoded length. `WorkAccepted`
keeps its premise that the encoding is not longer than `size()`: without it the
code fails, as the hazards say. The assumptions are the types of requests, an
empty name that is no name, times within `Word` and natural sizes.

**Gossip.** `GossipInv` follows an envelope along a link. It is pooled at its
source until it expires (`SourceInv`); it was written to the connection before it
travels or is being received (`FlowInv`); `add` has settled it before it is
marked or confirmed (`ProcessInv`). The three properties follow: what is known
is in flight or settled at the other end (`SharedInv`), what is written and alive
is known or about to be marked, and is not what `peer.expire` has noted for
removal (`OnceInv`), what is acknowledged is settled
(`TruthInv`). `LoopInv` says which envelope of which bundle a message loop is
working on. The two ends of a connection have states of their own, which is
where it is used that no node is linked to itself: the p2p server refuses to
connect to its own identity. Clocks may differ by any amount, and links form any
symmetric graph. `TypeOK` needs some of this too: that a loop handles an envelope
of the bundle it has read, and that what `Send` was given has been pooled
or is about to be (`BeingSent`). It
assumes that wires have a length and that behaviours last for at least a second
(`WireAssumption`, `NodeAssumption`).

**Settings.** For each connected peer, `ToldInv` names who will still tell it the
requirement in force: the caller that has not listed or notified it yet, the
handshake that has not loaded or sent it yet, or the last packet on its way.
Otherwise it knows, or its handshake is going to fail. With two callers the
property is false: the notifications of two changes can be sent in the other
order than the changes were stored.

`PolitePeerAccepted` is about time. As long as changes do not follow each other
too fast, at most one setter or one sleeping goroutine is at work (`Phase`). All
requirements a peer knows of or may still come to know of (`Words`) are in force
or tolerated (`Known`). When everything has settled only the one in force is left
(`Calm`). While the goroutine that will replace the tolerated value sleeps, old
words and envelopes that met only them have less time left than it has
(`Fading`): a notification travels for one `Delay`, an envelope sent just before
it arrives for another. Hence the premise `SyncAllowance > 2 * Delay`. Nothing
is assumed of the configured PoW. `PolitePeerAccepted` excepts the one case in
which the code has no tolerance to give, and no longer than it lasts: until a
first change has settled, on a node configured below the default
(`DefaultIsTooMuch`). Without the exception it is `GoodFaithAccepted`, which the
run SettingsTolerance refutes.

**Subscriptions.** The matchers index the watchers as no filter has two
identifiers (`OneIdEach`). The bloom filter covers the topics because those not
yet advertised are in the hands of the one call under way, and all of them when
it is about to store (`Covered`); with two calls this fails, as the run
SubscriptionsConcurrent shows. `StoredIsMatched` is about the loop of
`NotifyWatchers`. `NotifyOneEffect` is one turn: whether an earlier filter has
opened the message makes no difference to what the next one gets. A first turn
after which a wrong filter is triggered, or a right one is not, is impossible
(least counterexample), so the whole loop triggers exactly the filters that
match; that every filter is visited rests on the finiteness of the matchers
(`FiniteMatchers`), which `Subscribe` keeps.

**Mail server.** `MailServerInv` relates the link, the calls under way, the
requests and answers on the wire, and the announced ones. That a completion
decodes to what the server encoded is proved from the lengths (`TakeDrop`), for
any length of hash, cursor and prefix, under the assumption that a request
identifier does not start with the error prefix. `DeliveryInv` follows the mail
sent before a completion from the wire through the pending posts to the queue,
per connection; `SyncInv` does the same for a synchronisation and the archive.

**Rate limiter.** `InPlace` gives the place in the stream of every packet: read and
not passed on, in the pipe, in the hands of the loop, consumed or not, handled.

Only model-checked: the liveness properties `PoolDrains`, `AddReturns`,
`InsertedIsDelivered`, `Propagates`, `RequestConcluded`, `ResponseReported`,
`DecorateReturns` and `OneLeftBehind`. They rest on fairness, and TLAPS 1.4.5 does
not reason about ENABLED. Every safety property of the passing runs is a theorem.

The proof system has no induction principle that its provers can instantiate. Where
a proof needs induction (loops, sums over sets, powers of two, cardinalities) it
takes the least number for which the claim fails (`LeastNumber`, from the
well-foundedness of the naturals) and refutes it.

## 5. Not modelled

* **The mail server**: an interface in this repository; MailServer lets it
  answer as it likes.
* **Cryptography**: keys and signatures are assumed to do what they say; an
  envelope opens with its key and no other.
* **Event feed**: subscribers are taken to be buffered, so that events do not
  block. `expire` sends events while it holds two locks, which such a
  subscriber must not depend on.
* **Single stores**: `SetMaxMessageSize`, `SetTimeSource`, `SetMinimumPowTest`,
  `RegisterServer` and the light client switches. `SelectedKeyPairID` only reads.
* **One `*Filter` installed twice**, which Go callers could do and the RPC API
  does not.
* **Lookups of keys for a filter**: `Messages` and `NewMessageFilter` read the key
  store once and fail, or go on with the key they found.
* **Client** (`shhclient`): a wrapper of RPC calls without state.
* **Configuration, metrics, fuzzing entry point, generated JSON code**: default
  values, counters and field by field copies.
* **Token buckets**: a vendored library; in RateLimiter they may be empty at any
  time.
