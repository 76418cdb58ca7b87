# A verification development for openpeer

The repository is the C++ client library of Open Peer: signalling between peers
over bootstrapped networks, documents published and subscribed to, conversations
and calls, and below them a transport of its own, a reliable stream over UDP with
NAT traversal. This directory holds TLA+ modules that model parts of it,
configurations that check them with TLC, and proofs that TLAPS checks. Paths are
relative to `src/`; line numbers refer to the files there.

Where to start: `RUDPChannelStream.tla` is one end of a reliable UDP stream,
`RUDPChannelPair.tla` two ends and a network between them, `ReliableStream.tla`
what the two are to achieve, `RUDPChannelStreamProofs.tla` and `RUDPChannelPairProofs.tla` what is
proved of an end and of the two. A module whose name ends in `Proofs` holds the theorems about the
module it is named for, or about those of a directory (`ServicesProofs`, `StackProofs`).
`MessageDelivery.tla` and `CallDialogs.tla` are the conversation and the call, which
the library is for; each of the other modules stands by itself, and
[section 3](#3-modules-and-the-code-they-model) says which code it models.

Contents: [inventory](#1-inventory), [plan](#2-plan),
[modules and code](#3-modules-and-the-code-they-model), [runs](#4-runs),
[fairness](#5-fairness), [proofs](#6-proofs), [findings](#7-findings),
[what is left out](#8-what-is-left-out).

## 1. Inventory

All objects of the library follow one scheme. An object has a recursive lock
`mLock`, a list of states with `setState`, and a `cancel()` that may have to be
called more than once before everything below has shut down. Calls between
objects go through proxies that post them to a `MessageQueue`; a few proxies
(the send-packet delegate of a stream, for one) call straight through. A `step()`
method re-evaluates what to do next whenever anything below changes. What is hard
in such code is the same everywhere: a callback that arrives after `cancel()`, two
calls between which the lock was free, a state read on one side of an unlock and
used on the other, and `step()` not being called by the one event that mattered.

### services: transport (`openpeer/services/cpp`)

| component | state | operations | what is hard | what makes it correct |
|---|---|---|---|---|
| **RUDPPacket** | none (codec) | `setSequenceNumber`/`getSequenceNumber` and the GSNR/GSNFR ones, `vectorEncoder*`, `vectorDecoder*`, `packetize`, `parse` | 24 of 64 bits travel; a run length has six bits; the vector may be cut short or left out altogether | the number sent is the number recovered; what the vector says is true, and its parity bit fits it |
| **RUDPChannelStream** | packets sent and unacknowledged with five flags each, batons, three timers, the forced ACK; packets received out of order, GSNR, GSNFR, parities; hold on sending; shutdown state | `handlePacket`, `handleExternalAck`, `sendNow`, `onTimer`, `onSendNow`, `notifyReadReady`, `setStreams`, `shutdown`, `shutdownDirection`, `cancel` | loss, reordering, duplication, late ACKs; `sendNow` gives up the lock round every packet; a forced ACK suppresses all timers | in-order delivery; nothing forgotten that did not arrive; work that waits is always woken; graceful end delivers everything |
| **RUDPChannel** | the stream, the open request, outstanding ACK requests, keep-alive timer, nonce and credentials | open and accept, `handleSTUN`, `handleRUDP`, request responses and timeouts, `shutdown`, `cancel` | answers that come after `cancel`; a graceful close while requests are outstanding; a close from the other side | each forced ACK is pursued until answered or fatal; a close is told to the peer |
| **TransportStream** | queue of buffers with headers, how much of the first was read, what a block holds back, subscriptions, three flags for notifications | `write`, `block`, `read`, `skip`, `peek`, `subscribe`, `notifyReaderReadyToRead`, `cancel` | a subscriber is told once, not as long as it is ready: the flags must be cleared by every event that makes telling due again; reads end anywhere in a buffer; `cancel` drops what was not read | no lost wake-up of a reader or a writer; bytes once and in order |
| **RUDPListener**, **RUDPMessaging**, **RUDPICESocket(Session)** | channels by remote address and channel number; message framing | route packets to channels, accept, frame messages | a channel number reused while the old channel is closing | a packet reaches the channel it belongs to or none |
| **STUNPacket** | none (codec) | parse and packetize of STUN | byte parsing | round trip |
| **STUNRequester**, **STUNRequesterManager**, **STUNDiscovery** | request, try number, back-off timers; requesters by transaction id | send, retransmit, `handleSTUNPacket`, timeout, cancel | an answer that races the last timeout or `cancel`; weak references in the manager | each request ends in exactly one of answer, timeout, cancel |
| **TURNSocket** | allocation, permissions, channel bindings, refresh timers | allocate, refresh, permissions, bind, deallocate | permission requests in flight while data waits; refresh against expiry | data goes only where a permission is installed |
| **ICESocket**, **ICESocketSession** | candidates; pairs with their checks, nominated pair, keep-alives | gather, pair, check, nominate, switch, timeouts | both ends nominating; role conflicts; a nominated pair that dies | both ends settle on one pair |
| **TCPMessaging**, **MessageLayerSecurityChannel** | partial frames; keying, nonces, sequence of seals | framing, keying material exchange, seal and open | partial writes; keys that arrive after data | frames arrive whole, in order, under keys agreed |
| **DNS**, **DNSMonitor**, **HTTP** | pending queries | one request, one answer | cancellation | at most one answer |
| **Logger, Helper, CanonicalXML, RSA keys, Factory** | none of interest | formatting, keys | - | - |

### stack: signalling (`openpeer/stack/cpp`, `openpeer/stack/message`)

| component | state | what is hard and what makes it correct |
|---|---|---|
| **Account**, **AccountFinder**, **AccountPeerLocation** | account state, finder connection, peer locations and their relay or ICE session | a location that is notified, found and shut down at once; exactly one connection per location |
| **BootstrappedNetwork(Manager)** | certificate and service queries | a chain of requests that ends ready or failed, and tells every waiting client |
| **FinderConnection**, **FinderRelayChannel** | channels multiplexed over one connection | channel numbers, and messages for channels that are already gone |
| **MessageMonitor(Manager)**, **MessageIncoming** | one request awaiting its answer | answer, timeout and cancel race; the delegate hears of exactly one |
| **Publication**, **PublicationRepository**, **PeerSubscription**, **Diff** | document versions, fetchers, publishers, subscriptions, leases | versions arrive as differences against a base; a fetch overtaken by a publish; a lease that ends under a subscription |
| **Location**, **Peer**, **PeerFiles** | identity data | no state machine of their own |
| **Service sessions and queries** | log-in sequences of identity, lockbox, namespace grant | frames and requests that answer out of order |
| **messages, Cache, Helper, Factory** | none of interest | serialisation |

### core: conversations and calls (`openpeer/core/cpp`)

| component | state | what is hard and what makes it correct |
|---|---|---|
| **Call**, **CallTransport** | call and per-location state, media | both ends' view of ringing, open, hold, closed; a pick among several locations that answer |
| **ConversationThread**, **Host**, **Slave**, **DocumentFetcher**, **parser** | thread document with messages and their delivery states | host and slaves agree on the document; no message lost when the host changes |
| **Account**, **Identity**, **IdentityLookup**, **Contact**, **MediaEngine**, **Stack** | wrappers of the above | set-up and tear-down order |

`javascript/` (a log-in page and a third-party phone number library) and
`projects/` (build files) hold none of the library's logic.

### How the modelled parts interact

```
 application                 application thread(s)
   | write / read            | shutdown, shutdownDirection, setStreams
 TransportStream             |
   | posts onTransportStreamReaderReady
 RUDPChannelStream  <----  RUDPChannel  <---- socket (packets, STUN)
   | sendPacket: called at once, with no lock held
   | sendExternalACKNow, stateChanged: posted to RUDPChannel
   ------------------>  RUDPChannel  ----> STUNRequester / socket
```

A data packet carries its sender's acknowledgement of the other direction. When
that is not enough the stream asks its channel for an *external* ACK: an
indication (unreliable, no answer) when a received packet required one and no data
was there to carry it, or a *forced* ACK, a STUN request that is retransmitted
until answered, whose answer tells the stream what arrived.

`RUDPChannel` creates its stream with its own associated queue, so all callbacks
of a stream (timers, posted calls, packets, STUN) run one after the other on one
thread. Application threads call `write`, `shutdown` and the like directly.
`RUDPChannel` holds its own lock while it calls `setStreams`, `shutdown`,
`shutdownDirection` and `handleExternalAck`, and takes it in the send-packet
callback; `handleRUDP` calls `handlePacket` without it.

Above the transport the same roles come back. `RUDPMessaging` and `TCPMessaging` sit
between an application's transport stream and that of the wire and frame messages.
`STUNRequester`, `STUNDiscovery` and `MessageMonitor` are requests that wait for one
answer. Locations exchange documents: `PublicationRepository` keeps those of a
location, sends the differences and fetches those of others. A conversation is
made of such documents and nothing else. The host of a thread publishes all its
messages and the dialogs of calls, each guest (a *slave*) its own; receipts and the
states of calls are read out of what the other end has published. A `Call` steps
when a document changed, and `CallTransport` decides which of the calls of a location
has the microphone.

### Hazards

`PROJECT.json` lists them, each at its line with the properties that cover it.
In short, for the transport: 24-bit numbers and six-bit runs at their limits; ACKs that are late,
repeated or overtaken, and name packets already freed; the last baton; `sendNow`
interrupted at every packet by ACKs, by another `sendNow`, by `cancel`; wake-ups
lost while a forced ACK is outstanding or after a duplicate freed everything; a
graceful shutdown that must wait for three kinds of unfinished data, races the
stream's own end and gives up the requests the stream waits for; notifications that
a transport stream posts once, to subscribers that come late, read little, or empty
the stream behind each other's back; frames that are taken or arrive in pieces.
For requests: answers that race `cancel`, the timer, or the delegate's own judgement
of an earlier answer; servers that refer to each other. For documents and what is
built on them: a difference applied to the wrong version; fetches queued behind
each other; messages that are acknowledged by a receipt of a later one, pushed while
they arrive, or left behind by a host that is started anew; a call that two
locations answer at once; two queues that count restarts of the media engine in
one counter.

## 2. Plan

What is there, in the order in which it was built, and what would come next.

1. **RUDPPacket, RUDPChannelStream, RUDPChannelPair** with `ReliableStream` as
   their abstract specification - *done*, with proofs.
2. **TransportStream**, alone - *done*, with proofs.
3. **RUDPMessaging** and **TCPMessaging** over transport streams, against
   `ReliableStream` - *done*, TCPMessaging with proofs. To come: the message layer security above them.
4. **STUNRequester** with its manager, and **STUNDiscovery** over it, against
   `OneOutcome` - *done*, with proofs. It discharges what `RUDPChannelPair` assumes of a request.
5. **MessageMonitor** with its manager - *done*, with a proof.
6. **PublicationRepository**: versions, differences, fetches and leases between two
   locations - *done* for one document, with proofs.
7. **CallTransport** (which call is heard), **CallDialogs** (the ends of a call) and
   **MessageDelivery** (host, guests, receipts) - *done*, with proofs.
8. **RUDPChannel**'s own life: open, accept, nonce refusal, lifetime refresh,
   remote close; **RUDPListener**: routing by channel number.
9. **ICESocketSession**: pairs, checks, nomination, role conflict and keep-alive of
   two ends; then **TURNSocket** permissions and channel bindings.
10. **Account** with **AccountFinder** and **AccountPeerLocation**: finding a peer and
    connecting to it, which `MessageDelivery` takes as external; **FinderConnection**.
11. Several open threads of a conversation, and the contacts that come and go.

Theorems to add: those of `RUDPMessaging`, along the lines of `TCPMessaging`.

## 3. Modules and the code they model

`PROJECT.json` maps every definition to its lines.

| module | role |
|---|---|
| `RUDPPacket` | operators: sequence numbers cut to their low bits and recovered, the run-length vector, its encoder and decoder |
| `RUDPPacketProofs` | the lemmas about these operators that all proofs about acknowledgements use: a number is recovered, a vector says what the encoder was told |
| `RUDPVector` | one acknowledgement from receiver to sender: every pattern of received and missing packets through encoder and decoder, with GSNR and GSNFR cut to their low bits and expanded again |
| `RUDPVectorProofs` | the numbers are recovered, and the vector and its parity are decoded as they were meant, for every modulus, run and vector length |
| `RUDPChannelStream`, `MCRUDPChannelStream` | one end of a stream; the MC module gives it a peer that may send anything |
| `RUDPChannelStreamProofs` | type correctness, the sender's books, and that waiting work is always awaited, for every constant; then what an end does when what it is told is true, which the pair needs of each |
| `ReliableStream` | abstract: what is read is a prefix of what was written |
| `RUDPChannelPair`, `MCRUDPChannelPair` | two instances of the stream (with what is proved of it), the channels' part in carrying ACKs, the network |
| `RUDPChannelPairProofs` | what the ends are told is true, each direction implements `ReliableStream`, a stream that ends gracefully has delivered all, and a forced ACK is pursued, for every network and bound |
| `TransportStream` | the queue of buffers: writers, readers, blocks, subscriptions and the calls posted to subscribers |
| `RUDPMessaging`, `TCPMessaging` | messages as frames over a reliable stream and over TCP |
| `OneOutcome` | abstract: a request ends once, and stays as it ended |
| `STUNRequester`, `STUNDiscovery` | STUN requests with their manager; the search for a STUN server made of them |
| `ServicesProofs` | of `TransportStream`: nobody who waits is forgotten, and every byte is handed over once and in order, for every set of readers, writers and sizes; of `STUNDiscovery`: the map of the manager is exact, no server is asked twice, and a discovery implements `OneOutcome`, for any requests, servers and lookups; of `TCPMessaging`: messages arrive whole, once and in order, none is left behind, and a lingering object has its timer, for any messages |
| `MessageMonitor` | requests of the stack and their manager |
| `PublicationRepository` | one document, its publisher and a subscriber |
| `StackProofs` | of `MessageMonitor`: a delegate that one message reached is told of one end, for any number of monitors and messages; of `PublicationRepository`: what is held is true, and one fetch is active, for any number of versions, fetches, messages and lost connections |
| `CallTransport` | which call of a location is heard |
| `CallTransportProofs` | the media engine follows the focus, and an open call is heard, for any number of calls and of what is done with them |
| `CallDialogs` | a call between one location and those of the contact it is placed to |
| `MessageDelivery` | messages of a conversation between the host of a thread and its guests |
| `CoreProofs` | of `CallDialogs`: the ends of a call agree, for any number of locations that ring, hangups and failed connections; of `MessageDelivery`: what counts as delivered was received, and what is given up in a thread was outstanding there and is given up once, and in another thread too only by a guest that moved its messages, for any locations and numbers of messages, lost connections and a restart |
| `MCStream`, `MCPairReorder`, `MCEnds`, `MCLive`, `MCServices`, `MCParts` | what TLC runs: several small instances each, of which a behaviour moves one (`at`). What has theorems is extended with the constants of the configuration, so that TLC evaluates its assumptions and a property it checks is the one that is proved: `MCStream` extends `MCRUDPChannelStream`; `MCPairReorder` the pair; `MCEnds` the pair and `CallDialogs`; `MCLive` the pair and `MessageDelivery`; `MCServices` `TransportStream`, `STUNDiscovery` and `MessageMonitor`; `MCParts` `RUDPVector`, `TCPMessaging`, `PublicationRepository` and `CallTransport`. The other instances are INSTANCEs with values of their own |

### The stream's state

| model | code |
|---|---|
| `ctl` | `mCurrentState`, `mShutdownState`, `mDelegate` (present or reset), `mLastError` |
| `tx.packets`, `acked`, `holding`, `flagged`, `failed` | `mSendingPackets`, and per packet: `mPacket` reset, `mHoldsBaton`, `mFlagForResendingInNextBurst`, `mFlaggedAsFailedToReceive` |
| `tx.next`, `xorNow`, `resend`, `avail`, `ppb` | `mNextSequenceNumber`, `mXORedParityToNow`, `mTotalPacketsToResend`, `mAvailableBurstBatons`, `mPacketsPerBurst` |
| `tx.timers`, `frozen` | `mBurstTimer`, `mEnsureDataHasArrivedWhenNoMoreBurstBatonsAvailableTimer`, `mAddToAvailableBurstBatonsTimer`; `mBandwidthIncreaseFrozen` |
| `tx.forceID`, `forceSeq`, `forceNext` | `mForceACKOfSentPacketsRequestID`, `mForceACKOfSentPacketsAtSendingSequenceNumber`, `mForceACKNextTimePossible` |
| `rx` | `mReceivedPackets` beyond the GSNFR, `mGSNR`, `mGSNFR`, `mXORedParityToGSNFR`, `mGSNRParity`, `mWaitToSendUntilReceivedRemoteSequenceNumber` |
| `io` | the transport streams: unread data to send, data delivered, data kept until `setStreams` |
| `burst` | the locals of the `sendNow` under way, and with `pc # "idle"` `mAttemptingSendNow` |
| `posted`, `due`, `wire`, `app` | a posted `onSendNow`/reader-ready; external ACKs asked of the channel; packets handed to the delegate; the application inside `shutdown(true)` |

### Steps

A step is one locked section, or a run of locked sections between which nothing
that another thread may do can tell the difference:

- `handlePacket` is four actions by its outcome (ignored, illegal ACK, data dropped,
  accepted). The last one includes delivery and, when no `sendNow` is under way,
  the entry into one. After its locked section the handler only calls `sendNow`,
  whose first test is what `EnterSendNow` does.
- `sendNow` is ten actions: the entry and the choice of a burst; for each packet,
  *choose* (the search for a packet to resend and the creation of a new one are
  separate locked sections in the code; only an application thread can come
  between, and `write` or `shutdown` there is the same as before the pair), *hand
  over without the lock*, *book*; `sendNowCleanup`; and the unwinding that clears
  `mAttemptingSendNow`, after which `handlePacket` asks for an external ACK when no
  packet was created.
- `cancel()` clears the packets but not the counters; they are not used again, and
  `TxConsistent` says nothing of them after the end.
- `RUDPChannel::mLock` appears as the guard `ChannelFree`: what takes it waits while an
  application thread is between the two halves of `shutdown(true)`.
- A packet's payload is one *unit*; how many bytes of the transport stream a packet
  takes is data. Timer durations and RTT estimates are left out: a timer that is set
  may fire at any time. "Ten seconds without loss" (`handleUnfreezing`) is a free choice.
- Timer objects that fire after being cancelled are compared and ignored by
  `onTimer`; so a timer is in `tx.timers` or does not fire.
- Posted calls that wait at the same time are one boolean: each only calls `sendNow`.
- `AckIds` stands for the identifiers `PUID()` makes. An identifier is not used again while a
  request under it is outstanding. With few of them the model can run out, which
  only removes behaviours when more than `|AckIds|` requests are outstanding.
- Two oddities are modelled as written: the search for a packet to resend has no
  `break` and settles on the *last* flagged one (1171-1196, the comment says "the
  next"); `shutdownDirection(Send)` records the direction and changes nothing else.

### The pair

`RUDPChannelPair` instantiates the stream twice. B was called, so it holds sending
(`holdSendingUntilReceiveSequenceNumber`). The network keeps packets, indications
and answers in sets: anything in them may be handled in any order; with
`Duplicates` it stays there and may be handled again. A STUN request stays in
`requests` (retransmission) until its answer was handled, it timed out or the
channel was cancelled. From `RUDPChannel` come: the posting of external ACKs (the
ACK says what the stream knows when the channel gets to it), requests and
indications received, answers matched to requests, keep-alives (`onTimer`), the
fatal timeout, `shutdown`, and the open request of lifetime 0 by which a channel
that ended has the other one close. A channel whose request timed out sends no such
request any more, as in the code.

### The transport stream

| model | code |
|---|---|
| `stream.buffers` | `mBuffers`; of each buffer `left`, the bytes beyond `mRead`, and its header |
| `blocking`, `blocked`, `blockHeader` | `mBlockQueue` present or not, its bytes, `mBlockHeader` |
| `shutdown`, `readerReady` | `mShutdown`, `mReaderReady` |
| `readNotified`, `writeNotified` | `mReadReadyNotified`, `mWriteReadyNotified` |
| `readers`, `writers` | the members of the two `ProxySubscriptions` |
| `readerCalls`, `writerCalls` | how many calls the proxies have posted to each subscriber's queue that were not made yet |
| `written`, `writes`, `taken`, `missed` | history: bytes and writes so far, the bytes handed out, and whether a read of zero bytes took a buffer after the readers were told |

Every operation of the class runs under its lock from start to end and is one action;
what a helper of the class does to the object is an operator of its own, and
`NotifySubscribers` is part of each operation that calls it. Each byte written is a number
of its own, so that one that is lost, repeated or out of place shows. Any thread may
read, write and subscribe at any time; a subscriber with a call posted to it
reads when its queue gets to the call, the next buffer or as many bytes as
`getNextReadSizeInBytes` says, which is zero for a buffer without bytes.
The shared queue of `RUDPChannelStream` is modelled in its own module as a FIFO of data
units; `BytesKept` is what justifies it.

### Messaging over streams

`RUDPMessaging` has four transport streams, each a record with the fields of
`TransportStream` that a reader or writer can tell apart (what is in it, whether it is
ready and told, whether it has ended), and two `RUDPMessaging` objects between them,
which act only when a stream calls them: `onReaderReady`/`onWriterReady` of
the outer and the wire streams, the channel's state changes, `shutdown`. The channel
between the wire streams is what `RUDPChannelPair` shows it to be, until it ends.
The size before each message and the message are sequences of units, moved in
pieces of any length, so that a frame may be cut anywhere.

`TCPMessaging` has the two objects on a socket each. The socket is external: it says it
is writable once after each `connect` and each `send`, takes any part of what it is
given, and reports errors. `connect` and `accept` are two actions where the code lets
another thread in. `gone` is a call through a subscription that was not made yet.
Only messages from A to B are modelled; what A receives is the same code.

### Requests

In `STUNRequester` `stun.requester[r]` holds `mDelegate`, `mTryNumber`, the two timers and
how often the packet was sent; `stun.registered` is `mMonitors` of the manager.
`handleSTUNPacket` copies the delegate under the lock and calls it without: it is
found (`FindRequester`), asks the owner (`CallDelegate`) and removes the requester (`Answering`), and
anything may come in between. `onTimer` is two actions for the same reason.
`SharedQueue` says whether the answers come on the queue of the timers, as they do for
the sockets of the library, or on a thread of their own.

`STUNDiscovery` extends it with the object that asks one server at a time: the SRV
result it takes servers from, `mServer`, the request under way and
`mContactedServers`. It *implements* `OneOutcome`.

`MessageMonitor`: `monitor[m]` has `mDelegate`, the timer, `mTimeoutFired` and
`mPendingHandled`; `monitors` is the map of the manager; `stackQueue` the calls posted to
the stack's queue; `handling` the monitor whose delegate is judging a message.

### Documents

`PublicationRepository` has one document at publisher P and subscriber S.
`source` is the document with the differences it keeps (`Publication`), `believed` the
version that P's `PeerCache` says S holds, `held` the copy of S (`mCachedRemotePublications`),
`pending` its `mPendingFetchers`, `toP` and `toS` the messages on a connection that keeps
their order and loses those under way when it breaks; each end hears of that at a
time of its own. A text is its version number, and `Torn` the result of a difference
applied to a text it was not made from. Messages: subscribe, get and its result,
notify.

### Calls

`CallTransport`: the core queue runs the steps of calls, the media queue `onSetFocus`, `onStart` and
`onStop`; each action is what is done under one lock, and `stepping` and `playing` say how
far a queue has got. `focus.call` and `focus.object` are `mFocusCallID` and `mFocus`,
`transport.block` is `mBlockUntilStartStopCompleted`. The run excludes behaviours in which
`setFocus` throws for a call without a transport (`transport.thrown`).

`CallDialogs`: `published[e]` is the dialog of end e in its document, `seen[e][x]` what e
has of x's; `Replicate` brings over the latest version, skipping older ones. `Step` is
`Call::step` with `stepPrepareCallLocations`, `stepTryToPickALocation` and
`stepHandlePickedLocation`. `Callees` is a sequence because the caller looks at those that answered
in the order of their IDs; it names each of them, neither the caller nor nobody, and is not empty
(`CalleesAssumption`). What is as the code has it, and worth knowing: a call that
is hung up before its media is ready has no dialog and tells nobody (`core_Call.cpp:2011`), so
the model lets the application of a callee hang up only a call it may present
(`ICall.h:52`); a reason that is only in the dialog of a call that is `Closing` is lost
when the next version is read first (2019).

### Messages of a conversation

| `MessageDelivery` | code |
|---|---|
| `doc[<<t, e>>]` | the document of thread t that e publishes: `mHostThread` of the host, `mSlaveThread` of a guest |
| `side[<<t, e, x>>]` | at the host a `PeerContact` with its `PeerLocation`, at a guest the `ConversationThreadSlave` |
| `seen` | the other end's document as it was last read |
| `acked`, `state` | `mMessageDeliveryStates` of `PeerLocation`; of `PeerContact` and of the slave |
| `subscribed`, `timer`, `wake` | `mSlaveSubscription` / `mHostSubscription`, the delivery timer, a posted `onWake` or event of the subscription |
| `told`, `got` | `mMessageDeliveryStates` and `mReceivedOrPushedMessages` of `ConversationThread` |
| `pushed`, `converted` | history: messages given to `notifyMessagePush`; `mConvertedToHostBecauseOriginalHostLikelyGoneForever` |

A fetched document is handled in one action, with the `step` at its end. The host's own
`step` gathers receipts, wakes its contacts and publishes; it is part of every
action of the host that calls it. A message is looked at `late` when 30 seconds have
passed, which is a free choice for the first few of the list, as they were looked at
first. Restarting the host drops all it had, and a guest that meets the new one makes a closed
thread of its own out of what it has (`convertSlaveToClosedHost`). Looking for a peer
and connecting to it is external: anybody who is subscribed to may be looked for,
found or not. Left out: contacts that change, several open threads of one
end (each end of the model hosts at most one), a guest's new thread after the host's restart,
calls that keep a subscription alive (`hasCallPlacedTo`).

## 4. Runs

Every run finishes within the five minutes of its budget on two workers. States are
distinct states.

| run | bounds | shows |
|---|---|---|
| `stream` | "sender": 2 units, 2 batons, bursts to 2, any ACK between any two steps of a burst; "life": packets in order and beyond a gap with honest and absurd ACKs, hold on sending, streams set late, shutdowns, the receive direction shut, the channel destroyed; 966,698 states | `TypeOK`, `TxConsistent`, `NeverStalled`: waiting work always has a burst, post, timer or answer that will move it |
| `pair_reorder` | "packets": everything reordered and repeated, modulus 10, the smallest that keeps an end's packets within half of it, so that the wire number wraps; "burst": 4 packets of any parity sent in one burst, then their arrival and acknowledgement in any order; 1,332,529 states | `DeliversInOrder` (refinement of `ReliableStream` by each direction), `AckedOnlyReceived`, `NoFalseAlarm`, with ACKs whose vector spans packets freed in the meantime, which takes four packets |
| `ends` | "ends": shutdown at both ends, keep-alives, fatal timeouts; "lossy": shutdown of the sender with two losses; "duplex": one packet each way, B's streams set late; "dialogs": two locations that ring, one hangup or failed connection; 1,649,635 states | `GracefulEndDelivers`; `OpenAckPursued`: the forced ACK that an end waits for is a request, an answer or about to be one, unless its channel is closing; `DialogTypeOK`, `CallAgreed`: when all has settled the ends of a call agree on who is in it and whether it is over |
| `live` | "pair": one packet, two losses; "two": a message of the host and one of a guest, a lost connection, the host started anew, a guest that cannot be found; "more": two messages of the host, then one of a guest; "three": both guests can be found; fair; 81,076 states | `EventuallyDelivered`; `DeliveryTypeOK`, `DeliveredIsReceived`, `PushesOnlyOutstanding`, `EverythingSettles` |
| `services` | a transport stream with two readers and a writer, two writes of 0 to 2 bytes, blocks, reads of up to 1 and 2 bytes and of a buffer; two STUN requests, one retransmission, one retry; a discovery with two servers that refer to each other and one without a port; two monitors that are answered twice each; fair; 121,201 states | `ReadersTold`, `WritersTold`, `EventuallyRead`, `BytesKept`; `ManagerKnowsWaiting`, `OwnRequestsEnd`; `NoServerAskedTwice`, `OneOutcomeOnly` (refinement of `OneOutcome`), `DiscoveryEnds`; `OneMessageOneEnd`, `MonitorEnds`; `ServicesTyped` |
| `parts` | acknowledgement vectors: gaps up to 5, runs up to 3, vectors up to 3 bytes, modulus 16, four first numbers, the sender up to just under half the modulus ahead; RUDP messages of 0 and 1 units in pieces of up to 3, either end may end; TCP messages of 0 to 2 units, of which B takes 1; a document of three versions, two fetches, one lost connection; a call placed and one that comes in; 1,297,113 states | `Recovered`, `DecodedIsTrue`, `ParityOfDecoded`; `RUDPMessagesWhole`, `NoneLeftBehind`; `TCPMessagesWhole`, `NothingUnsent`, `ShutdownEnds`; `HeldIsTrue`, `OneFetchActive`; `OpenIsHeard`, `MediaFollowsFocus`; `PartsTyped` |
| `stream_race`, `pair_stale_ack`, `pair_hang`, `publication_fetch`, `call_focus`, `message_receipts` | as small as shows it | the [findings](#7-findings) |

A module that runs several instances keeps the variables of those that do not move as their
`Init` has them, and its properties are those of the instances. In `live` and `services`
nothing that is assumed fair can happen in the initial state of an instance, so that
those that do not move are treated fairly, and vacuously so.

Why these bounds are enough. Every branch of `handlePacketLoss` needs two batons
and two packets per burst at most. A vector says something only of packets between
GSNFR and GSNR; three packets give a gap with a received packet on each side, four
give the case in which a late vector covers a packet that was freed *below* one
that was not, which `VectorParityWrong` exists for. Sequence numbers matter only
by order and by wrap; the pair starts just below a wrap. Two losses suffice to lose
a packet and its first resend. In the transport stream two buffers are a first that is cut
and a rest, and an empty one may be either; what `NotifySubscribers` does
depends on whether there are buffers, not on how many; two readers are one that is told
and one that comes later or reads what the other was told of. With frames up to three units
and pieces up to three every cut of a frame happens: in the size, behind it, in the
message, across two. Three versions let a difference skip one; two fetches are one that asks and one
that waits. Two requests, monitors or calls are what a mix-up needs. A call needs
two locations for one of them to lose. In a conversation two messages make a receipt that covers one
it does not name, a third one behind them shows what is looked at again, and a second
guest receives what the first one sent. Every bound is a constant or, for
`OneBurst`, `AckSet` and the choices of `MCLive`, a definition of the MC module that says what it restricts.
`CHECK_DEADLOCK FALSE` appears where the system may stop: everything is delivered,
the streams have ended, and no timer runs.

The view `WithoutWire` leaves out `wire`, which nothing reads in a run of one end.

## 5. Fairness

`FairSpec` asks only for what the code and its platform provide:

- WF of a burst: the thread that is in `sendNow` goes on. WF of posted calls, of
  the burst and the ensure timer: a message queue is served, a set timer fires. The
  add-baton timer is not needed and has none.
- SF of handling a packet that stays in the network: it is a datagram waiting in
  the socket of a thread that is busy now and then with a burst; the queue is in
  order, so it is handled in its turn. The network may take it away (`Lose`), at
  most `MaxLosses` times.
- WF of a forced ACK becoming a request, of the request being handled and
  of its answer: the STUN requester retransmits until one of these happens.
- WF of the rest of a `shutdown(true)` an application thread is in, of the
  keep-alive timer and of the remote close.
- In `STUNRequester` and `STUNDiscovery`, WF of a `handleSTUNPacket` and of an `onTimer` under
  way, and SF of the timer of the whole request, which is held up only by another thread
  that has the lock. Nothing for the network: answers need not come.
- In `MessageMonitor`, WF of the stack's queue and SF of the timers.
- In `MessageDelivery`, WF of a posted wake or event and of the delivery timer when the 30 seconds
  are over. Nothing for the network, for looking for a peer or for fetching a document:
  a message settles without them, by being given up.
- In `TransportStream`, WF of the call posted to each reader: a message queue calls what
  was posted to it. Nothing for the writers, and nothing for reads nobody was told to make.
- Nothing for indications, which may all be lost, and nothing for the application:
  it need not write, shut down or set streams.

## 6. Proofs

TLAPS checks thirty-two theorems, for all values of the constants, bounds included. Each but
`VectorSurvives` and `SpecTCPTypeOK` (a part of `PartsTyped`) states a property that a run checks, under the assumptions that the modules name next to their constants
and nothing else: `StreamAssumption`, `MessagesAssumption`, `SeqModulusAssumption`,
`MaxRunAssumption`, `MaxVectorAssumption` (two bytes at least: in a vector of one, a first run that
is longer than six bits can say would be taken for the whole of it), `VectorAssumption`,
`TransportStreamAssumption`, `TCPMessagingAssumption`, `DiscoveryAssumption`, `CallsAreNamed`, `CalleesAssumption`,
`WireAssumption`, `DeliveryAssumption` and `PairAssumption`. They give types, and keep the value that means nobody apart from
names. `PairAssumption` says more: each end sends fewer packets than half of what a sequence number can
tell apart, 2^23 in the code, as beyond that `getNumberWithHint` has to guess. `SpecNeverStalled` has two
hypotheses of its own, and the theorems of the pair one, `SharedQueue`, which is how `RUDPChannel` uses
the stream.

Hardly one of the properties is inductive: what follows names the invariant that is, and why it is
needed.

### Streams and acknowledgements

**`SequenceRecovered`** (`RUDPVectorProofs`): `Spec => []Recovered`, for every modulus, first
number, gap and bound. The lemma under it says that for every number and every
hint, both natural and less than half the modulus apart, `NumberWithHint` returns the number
whose low bits were sent; it is what data packets rely on too, with the GSNR as the
hint. Arithmetic of quotient and remainder. The invariant adds that GSNFR and GSNR
are natural numbers and that the packet carries their low bits.

**`SpecDecodedIsTrue`**, **`SpecParityOfDecoded`** (`RUDPVectorProofs`): `Spec => []DecodedIsTrue` and
`Spec => []ParityOfDecoded`. `VectorInv` says where the encoder is and what its bytes mean so far
(`EncoderOK`): `Described` cuts the packets where the bytes of the vector end, so that the n-th byte
stands for the packets of one state between two cuts; a byte that grows moves the last cut, a new
byte adds one, and a full vector stops them both (`EncoderAdds`). With the cuts as numbers there is no
induction over the bytes: a lemma each says what the first byte describes, what is left without it,
and what a byte more adds. `ParityOK` relates the encoder's parity to the packets covered, through a
parity defined by recursion of which only one step is used. A vector that is left out must be made up by
the decoder as the one byte that was (`DecoderStarts`), which takes the run of six bits and the assumption
on the length of a vector; `DecodesRest` says what the decoder has still to return.

**`VectorSurvives`** (`RUDPPacketProofs`) is the same as a statement about the two operators, for the
vector of a whole gap: what `DecodeVector` returns for what `EncodeVector` wrote is, packet by packet, what was
written, as far as the vector reaches, and the parity in the packet is that of the packets so covered.
The invariant above is the encoder's loop seen from outside; here the loop is a recursive function, and the
packets up to where it has got to take the place of the steps of a behaviour. The proofs about the pair
rest on it.

**`SpecTxConsistent`** (`RUDPChannelStreamProofs`): `Spec => []TxConsistent`. From
`StreamAssumption` only, so for every set of packets and ACKs the network may
hand in. `TxConsistent` is not inductive: that the number of flagged packets is
`mTotalPacketsToResend` is only preserved if the sets are finite and flagged packets
are among the unacknowledged ones, and that a baton remains needs the number of
batons a natural number and, in the middle of a burst, nothing of the burst's
locals. `BooksInv` says this: *shape* (fields and their types, finite sets, subset
relations, which hold even after the end) and *balance* (the two counting facts,
while the delegate is there). The proof follows the code's layers: one lemma per
transformer of the sender's record (`DoNotResendBooks`, `ReleaseBatonBooks`,
`FlagForResendingBooks`, `EraseBooks`, `HandlePacketLossBooks`, ...), composed into lemmas for
`HandleAck`, `HandleForcedAck` and `Cleanup`, and one step lemma per action.

**`SpecTypeOK`**: `Spec => []TypeOK`, with `MessagesAssumption` (numbers in packets are
naturals). `TypeOK` holds facts about the receiver too: the GSNFR never passes the GSNR,
and every buffered packet lies beyond a gap, so no packet that could be delivered is
held back. For that `deliverReadPackets` must find an end of the run that starts
after the GSNFR (`DeliverableRun`), and it finds the greatest one because the least number that is
missing exists (`WellFoundedInduction`). Invariants: `RxInv` for the receiver, `CtlType`,
`BurstType` and `OtherType` for the rest, with `BooksInv` for the sender.

**`SpecNeverStalled`**: `SharedQueue /\ FirstInWindow => (Spec => []NeverStalled)`. While the stream
runs, is not held and has something to send or unacknowledged, a burst, a posted `sendNow`, the burst or
ensure timer, or an external ACK is on its way. `StallInv` strengthens it: a forced ACK that is waited for
is on its way; an end that is held has received nothing; and where no `sendNow` is in its loop, the
work is awaited (`Moving`), which `sendNow` gives up while it runs and `Cleanup` restores by setting a
timer or forcing an ACK. Both hypotheses are needed. Without `SharedQueue` a wake-up may be
lost between the threads (the class documents that; `RUDPChannel` does not use it so). `FirstInWindow`
says that no packet of the peer of an end that holds sending lies beyond the window of the number
that it waits for: such a packet lifts the hold and returns before `sendNow`
(`services_RUDPChannelStream.cpp:458`), and what was written stays until something else happens. No
peer of this implementation starts there. `MCStream` assumes both (`ProofsApply`), so that TLC evaluates
them on the packets of its run.

**`SpecAckedOnlyReceived`**, **`SpecNoFalseAlarm`** (`RUDPChannelPairProofs`):
`SharedQueue => (Spec => []AckedOnlyReceived)`, and the same of `NoFalseAlarm`. What an end does when it is given an
ACK depends on whether that is true, and it is only if it was when it was made and has stayed so; so the
invariant ranges over every message that is under way. `PairInv` has four parts:

- two *histories*, one per direction: the parity bit of every packet ever numbered (`History`). The code
  keeps only their XOR, and `handleAck` compares XORs of different sets of packets that the two ends
  have put together in different orders. That both are the parity of the same set (`OddIn`) is what
  `NoFalseAlarm` comes down to; the sets are those of `VectorSurvives`.
- each end by itself (`Own`): its buffers and its parities are those of the history as far as it has read or
  written, and what it has put into its packets and its burst is true (`EndInv`, `CtlHonest`).
- what a sender believes: a packet it has freed, or marked as acknowledged, the receiver has
  (`Believes`). Receivers forget nothing they have told of until their delegate is gone.
- mail (`Mail`): each request, answer and indication *speaks* for the end that made it. Its numbers and vector are
  true of the history and its maker still has what it told (`Speaks`, `Honest`, `Knows`).

What a step of one end makes of its own part is proved once, in `RUDPChannelStreamProofs`, which knows the
peer only by what it may be told (`OwnMove`, `HandlePacketMove`, `HandleExternalAckMove`,
`EndInvInit`); an ACK that is true and in range is never taken for an illegal one. The pair's own
lemmas say that the rest is left alone because what an end has received and numbered only grows (`Grows`,
`AdvanceA`, `AdvanceB`, `MailKeptA`, `MailKeptB`), and that the two instances of the stream mean the same by
an ACK and a history (`HonestAlike` and its like). Numbers are recovered because no packet is further than half the
modulus from what its receiver has seen (`NearA`, `NearB`), which is where `PairAssumption` comes in. The network
may lose, repeat and reorder as it likes: it makes no message.

**`SpecDeliversInOrder`**: `SharedQueue => (Spec => DeliversInOrder)`, the refinement of `ReliableStream` by
each direction: initial states map to initial states, every step is a write, a read or a stutter of the abstract
stream. A read hands over the packets of a run behind the GSNFR; that they are the units next in order is part of `Own`, as
the n-th packet carries the n-th unit, and that nothing is read that was not written is `NotAheadA`, `NotAheadB`.

**`SpecGracefulEndDelivers`**: `SharedQueue => (Spec => GracefulEndDelivers)`, an action property. A
stream ends of itself only with nothing unread and nothing unacknowledged (`EndsDone`); then by
`Believes` the receiver has every packet, and a receiver without a gap has its GSNFR at the last.

**`SpecOpenAckPursued`**: `SharedQueue => (Spec => []OpenAckPursued)`, for both ends. The stream's part is
that the channel was asked under the identifier the stream waits for, and was not before (`ForceDue`); the channel's,
that it gives requests up only when it is closing (`CancelledIsClosing`). Without that restriction the
property is false, which is the finding of `pair_hang`.

**`SpecReadersTold`**, **`SpecWritersTold`** (`ServicesProofs`): `Spec => []ReadersTold` and
`Spec => WritersTold`, with no assumption on the constants. Neither follows from itself:
`ReadersTold` does not know that `mReadReadyNotified`, once set, stands for "every
subscribed reader has a call posted", and a step that finds it set posts nothing. The
invariant `NobodyForgotten` says what each flag stands for: a stream that ended is empty; who
is notified is ready; a ready reader of a stream with buffers *is* notified; a stream
with buffers does not count its writers as told (`Flags`); and, unless a
notification was missed, the flag for readers means a posted call each
(`Told`). The proof has one lemma for what `notifySubscribers` makes of each member
(`NotifyFields`), one per operation on the object (`PushConsistent`, `ReadConsistent`,
`BlockConsistent`, `OtherSubscribers`, ...), and one step per action. What the operations make
of the bytes plays no part but for one fact: nothing comes out of an empty stream.

**`SpecBytesKept`**: `Spec => []BytesKept`, from `TransportStreamAssumption` (sizes are natural numbers). The
invariant `Accounted` says that what was taken is a run of bytes up to some `a` and (`Holds`) that what the stream
holds goes on from `a`: there are *cuts* (`Cut`), one number per end of a buffer, between which the bytes of each
buffer run, and what is blocked runs from the last cut to what was written. With the cuts at hand no induction over
the buffers is needed, though `BytesKept` concatenates any number of them. The recursive function that does so is
shown equal to the one the cuts give (`CutBytes`: there is no least buffer at which they differ), and the buffers that a read
uses up are those whose cuts it reaches (`CutUsedUp`). What
a read, the read of a buffer, a write and the end of a block make of the cuts is a lemma each (`CutAfterTaking`, `CutTail`,
`CutAppend`, `BlockHolds`), and every step of the stream moves `a`, the last cut, or neither
(`ReadHolds`, `WriteHolds`). The shape of the buffers comes from `NobodyForgotten`.

**`SpecTCPMessagesWhole`** (`ServicesProofs`): `TCPSpec => TCPMessagesWhole`, a refinement of `ReliableStream`,
for any sizes and number of messages, any pieces that `send()` takes and TCP hands over, and any end. The invariant says
where every unit is. All frames written so far make up one sequence, the wire (`IsWire`, with the numbers at which the
frames end), and what moves is a *piece* of it: what B has not cut into messages yet (`Cutting`), what TCP carries,
and what A has queued (`Framing`) follow each other without a gap, and the buffers of the send stream are the messages
that come after them (`OnTheWire`). As with the cuts above, the ends of the frames spare an induction over the units: that a frame is the
message written needs only that its piece begins where a frame does. The lemmas about pieces (`PieceUnits`, `PiecesMeet`,
`PieceOfPiece`, `PieceOfLonger`, `LastPiece`) are about any sequence. The loops of `sendDataNow` and of `onReadReady` are recursive
functions, equal to what a number of steps makes (`StepByStep`); that each step of a loop keeps its invariant
is told by the least step that would not (`NeverFirst`).

**`SpecNothingUnsent`**, **`SpecShutdownEnds`**, **`SpecTCPTypeOK`**: `TCPSpec => []NothingUnsent`,
`[]ShutdownEnds` and `[]TCPTypeOK`. `NothingUnsent` needs the places of the units and two more facts. `Pursued`: while A is
connected, either the socket still has to say that it can be written to, and will, or nothing is queued and the stream has a
call posted if it holds anything. `AllCut`: while B is up, what it has read holds no whole frame. When nothing is due,
then, all that was written is with B but for a frame that B holds in part, and the wire does not end in the middle of one.
For `ShutdownEnds`, `Living` says of each object how its members go together: who lingers has a timer.

### Requests

**`SpecManagerKnowsWaiting`** (`ServicesProofs`): `RequesterSpec => []ManagerKnowsWaiting`. The map of the
manager is exact after every method (`Exact`, one lemma per method), whatever thread is in
`handleSTUNPacket`; `ReqInv` adds the shape of the records and that who is being answered is a
requester.

**`SpecNoServerAskedTwice`**, **`SpecOneOutcomeOnly`**: `DiscoverySpec => []NoServerAskedTwice` and
`DiscoverySpec => OneOutcomeOnly`, the second a refinement of `OneOutcome`: initial states map to initial
states and each step to a step or a stutter. `DInv` says of the object that whoever was asked is in
`mContactedServers`, which is what `step()` looks at; that requests not made yet have asked nobody; and
that without a delegate nothing is under way (`Sound`). `step()` is called in the middle of other methods, where there
may be a server that has not been asked yet; between two calls there is none (`Resting`). The
server taken next is the least index that is usable, which exists by `WellFoundedInduction`
(`FirstUsableIsUsable`). In `OneOutcome` a request may be made and be over in one step: a discovery whose lookup has no
usable address is.

**`SpecOneMessageOneEnd`** (`StackProofs`): `MonitorSpec => []OneMessageOneEnd`. A delegate's ends are
bounded by the messages that reached it, one timeout apart; for that `mPendingHandled` must be the number of
messages that wait in the stack's queue for the delegate, and the one it judges (`PendingCounted`), and a made-up failure
be there only for a message that was not sent (`MadeUp`). What is counted is the cardinality of a set of positions
of the queue, with one lemma for `Append` and one for `Tail`, a bijection of the positions.

### Documents

**`SpecHeldIsTrue`**, **`SpecOneFetchActive`** (`StackProofs`): `PublicationSpec => []HeldIsTrue` and
`PublicationSpec => []OneFetchActive`. `IInv` says what of the messages matters: without a connection none is under way
(`Quiet`), and a request that names a version, and the difference that answers it, find a document held
(`AskedOfHeld`, `AnsweredForHeld`), as nothing expires while there is a connection (`Expiring`). That a difference is taken only when it starts at the version held is then enough.
`Activate` is given the document and the fetches that are left, and activates the first of them or serves some from
the cache; how many is the greatest member of a set (`MaxIsMember`).

### Calls

**`SpecMediaFollowsFocus`** (`CallTransportProofs`): `MediaInv` says what the last start or stop that is posted is, when one is
(`LastControl`: a start if and only if a call has the focus), that `mBlockUntilStartStopCompleted` counts those posted
and under way (`Types`), and what the engine does when none is (`EngineFollows`).

**`SpecOpenIsHeard`**: `CallInv` adds that a call that is open and not held, or is about to be, has the focus or
something posted or under way gives it to the call, or makes up for that it does not (`Heard`). The step that opens a
call and the `onSetFocus` that the step posts may come in either order; a call is open only once a location is
picked, or is about to be (`Picked`), so one of the two finds what it needs.

**`SpecCallAgreed`**, **`SpecDialogTypeOK`** (`CoreProofs`): `DialogSpec => []CallAgreed` and
`DialogSpec => []DialogTypeOK`, for any sequence of locations that ring. `CallAgreed` says something of
settled states only, and a settled state is one in which no end has a step to take and everyone has read what the
others publish. So `DialogInv` says what each of these facts implies, of the end alone:

- an end publishes the state of its call, and a caller that has picked names whom (`PublishedIsTrue`);
- an end that was called and has nothing to wake up for has found nothing in the caller's dialog, as it has it, that
  would close its call (`CalledInStep`);
- a caller that has nothing to wake up for has picked one that is in the call, or there is none to pick, none that
  is over is left among its locations, and no reason to close; if all are over its timer runs (`CallerInStep`).

In a settled state what an end has of the other's dialog is what that one publishes, and the parts fit together. They
are kept from step to step by what cannot be read off a settled state: whoever is seen as open has answered, and does not go back (`Rings`);
a call not yet placed is known to nobody (`NotPlaced`); an open call has a location or a reason to close
(`PickedOrOver`: a location that fails leaves the reason, and the step that follows closes the call); and the dialog of
a closed call is removed only when the caller has dealt with it (`RemovedIsDone`, `AllRemoved`), which rests on the
clean-up timer being the longest (`Settled` in `Cleanup`). One lemma per action; `Step` is four, by whether the call is over, must close, or is at
the caller or at an end that is called. A step of the caller posts itself anew when it removes
or picks a location, and only if it does neither is it in step: the position it picks is the least of a set that
is not empty, and when there is none nobody has answered (`FirstAnsweredIs`).

**`SpecDeliveredIsReceived`**, **`SpecDeliveryTypeOK`** (`CoreProofs`): `DeliverySpec => []DeliveredIsReceived` and
`DeliverySpec => []DeliveryTypeOK`, for any locations, one of which hosts, and any numbers of messages. A receipt
names one message and stands for all before it *in the list of the one who reads it*, so the invariant
`DeliveryInv` says everything of places in lists: `UpTo(q, K, e, R)` is that whatever stands in `q` at or before a
message of `K` was given to the application of `e` or comes from it. It holds

- of a document and the receipts that the other end publishes (`ReceiptsTrue`),
- of a document and what the other end has seen in it (`SeenTrue`), of which the next receipts are made,
- of a document and what its writer takes for delivered (`DeliveredTrue`).

`UpTo` is kept when a list grows at its end by what is not in `K` (`UpToAppended`). That nothing of `K` is
appended is the rest of the invariant. A message that is sent is a new one: all that anyone has was sent before
(`SentBy` in `DeliveryTypes`). A host adds only what its document has not (`AddingIs`), and what a guest acknowledges
or has seen is in that document (`GuestsKnow`). The receipts of a host are gathered from all its guests, but a guest's
document has messages of that guest only (`GuestsWrite`), so that a receipt for another guest says nothing in it.
`GuestsKnow` ends when the host is started anew. Then nobody reads its document again, for it stays unpublished
(`HostIsGone`); and the closed thread a guest makes of what it has begins with an empty document, for it makes
one only once (`NotConverted`). The lemma `HostHolds` is the step that a host takes in three of the
actions: it appends, gathers receipts and nudges its contacts.

**`SpecPushesOnlyOutstanding`**: `DeliverySpec => PushesOnlyOutstanding`, an action property. What is pushed for a
contact is settled and stays so (`PushedOnce`: a state only rises, `RaisedIs`), and what is given up in a step was
outstanding in it (`LostIs`, `SteppedIs`), so it was not pushed before; and as each message stands in a document once, an
outstanding one has nothing delivered at or behind its place. In every step each end keeps what it has pushed, looks on
from a state in which no less is settled, or is new (`Moves`). That much is said of each thread. An end may have the same
contact in two threads, the open one of `Host` and a closed one. What is pushed or acknowledged stands in the document of
its thread (`PushedIsWritten`), for a document loses its messages only with the host that is started anew
(`DocumentsLast`). A guest writes only in the thread of `Host` (`GuestsWrite`) and hosts one of its own only once
it has moved its messages there (`NotConverted`), so two threads have something to give up only then (`TwoThreads`): that is
the exception in the property.

Three definitions of `MessageDelivery` are written for the provers: `Only` in place of the standard `SelectSeq`,
of which they know nothing; the record `sd` of `OnSlavePublicationUpdated`, as they take an `@`
inside another one for something else; and names of its own for `DeliverySpec` and its parts, so that `MCLive` can extend
it beside the pair.

### What stays with TLC

- Liveness (`EventuallyDelivered`, `EverythingSettles`, `OwnRequestsEnd`, `DiscoveryEnds`,
  `MonitorEnds`, `EventuallyRead`): temporal reasoning under fairness needs `ENABLED`, which is out of this
  prover's reach.
- `RUDPMessagesWhole` and `NoneLeftBehind`. What concatenates a sequence of any length is an induction over data, unless the
  sequence can be cut at numbers that are named, as for `BytesKept` and `TCPMessagesWhole`, or counted, as for
  `DeliversInOrder`. `RUDPMessaging` has a stream at either side of each of its two objects; its invariant has not
  been written down.
- The type invariants that gather those of several modules (`ServicesTyped`, `PartsTyped`).

## 7. Findings

Six disagreements between the code and what the repository says of it, each with a
run that TLC finds violated:

- **A late ACK revokes an earlier one** (`pair_stale_ack`). `RUDPProtocol.h:209` rules
  it out; `handleAck` (1766) flags any packet the vector misses, acknowledged or not,
  which freezes the bandwidth and halves the burst. Two indications that change
  places suffice. Nothing is sent needlessly, as acknowledged packets are not
  resent; the sender slows down.
- **A graceful shutdown can hang** (`pair_hang`). `RUDPChannel::cancel` (1407) drops
  outstanding ACK requests; the stream goes on waiting for the answer, and while it
  does, neither forces another ACK nor sets a timer.
- **`shutdown(true)` races the stream's end** (`stream_race`). `isShutdown()` is asked
  outside the lock (386); when `cancel` intervenes, `setState` calls a reset delegate.
- **A fetch ends with an older document than it was made for** (`publication_fetch`). When a
  fetch ends, `notifyFetcherCancelled` activates the next with the meta data of the one that ended, whose
  version was overwritten with the version held (`stack_PublicationRepository.cpp:1250`).
- **A call cannot be taken off hold** (`call_focus`). Losing the focus leaves `mFocus`
  (`core_CallTransport.cpp:305`), so a call that gets it back is told that it lost it, to itself.
- **A message that was acknowledged stays undelivered for the application** (`message_receipts`).
  `core_ConversationThreadHost.cpp:2153`, and the slave at 689, report the ID of the receipt once for
  each message the receipt covers, instead of the ID of the message.

Met on the way, and not shown by a run:

- `TCPMessaging::accept` of a socket that has closed shuts the object down and then
  reports it connected (`services_TCPMessaging.cpp:155`).
- `Call` reads its location under the lock and gives the focus after it let go of it
  (`core_Call.cpp:583`): a `cancel` between the two leaves the focus with a call that has ended.
- A message to a contact nobody has looked for is given up at once: the step that
  subscribes reads the state of the search before it has started (`core_ConversationThreadHost.cpp:1593-1665`,
  `core_ConversationThreadSlave.cpp:1247-1318`). It is pushed, then delivered as well.
- A guest that moves its messages to a closed thread of its own (`core_ConversationThreadSlave.cpp:1061`) still steps
  in the old one, and has the contact of the host in both. `notifyMessagePush` (`core_ConversationThread.cpp:823`) does not
  look at what was pushed before: the application may be given a message twice for the same contact, or in the old thread
  when the contact has acknowledged it in the new one. Nothing in the repository promises that it is given once, so this
  is no finding; it is the exception that `PushesOnlyOutstanding` names, and `live` violates the property without it.
- A host pushes a guest's message to the guest it comes from, when that one is
  silent: `PeerContact::step` does not look at who sent it.
- `ConversationThreadSlave::getHostCreationTime` (258) has its test inverted: a thread that is open counts as
  created at time zero, so that of several open threads an end keeps its own
  (`core_ConversationThread.cpp:1317`: "can only have one thread open maxmimum").
- `ConversationThreadHost::PeerLocation::cancel` (2233) tests `!baseThread` and then calls it.
- The host tells a caller of a dialog that is gone (2013), the slave does not (703).

## 8. What is left out

- Byte layouts: the RUDP header, STUN attributes, credentials and integrity.
- What a `peek` or a read shows of a buffer's header, and the conversions of words to
  network order. The `peek` that returns a block drops its offset (771), which no caller passes.
- A read of zero bytes (499), which takes an empty buffer, does not call
  `notifySubscribers`; `ITransportStream.h:367` promises a notification "after ever read where
  data is still present". `ReadersTold`, `WritersTold` and `EventuallyRead` except it, by `missed`.
  No reader in the repository reads so.
- Time: durations, RTT, and the rate at which bandwidth recovers; only order.
- ECN and duplicate reports (`handleECN`, `handleDuplicate` are empty in the code).
- Callbacks on several queues: `SharedQueue = FALSE` gives the class its own contract, under
  which a copied vector may be stale and a wake-up lost. `RUDPChannel` does not use it
  so; no run does.
- `sendNow` at 1415 logs a shutdown and goes on; in the model as in the code.
- The random bit pool's index test (2043, `>` for `>=`) reads one byte past the pool
  once in 2049 flags: the bit is arbitrary in the model anyway.
- The position in a shared reader's block, the channel number of frames, and everything
  below the socket.
- Of calls: `ring()`, Ringing and Ringback, early media, ICE and the media itself.
- Of documents: permissions, several subscribers, relationships, the disk cache.
- The components with status `not_modelled` in `PROJECT.json`, for the reason given there.
