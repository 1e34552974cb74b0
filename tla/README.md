# Formal verification of zeroxyz

zeroxyz connects applications to an Ethereum node. This directory holds TLA+
models of its core, the TLC runs that check them and the TLAPS proofs about
them. Paths below are relative to `src/internal/` unless they start otherwise.

## The system

Requests to deploy a contract or send a transaction come in over REST or
webhooks. They travel over Kafka to a bridge, or directly, to the transaction
processor, which assigns nonces, sends to the node, waits for the receipt and
replies. Replies travel back to a receipt store. Independently, event streams
poll the node for contract events and deliver them in batches to webhooks.

```
 REST / webhooks --> Kafka --> Kafka bridge --> transaction processor --> node
        |                          ^    |                ^                 |
        |    (direct gateway) -----|----|----------------'                 |
 receipt store <----- Kafka <------'----'                                  |
 webhook <-- batch processor <-- batch dispatcher <-- event poller <-------'
                                        |
                          subscription manager (checkpoints)
```

### Inventory

**Kafka bridge** (`maidenlanekafka`). *State:* `inFlight`, a map from request
offset to context with a `complete` flag; the current consumer group session;
the two unbuffered channels of consumer and producer; Kafka's committed offsets.
*Operations:* `ConsumeClaim`, `Setup`, `Cleanup`, `MarkOffset` (client.go);
`ConsumerMessagesLoop`, `addInflightMsg`, `Reply`, `ProducerSuccessLoop`,
`ProducerErrorLoop`, `setInFlightComplete` (kafkabridge.go). *Interactions:*
calls `OnMessage` of the processor, which calls `Reply` from any goroutine; loops
synchronise on `inFlightCond`. *Hard:* confirmations out of order, redelivery
after a rebalance, panics, waiting at the in-flight limit. *Correct when:* no
request is lost, no confirmation is unknown, every request is answered, offsets
advance, rebalances complete.

**Transaction processor** (`maidenlanetx/txnprocessor.go`). *State:*
`inflightTxns` (a list and a highest nonce for each address) under
`inflightTxnsLock`, `concurrencySlots`. *Operations:* `OnMessage`,
`addInflightWrapper`, `sendTransactionCommon`, `sendAndTrackMining`,
`cancelInFlight`, `submitGapFillTX`, `waitForCompletion`. *Interactions:* called by
the bridge's single consumer loop or by many HTTP handlers; asks the node for
counts and receipts. *Hard:* the node is asked under the lock; lost answers;
failures between nonce assignment and submission; timeouts. *Correct when:* every
request is answered exactly once, nonces in flight differ and leave no gaps,
tracking agrees with what is in flight.

**Event streams** (`maidenlaneevents/eventstream.go`, `subscription.go`,
`logprocessor.go`). *State:* the batch queue, `inFlight`, each subscription's
filter and `blockHWM`, `Suspended`, `updateInterrupt`, `updateWG`. *Operations:* the
goroutines `eventPoller`, `batchDispatcher`, `batchProcessor`; `suspend`, `resume`,
`update`, `stop`. *Interactions:* poller and dispatcher meet on an unbuffered
channel; processor and dispatcher share a queue under `batchCond`; the processor
acknowledges to the high water marks, which the poller stores. *Hard:* control
requests at any point of three goroutines, restarts, lost filters, failing
webhooks. *Correct when:* each event is delivered, checkpoints never pass an
undelivered event, control requests terminate.

**Subscription manager** (`submanager.go`). *State:* the maps of streams and
subscriptions, the key-value store. *Operations:* add, reset, delete
subscriptions; add, update, suspend, resume, delete streams; load and store
checkpoints; recovery. *Hard:* nothing locks the maps; polls overlap with
removal and recovery. *Correct when:* what clients were told is what is stored,
no subscription is left without its stream, an accepted reset is served.

**Webhook gateways** (`maidenlanerest/webhooks*.go`). *State:* pending, succeeded
and failed messages under `sendCond`; the direct gateway's in-flight map.
*Correct when:* a handler that waits gets the outcome of its own message, the
limit holds.

**Receipt store** (`maidenlanerest/receiptstore.go`, `memreceipts.go`,
`mongoreceipts.go`). *State:* receipts by request, newest first. *Correct when:* a
reply becomes a receipt, the limit drops the oldest, a client that pages misses none.

**REST to Ethereum** (`maidenlanecontracts/rest2eth.go`, `syncdispatcher.go`).
*State:* one responder for each synchronous request. *Hard:* `done` is set and
broadcast without the waiter's lock. *Correct when:* a client is answered
once, with what became of its request.

**Smart contract gateway** (`maidenlanecontracts/smartcontractgw.go`,
`remoteregistry.go`). *State:* the contract and ABI indexes, registered names, files.
*Correct when:* a name has one contract, what is stored is served, and what a
client was told is stored.

**Other parts** — the receipt delay tracker, address book, HD wallet, ABI and RPC
conversions, OpenAPI generation, key-value store, authentication, start-up — keep
little or no shared state. `PROJECT.json` lists each with its status.

## Modules

| Module | Models |
|---|---|
| `AtLeastOnce` | the contract of the Kafka side: a request is answered before its offset is given up |
| `KafkaBridge`, `KafkaBridge_proofs` | the bridge, its group session, Kafka and the group's other members |
| `TxnProcessor`, `TxnProcessor_proofs` | the transaction processor and the node as it sees it |
| `EventStream`, `EventStream_proofs` | a stream with its subscriptions, checkpoints and control requests |
| `StreamManager`, `StreamManager_proofs` | the subscription manager: its requests, maps, records, and the pollers |
| `NameRegistry` | the contract of the gateway's names: a name has one contract, and passes on only when free |
| `ContractIndex`, `ContractIndex_proofs` | the gateway's index of contracts and ABIs, its files, start-up |
| `RestToEthereum`, `RestToEthereum_proofs` | the REST API over that index: requests, responders, replies |
| `Webhooks`, `Webhooks_proofs` | the webhook gateways, over Kafka and direct, and the receipt store |
| `MC...` | concrete requests, chains, contracts and clients for TLC |

`KafkaBridge` implements `AtLeastOnce`, `ContractIndex` and so `RestToEthereum`
implement `NameRegistry`. `RestToEthereum` extends `ContractIndex`: each step of a
request is a step of the index or leaves it alone (`GatewayUsesIndex`).

Beside some definitions stands a variant called `Name_Variation` and commented
as a mutant: the definition with a plausible bug. Nothing uses it. Replacing the
definition by it makes the property that `PROJECT.json` names fail, which shows
that the property depends on the code.

### KafkaBridge

`inFlight` and `complete` are the map and its flags; a context is known by its
offset, as in the code. `held` is what the `ConsumeClaim` goroutines wait to pass
on; `pc` and `cur` are the position of the consumer loop; `processing`, `outbound`
and `successes` count the contexts at the processor, in the producer and on its
`Successes()` channel. `committed` and `replies` belong to Kafka. A region under
`inFlightCond.L` is one action. A session ends in two steps that its member does
not control (`Rebalance`, then perhaps `Fence`) and in `Cleanup`, for which every
`ConsumeClaim` must have returned. Both panics of the code take all of the
process' state away (`GoDown`); `ProducerErrorLoop` and `Crash` are bounded.

The abstraction: request contents are left out except whether
`addInflightMsg` rejects them (`Malformed`), and the processor is any process that
replies once to each context — what `TxnProcessor` shows of it.

### TxnProcessor

`pc[c]` is where the code working for request `c` is. `entries`, `highest` and
`txns` are `inflightTxns`; `lock` is the holder of `inflightTxnsLock` in the two
places where it is kept across a call to the node or, by the early return at
line 281, for good. Everywhere else a region under the lock is one action with
the guard `lock = {}`. `calling` holds the goroutines within `OnMessage`, of which
there are `MaxCallers`: one when Kafka calls, many when HTTP handlers call.
The node keeps `onNode`, the nonces it has of each address: the count it
reports is the length of the gapless prefix, and a transaction is mined when no
lower nonce is missing.

The abstraction: a request is the path it makes `addInflightWrapper` take, with
its address and supplied nonce. Receipt contents and wait times are left out; a
timeout happens after at most `MaxRetries` checks, whether the transaction is
mined or not.

### EventStream

`poller`, `dispatcher[d]` and `processor` are the positions of the goroutines;
more than one dispatcher can exist since a resume keeps the old one, which
waits on a channel nobody closes any more (`"replaced"`). `outbox` is what the
poller has read and has still to hand over in `handleEvent`. The dispatcher's
receipt of an event and the count of it in `inFlight` are one action: only
`isBlocked` reads the count, and the poller reads it next after its interval.
`stored` is the checkpoint in the store, `hwm` the high water marks, `filter` what
the node would return next. A suspension or an update can come between
any two actions; the places where the code looks at `suspended` or at the
interrupt are the places where the model does.

The abstraction: events are positions on a chain with their block and
subscription; an event that cannot be decoded, which the code logs and drops,
does not occur. Writes to the store do not fail. A suspension and its write are
one action. A control request is not made before the previous one was answered.

A batch is taken from the queue (`TakeBatch`) one step before `processBatch` looks at the
suspension (`ProcessBatch`): suspended in between, it is dropped and stays counted.
After a refused update (`RejectUpdate`) suspend and resume go on being accepted: a
resume starts a processor that finds `updateInProgress` still set and waits, holding
`batchCond.L`, for an `updateInterrupt` that nobody closes (`"stuck"`). From then on what
needs the lock is not enabled (`Unlocked`).

### StreamManager

`streams` and `subs` are the keys of the manager's maps, `dbStream`, `dbSub` and
`dbCheckpoint` its records. A request is a process that changes the maps in one
step and the store in the next, as the code does; `PollTop` to `PollWake` are the
poller's round, one action for each call to the node or to the store. `stop` closes
the channel that the poller sends to, so `SendOnClosed` ends the process.
`toldStream`, `toldSub` and `owed` are history: what the last successful answer
said, and which reset was accepted and has not made a filter yet.

`handlers` is as much of the other goroutines of a stream as the poller can be held up by.
`handleEvent` returns only when a dispatcher takes the events (`HandOver`), so a
poller whose dispatcher an update has ended stays in `"handing"`, and `updateWG.Wait`
(`Joined`) with it. An accepted update starts everything again (`PostUpdateStream`), a refused one
nothing (`RejectUpdate`). `batched` and `leaked` say what `inFlight` counts: events that are in
batches, and events of batches that were dropped and stay counted for good; while either is
there `isBlocked` may keep the poller from resets, filters and events (`MayBeBlocked`).

The abstraction: events are the blocks they move a mark past (`fetched`,
`BatchComplete`). Those of a round are handed over together, and those of a
subscription in batches are delivered together. `MayBeBlocked` allows a blocked
round whenever anything is counted, since `BatchSize` may be 1. The batch processor may find
the stream suspended with batches still queued, which stay. A stream is not
resumed while an update of it waits, which would start a second poller beside a wait group
that is being waited for. Map accesses that collide do not occur.

### ContractIndex and RestToEthereum

`contractIndex`, `registrations` and `abiIndex` are the gateway's maps;
`instances`, `legacy` and `abiFiles` its files. A region under `idxLock` is one action; a
file is created and filled in two, so that a crash leaves a torn one. `job[w]`
is what a writer has still to do: the handlers, the goroutines that answer, and `Main`,
which at a start reads the files in the order of their names and migrates those
of the earlier format. `RestToEthereum` adds a handler for each client (`pc`), the
response written so far, the transaction and its reply (`txn`) and the responder's
`done`. Outcomes of a transaction come from outside: `TxnProcessor` shows that
there is one. Replies of asynchronous requests are consumed one by one, and again
after a crash before they are marked.

The abstraction: a response is its status; an ABI, a name and an address are
values; whether a form compiles or a parameter is missing is a choice. A remote
registry finds an ABI, does not, or fails; its cache is left out.

### Webhooks

`pendingMsgs`, `successMsgs` and `failedMsgs` are the maps under `sendCond`,
`sending`, `confirmed` and `errored` the producer's channels, `replyLog`, `marked` and
`committed` the topic of replies and its offsets, `receipts` the store, newest
first. `reading`, `skip`, `seen` and `due` are a client that pages through the receipts.

The abstraction: a receipt is the request it answers. MongoDB sorts by a time in
milliseconds; receipts of one millisecond come in any order, so nothing is claimed
of its pages.

## Runs

| Run | Shows |
|---|---|
| `bridge` | safety, liveness and refinement with rebalances, fencing and a crash |
| `txn_concurrent` | one reply each, tracking and memory nonces, with concurrent sends |
| `txn_sequential` | one caller leaves no gap when a request cannot be built |
| `events_control` | counting, no duplicates and settling under suspend, resume, update, restart |
| `events_delivery` | delivery and checkpoints under restart, lost filter, failing webhook |
| `gateway` | names, files and answers of two clients, with crashes, a failing file and a migration |
| `webhooks` | acknowledgements, receipts and their pages, in both modes and with both stores |
| `streams` | records, removals and resets under requests, a stream's goroutines and one fault |
| `txn_nonce`, `events_suspend`, `events_update`, `streams_reset` | disagreements of code and comments |

### Bounds

- Bridge: three requests of one partition let one overtake another and leave one
  behind, a limit of two lets complete contexts fill the map behind an incomplete
  one; one rebalance gives redelivery while in flight, the second one redelivery of a
  redelivered request. One request is malformed. Several partitions interact
  only through the limit; the proofs cover any number of them.
- Processor: three requests make two in flight and one that comes in between;
  two slots and two callers leave one waiting. `InitialCount` 1 gives the node's
  count a value that memory does not start from. A retry is only a counter, so
  the largest run has none.
- Streams: batches of two let a batch be partial, full or in timeout; two blocks
  let a checkpoint lie between events; two subscriptions share a batch. Two suspensions
  allow one after a resume; one update starts the second dispatcher.

- Gateway: two clients with requests of every kind compete for one name, a contract
  of the earlier format has another. Both can ask for one address, so that one may fail
  to write the file that the other has just written (`Contested`). Two crashes allow one during the start that
  follows the first. One file operation fails.
- Webhooks: over Kafka two requests make one message the other's neighbour in the maps and
  the store; two documents let a repeated reply push the other out. Three requests are handed to
  the processor, where each takes fewer steps, one at a time (`MaxInFlight`). Which requests
  come is `Asking`; that they come in this order loses nothing, as a request is known by the
  identifier it gets when it comes.
- Pages, in the direct mode, of one receipt each. A store of three: with two
  receipts at the first page, a third comes in before the client has read the second. A store of
  two: the third pushes one out meanwhile. A repeated reply, which only Kafka makes,
  moves its receipt to the front, past a client that has not come to it yet;
  `PagesMissNothing` excepts it (`DeliveredAgain`). Over Kafka the state space is too large
  for a run with liveness; there the theorem `Pages` covers it.
- Streams of the manager (`streams`): one stream, one subscription and four requests one after
  the other, so that both additions, a reset and a suspension, a deletion or an update that is
  accepted, refused or waits fit in any order; one fault of any kind or one new block
  (`MaxOutside`), and with `streams_reset` both; a failed call takes the place of a request
  (`MaxRequests`), so that additions, one request and a failure fit. Already in a chain of one block
  the marks 0 and 1 tell a reset that is served from one that is not.
  Requests do not overlap: with two at a time `PromisesKept` and `NoOrphans`
  fail, see below.

`CHECK_DEADLOCK FALSE` stands where the system may stop: an idle bridge or gateway, a
processor that has answered everything, a stream whose update waits for ever.
The two passing runs of streams differ in this: in `events_delivery` a stream never stops.

### Fairness

Fairness is weak and of single goroutines: Go schedules each runnable one, a free mutex
is obtained in the end, a select with a ready case proceeds. For external parts
it is assumed that Kafka confirms what it was sent, re-forms the group and
commits marks periodically, that a container restarts the process (the reason
the code gives for its panic), that the node's calls end, and that blocks are
mined. `EventStream` alone has strong fairness, on `WebhookAccepts`: a webhook that is
tried again and again succeeds in the end, without which "block" error handling cannot
deliver. `StreamManager` has weak fairness on `BatchComplete`: the stream delivers or skips
what is in batches. Of the gateway it is assumed that every transaction has an outcome and that
the process is started again; clients need not ask. Nothing is assumed of rebalances,
failures and control requests.

## What the runs show

`ResetServed` is worth a word: an accepted reset is served unless something fails, the
subscription is deleted, or its stream is interfered with (`Interfered`). The last is not a formality.
A suspended stream does not poll; an update may wait for ever, or be refused and leave
no poller; and dropped events that stay counted may block the poller for good. Each of
these exceptions is needed: without any of the three TLC finds a reset that is never served.

In the bridge nothing was found: it keeps its contract through
every rebalance, fencing, panic and restart within the bounds, and by proof
beyond them. The same holds of the gateway's names and answers and of the
webhooks' acknowledgements and receipts, but for what is listed below.

Four findings are runs that TLC refutes, each against a sentence of the code's own:

1. A nonce obtained from the node is not stored as the highest one, so the
   next ones start at 1 and may repeat one in flight (`txn_nonce`). What does hold is
   that nonces taken from memory differ (`MemoryNoncesDistinct`).
2. A batch that a suspension interrupts is dropped (`events_suspend`).
3. An update can wait for ever for the poller, which waits for a dispatcher that
   has ended (`events_update`).
4. A reset is lost when the node refuses the new filter once (`streams_reset`): the
   poller records the old mark again.

Others have no run of their own. They were met while modelling; the models contain them,
and an instance that shows each is easily made.

- A supplied nonce that is no integer leaves the lock taken (txnprocessor.go:281):
  `EveryMessageAnswered` fails when a request of the kind "badNonce" is allowed in a
  run with fairness.
- With several callers a request that fails before submission leaves a gap
  (txnprocessor.go:539): `NoGapWhenNotSubmitted` with `MaxCallers = 2`.
- A batch that ends within a block moves the checkpoint past the rest of the block
  (logprocessor.go:75): `CheckpointBehindDelivery` with two events in a block.
- The synchronous responder's wake-up may be lost (rest2eth.go:139): `HandlersReturn` of
  `RestToEthereum`.
- Deleting a stream can panic its poller (eventstream.go:267): `SendOnClosed`.
- With two `Requester`s, a deletion overtaken by another request's write leaves a record
  that comes back at the next start, or a subscription without its stream.
- A reset is a flag in memory: a crash loses it (`ResetServed` excepts crashes). A reset whose
  write failed has changed the block in memory all the same.
- An update that is refused has already ended the stream's goroutines
  (eventstream.go:239). A stream that is then suspended and resumed has a processor that holds the stream's
  lock for good (eventstream.go:475): suspending, updating or deleting it never returns.
- A suspended stream's update never returns (eventstream.go:487).
- Dropped batches stay counted (eventstream.go:515, 521), so that a stream may be blocked
  for good after an update or a suspension.
- When the storage directory cannot be read the gateway serves an empty index
  (smartcontractgw.go:464). A file of the earlier format that could not be removed takes the
  place of a newer registration at the next start.
- The direct gateway hands the HTTP request's context to work that outlives it
  (webhooksdirect.go:145).
- A bad `since` is answered twice (receiptstore.go:212); `getReply` does not check that
  there is a store; a memory store with `MaxDocs` 0 keeps one receipt.

## Proofs

All proofs hold for every value of the constants that the modules' assumptions
(`BridgeAssumption`, `ProcessorAssumption`, `StreamAssumption`, `IndexAssumption`,
`RestAssumption`, `WebhooksAssumption`) allow. TLC evaluates the assumptions in
the runs. Where a theorem needs more than that, its statement says so, and the paragraph
below says why. Every invariant and action property that a passing run checks is stated by a theorem.

**KafkaBridge_proofs.** `NoRequestLost` is not inductive: a mark may jump over
requests that are no longer in the map. The invariant `IInv` adds two parts.
`Pipeline`: a context in flight and not complete is in exactly one place — the loop, the
processor, the producer, the confirmations — and nothing else is in any, so every
confirmation finds its context. `Ordered`: what precedes a request the bridge knows
of is answered or known itself, stage by stage; so when everything up to an
offset is complete, everything below it is answered. From `Invariance` follow
`NeverLosesARequest`, `ConfirmsAreKnown`, `NothingIsStranded`, `InFlightIsBounded` and
`Refinement`, whose step says that each action is an answer, a commit or a
stutter of `AtLeastOnce`.

**TxnProcessor_proofs.** `IInv` joins `RepliesByStage` (the reply is the last or the
last but one step), `TrackedByStage` (the lists are exactly the requests between
assignment and removal, and an address that is being asked for has none),
`MemoryOrdered` (no memory nonce of an entry is above its highest one; the entry and its
highest nonce go only when the list is empty, which `TrackedByStage` provides) and
`Senders` (who sends holds a slot or its caller). From `Invariance` follow
`RepliesAtMostOnce`, `TracksWhatIsInFlight`, `MemoryNoncesDiffer`, `SendsAreBounded` and, for
one caller and one sender, `OneNonceUnsent`. For those, `GivesUpTheHighest` states
`NoGapWhenNotSubmitted`: the node has everything below a nonce it gave itself (`BelowIsSent`), so
a nonce that is assigned and not sent is the highest in flight or on the node already
(`HighestUnsent`); with a second caller a higher one can be assigned meanwhile.

**EventStream_proofs.** `CountedInFlight` is about the unsigned counter that lets the poller read
on: `Covers` says that it is at least what the batches hold, wherever a suspension, an
update or a second dispatcher left them. The batches are counted as places (dispatcher or
position in the queue, and index), so that an event in two batches counts twice.
`AllCheckpointsBehind` states `CheckpointBehindDelivery`. `OrderInv` says of every place
of the pipeline (batch in work, queue, dispatcher, outbox) that an event in it has its predecessors of the same
subscription in it, ahead of it, or done; then what is below a filter has been
read, what is below a mark has been delivered, and a checkpoint is an earlier mark. It is proved for streams that
are neither suspended nor updated (`Undisturbed`), since a suspension drops a batch (finding 2), and for
subscriptions that start at the first block and have one event in a block (`Plain`), since a mark otherwise
passes the rest of a block (below). `CheckpointsBehind` says the same of the plain
subscriptions of a stream that has others too. `DeliveredOnce`, for any suspensions and updates, states
`NoDuplicateDelivery`: as long as no filter is lost and nothing is restarted, an event is in one
place of the pipeline and was read before its filter (`OnceInv`).

**StreamManager_proofs.** `TypeCorrect` includes that no mark, checkpoint or filter is past the next
block, and that each channel a dispatcher waits on belongs to a start of its
stream. `Orphans` (`NoOrphans`) rests on the order of the writes: a subscription's
record is there only while it is in the map or about to be deleted, a stream's
from just after it enters the map to just after it leaves it, and a stream is deleted
only when its subscriptions are (`Beside`). `Promises` (`PromisesKept`) says what the last
step of a request still has to write (`Underway`). Both hold while requests that overlap are about different
streams (`Apart`), which is assumed of the behaviour and true of any with one request at a time
(`OrphansOneByOne`, `PromisesOneByOne`); without it both fail, see below.

**Webhooks_proofs.** One invariant for both modes and both stores. `MessagesInv` says where a
message can be, given where its handler is: with that `Acknowledgement`, `NoLeak` and
`SleepersAreWoken`, which says that a sleeping handler has a message whose outcome is to
come. `MemoryInv` says that the memory store is the replies processed since the start,
newest first, cut off at its limit (`MemoryStore`), `ReaderInv` that what a client has
still to see is at or behind the place where it will read on, since receipts come in at
the front and move the others back as its `skip` grows (`Pages`).

**ContractIndex_proofs.** `NamesUnique` is not inductive: a file is written long after
its name was checked, and a start that is half way has registered only what it has
read. `IndexInv` says that no two files, of either format, have one name, that a
registration agrees with the files, that a contract being stored has registered its name,
and that what a start has read, or the gateway stored since, is registered. From it follow `NamesAlwaysUnique`,
`StoredAlwaysServed` and `NamesFollow`, whose step maps each write of a file to a
claim, a release or a renaming of `NameRegistry`.

**RestToEthereum_proofs.** `RestVarsOK` ties the request of a client to the place of its handler and
its transaction. With it every step of the gateway is a step of the index
(`IndexStep`), so `GatewayUsesIndex` hands on the index's theorems.
`AnswersRight` ties the response to both goroutines of a synchronous request, and
gives `ClientsAnsweredOnce`. `GatewayAbisThere` (`ContractsResolvable`) follows each ABI from the request that found or
stored it to the job that files a contract under it (`AbisRight`): it is on disk
before anything names it, for as long as no file failed. `SuccessOnDisk` (`SuccessIsStored`) ties each job to the
request it is done for (`JobsAsked`), so that the file of an address is only rewritten by who
asked for that address.

**Model-checked only.** The liveness properties (`EveryRequestAnswered`, `OffsetsReachEnd`, `RebalanceCompletes`,
`EveryMessageAnswered`, `SuspendSettles`, `EveryEventDelivered`, `DeployedIsKnown`, `HandlersReturn`,
`RepliesAreStored`, `ResetServed`), which rest on fairness and so on ENABLED, out of the
prover's reach; and the four findings, which are counterexamples.

## Not modelled

Shutdown on a signal; Orion private transactions and negative supplied nonces; the
remote registry's cache, which keeps an ABI until a request asks to refresh it; queries of
receipts by identifier, time or address; the receipt delay tracker, whose result the
models take as any delay; address book, HD wallet, data conversions, OpenAPI, HTTP, TLS,
configuration and start-up, which keep no protocol state. Accesses to Go maps
without a lock end the process when they collide, and are not modelled.

## Plan

Done: the bridge, the processor, the streams, the manager, the index with its
REST API, the webhooks with their receipts, and the proofs of their safety. Left, in order of importance:

1. An abstract stream (read, deliver, checkpoint) for `EventStream` to implement, with the proof that
   it does where `OrderInv` holds.
2. An abstract store of subscriptions for `StreamManager` to implement under `Apart`.
3. `EventStream` and `StreamManager` in one model, with a stream of one subscription.
4. The receipt delay tracker's ring of durations as a recursive function.
