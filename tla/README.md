# A verification development of Franky

Franky lets people register devices that host AI agents, and lets users talk to an agent over Hedera
Consensus Service (HCS) topics following the HCS-10 convention. This directory holds TLA+ models of its
core and of the part of The Graph's node, kept in `graph-node/`, that follows the chain and stores what
Franky's subgraph makes of it; TLC configurations that check them on small instances; and TLAPS proofs about
them for every instance. Paths below are relative to the repository; `src/` stands for its root.

## 1. The system

| component | state | operations | modelled in |
|---|---|---|---|
| Registry contract `blockend/contracts/Franky.sol` and the agent accounts it clones | devices, agents, key hashes, server wallets, claims, counters | `registerDevice`, `createAgent`, `regenerateApiKey`, `configureServerWallet`, `receive`, `claimHBAR` | `Franky`, `FrankyProofs` |
| MonitorService `agent-framework/src/services/monitorService.ts` | per topic: cursor, interval; processed requests, time of the last request | `startMonitoringTopic` and its poll callback, `processInboundMessage`, `processConnectionMessage` | `Monitor`, `MonitorProofs` |
| AgentController, ConnectionService, StorageService (`agent-framework/src/`) | one file per agent with its connections | `initializeAgent`, `startAgentMonitor`, `connectToAgent`, `sendMessage` | `Monitor` (as what they do to topics, monitors and the file) |
| Agent polling process `agent-framework/routes/character-mcp-api.ts` | connections, watched topics, processed messages, all in memory | `loadConnectionsUsingManager`, `monitorTopics`, `handleConnectionRequest`, `handleStandardMessage` | `AgentPoller`, `AgentPollerProofs` |
| Server `agent-framework/routes/server.ts` | the child process, a connection topic per account | `/initialize`, `/chat` with `waitForResponse`, `/destruct` | `AgentPoller` (spawn and kill), `Chat` (the calls) |
| Block ingestor and chain store `graph-node/chain/ethereum/src/ingestor.rs`, `graph-node/store/postgres/src/chain_store.rs` | blocks, the chain head | `do_poll`, `ingest_block`, `attempt_chain_head_update`, `cleanup_cached_blocks`, `ancestor_block`, `upsert_light_blocks` | `ChainStore` |
| Block stream `graph-node/graph/src/blockchain/polling_block_stream.rs` | current block, the range or the steps under way, a buffer | `get_next_step`, `scan_triggers`, yielding, reverting | `BlockStream`, `BlockStreamProofs`, `HistoryProofs` |
| Subgraph runner `graph-node/core/src/subgraph/runner.rs` | block pointer, health | `handle_process_block`, `handle_revert`, errors, restart, unfail | `BlockStream`; its writes in `WritableStore` |
| Writable store `graph-node/store/postgres/src/writable.rs`, `graph-node/graph/src/components/store/write.rs` | queue of writes and reverts, error, poison, in-memory pointer | `write`, `revert`, `flush`, `get`, `restart`; the background writer | `WritableStore`, `WriteBatch`, `EntityStore` and their proofs |
| Entity tables `graph-node/store/postgres/src/relational.rs`, `relational_queries.rs`, `deployment_store.rs` | versions of entities with block ranges | `apply_entity_modifications`, `revert_block`, queries at a block | `WriteBatch` |
| Subgraph lifecycle `graph-node/core/src/subgraph/{registrar,provider,instance_manager}.rs` | assignments, running deployments | start, stop, reassign | no (section 6) |
| RegistryService, CharacterController | a log of registrations on a topic | add, get, list, delete a character | planned |
| Checker service `frontend/src/lib/services/hcs-service.ts` | registry and device topics | register a checker, device topic, reputation and consensus | planned |
| Graph indexer `graph-indexer/src/franky.ts` | entities derived from events | four event handlers | no (section 6) |
| AI response generation | none that a guard reads | one call | its success or failure |
| Frontend, scripts, older command line agent, HIP-991 agent (imported by nothing) | | | no |
| GraphQL, schemas, WebAssembly runtime, other chains, Firehose and Substreams (`graph-node/`) | data translation | | no (section 6) |
| `blockend/contracts/hedera/` | vendored third-party code | | no |

How they interact. Users and agents never call each other: everything goes through topics, append-only
logs kept by the Hedera network. A user submits a `connection_request` on the agent's inbound topic. The
agent side creates a connection topic, announces it with `connection_created`, greets there, and answers
the prompts the user posts on it. There are two agent sides in the code: the MonitorService, which runs
in the framework's own process and starts from a cursor, and the polling process, which the server spawns
and which reads topics from their first message. The contract is separate: its transactions are atomic and
serialised, and the rest of the system reads it.

The subgraph in `graph-indexer/` is run by `graph-node/`. Its ingestor polls a provider and fills the chain
store; the block stream of a deployment reconciles the deployment's block with the head in that store, by
asking the node by number beyond the reorg threshold and by walking through stored blocks within it; it sends
blocks and reverts through a bounded channel to the runner; the runner runs the handlers and gives their
changes to the writable store, which queues them for a background task that writes several blocks in one
transaction. Each of these runs ahead of the next, and each may fail and start again from what the next one
has.

What is hard about it:

* `setInterval` does not wait for its asynchronous callback, so polls of one topic overlap, each with a
  cursor it read before its first await;
* a failed call to the network may have had its effect, and a chain of such calls (create, announce,
  confirm, read, greet) may stop at any point;
* processes are killed without waiting for their end, start again with empty memory and find the topics of
  their predecessors;
* a topic leaves and re-enters the set of watched topics, and what was processed there is forgotten;
* the contract accepts a second registration of a device, reuses clone addresses by metadata, derives keys
  from the block, and keeps several mappings and counters that must agree;
* the server waits for an answer as the first message behind its own, whatever that message answers;
* the chain is reorganised while the ingestor fetches, a stream scans a range by number or walks through
  blocks that a clean-up deletes, and while events about the old branch wait in the channel;
* far from the head the runner does not record the blocks without triggers, so reverts need not name a block
  it knows;
* reads look through the queue and then ask the database, between which the background writer commits and
  pops; a failed writer gives up its queue in three steps while the runner goes on pushing;
* changes of several blocks are folded into one batch of rows with block ranges, written, cut by reverts and
  written again.

Each place where this bites is listed under `hazards` in `PROJECT.json` with its line. Some in code that is
not modelled are named here only: `stopMonitoringTopic` has no caller and `cleanupAgent` leaves the intervals
running (`monitorService.ts:624`); a prompt is marked as processed before it is answered and is tried once
(`character-mcp-api.ts:440`); a second initialisation of an agent overwrites its file between a read and a
write of `saveConnection` (`storageService.ts:156`); `addCharacter` looks up and then registers
(`characterController.ts:128`), and `deleteCharacter` posts a mark no lookup reads (`characterController.ts:296`);
`getDeviceTopic` looks for a topic
and creates one when there is none (`hcs-service.ts:531`).

## 2. Modules

| module | what it is |
|---|---|
| `Franky` | the contract; one action per function |
| `FrankyProofs` | theorems about `Franky` for TLAPS |
| `PromptService` | abstract: a server answers a prompt after it was posted, and once |
| `Monitor` | MonitorService with users, controllers and crashes |
| `MonitorProofs` | theorems about it |
| `AgentPoller` | the polling processes with users and the server that spawns them |
| `Chat` | the server's `/chat` and `/destruct` calls, on top of `AgentPoller` |
| `AgentPollerProofs` | theorems about both |
| `Extremes` | least and greatest elements of sets of numbers, for the proofs |
| `ChainStore` | the Ethereum node, the ingestor and the store of blocks |
| `BlockStream` | the stream and the runner of a deployment, on top of `ChainStore` |
| `BlockStreamProofs` | theorems about both |
| `HistoryProofs` | that a deployment holds the effects of its chain, and when a stream near the head steps back |
| `WriteBatch` | batches of entity changes, and what writing and reverting them does to a table |
| `WriteBatchProofs` | that batching changes nothing, and that versions stay disjoint |
| `EntityStore` | abstract: a store that has carried out every call when it returns, and commits later |
| `WritableStore` | the queue and the background writer, on top of `WriteBatch` |
| `WritableStoreProofs` | theorems about it, and that it implements `EntityStore` |
| `MCFranky`, `MCMonitor`, `MCAgentPoller`, `MCChat`, `MCChain`, `MCWritable` | small sets for TLC |

### Franky

An action is a transaction that does not revert; `require`s are its guards. The address of an agent is the
address of a deterministic clone, a function of the metadata alone, so one element of `Agents` is both the
metadata's hash and the address, and `cloneDeterministic` reverting is the guard `FreshSalt`. Mappings to
`bool` are sets of pairs. The hash of `getRandomBytes32` depends on the block and the sender and nothing
else, and is the pair of the two. A device's signature is the address it recovers to; one that recovers to
nobody yields the null address, which the contract does not turn away, so it may be among the devices. The contract's own
balance is kept because `transfer` may fail for want of it. The constructor is payable, so the balance may
start above what is claimable.

### Monitor

Node runs one callback at a time and switches at awaits of the network; an action is the code from one such
await to the next (awaits of synchronous file functions do not switch). Topic 0 is the inbound topic, topic
`t` the t-th connection topic created. `polls[i][t]` has a slot per poll callback that may be under way;
its `pc` names the await it is in:

| `pc` | await in `monitorService.ts` |
|---|---|
| `fetching` | `getMessages`, line 135 |
| `answering` | generating and sending the response, 580-610 |
| `creating` | `handleConnectionRequest` of the HCS-10 client, 375 |
| `recreating` | `createTopic` of the fallback, 442 |
| `confirming` | `submitPayload` on the outbound topic, 387 or 453 |
| `starting` | the first read of the new topic, 406 or 472 |
| `greeting` | the greeting, 417 or 484 |

`Resume` is the `for` loop of lines 174-188: it moves `last` (lastProcessedMessage) over the batch and stops
at the first message whose processing waits; `Batch` is the filter of lines 137-171, `Acceptable` the checks
of `processInboundMessage` up to line 371, `Track` lines 370-371. A `Crash` kills the instances of the
process and their memory; the topics, and the agent's file (`saved`), stay.

`start` and `begun` are history variables: where the cursor of a topic stood when polling began, and which
messages were begun. No guard reads them.

A read (`Shown`) is answered by the mirror node, which may lag behind the network: it returns the messages up
to some number that `MaxLag` bounds, so that of two overlapping polls the later may see less than the earlier.

`clock` is `Date.now()`, in milliseconds: `Pass` moves it on, and any number of other steps may be taken within one
of them, as line 315 compares with `<=` and two requests handled in one millisecond are told apart by nothing. It is never set
back. A request is complete when it has data, without which `processMessage` returns, and names an account that lines 324-326
can derive; any other is passed over (lines 237-239 and 323-331). `record` is what lines 343-363 find in the agent's file: `good`; `bad`
if the account or the key is missing or the key does not parse, which throws; or `replaced`, after a second
initialisation of the agent has written it anew with other topics (`Reinitialize`), so that no agent has this inbound topic. The checks of
lines 334-340 cannot fail, for every caller that polls an inbound topic registers its character in the same run of the event loop as the
start of its interval.

What is abstracted: a message is its kind, who wrote it, and for an answer the prompt it answers; one agent is followed,
and the topics of its second initialisation are not. Outbound topics
are polled by the code and every message of them ignored, so that polling is left out, as is `stopMonitoringTopic`, which nothing calls.

### AgentPoller

The loop of `monitorTopics` is sequential; `pc[p]` names the await a process is in (`load`, `refresh`,
`inbound`, `create`, `remember`, `welcome`, `topics`, `answer`), `job[p]` what is left of the pass. `watch`
is `connectionTopics`, `known` the map `connections`, `mgr` what the SDK's ConnectionsManager lists,
`seen` and `inSeen` the `processedMessages`. The manager is external: a call to it lists every announced topic (it is
assumed to be up to date with announcements: against a mirror node that lags behind one, a restarted process cannot
know what its predecessor did), except
that it may have noticed that some were closed (`Listings`), which its documentation does not settle; the
model allows both. `Stop` is a kill or a crash, `Spawn` a start while a predecessor may still run, for
`startMCPServer` does not wait for the process it kills. `session` counts how often a process put a topic
under watch; it names the abstract server that answers there, and bounds the runs.

### Chat

A call of `/chat` is in `Begin` (the topic of the account is read), `Send` and `Respond` or `GiveUp` (the
thirty reads of `waitForResponse`); `Fail` is every exception, of a send that may have landed or of a read.
`connection` is `connectionTopicMap` of one account: accounts share nothing but the process. `/destruct` takes the topic
(`Destruct`), awaits the agent's data, posts its close (`SendClose`) and, when that has returned, forgets the account's topic
(`Disconnect`), whichever it is by then; a second call, or an `/initialize`, may come in between. The close goes out with
`sendMessage`, as the data of an ordinary message, so that the agent takes it for a prompt.
`BOB_ACCOUNT_ID`, by which a call recognises the agent's messages, is set nowhere in the repository; without
it `endsWith('')` accepts every sender, so whether it is known is the constant `KnowsAgent`. `settled` is a
history variable: whether every earlier prompt had its answer when this one was sent.

### ChainStore

A block's hash commits to all its ancestors, so a block is the sequence of choices that lead to it from
genesis, its length is its number and its prefixes are its ancestors. `tip` is what the node (external) calls
its latest block; it may go over to any chain at least as long that leaves at most `ReorgDepth` of its blocks.
The ingestor takes one step per call to the provider or the database: `Poll`, `IngestBlock` (or
`BlockUnavailable`, for a block the node has abandoned), `AttemptChainHeadUpdate`, which either moves the head
or names the highest missing ancestor to fetch next, and `CleanupCachedBlocks`, which is switched on by `GRAPH_ETHEREUM_CLEANUP_BLOCKS` and
depends on the slowest deployment that has not failed. The in-memory cache of recent blocks answers only
along verified parent links and is cleared with the table, so the two are one set. They differ in one thing: `blocks` puts
a block into the cache without the wrapper that `ancestor_block`'s caller decodes (`chain_store.rs:2299-2302`,
`chain.rs:1046-1053`). Such an answer is an error and is asked for again; `AncestorBlock` may find nothing for that reason at any time.

### BlockStream

`stage` says where `get_next_step` and the stream around it are:

| `stage` | code in `polling_block_stream.rs` |
|---|---|
| `begin` | `get_next_step`, before the head is read |
| `far` | `is_on_main_chain`, beyond the threshold |
| `scan`, `logs` | `scan_triggers`: the end of the range, then its triggers |
| `near` | `ancestor_block`, within the threshold |
| `yield` | `YieldingBlocks` |
| `idle` | waiting for a head update |

Between two stages the node and the store may change; the range scanned has any size, which takes in the
adaptive one. `light` is the set of blocks an index node stored without receipts: their triggers are taken to
be none when they are found in the store. Reverting is `StepBack` at once with the lookup of the parent, which
waits for room in the channel. The runner handles the head of `buffer`; `applied` is the set of blocks whose
triggers have taken effect, and `db` what the database has of it, any earlier state of the runner since it
last restarted: `WritableStore` refines that part and shows that a prefix is what a failure leaves.
Whether the block's handlers fail (`DeterministicError`, `NonDeterministicError`), find out about a
reorganisation (`PossibleReorg`) or add a data source, which restarts the stream, is left open.

Left out: null blocks, the retry when a range ends at a block the node no longer has, a start block that is
genesis (`handle_revert` unwraps the pointer), offchain data sources, end blocks. A deployment starts from
the block before its first start block, `StartPtr`.

What this shows beside its properties:

* `ancestor_block` in the database returns the deepest ancestor present instead of none when one is missing
  (`chain_store.rs:1005-1029`), while the stream expects none and a retry (`polling_block_stream.rs:447-454`).
  The two agree as long as the blocks of the walk are present. `StepsBackOffChainOnly` says they are while the
  head is at most `AncestorCount` past them, and `WalkKept` that the clean-up spares the walk of a deployment that
  has met no error and whose stored pointer is not ahead of its stream. Outside of both the stream may step
  back from a block on the chain and process it again: when the head moves that far during one walk, and the
  deployment has failed (the clean-up does not count it), or its stored pointer is still on the branch its
  stream has already left (it is counted with that pointer). `AppliedIsHistory` holds all the same.
* with cleaning on, an abandoned block may be deleted that the stream still has to step back from and the node
  no longer knows: the stream fails with "Failed to get parent pointer" until it is restarted elsewhere.
  `CatchesUp` therefore assumes that cleaning is off.
* an error of `handle_revert` restarts the stream without a pause.

### WriteBatch, WritableStore and EntityStore

A table is a set of versions with block ranges; a batch is a set of rows, at most one for an entity and a
block. `AppendRows` is `append_row` for each row of a later block, `ApplyModifications` the clamp and the
insert of `relational.rs`, `RevertBlock` the two statements of `revert_block`. `Modifications` is what
`as_modifications` of the entity cache makes of the entities the runner wanted.

The types of some entities are declared immutable in the schema (`Immutable`), as all of Franky's are. They can only be
inserted (`OnlyInserts`; an overwrite or a removal fails `Batch::new`, `write.rs:409-423`), their inserts are
appended to a batch without a look at the rows before them, and their table takes one row of each (`Duplicates`, the `unique(id)` of
`ddl.rs`). When one is set that is not in the entity cache, the store is not asked for it (`TakenAsNew`,
`entity_cache.rs:487-494`): if the handlers have saved it in an earlier block, the insert goes into the queue and fails there.

`WritableStore` has one task that makes calls (the runner) and one that writes. A call is split at its awaits
and its locks: `check_queue_running`, `push_write` and `push`, waiting for room, waiting for an empty queue, the look
through the queue, the query. A write may be turned away before any of it (`RejectWrite`), with the store healthy and unchanged: by
`deployment_synced`, by the check of its block, by `Batch::new`, or by a failing query of the entity cache; and a
query may fail (`GetFromDatabase`) for a reason other than a database that is away, which is waited for. The writer's are `Peek`, `Execute`, `Pop`; after an error `ExecuteFails`, `Poison` and
`Clear`, one per statement of `record_err`. `ExecuteFails` from `pop` is a transaction that committed before
the connection broke and is tried again: a write or a revert then finds that it no longer goes the right way.
Whether a batch is still young enough to be added to is left open.

`EntityStore` is what the runner relies on: each call takes effect at once on the newest of a list of contents,
and commits drop the oldest; a failure or a crash leaves the oldest. A call may be turned away (`Reject`) or a query fail
without any effect. A write says which immutable entities it takes to be new; if one of them is there, the write is
accepted and yet lost, with the changes it would have been committed with and all that come after (`Doom`). No other write
of a working store may be lost by accepting it. The mapping at the end of `WritableStore`
takes the queue to the contents its requests lead to, up to the first that the table will refuse (`Certain`), so a read that mixed
queue and database, a batch that wrote something other than its blocks, or one that was refused though its entities were new, breaks it.

Left out: stop requests, `get_derived`, dynamic data sources, the health written directly beside the queue, and
the tests' synchronous store. In a stated assumption on time, the runner does not call again within the few
statements of `record_err` before the error is stored (`Idle`).

### Refinement

`WritableStore` implements `EntityStore`, as above. `Monitor` and `AgentPoller` both implement `PromptService` under the mappings called `Service` at the end of
each module: what is posted is read off the logs, and the answers of a server are the replies it
left there. For `Monitor` a server is an instance, with one poll at a time; for `AgentPoller` a server is one
period in which a process watches a topic. An answer appears by a step in a different process from the one
that chose to give it, with failures in between, so the refinement fails with any double processing of a message.

## 3. Runs

| run | instance | checks |
|---|---|---|
| `franky` | 2 accounts, a device and the null address as one, 2 agents, 3 registrations, 2 blocks, values 0-1 | type, seven invariants and one action property |
| `monitor_serial` | 2 instances, a topic left by an earlier process, one poll at a time, 2 prompts, reads fail but do not lag | `TypeOK`, refinement `AnswersPrompts`, `OnlyHigher` |
| `monitor_requests` | 1 instance, 2 polls at a time, 2 requests, complete or not, with and without timestamp, 2 milliseconds, every state of the file, 2 topics | `RequestsAccounted`, `OneTopicPerRequest` |
| `monitor_prompts` | 1 instance, 2 polls at a time, 2 prompts | `NothingSkipped` |
| `monitor_live` | 1 instance, request to answer, all kinds of messages, fairness | `PromptsTakenUp` |
| `monitor_dup` | 1 instance, 2 polls at a time | `OnlyHigher` is violated |
| `poller_restart` | 2 processes, 2 requests, 2 topics, closes | `TypeOK`, `OneTopicPerRequest` |
| `poller_prompts` | 1 process and 2 calls of `/chat`, 1 topic, 5 messages, closes and `/destruct` | refinement `AnswersPrompts`, `NoOldAnswer` |
| `poller_live` | 1 process, 1 topic, 3 sessions, all kinds of messages, fairness | `AnswersPrompts`, `PromptsTakenUp` |
| `chain` | a trunk of 6 blocks and a branch of 2, 3 blocks with triggers, thresholds and buffer of 2, 1 failure or restart, fairness | `TypeOK`, `HeadAncestorsPresent`, `AppliedIsHistory`, `StreamConnected`, `HeadAdvances`, `StepsBackOffChainOnly`, `WalkKept`, `CatchesUp` |
| `chain_unfail` | the same | `UnfailsOnceAdvanced` is violated |
| `writable` | an entity that may change and one that may not, 3 blocks, a queue of 2, any number of calls, errors and crashes, fairness | `TypeOK`, `VersionsDisjoint`, `GoesTheRightWay`, `PointerIsLast`, refinement `KeepsPromise`, `CallsReturn` |

Why the bounds are enough for the interesting cases. Three registrations of two devices include a second
registration by another account after an agent was created; two blocks include two keys drawn in one and one
drawn in the next. Two polls suffice for every pairwise overlap of polls, and two prompts for a batch that
is interrupted between its messages; two requests with timestamps 0 (none) and 2 on a clock that runs
from 1 to 2 (`MaxTime`) include one stamped in the future, which makes the other look old, two without a stamp handled in the same
millisecond or in different ones, and a stamp equal to the present. `Records` is what may be the matter with the agent's file: all three states in
`monitor_requests`, where it decides, and the good one elsewhere. Two processes overlap, follow each other, and die between any two awaits. `MaxSessions`
bounds how often a topic is dropped and found again; 3 lets a close be found again, and a read fail as an unknown topic, before a
last watch reads it.

The branch of `chain` leaves the trunk behind the start block, is as long as `ReorgDepth` and carries triggers of its
own, so a deployment can have applied both of its blocks, or have them in its buffer, when the node goes back to the
trunk; the trunk is long enough for blocks beyond the threshold and `CloseToHead`. One failure is any one of a
failed poll, an error of a handler, a failed writer or a restart; a second one mostly repeats the first and
exceeds the time. In `writable` a queue of two holds a batch under way and one that is added to, or a write and
a revert; three blocks let a batch of two be cut in the middle by a revert and written again. Nothing in a
read or a row relates two entities; a refused batch does, which takes the changes of the other entity with it. `Wanted`
bounds what each block may leave the entities as (`MCWritable`): the mutable one absent or with a first value after every
block, with a second value after block 2, so that block 3 can keep, overwrite or remove it; the immutable one absent or set by
the last two blocks, so that it is set once, twice in one batch, in two batches, after a revert, and by a
writer that looked it up and one that did not.

Runs of `Monitor`, `AgentPoller` and `BlockStream` do not check for deadlock: when every instance has crashed, or every process
stopped, and the users have used up their messages, nothing is left to do; a chain that stops growing leaves
nothing to a deployment that has failed. A contract without transactions
produces blocks up to its bound and may still be called, so `franky` checks it.

Fairness. `Monitor` assumes that the interval keeps elapsing and each await settles (weak fairness of
`Tick` and of `Settle` per slot), and that reading a topic does not fail for ever (strong fairness of
`Fetched`): `setInterval` and the promises of the client give the former; the latter is the least that any
answer needs, for a mirror node that always fails delivers nothing. Nothing is assumed of sends. `AgentPoller`
assumes the same of its loop and its two reads. A crash may always happen, and no process has to be
started. In `BlockStream` the ingestor, the stream, the runner and the writer keep going (weak fairness each:
they are tasks that loop for ever), and a provider asked again and again reports its latest block some time
(strong fairness of `PollTip`), and `ancestor_block` answers some time when the walk keeps finding its blocks (strong fairness of
`AncestorFound`). The last is an assumption: a block that does not decode gets into the cache of recent blocks when the stream steps back
from it, is met when the chain returns to it, and leaves the cache as later blocks come or the process restarts; should the chain
stop right there, the deployment waits. Nothing makes the chain grow and nothing has to fail. In `WritableStore` the
runner's call and the background task go on.

The findings. `OnlyHigher` is the comment at `monitorService.ts:138`, "Only process messages with higher
sequence numbers". It holds in `monitor_serial`, where a poll ends before the next begins, and fails in
`monitor_dup`: a poll that reads while the previous one still waits uses a stale cursor and processes the
message again. A language model that takes longer than the interval of five seconds is enough.

`UnfailsOnceAdvanced` is the comment at `runner.rs:897`, "Keep trying to unfail subgraph for everytime it
advances block(s) until it's health is not Failed anymore". The flag is dropped after the first block
processed (`runner.rs:908`), also when that block is lower than the one that failed and the store answered that there
was nothing to do (`deployment_store.rs:1728`). `chain_unfail` shows a stream that starts again with a shorter range,
passes the block that had failed, and a deployment that stays marked as failed until it is restarted.

## 4. Proofs

`FrankyProofs` proves, for any sets of accounts, devices, agents, wallets and fees and any bounds, under
`FrankyAssumption` alone (the deployer is an account, the null address is no account and no wallet, the null key is no
regular key, fees are naturals, devices and agents are finite sets):

`TypeCorrect` first, then each invariant relative to those before it. `OwnersKnown` (an agent has
an owner, an account, exactly when it was created) is the strengthening that
`HostingConsistent` lacks: a fresh salt means no agent record. With `HostingCorrect` a creation adds exactly
one new element to `Created` and to the agents of one device, which is what the two counting invariants
need: `TokenIdsCorrect` (the new id is the old count) and `AgentCountsCorrect` (cardinalities from
`FiniteSetTheorems`). `KeysCorrect`, `KeysUnshared` and `ClaimsCorrect` follow action by action, and
`AgentsNeverChange` is the action property from the same invariants. The step of `createAgent`, which changes
eight variables, is analysed once in the lemma `CreateAgentStep` and cited everywhere.

`WriteBatchProofs` proves, for any entities, values and blocks, that batching is invisible: `AppendIsSequential`
says that writing a batch with the changes of a later block appended leaves exactly the table that writing the
two one after the other does, for every batch that is well-formed for the table; `ModificationsAreChanges` and
`ChangesMakeABatch` that what the entity cache finds is such a batch, `AppendNeverFails` and
`AppendMakesABatch` that appending keeps it one, and `RevertUndoesBatch` that reverting the batch's first block gives the
old table back. The argument goes by the last row of an entity in the batch: it decides how the entity's history
ends, and appending changes that row and no other. Its second half relates tables to time, and says of immutable entities that their versions never end and that a batch for a table
inserts none twice, so the table refuses it only for an entity taken to be new which is not. For a table whose versions are disjoint and
up to some block (`TableUpTo`), writing and reverting keep it so (`BatchKeepsTable`, `RevertKeepsTable`),
a revert to a block leaves what queries at that block found (`RevertGoesBack`), a batch leaves everything before its first row of
an entity (`BatchLeavesThePast`), and from there on `last_op` of the batch is what the table will have (`BatchIsLookedThrough`).

`WritableStoreProofs` proves all safety properties of `WritableStore`, for any capacity. For `GoesTheRightWay` and `PointerIsLast` the invariant
`OrderInv` says that the requests in the queue, started from the database's pointer, go the right way one
after another (a write forward, a revert backward), that the in-memory pointer is where they end, and that the call under way
continues from there: it is what the comment on `Queue` (`writable.rs:740-775`) says of batches and reverts,
and `GoesTheRightWay` is its first element.

`VersionsDisjoint` is not inductive: that a write fits the table depends on what its runner read earlier, partly from requests
that had not been executed. `TableInv` says that there is a chain `D` of tables with their pointers, the first of them or the
second (`Done`: the writer has committed and not yet popped) the database, in which each request of the queue leads
from one to the next and suits the one it starts from (`Leads`). The call under way is tied to the end of the chain (`Asks`): the
rows of a write are the modifications for its last table, and a query that the queue has not answered gets the same from every
table the database may be by the time it is asked. Once a write has set an immutable entity again, the requests lead only up
to some `m`-th one and the table refuses the next (`Stuck`); what is queued or appended behind it never matters, and an
append to the refused batch leaves it refused (`AppendStaysStuck`). `TableInv` is the alternative of the two (`Sure`, `Unsure`), and
`AppendSticks` and `EnqueueSticks` are the steps from one to the other. The heart is the lookup. `QueueIsLookedThrough` and `DatabaseIsAsked` show, by
walking the queue from its newest end (`LookBack`) and from its oldest (`LookForward`), that what `get` finds,
in the queue or in the database at the block below the lowest revert, is the value in the chain's last table.

The refinement `KeepsPromise` maps the queue to the contents of the tables of that chain (`Mapped`), so it needs no invariant of
its own but `FlushInv` (a flush ends on an empty queue; a request whose execution failed stays until the store is poisoned). A step of
the runner that queues or appends adds the contents the call asks for (`ContentsWritten`, `ContentsReverted`:
what a table shows at each block is determined by the theorems above), `Execute` drops the oldest, and an error or a crash cuts the chain back to the database. A write that sets an immutable entity again is `Doom`, on its own or with
the newest contents when it joins a batch. Every other step leaves the mapped state alone; `StepAbove`
puts the cases together.

`BlockStreamProofs` proves, for any finite or infinite tree of blocks and any thresholds and buffer size, `TypeOK`,
`HeadAncestorsPresent`, `HeadAdvances` and `StreamConnected`. A block is a sequence, so the facts about
chains are facts about prefixes (lemmas `AncestorOf` to `ParentOnChain`). `HeadAncestorsPresent` follows from itself:
no step but the clean-up removes a block, and the clean-up stays behind the head's ancestors. For
`StreamConnected` the invariant has three parts: `FarInv` (beyond the threshold the head a stream read, the
store's head and the node agree, because no reorganisation goes that deep: lemma `FinalStays`), `YieldInv`
(the blocks still to be yielded are on one chain with the current block), and `EventsInv` (from the runner's pointer the
events of the buffer follow one another and end at the stream's current block, where a runner that skipped
pointer updates may lag behind the block an event starts from).

`HistoryProofs` proves `AppliedIsHistory`. It follows the effects of a block from the node to the database: the blocks
still to be yielded hold every trigger between the stream's block and the last of them (`YieldHistory`), each event
brings exactly the effects between the block before it and its own (`EventsHistory`), and the runner's and the
database's sets are the histories of their pointers, or miss the block of a deterministic error
(`AppliedInv`). The one place where a trigger could be lost is a block that the stream finds in the store without its receipts
(`upsert_light_blocks`). `LightInv` says that each such block is no higher than `Bound`, the higher of
the block at the threshold below the head and the start block: blocks are stored so when a range ends at them, which is beyond the
threshold, or when the stream steps back from them, and then they are in the store already (`PresentInv`: the blocks younger than
`Bound` on the chain of every block the deployment has come across are there), so storing them changes nothing.

It also proves `StepsBackOffChainOnly` and `WalkKept`. When the stream reads the head, `HeadAncestorsPresent` makes the
walk whole; `WalkInv` says that since then only blocks the head has left `AncestorCount` behind have gone.

`AgentPollerProofs` proves, for any number of processes, topics, messages and sessions, `TypeOK`, `OneTopicPerRequest` and
the refinement `AnswersPrompts` of `AgentPoller`, and for any number of calls of `/chat` beside it the same and
`NoOldAnswer`. `PollerInv` has one part per kind of knowledge. `RequestInv`: while a process handles a request, no
topic it knows was made for it, and from its first refresh on it knows every announced topic that is still open and comes from a
process it never ran beside; so a second topic has its maker in `met`. `AnsweredBy`: what a process replied to while it
has watched a topic is in its `seen`, save the message it is about to answer, and no reply names a later session; so
it never answers twice. `GreetInv`: a topic is greeted once, by its maker, before it is watched. The refinement goes by what a step
adds to the logs: nothing that counts, one prompt, or one reply to a prompt that had none from that session. For `Chat`,
`SettledBefore` is what a call knew of the log when it sent its prompt; logs only grow, so it stays true, and a reply behind
the prompt that answered an earlier one would be a second reply of the only session that watches the topic.

`MonitorProofs` proves the safety properties of `Monitor`. Each action is first shown to be one of eight kinds
of steps (`Speaks`, `Enters`, `Dequeues`, `Crashes`, `Turns`, `Resumes`, `Moves`, `Serves`: lemma `Steps`), which say what
a step does to one poll, its cursor and its topic, and keep the types (`TypeInv`); the invariants then go by kind.
For any number of overlapping polls:

* `TopicInv` (for `OneTopicPerRequest`): a poll that handles a request is alone with it, because the request was put into
  `handled` before the first await; before it creates it has made no topic, before the fallback at most one, and it serves none before
  it starts one; so two topics and one served topic is all there is.
* `CursorInv` (for `NothingSkipped` and `RequestsAccounted`): everything up to the cursor is accounted for, everything up to
  where any poll stands is, and everything that a poll leaves out of its list. What accounts for a message never goes away,
  so it does not matter that polls move one cursor back and forth over each other. `ClockInv` says that requests were
  posted in the past, which is why one without a stamp gives way only to a time not before its own millisecond; `HandledInv` that
  what is recorded as handled has begun. All of it holds as long as the agent's file is good (`Later`: it never becomes good again).

`OnlyHigher` and the refinement `AnswersPrompts` have the hypothesis `MaxPolls = 1`, that one poll of a topic ends before the next
begins; `monitor_dup` shows that without it they are false. Then the poll is where the cursor is (`SerialInv`), what an
instance has replied to is behind the cursor (`ReplyInv`), and a response is to a prompt that has no reply of the instance yet.

Assumptions. `FrankyAssumption`, `MonitorAssumption`, `PollerAssumption`, `ChatAssumption`, `BlockNumberMaxAssumption`, `AbsentAssumption`, `ImmutableAssumption`, `StoreAssumption`, `WantedAssumption`,
`BlocksAssumption`, `CountAssumption` and `StreamAssumption` give the constants their types and keep the null values
apart. `FinalityAssumption` says that the threshold is no smaller than the deepest reorganisation, which is
what `ETHEREUM_REORG_THRESHOLD` is documented as (`graph-node/docs/environment-variables.md:13`).
`RetentionAssumption` says that the ingestor keeps at least as many ancestors as the threshold, as it is
configured with that very number (`graph-node/chain/ethereum/src/chain.rs:612-617`). `StartAssumption` puts
the triggers behind the start block, which is the lowest start block of the manifest's data sources
(`graph-node/core/src/subgraph/registrar.rs:508-525`), and `NoneAssumption` keeps "no error" apart from errors.
TLC evaluates each of them in every run that uses its module.

Every invariant, action property and refinement of the runs that pass is a theorem. Only model-checked, because they are
out of the prover's reach, are the liveness properties (`PromptsTakenUp`, `CatchesUp`, `CallsReturn`). The recursive
function `After`, by which the refinement maps the queue, is not unfolded by the prover: `AfterExists` exhibits a function that
satisfies its defining equation, and `AfterUnfolds` concludes that `After` does.

## 5. Plan

Done: the contract, the two agent sides, the server's calls, and from the block ingestor to the entity tables.
What is left, in order:

1. `Lifecycle`: registrar, provider and instance manager over two nodes: `start_subgraph` spawns its work, so a
   removal may come before it and leave a runner behind (`registrar.rs:93-97`); a quick stop and start may
   have two writers for one deployment (`subgraph_store.rs:279-281` says there is one); a failed start leaves the
   deployment in the registry.
2. `CharacterRegistry`: RegistryService and CharacterController on one topic.
3. `Reputation`: checker registration, `getDeviceTopic`, the median as a function against a reference
   definition.
4. `FrankyIndexer` composed with `Franky` (see below for what is in its way).

## 6. Not modelled

* `FrankyIndexer`: each handler maps one event to one or two entities, with no state of its own.
  Reading them beside `schema.graphql` shows that the schema requires fields the handlers do not set
  (`keyHash` of an agent in `handleAgentCreated`; `serverWalletAddress`, `encryptedPrivateKey` and
  `privateKeyHash` of a user in `handleDeviceRegistered`), for which `Entity::validate`
  (`graph-node/graph/src/data/store/mod.rs:961-1035`) fails the deployment at the first such event; that entities are
  declared immutable and saved again in a later block (`WritableStore` has what the store does then: when the entity is still in the entity cache
  the write is an overwrite and is turned away, otherwise the table refuses the insert and the batch it is in); and that an agent whose owner has no user entity is skipped.
* Of graph-node, most of its 139,000 lines: GraphQL execution, schema and query generation, the WebAssembly
  runtime, the command line tool, migrations, other chains, Firehose and Substreams, metrics. They
  translate data and share no state whose order a model could get wrong; the subgraph of Franky follows an
  Ethereum-compatible chain over JSON-RPC. What is modelled of it is about 4,300 of those lines, the ones
  in which several tasks meet. Offchain data sources, copying, grafting and pruning are features the
  subgraph does not use.
* The frontend's pages and its thin database routes, IPFS, Lit and ENS helpers, the HIP-991 agent (imported by
  nothing), scripts, the stale tests of `blockend`, and the vendored Hedera contracts.
