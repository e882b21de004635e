# A TLA+ development of tycho-l2

tycho-l2 brings masterchain validator sets from one network to a bridge contract on another, and builds
proofs that a transaction is in a chain. This directory models the parts where order, failure and stale
answers matter, checks them with TLC on small instances, and proves the main invariants with TLAPS for
every value of the constants. Paths below are relative to the repository.

## Inventory

| Component | Code | State it keeps | Operations | Models |
|---|---|---|---|---|
| Uploader | `sync-service/src/service/mod.rs` | `min_bridge_state_lt`, `key_blocks_cache`, `last_checked_vset`; the locals of a round | `run`, `sync_key_blocks`, `find_next_key_block`, `get_bridge_account`, `send_key_block` | `Uploader` |
| Wallet | `sync-service/src/service/wallet.rs`, `lib_store.rs` | none between calls | `send_message`, `wait_for_state`, `deploy_vset_lib`, `send_key_block` | `ReliableSend`, steps of `Uploader` |
| NetworkClient helpers | `sync-service/src/client/mod.rs` | the locals of a call: `known_lt`, the page cursor | `send_message_reliable`, `find_transaction`, `wait_for_deploy` | `ReliableSend`, `Delivery` |
| Network clients | `sync-service/src/client/{ton,tycho,legacy}.rs`, `util/` | none | the trait's requests | `KeyBlockFetch`; account states in `ReliableSend` and `Uploader` |
| Proof storage | `proof-api-l2/src/storage`, `cmd/run.rs` | RocksDB column families, the snapshot, `current_vset` | `store_block`, `update_snapshot`, `set_current_vset`, `init`, `build_proof` | `ProofStorage`, `ProofService` |
| Block proofs | `util/src/block` | none: pure functions | `make_proof_chain`, `prepare_signatures`, `make_epoch_data`, `check_signatures`, `make_pruned_block`, `make_pivot_block_proof`, `make_tx_proof`, `make_mc_proof` | `ProofChain`, `PrunedBlocks`, `ProofClients` |
| LiteClient | `ton-lite-client/src/client.rs` | a connection slot per server, a round-robin counter | `query`, the reconnect tasks | `LiteClient` |
| TcpAdnl, QueriesCache | `ton-lite-client/src/tcp_adnl` | cipher stream, pending queries, the closed flag | `query`, `socket_reader`, `wait_closed` | `TcpAdnl`, `PacketReader` |
| TON and legacy proof clients | `proof-api-ton`, `proof-api-legacy` | none | `build_proof` | `ProofClients` |
| HTTP APIs, commands, config, metrics, TL types | the rest | none that matters here | start-up, routing, serialising | not modelled |

How they meet. An `Uploader` reads its source through one `NetworkClient` and the bridge through another, and
pays for messages with a `Wallet`, which uses the second client. A TON client is a `LiteClient`, which
multiplexes `TcpAdnl` connections. `proof-api-l2` runs a light node whose block strider calls `LightSubscriber`
(`prepare_block` per block, then `handle_block`), which feeds `ProofStorage`; HTTP handlers read
it at the same time. All three proof APIs end in `make_proof_chain`.

What is hard here: every RPC answer may come from a node that lags; a message's fate is only visible in a chain that
moves on while one looks; a restart forgets what was in flight; proofs are built while blocks are stored
and deleted. The hazards, each at its line, are in `PROJECT.json`.

What makes each component correct:

- **Uploader**: the bridge reaches every epoch; it is only ever sent blocks that it can take, once; the library is there first.
- **Wallet and client helpers**: *found* and *expired* are the truth, and one of them (or an error) comes.
- **Network clients**: the key block found is the next one for the bridge, signed by validators it knows; a walk fails only by a node.
- **Proof storage**: what is needed for the proof of an indexed transaction is kept until it has outlived its time; deletions agree with one another.
- **Block proofs**: a chain can be read back, and it should always be built (it is not, see *The finding*); a pruned block answers like the whole one.
- **Proof clients**: whatever honest nodes answer, a proof is built if its chain can be packed, and it convinces the bridge.
- **LiteClient**: a query finds a server that answers, if there is one; a closed connection is replaced.
- **TcpAdnl**: an answer reaches the query it belongs to or nobody; the stream stays decodable; a close is noticed.

## Modules

| Module | What it is |
|---|---|
| `Delivery` | the promise of one reliable send: fate and answer |
| `ReliableSend` | one wallet call in full, against lagging, paging and failing nodes; refines `Delivery` |
| `Uploader` | uploaders, both networks and the bridge; a wallet call is reduced to `Delivery`'s promise |
| `KeyBlockFetch` | the walk to the next key block through each of the three clients, request by request; `Uploader` takes it as one step |
| `ProofChain` | `make_proof_chain` as a loop over an iterator of proofs |
| `CellPacking` | which chains `make_proof_chain` packs and for which it panics, for the modules whose requests end in it |
| `PrunedBlocks` | what is kept of a block's cells, what is made of them later, and the search for a shard |
| `ProofService` | the promise of a proof service: what is promised, what is stale, and one request |
| `ProofStorage` | block storage, deletion, snapshots, restarts and proof requests; refines `ProofService` |
| `LiteClient` | reconnect tasks and the query loop, on what `TcpAdnl` promises of one connection |
| `TcpAdnl` | queries that share one connection: their tasks, the cipher stream, the cache, close |
| `PacketReader` | `socket_reader`'s loop that cuts packets out of the stream |
| `ProofClients` | `build_proof` of the TON and the legacy client against the network |
| `MC*` | instances for TLC |
| `*Proofs` | theorems and their proofs; `TcpAdnlProofs` also covers `PacketReader`, `BlockProofs` covers `ProofChain` and `PrunedBlocks` |

### ReliableSend and Delivery

`pc` follows `Wallet::send_message`: *wait* (`wait_for_state`, with its own `wait_lt`), *send*, *poll* and *scan* (the two
nested loops of `find_transaction`), *done*. An account's transactions are numbered; a page returns `BATCH_LEN`
of them, newest first. `blocks` is every state the chain has had, and a poll may be answered from any of them.
`Unchanged` is answered for a state at `known_lt`
or, by a Tycho node, one behind it (`Responses`). `CheckExpired` is the test after
the scan (lines 188-193). An RPC failure inside a page makes the inner call start again from the state's last
transaction; a failure where the code merely repeats the same request is stuttering. The client's clock is
independent of the chain's: `Expiries` has values behind it and in step with it.

Refinement: `fate` is *executed* once `msg_lt` is set, *dead* once the newest block is past `expire_at`, otherwise *open*.

### Uploader

A step is what happens between two awaits. `locals` live for a round, `kept` for the process; `EndRound` and `Crash`
drop them. `Fail` is any error a request may return in a round; `Post` includes a send that fails after the node took the
message. Key blocks are numbered densely (`prev_key_block_seqno` of `s` is `s - 1`), and an epoch stands for `utime_since`.
`Accepts` is the bridge contract, which is not in the repository: it takes a block signed by the
set it knows. `last_checked_vset` and metrics do not influence what is sent and are left out.

A wallet of `Unfunded` runs short and is topped up whenever others please (`Drain`, `TopUp`). Before a message `wait_for_state` polls, without a limit,
until a state of the wallet covers the message and a reserve: `Post` needs one such state to have been (`covered`), which may be an old one. A wallet that is
short by the time it executes the message pays from the reserve (`Execute`) or executes it and sends nothing on (`ExecuteUnfunded`). `Wallet::send_key_block` notices that
its transaction has no outbound message and fails; `deploy_vset_lib` does not look and waits for the library, which nobody else need ever deploy.

So there are three waits without a limit. Two come after a message was sent, for the bridge's transaction and for the library, and `AnswerOnItsWay` is about these: what
is awaited is under way, except for a library whose deployment the wallet could not pay for (`WaitsForEver`). The third is the
wait for the balance (`Starved`), which ends if somebody pays. `BridgeCatchesUp` has both as its ways out: the bridge reaches every epoch unless some uploader
is in one of these two waits again and again. A wallet that was short for a while and then stays funded is no excuse.

`AwaitLib` ends when the account of the lib_store exists. `wait_for_deploy` does not look at the account's state, and would end for one that was only given money too; its address is made of a fresh
random id, and the transaction that executes its deployment also publishes the library (`DeployLib`, external). A contract that failed to start would leave the
library missing, which the model does not cover.

### KeyBlockFetch

`cursor` and `result` are the locals of `find_next_key_block`, `pc` names the request under way. Every request may be answered by a
node of its own, as far behind as it likes, and `NodeFails` is an error, a timeout, a missing block or missing signatures. `TychoClient` and
`LegacyClient` load a key block in one request (`key_block`); `TonClient` goes *lookup*, *block*, *prev*, *proof* and looks up the key
block before the one it loads. That one may be the zerostate, which no node has as a block (a TODO of `client/ton.rs:102`):
`WalkFailsByNodes` says that a walk fails by a node or by this limit, and states which epochs the limit leaves unserved.

### ProofChain

The state is the iterator (`Pull` from its back, `LeafCell` with the semantics of `by_ref().take(n).rev()`, which drops
the elements behind the ones taken), the cell under construction and the chain built so far. `Panic` is `unwrap` on `None`.
`PacksWholeCells` says which lengths are built and which end there, in terms of `CellPacking`'s `Packs`. `ProofStorage` and
`ProofClients` take the call as one step, with `Packs` for its outcome: an error of the request in the first, whose
blocking task panics and whose join handle returns the error; a panic of the request's own task in the second.

### ProofStorage

A write batch is one step. Shards split and merge: masterchain block `m` lists the shards `Leaves[m]`, each with its last block `Top[m]`, and
commits the shard blocks whose `Ref` it is. `StoreBlock` includes
the deletion that a masterchain block at a multiple of `STORE_TIMINGS_STEP` carries out (`Written`).
`HandleBlock` moves the snapshot and then the validator set. `ReadIndex` and
`BuildProof` are the two reads of `build_proof`: the index from the live database, the rest from the snapshot. A restart
goes over the uncommitted masterchain block again; it is possible only where `init` finds a key block at or before the committed
one (`Initializes`), as the process ends otherwise. `Packable` is whether `make_proof_chain` packs the transaction's chain. Pruned and pivot blocks are written and deleted together and are one set.
`Removed` covers the shards that the bound's masterchain block lists, and no others, while the transactions of all shards go by logical
time: the blocks of a shard that is gone by then are left behind, without their transactions, until the shard comes back by a merge
and a later bound covers it. `OrphansOfGoneShards` says that nothing else is left behind.

`ProofService` is what all this is for, without blocks, shards or a database: a transaction is promised from some moment on, and nothing but the end of its
time to live takes that back; nothing is promised of a transaction whose chain cannot be packed. A request for it may be refused, with *not found* or an error, only while it is not promised or when it is stale.
Refinement: a transaction is `Promised` once its masterchain block has been handled, or its proof is all in the snapshot. The second case matters
after a restart, which goes back to before `handle_block` of a block whose transactions may have been proved already: they still can be.
`ServedWithinTtl` says the same of one request and of handled blocks only, and what a chain that cannot be packed comes to: it is found, and the request fails.

### PrunedBlocks

A block is a set of named cells; `AllParts` is the whole of it. `PrunedParts` and `PivotParts` are what `make_pruned_block` and
`make_pivot_block_proof` read under their `UsageTree`, and so what `store_block` keeps. `TxProof`, `TopShardBlocks` and `MakeMcProof` with
`Descend` and `ReadDescr` are what reads the kept cells: parsing a cell that was pruned away is an error. The versions of block, header,
extra and description that each of the three formats reads are predicates (`TonInfo`, `LegacyDescr`, ...). A shard
is a workchain and the bits of its prefix. `prefix` is the `u64` of `find_shard_descr` as a word of `Width` bits, its sentinel bit
included: `Shifted` is `prefix <<= 1`, which drops the highest bit, and `HighBit` is where the search ends.
`UsageTree` also keeps small cells whole, which could only add to what is there; they are left out. A block that follows a merge keeps
the cell of its two predecessors but not what that refers to, as in the code, where nobody reads it.

### LiteClient, TcpAdnl and PacketReader

`LiteClient` has one state machine per server (`task`: connect, wait_closed, sleep; the slot holds a client exactly during
*wait_closed*, which may go on after the connection has closed, `alive`) and one per query. `Skip`, `Failed` and `TimedOut` are the three ways on to the next server: the first counts
as an attempt, the second as an error, the third as neither. `live` says whether the connection a query waits on is still open. `reliable` is fixed at the start: servers that
accept, stay and answer in time.

`TcpAdnl` is the connection below. A query is a caller (`pc`) and the detached task that writes its packet (`sender`); `GiveUp` is the caller
dropping its future, at any await. A packet is written in two pieces, so that a connection may break between them or another
task come between. `pos` is a packet's place in the cipher stream; the server can read the stream as long as it is
`Readable`. `Closed::close` is two steps, and so is what it races with in `wait_closed`; tokio promises that
`notify_waiters` wakes every `Notified` created before it (`Listening`).

`PacketReader` is what `ReadAnswer` abstracts: reads of any size, `target_len`, packets skipped and handled. The stream is a
constant, and bytes are positions in it.

### ProofClients

One request to either client, a step per answer of a node; `pc` names what is asked for next. `TonClient` goes
*block*, *links*, *prev*, *proof*, and *config* when the config proof lacks the validator set; `LegacyClient` *block*, *key*,
*mc_block*, *shards*. Both end in `make_proof_chain` (`Ending`), with a proof or a panic, and `FailsForCause` says which: an error only by a node's fault, a panic for exactly
the lengths that `CellPacking` names. Nodes lag or fail at any request (`NodeFails`), hold any `Signatures` of more than two thirds of the weight,
and do not lie, so that the hash checks of their answers are left out. `EpochValidators` and
`CutoffWeight` are what `make_epoch_data` gives the bridge, and `ProofVerifies` holds the finished proof against them.

The legacy client takes the validator set from the header of the transaction's own block, the signatures from the block that commits it.
If a key block came between the two, the set could be the wrong one. Networks start new shard sessions after a
key block, so that no shard block made on a masterchain block before it is committed after it; `Grounded` states this, and
what the properties say of this client's proofs and errors is conditional on it. The TON client needs no such condition.

## Runs

| Run | Question | Bounds |
|---|---|---|
| `reliable_send` | is an answer always true, nothing skipped, and does the call return? | 5 transactions, pages of 2, 3 block times, 1 failed page |
| `uploader` | what does one uploader send and waste, is what it waits for under way, and does the bridge catch up? | key blocks of epochs 1,2,2,3; 1 crash or ambiguous send; 1 failed request, lost message or message executed without money; a wallet that starts short and runs short at any time |
| `uploader_pair` | what do two that serve one bridge waste? | epochs 1,2,3; no faults |
| `key_block_fetch` | which key block is made ready, and when can a walk fail? | 3 clients; chains of 7 blocks with 3 or 4 key blocks and of 2 without; epochs 0 to 3 of 3 validators |
| `proof_chain` | does every chain read back, and which are built? | 0 to 25 blocks |
| `proof_chain_panic` | is a chain always built? (No: see below.) | as above |
| `pruned_blocks` | does a pruned block answer like the whole one, and is a masterchain proof of the shard asked for? | all shard trees of depth 2 beside an unsplit workchain, 3 formats, up to 2 transactions, prefixes of 4 bits |
| `proof_storage` | does it keep a proof service's promise, are indexed transactions provable, deletions consistent, signatures under the right set? | 6 masterchain blocks, 9 shard blocks of 3 shards, chains of up to 5, timings every 2, time 0..4, 1 restart |
| `lite_client` | which queries fail, do they return, are connections replaced? | 3 servers, both limits 2, one caller that repeats its query |
| `tcp_adnl` | is the stream decodable, each answer delivered right, the cache exact, a close seen? | 2 queries |
| `packet_reader` | is each answer passed on as soon as it is whole? | 10 packets of 1 to 7 units, reads of up to 8 |
| `proof_clients` | what does a finished proof say, and what can make one fail? | 6 masterchain blocks, 3 key blocks, 2 validator sets of 4 members, 9 shard blocks, chains of up to 6 |

Why these are enough to be interesting. *reliable_send*: five transactions and pages of two give scans of three pages,
the message may come first or second in its block, and `expire_at` may lie behind, at or after every block. *uploader*: the
middle block keeps its epoch, so the walk must choose between two blocks newer than the bridge, and the second rotation
needs what the first one left behind (`min_lt`, the cache); the wallet may run short between the poll and the execution, or before either send. With no faults in *uploader_pair*, only the other uploader can
cause a rejection. *key_block_fetch*: a rotation in the first key block and one later, a key block that keeps its epoch, two
rotations in a row, and neighbouring sets that share members at other indices, so that a wrong set is noticed.
*proof_chain*: more than two rounds over every remainder of three. *pruned_blocks*: shards asked for lie above, at and below the
leaves, one level deeper than any tree, or in a workchain that is not there. *proof_storage*: a shard splits, one half gets a block of its own, and they merge again;
the first masterchain block commits five shard blocks, the fewest that cannot be packed, and two commit none, masterchain blocks share a time in pairs, the deletion bound lies between stored
blocks, within and after the split, and the clock may run ahead of the blocks so that a block is skipped, kept or dropped.
*lite_client*: as many servers as the limits allow, so that a query which starts one past the reliable server just reaches it.
*tcp_adnl*: two queries suffice for one to come between the encryption and the writes of the other. *packet_reader*: small packets
lie before, between and after answers, and a read may hold a piece of one packet or several whole ones.
*proof_clients*: one key block brings a new set in another order and one keeps it, shard blocks lie on, before and right after key
blocks, one is not `Grounded`, one commit brings in six of them, so that chains of one to six come up and those of five and six cannot be packed, and two members have exactly two thirds of the weight.

`CHECK_DEADLOCK FALSE` is set where the bounded histories end (last key block, last masterchain block, the returned call). `KeyBlockFetch` and
`PrunedBlocks` go on for good, and are checked for deadlock.

Each property has a mutant of a mapped definition in `PROJECT.json` which makes TLC find it violated. The mutated forms
stand next to the definitions they change and are marked *Mutation*.

### Fairness

- `ReliableSend`: blocks keep coming, the call's own steps are taken when they can be (tokio runs
  it), and an up-to-date account state is served again and again (strong fairness: older ones may come between).
  A failed page is bounded by `MaxFaults`, as the code retries without end.
- `Uploader`: networks process what they hold; up-to-date answers come again and again; each
  uploader's enabled step is eventually taken. Nothing obliges the source to make key blocks, and crashes, losses and
  failures are bounded, never required. Nobody has to fund a wallet, and it may be drained any number of times: a send must happen only if the wallet
  stays able to pay from some moment on, when every up-to-date state ends the wait.
- `LiteClient`: reconnect tasks and the queries that have begun are run: connecting, sleeping and waiting end, as each has a timeout
  or is a timer. `wait_closed` returning is `TcpAdnl`'s `CloseIsSeen`. Nobody has to query, and nothing has to break.
- `TcpAdnl`: the runtime runs the socket reader and the reconnect task. No packet has to be written or answered.
- `ProofStorage`, `ProofChain`, `PrunedBlocks`, `KeyBlockFetch`, `PacketReader` and `ProofClients` have safety properties only.

### The finding

`util/src/block/mod.rs:315`: for five or more shard blocks, with `(n - 1) % 3 # 0`, `make_proof_chain` panics. The leaf cell takes its
proofs with `iter.by_ref().take(remaining % 3).rev()` (line 306). Reversing a `Take` makes it call `nth_back` on the
underlying iterator, which throws away everything behind the elements taken, so nothing is left for the loop of
full cells and `iter.next().unwrap()` fails. `proof_chain_panic` shows the shortest case, and `WholeCellsArePacked` proves
that just these lengths are affected, whatever the proofs are. All three proof APIs meet it: `proof-api-l2` answers such a request with an error, in the other two its task
panics. `ServedWithinTtl`, `ServiceSpec` and `FailsForCause` have these lengths as their stated exception, and their instances have transactions with such chains.

## Proofs

| Module | Theorems |
|---|---|
| `ReliableSendProofs` | `TypeCorrect`, `NeverSkips`, `KeepsPromise` (implements `Delivery`) |
| `UploaderProofs` | `UploaderTypeCorrect`, `ReadsOwnWritesHolds`, `SentInOrderHolds`, `AnswerOnItsWayHolds`, `LibraryFirstHolds`, `NoRefetchHolds` (an action property), `WasteIsExcusedHolds` |
| `KeyBlockFetchProofs` | `NextForBridgeHolds`, `WalkFailsByNodesHolds` |
| `ProofStorageProofs` | `StorageTypeCorrect`, `SignedByCurrentHolds`, `OrphansOfGoneShardsHolds`, `TimingsLeadHolds`, `IndexIsBackedHolds`, `ServedWithinTtlHolds`, `StorageKeepsItsPromise` (implements `ProofService`) |
| `LiteClientProofs` | `LiteTypeCorrect`, `ReliableAnswersHolds` |
| `TcpAdnlProofs` | `AdnlTypeCorrect`, `WireInOrderHolds`, `AnswersOwnHolds`, `CacheIsExactHolds`; for `PacketReader`: `ReaderTypeCorrect`, `AnswersPassedOnHolds` |
| `ProofClientsProofs` | `ProofClientsTypeCorrect`, `ProofVerifiesHolds`, `FailsForCauseHolds` |
| `BlockProofs` | for `ProofChain`: `ChainReadsBack`, `ChainCellsFit`, `WholeCellsArePacked`; for `PrunedBlocks`: `PruningIsTransparentHolds`, `ExactShardHolds` |

Assumptions are the named `ASSUME`s of the modules: bounds are natural numbers, epochs never decrease and rise by at most one
from one key block to the next, pages are not empty; for `ProofStorage`, times grow along each chain, no
block is later than the masterchain block that commits it, a masterchain block's time is not 0 (`remove_until`
saturates at 0, and would always reach such a block), a block is of a shard listed by the masterchain block that commits it, together with
everything that follows it there, and a listed shard's last block tells which of its blocks are committed (`ShardAssumption`: a shard that
splits in the very masterchain block that commits its last blocks is outside it); for `LiteClient`, at least one server (the code returns early without any);
for `KeyBlockFetch`, that an epoch only changes by a key block, that a later validator set starts later and lists nobody twice, and that a
node's signatures are those of some of the set's members; for `PrunedBlocks`, that the header of a masterchain block and the
descriptions in its shard trees can be read, that the newer legacy format has its wrapper cell, and that no shard a masterchain block lists
lies inside another; for `PacketReader`, that the constants describe one stream: each packet starts where the one before it ends; for `ProofClients`, that
headers name the last key block before them, that a masterchain block's shard blocks go up to its `Top`, and that the members of
a set differ. TLC evaluates them on every run.

**ReliableSend.** `NothingSkipped` is not inductive: it says nothing of how states relate to one another. `ChainInv` adds that no
state served is ahead of the head and that a state past `expire_at` already shows the message's transaction, if there is ever one;
`CallInv` that nothing is sent before *poll* and that a scan's cursor lies between `known_lt` and its view; `AnswerInv`
what an answer means. With them, moving `known_lt` to the view's last transaction skips nothing, and an expired answer,
given after the scan of a state past `expire_at`, is final.

**Uploader.** `Base` strengthens the type invariant three ways. `NetInv`: an older state has no more than the newest one, and
shows the epochs of the blocks accepted by its logical time, which is what `min_bridge_state_lt` relies on. `IdInv`: ids
are handed out once, so a verdict belongs to one message. `RoundInv`: what a round holds in each phase; during the walk the
remembered block is the successor of the one looked at next, and afterwards it is the first of its epoch. `LibInv` adds, for
`LibraryFirst`, that a key block under way has its library deployed and that the store awaited was sent this block's set.
`FetchInv` says that a block dropped from the cache is older than a success in the bridge's history up to `min_bridge_state_lt`, and `ReadsOwnWrites`
that no later round works on an older epoch: together they give `NoRefetch`.

`WasteIsExcused` counts, and is not inductive: a block sent twice is rejected only later, and a crash is paid for before anything is
wasted. The proof has two parts. `PriceInv` bounds what each uploader has repeated *and what it may still come to repeat* by two per fault:
`Dups` are its messages that carry a block it had sent before, `Ahead` the blocks it has forgotten and the bridge has not
reached, and `Stale` holds if an old state may still hide a forgotten block the bridge has reached. A crash or an ambiguous send adds at
most one to `Ahead` and one through `Stale`, and a repetition moves one of these to `Dups`. That `Stale` counts one and not one per
block is the point of `min_bridge_state_lt`: the verdict on the first such repetition, whatever it is, ends them all
(`ConfirmPrice`). A rejected transaction is then either one of these repetitions or, by lemma `Excuse`, of a block with a success that is
another uploader's or a repetition itself; this assignment is injective, which gives the bound. The facts
about messages that both parts need are `Traffic`: a message is in one place and executes once (`MailInv`), the one an uploader waits for is its
last (`FlightInv`), the bridge has taken a block of every epoch it has been through (`BridgeInv`), and the epoch in hand was read
from a state at or after `min_bridge_state_lt` (`ViewInv`).

**KeyBlockFetch.** `WalkInv` says that the key block looked at next is the one before the oldest one found to be newer than the bridge's epoch,
and `CacheInv` that whatever is remembered could be loaded and has signatures some node holds. When the walk ends, `FoundInv` has two neighbouring key
blocks, the older one of the bridge's epoch; as epochs go on one at a time and only by key blocks (`Boundary`), the newer one is the
first of the next epoch, signed by the set the bridge knows. Sets are told apart by their start only (`Compare`), which is why a later set has to start
later. For `WalkFailsByNodes`, lemma `Stuck` shows that a walk that comes to a key block its client cannot load has
passed every newer one, so that this block is where it began or ends the bridge's epoch.

**PrunedBlocks.** `StoredInv` says what is kept. Lemma `TxAnswer` gives what `make_tx_proof` answers from *any* set of parts that holds the
ones it parses, and is used twice: for the parts kept and for the whole block (`SameTxProof`). For the search, `DescrInv` says that after `n` steps it stands at
the first `n` elements of the shard asked for, has read the cells on the way, and that the word is `Left(shard, n)`: the bits not yet used, the
sentinel, zeros. So the word is `HighBit` exactly at the shard's own depth (`LeftBits`), and a leaf met earlier, a fork
met there or a missing cell is an error. No induction over trees is needed, as a tree is the set of its paths.

**ProofChain.** `Packing` relates the blocks consumed, the cells built and the groups still to come; it is preserved by each
step, and division by three bounds how many whole cells are left. A leaf cell takes everything behind it along, so that the first full cell after one finds
nothing: a chain with both ends in the panic, and one with only one kind of cell is built.

**ProofStorage.** Two invariants, one on the other. `StriderInv` ties `vset` to the block in hand, before and after it is
handled, which gives `SignedByCurrent`; `TimingInv` says that a timing is its masterchain block's, so that a bound is always
older than what is kept: `TimingsLead`. `OrphansOfGoneShards` follows from comparing the two ranges of one deletion, shard by shard (`OrphanStep`).
What is served needs more: `KeptInv` says that every block stored or skipped (`Done`) is still in the database or too old, and every
handled one (`Due`) in the snapshot or too old, with its signatures. Lemma `Enough` then shows that whatever
is kept this way proves a block that is not too old: the blocks its chain needs are no older than it is (`ChainYounger`). Facts on maxima
of sets of numbers, usually inductions, rest on strict subsets of a finite set being well-founded.

That the storage implements `ProofService` needs one more, `StillInv`: what the snapshot has is still in the database, and what either has is still
indexed, but for blocks that are too old. It holds block by block, and lemma `StillComplete` makes it one of whole proofs: a chain loses none of its
blocks before the block it proves is itself too old. So whatever is promised and not stale is in the index and can be proved from the database as
well as from the snapshot (`Backed`), and since a step leaves the snapshot alone or takes the database for it, it can be proved after every step
(`KeepsWhatItPromised`). Each step then maps to one of the abstract specification: `AskStep`, `AnswerStep`, and `KeepStep` for the rest.

**LiteClient.** `ReachInv` bounds what a query may still spend: the errors and attempts so far, and the `Distance` around the ring to
the nearest reliable connected server, never exceed the number of servers less one. A reliable server keeps its connection, and every step that
counts moves one place on; a timeout only shortens the distance. At distance 0 only `Answered` is possible.

**TcpAdnl.** `IdInv`: ids below `query_id` are handed out once, which gives `AnswersOwn` and, with the exact set of entries, `CacheIsExact`.
`LockInv` ties the lock to the one task between encryption and the end of its write, and the wire's length to `encrypted`
as long as the connection is up, so that the piece appended is always the next one. After a close the wire no longer grows.

**PacketReader.** `DoneInv`: the packets handled are those before `taken`; `TargetInv`: a target is the length of the packet
at the front; `WaitInv`: while the reader waits, that packet is not whole. An answer is never shorter than
`MIN_PACKET_LEN`, so a wait below that length holds none back.

**ProofClients.** The invariant says what each request has established: `TonInv` and `LegacyInv` that the masterchain block is the
committing one and the key block the one its header names, and how much of the chain is there (`Descending`). Lemma `KeyBefore` is where the
two clients meet: with no key block in between, an earlier block leads to the same validator set; the TON client uses it for the
predecessor, where it always holds, the legacy client under `Grounded`. `PreparedGood` is about weights and indices: more than two
thirds reach the cutoff in whole numbers, and each signer, being one of the first `main`, has the index the bridge knows.
For `FailsForCause` the finished chain has `ShardProofs` elements, by which the outcome is decided.

`ChainCellsFit` (no cell needs a fifth reference) is proved only, and no run checks it.

Only model-checked: liveness (`CallReturns`, `BridgeCatchesUp`, `ClosedIsReplaced`, `QueryReturns`, `CloseIsSeen`), as liveness under fairness is out
of the prover's reach. Every invariant and every action property of the passing runs is a theorem, and so
are both refinements. `ReaderTypeOK` of `PacketReader` is proved only.

## Not modelled

- Cell and TL encoding, cryptography, HTTP and JSON, metrics, configuration and start-up: no control that the properties speak of.
- `ton-lite-client/src/proto.rs`: type declarations for the serializer.
- `check_signatures`, which only an example calls, and `make_key_block_proof`, whose result the bridge contract reads.
- The results of get-methods (`util/getter.rs`) and the JSON of the nodes: parsed without state, and an error is a failed request.
- Database compaction and migrations, archives. Signatures are never deleted, and grow with the chain; nothing promises otherwise.
- In `ProofClients`, shards that split or merge: a proof client searches for the block's own shard, which `PrunedBlocks` (`ExactShard`) covers.
- The wallet, lib_store and bridge contracts beyond what the code relies on.

## Plan

1. *(done)* `ReliableSend` against `Delivery`; `Uploader` on its promise; `ProofChain`; their proofs.
2. *(done)* `ProofStorage` and `ProofStorageProofs`, with shards that split and merge.
3. *(done)* `LiteClient`, `TcpAdnl`, `PacketReader` and their proofs.
4. *(done)* `ProofClients` and its proofs.
5. *(done)* `KeyBlockFetch` and `PrunedBlocks` and their proofs; `NoRefetch` and `WasteIsExcused`.
6. *(done)* `ProofService`, implemented by `ProofStorage`.
7. *(next)* `ProofClients` on shards that split and merge; `check_signatures` over all small validator sets and widths of weights.
