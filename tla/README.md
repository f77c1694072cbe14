# metaso-man-indexer in TLA+

metaso-man-indexer follows the Bitcoin (btc) and MicrovisionChain (mvc) block
chains, finds the MetaID pins inscribed in their transactions, keeps them in
MongoDB, follows them from output to output, and derives further state from
them: MRC-20 tokens, the contents of the mempool, names, collections, access
controls and the statistics of the MetaSo application.

This directory holds TLA+ models of the parts that carry that logic, the TLC
configurations that check them on small instances, and proofs that TLAPS
checks. Definitions carry the names of the Go functions they model wherever
possible, and the table `map` of `PROJECT.json` gives the lines each of them
stands for.

Contents: [the system](#the-system), [the modules](#the-modules),
[the runs](#the-runs), [fairness](#fairness), [the proofs](#the-proofs),
[disagreements found](#disagreements-found),
[what is not modelled](#what-is-not-modelled), [the plan](#the-plan),
[running the checks](#running-the-checks).

## The system

### Goroutines and shared state

One main goroutine goes through both chains in turn; besides it there are:

| goroutine | started in | what it does |
|---|---|---|
| main loop | `app.go` | `man.IndexerRun`, `man.CheckNewBlock`, ten seconds of sleep, for ever |
| re-runs | `IndexerRun`, man/man.go:276 | `DoIndexerRun` for the blocks before a new one, without waiting for them |
| reindex API | `api/btc_jsonapi.go` | `DoIndexerRun` for a range of heights, in the HTTP handler |
| `fixStatistics` | `basicprotocols/metaso/data.go:64` | the same for two fixed ranges, before `SyncPEV` begins |
| zmq listener | `man.ZmqRun` | one goroutine per chain receives announced transactions, a second one stores them |
| holder counts | `Mrc20Handle`, man/mrc20.go:81 | `UpdateMrc20TickHolder`, one per tick a block touches |
| MetaSo | `basicprotocols/metaso/data.go` | cursor-driven copies of the pins collection, and the engagement values |
| metaname, mrc721 | their `indexer.go` | further cursor-driven readers of the pins collection |

They share the process variables `MaxHeight` (by chain), `FirstCompleted` and,
inside each adapter, `Block`, without locks, and the MongoDB collections,
without transactions: an operation of many calls can be interleaved with any
other one, and a crash can end it after any call. The only protection is what
unique indexes, filters of updates, and the order of calls give.

### Components

**Indexing loop and pin storage** (`app.go`, `man/man.go`,
`database/mongodb/pins.go`, `CatchPins`, `CatchTransfer` of the adapters).
State: `MaxHeight`, the adapter's `Block`, the pins collection (with each pin's
current output) and the transfer history. A round of `IndexerRun` walks from
`MaxHeight` to the node's best height; when the chain grew by exactly one block
the four blocks before are indexed again, each in its own goroutine. After a
restart `MaxHeight` is the highest block with a stored pin. The interface for
re-indexing and, once in a database's life, `fixStatistics` of MetaSo call
`DoIndexerRun` for fixed ranges, wherever the loop is. `DoIndexerRun` sets
`MaxHeight`, fetches the block, moves the pins whose outputs the block spends,
stores the new pins, and moves those that are spent in the same block. Hard:
every goroutine moves `MaxHeight` back, and replaces the `Block` the others look
for transfers in. Correct when: pins appear in block order, every block is
indexed some day, a pin is where the chain has it, a transfer is recorded under
the height of its block.

**MRC-20 deploy and mint** (`man/mrc20.go`, `man/mrc20_validator.go`,
`database/mongodb/mrc20.go`). State: the ticks with `totalminted`, the documents
of `mrc20utxos`, and, in every pin, the ticks it has paid for. A mint is
validated against a tick read earlier, marks the pins it consumes, counts
itself, and is stored with the other documents at the end of the block: five
calls with nothing that ties them together. Correct when: a tick is never
minted beyond its limit, every stored mint is counted once and paid for, and
repeating a block changes nothing.

**MRC-20 transfers** (same files, `CatchNativeMrc20Transfer` of both adapters).
State: `mrc20utxos`. A block is handled in three passes: transactions without a
transfer pin move everything they spend, transfer pins are tried in rounds until
each has a result, and the first pass is repeated. Correct when: no tokens are
created, a document is spent only by a transaction that spends its output, and
the passes give what moving the tokens in block order gives.

**Mempool** (`man/mempool.go`, `adapter/*/zmq.go`,
`database/mongodb/zmqtx.go`, `CheckNewBlock`). State: the received transactions,
the pins and the moves they make, the MRC-20 documents they spend and create,
and a file with the height up to which these have been deleted. The listener
and its handler store what is announced; two cleaners, the end of
`DoIndexerRun` and `CheckNewBlock`, delete what got into a block. Hard:
bitcoind announces a transaction twice, transactions replace and spend each
other, and the cleaners interleave with the listener. Correct when: what is in
a block disappears, what is not is shown, and balances count no token twice.

**Pin operations** (`handlePathAndOperation`, `getModifyPinStatus`,
`createPinNumber`, `creatFollowData` in man/man.go; `man/validator.go`,
`metaid.go`, `pintree.go`, `follow.go` in database/mongodb). State: pin status,
pin numbers, information pins, the tree and follow records. Correct when: only
the owner's modify and revoke take effect and one pin has one successor,
numbers are unique, and what re-runs undo they restore.

**Pin parsing and ownership** (`adapter/*/indexer.go`, `pin/`). No state:
envelopes in witnesses and outputs of type op-return are parsed into pins, and
`GetOWnerAddress` finds the output a spent pin goes to by adding up the values
of inputs and outputs. Hard: boundaries between outputs, outputs nobody owns,
fees, several pins at one output. Correct when: a pin is recorded at the output
that holds its satoshi.

**MetaSo synchronisation** (`basicprotocols/metaso/sync_*.go`). State: a cursor
per kind of data, the copies, and the counters in the tweets. Each step reads
pins beyond its cursor and applies them; likes, comments and donations save
their cursor before they apply. A second goroutine, once, deletes tweets to have
them read again. Hard: inserts that overtake each other, crashes between cursor
and effect, the two goroutines. Correct when: no buzz is skipped, and no
reaction is counted twice whatever crashes.

**MetaSo engagement values** (`sync_pev.go`, `pev_count.go`,
`statistics_data.go`). State: the metablock cursor and the sums by block, host
and address. A metablock is evaluated once its last btc and mvc blocks are
indexed, as judged from `MaxHeight`; in between, the blocks after the last one
are counted as pending. Correct when: the three collections of values agree with
the rows they were counted from, whatever is repeated.

**Metaname**, **MRC-721**, **Meta access** (`basicprotocols/metaname`,
`basicprotocols/mrc721`, `basicprotocols/metaaccess`, `man/meta_access*.go`).
State: names and their owners; collections, items and their supply; access
controls and passes. Names and items are read in batches behind a cursor and
checked against what was stored before the batch. Controls and passes are
handled inside `DoIndexerRun`, and again by the re-runs. Correct when: names and
items belong to the owners of their pins, no collection outgrows its supply, and
who paid gets in.

**HTTP interface** (`api/`): queries, except for the reindex call.
**Command line wallet and inscription builder** (`cmd/cli`,
`inscribe/mrc20_service`, `common/common_psbt.go`). A process of its own, which
reads the collections the indexer writes and asks a Bitcoin node for unspent
outputs. `mrc20op deploy`, `mint` and `transfer` choose pins, tokens and coins,
build a commit and a reveal transaction and broadcast both. Hard: index and node
are not equally far, values and output numbers are computed before the
transactions exist, refusals of the node are dropped. Correct when: no pin or
token is spent as a coin, the indexer credits what the wallet meant, and no
commit stays without its reveal.

**Pebble and PostgreSQL adapters**: alternatives to MongoDB, the MRC-20 methods
of which are empty. **Configuration, helpers**: no shared state.

`PROJECT.json` lists each component with its files and status, and under
`hazards` the lines at which interleavings, crashes, repetitions and boundaries
bite, with the properties that watch them.

## The modules

| module | component | instance |
|---|---|---|
| `BlockIndexer` | indexing loop, pin storage, transfers of pins | `MCBlockIndexer` |
| `Mrc20Mint` | MRC-20 deploy and mint | `MCMrc20Mint` |
| `Mrc20MintProofs` | theorems about `Mrc20Mint` | |
| `BlockIndexerProofs` | theorems about `BlockIndexer` | |
| `Mrc20Ledger` | MRC-20 native transfers and transfer pins | `MCMrc20Ledger` |
| `Mrc20LedgerProofs` | theorems about `Mrc20Ledger` | |
| `Mempool` | zmq listener, handler, cleaners (btc) | `MCMempool` |
| `MempoolProofs` | theorems about `Mempool` | |
| `PinStatus` | modify, revoke, names, follows, numbers | `MCPinStatus` |
| `PinStatusProofs` | theorems about `PinStatus` | |
| `PinLog` | the pin collections as their readers see them: inserts, moves, cursors | `MCReaders` |
| `MetasoSync` | MetaSo synchronisation | `MCReaders` |
| `LogReader` | abstract specification of a reader, implemented by `MetasoSync` | `MCReaders` |
| `Metaname`, `Mrc721` | names; collections and items | `MCReaders` |
| `Pev` | MetaSo engagement values | `MCReaders` |
| `MetaAccess` | controls and passes | `MCReaders` |
| `ReadersProofs` | a theorem about `MetasoSync`: the tweets | |
| `ProtocolProofs` | theorems about `Metaname`, `Mrc721` and `Pev`; that `MetasoSync` implements `LogReader` | |
| `SetLemmas` | finite sets of numbers, maxima, images, sums: what the proofs above share | |
| `Ownership` | pins of a transaction, where a spent pin goes | `MCWallet` |
| `Inscriber` | the wallet, composed with a node and the indexer | `MCWallet` |

Each module has a constant with the *chains* considered: what the blocks
contain, and which circumstances (failed answers, crashes, overlap) may arise.
Its initial state picks one, so that one run covers a whole family of block
chains. The chain is never changed.

### BlockIndexer

`best` is the node's best height; `maxHeight`, `block`, `at` and `history` are
`MaxHeight`, `indexer.Block`, the location of each stored pin and the transfer
history. `loop` is the state of `IndexerRun`, `worker` that of each goroutine
inside `DoIndexerRun` (0 is the main loop). `Sync`, `TakeNext` and `Spawn` are
`getSyncHeight`, the loop over blocks and the re-runs; `Begin`, `Fetch`, `Find`,
`Catch`, `Move`, `Record` and `Store` are the calls of `DoIndexerRun` between
which another goroutine can get in: assigning `MaxHeight`, `CatchPins` (which
sets `Block`), the query for pins by output, `CatchTransfer` (which reads
`Block`), each `UpdateOne` of a location, `AddTransferHistory`, and
`BatchAddPins`, after which `Find` to `Record` run once more for the block's own
outputs. `FetchFails` is the empty result of an unanswered `GetBlock`, `NoBlock`
that for a block the node does not have, `Crash` a restart, `Reindex` a call of the
API or of `fixStatistics`, for any block: neither looks where the loop is. `ahead` is
history: such a call was for a block after `MaxHeight`. Left out: pin numbers, data values, and the
other collections a block writes.

For mvc transactions from version 10 on, the hash `GetOWnerAddress` computes is
not the transaction's id: `as` is the output that is written down, `to` the one
the pin really goes to.

### Mrc20Mint

`total` is `totalminted` of each stored tick, `utxo` the documents
`SaveMrc20Pin` inserted, `used` the `mrc20mintid` array of each pin, `hop` how
far each pin has been followed along its route. One action per database call:
`CheckDeploy`, `SaveTick`; `ReadTick`, `ReadShovels`, `PushShovels`, `CountMint`;
and `SaveDoc` for each document of the unordered insert. `snap` is the total a
goroutine read, which `CountMint` writes back plus one. A deploy's content is
well formed in the model (the checks on its own text are a precondition), a
mint's is reduced to whether chain, height window and vout are acceptable and
whether its payment is made. The two variables `handled` and `again` are history
for the properties. `Reindex` may be called for a block ahead of the loop in the
chains with failures only, since such a call can lose blocks as a failed fetch
does (see `rounds`); so it is in `Mrc20Ledger`.

### Mrc20Ledger

`utxo` maps the unique key (mrc20id, txpoint, index) to the document.
`NativeFirst`, `Transfer`, `Fallback`, `PassOver`, `TransfersDone` and
`NativeAgain` are the three passes; each native pass and each attempt at a pin
is a query followed by one `BulkWrite`, so it is one action, with crashes in
between. `Upsert` is the filter and the unique key of `UpdateMrc20Utxo`
together, including the refused mint an upsert collides with. `StoreMints` is the
unordered `InsertMany` of `SaveMrc20Pin`: of two new documents with one key it keeps
either (`Insertable`). The map
iterations of Go (order of ticks, which document of an input is met first) are
nondeterministic. `Fallback` is `sendAllAmountToFirstOutput` with what the
database makes of its negative amounts. Mints arrive from a constant, as
`Mrc20Mint` stores them. `minted`, `echoed`, `handled` and `reruns` are history.

### Mempool

`pool`, `entered`, `blocks` and `queue` model bitcoind: `Enter` (with the
replacement of conflicting transactions and what spends them) and `Connect`
both announce on rawtx. `reader` is the goroutine of `ZmqRun`, `handler` the one
in `doZmqRun`, joined by an unbuffered channel. `received`, `listed`, `moves` and
`pending` are zmqrecivetx, mempoolpins, mempooltransferpins and the mempool
collection of mrc20utxos; `file` is btc_del_mempool_height.txt. `IndexerRun`,
`NextBlock`, `EndIndexerRun`, `CheckNewBlock`, `EndCheck` are the main loop,
`StoreBlock` stands for indexing a block, and `DeletePins`, `DeleteDocs`,
`DeleteReceived` for the calls of `DeleteMempoolData`, which `DoIndexerRun` and
`CheckNewBlock` both make. A transaction has one output, to which its pins and
tokens go; `Origins` says which.

### PinStatus

`pins` holds the status (-2 for any refusal), the kind of `originalpath` and the
number of each stored pin, `hop` its transfers, `names` the `nameid` of
`MetaIdInfo`, `follows` and `orphans` the follow records. `Round`, `TakeNext`
and `Rerun` are `IndexerRun`, in rounds that do not overlap; `worker` holds the
goroutines of `DoIndexerRun`, which interleave at each database call: transfers,
what is known of the authors, the originals of modify and revoke pins, the next
number, and then the writes. What a block decides is decided from what it read
(`Refused`, `NewNames`), whenever it is written. A transfer is one step here;
`BlockIndexer` has its parts. The bulk writes are unordered: of two updates of one
pin, or two follows of one pair, in a block either may be the last. A pin is about
one of `name`, `follow` and `other`; its author is its first owner; all pins are on
btc.

### PinLog and its readers

`PinLog` is the part all readers share. `chain.log` is the sequence of documents
of pins and mempoolpins in the order of their `_id`; `stored` is what has been
inserted of it, `gone` what was deleted from the mempool, `cursor` is
sync_lastid_log, `hop`, `moving` and `history` are the transfers of pins.
`StoreBlock` is `BatchAddPins`; with `chain.late` a block may be inserted after
a later one, although its `_id`s are lower, since a goroutine draws them before
it inserts. `Announce` and `Discard` are the mempool's half, `MovePin` and
`RecordMove` the two calls of `handleTransfer`: the history names the pin by the
output it left, which is its id for the first move only. `LogCrash` loses what
has been moved and not recorded.

`MetasoSync` adds `Synchronization` (`sync`: the reader at work, its batch, and
whether it reads, inserts, saves its cursor or counts) and `SyncPEV`'s
`fixStatistics` (`fixing`). Tweets are inserted before their cursor is saved,
reactions after it. `reactions` and `counted` are apart, since a crash may come
between the insert of a like and the counter in its tweet. `raced` is history.

`LogReader` says what such a reader promises: an entry is unread, claimed, done
or lost, is done at most once, and what is lost stays lost. `MetasoSync` maps
each reaction and mempool pin to its fate (`FateOf`), and the run checks that
every step of the composed system is a step of `LogReader` or a stutter.

`Metaname` and `Mrc721` have one record (`task`, `job`) for where their goroutine
is and the documents it read; `todo` and `merging` are `SyncAddress`, which
writes a whole item back that it read earlier. A pin that makes no collection is
dereferenced in `collectionHandle`, which ends the process: the model crashes.

`Pev` is `SyncPEV`: `rows` is metaso_pevdata, `blockHost`, `blockAddr` and
`blockInfo` the values by metablock, `totals` the sums. A metablock comes from
another service (`chain.meta`, `chain.early`), which may not answer for the metablock
(`BeginPEV` goes on to the pending blocks) or for the pending ones (`BeginPending` goes
to `"skipped"`, with the pending rows and the totals as they were); every value is one
unit; there is one block chain.

`MetaAccess` is what `DoIndexerRun` does with control and pass pins after a block
is stored. `turn[<<t, b>>]` is the handling of block b when block t came: `Check`
parses one pin after the other and looks controls up, `SaveControls` and
`SavePasses` write; `HearControl` is the mempool. `chain.alone` are the blocks that
make a round of their own, after which the blocks before are run again. `Status` is
the answer of the interface.

`MCReaders` instantiates the five modules beside one `PinLog`; in each of its
chains one of them is at work.

### Ownership and Inscriber

`Ownership` has no variables. A transaction is a record of inputs (the output
spent, the amount signed for, the envelopes of its witness) and outputs. The
values of the outputs spent are asked of the node (`GetValueByTx`); one it does not
tell ends the search (`Heard`): `GetOwnerAddress` fails, after which the transfer is
not recorded, and `GetPinOwner` leaves the pin at output 0 without an owner.
`CatchPinsByTx` and `CatchPinsByTxMvc` give the pins of one; `GetOwnerAddress`
finds the output a spent output's pin goes to, `GetPinOwner` and
`GetOpReturnPinOwner` the first owner. `Place` and `Follow` are the reference:
the position of a satoshi among the inputs is its position among the outputs.
`Followable` says for which of the spends the two can be expected to agree.
Envelopes are reduced to whose they are, whether they are closed, how many parts
they have and their operation; signatures of outputs to whether an address can
be read from them.

In `Inscriber` `txs` is what the node has accepted, `blocks` how many of these
each block confirms, `indexed` how many blocks are indexed; `pins`, `tokens` and
`used` are the collections the wallet reads. `IndexBlock` is a whole block of
the indexer, whose parts the other modules have. `work` holds for each command
how far it is, its inputs and its two transactions: `GetShovels`,
`GetMrc20Utxos` or `Mrc20opDeploy` read the index, `Fund` asks the node for coins
and builds both transactions, `SendCommit` and `SendReveal` broadcast them.
Between these calls blocks, transactions of others and other commands may come.
`Acceptable` is the node: outputs exist and are unspent, each input was signed
for what it is worth, and the fee is not negative. `truth` is history: where the
satoshi of each pin is by the reference, and whether it was always simple to follow.
`silent` are the transactions the node does not return to the indexer.

The wallet is alice's and there is one tick. A transaction costs one unit for
each input and output, a reveal a constant; lists come in any order, although
the code sorts some. Pending tokens (mempool documents) are left out of
`GetMrc20Utxos`, and so is the difference of address types.

## The runs

| run | module, configuration | asks | result |
|---|---|---|---|
| `rounds` | MCBlockIndexer, `BlockIndexer_rounds.cfg` | TypeOK, InOrder, Settled, EventuallyIndexed | hold |
| `racing` | MCBlockIndexer, `BlockIndexer_racing.cfg` | TransferHeightRight | violated |
| `sequential` | MCMrc20Mint, `Mrc20Mint_sequential.cfg` | TypeOK, BooksBalance, ShovelsPaid, NamesUnique, RerunHarmless | hold |
| `concurrent` | MCMrc20Mint, `Mrc20Mint_concurrent.cfg` | TotalCap, MintPaid | hold |
| `uncounted` | MCMrc20Mint, `Mrc20Mint_uncounted.cfg` | MintsCounted | violated |
| `transfers` | MCMrc20Ledger, `Mrc20Ledger_transfers.cfg` | TypeOK, NoInflation, SpentOnChain, Agreement, RerunHarmless | hold |
| `unspent` | MCMrc20Ledger, `Mrc20Ledger_unspent.cfg` | InputsSpent | violated |
| `mempool` | MCMempool, `Mempool_blocks.cfg` | TypeOK, Listing, BalanceKept | hold |
| `announced` | MCMempool, `Mempool_announced.cfg` | AutomaticallyDeleted | violated |
| `operations` | MCPinStatus, `PinStatus_rounds.cfg` | TypeOK, Numbers, OnlyOwners, ModifiedOnce, StatusHeals, InfoHeals | hold |
| `readers` | MCReaders, `Readers_logs.cfg` | TypeOK, NothingSkipped, AtMostOnce, TweetsArrive, NameOwner, SupplyKept, ItemOwnerHeals, ValuesAgree, TotalsRight, PassesArrive | hold |
| `wallet` | MCWallet, `Wallet_stories.cfg` | TypeOK, SatsFollowed, AssetsKept, BalanceRight, NoStranded | hold |

For each property that holds, `mutants` names a definition and a plausible wrong
version of it under which TLC finds the property violated.

### rounds, racing

The instance has blocks 2 to 5 and re-runs the last two blocks instead of four:
enough for two goroutines and the main loop to be in three different blocks at
once, for `MaxHeight` to be moved back past blocks handed out, and for a round
of one, two and three blocks. One failed fetch, one crash and one call may happen,
each in chains of its own, and the latter two together in one more. Pins are created in different blocks, spent
once per block, spent twice in a block, share an output, and come from before the
initial height.

- `InOrder`: unless a fetch failed, or a call had a block indexed that the loop had
  not come to (`ahead`), a pin is stored only when all pins of
  earlier blocks are. It holds because a round always starts from `MaxHeight`,
  every goroutine sets it to a block that is at most one ahead of a stored one,
  and a restart recomputes it from the pins.
- `EventuallyIndexed`: the pins of each block that appears are stored in the
  end, whatever is re-run, unless a call was `ahead`, after crashes, and after a failed
  fetch if a later
  block comes while the loop keeps up. Only the re-runs after growth by exactly
  one block repair a failed fetch, hence the two provisos.
- `Settled`: if goroutines end before the next round, nothing fails and no pin is
  from the initial height or below, every transfer is recorded under the height of
  its block each time the loop is done, and, where no pin moves twice in one block,
  every pin is where the chain has it, although goroutines replace each other's
  `Block`: the blocks of a round were all handled before, and a repeated one only
  repeats. This is not so of blocks up to the initial height, which the loop never
  takes and re-runs handle first: one may take the transfer of a pin from another
  one's block. `racing` drops the
  circumstances and asks for the heights alone (`TransferHeightRight`), which
  fails.

A call that is `ahead` really loses blocks, in the code and in the model: `MaxHeight`
is read from the highest stored pin, so when reindex or `fixStatistics` stores a later
block's pins before the process is restarted, the loop begins behind that block, and
those between are never indexed. `fixStatistics` is called for blocks 892312 to 894039
of btc and 117006 to 118681 of mvc on each database not yet marked
(basicprotocols/metaso/data.go:64-87), so also on a new one, whose loop is far below.
The two properties are therefore about the indexer without such calls.

`CHECK_DEADLOCK FALSE`: the chain ends at the bound, and failures and API calls
are bounded.

### sequential, concurrent, uncounted

`sequential` has one goroutine and a faultless node over every distribution over
three blocks of three deploys (two of them with one name, one with a pre-mint
and two criteria for the pins a mint consumes) and five mints (two of which are
pins of one transaction and choose the same output, and one of which may come
before its deploy), and any number of re-runs:
there is no bound on repetition, because the state space is finite without one.

- `BooksBalance`: between blocks, `totalminted` is exactly the stored pre-mint
  plus the stored mints. Two kinds of ticks are excepted. Two mints may meet at an
  output, because both chose it or one chose the other's (`SharesPoint`): both are
  counted, and the second one cannot be stored. And a mint may be confirmed before
  its deploy (`MintedEarly`): it is refused, and when its block is run again it is
  accepted, uncounted, because its refused document is at the output.
- `ShovelsPaid`: the mints of a tick have used up the required number of pins
  each, so that no pin pays twice.
- `NamesUnique`: no two ticks have one name.
- `RerunHarmless`: while a handled block is repeated no tick appears and neither
  totals nor verified documents change, except of a tick that is `MintedEarly`.

`concurrent` has two goroutines that interleave at every database call, lost
blocks, a failing node and crashes, on one tick that can be minted once besides
its pre-mint. Of the properties above only two are left, `TotalCap` (the limit
is never passed) and `MintPaid` (a stored mint was paid with pins its own
transaction carried); counts get lost and a name can be deployed twice, which is
why the others are asked of one goroutine. `uncounted` asks whether every
verified mint, stored or waiting, has been counted (`MintsCounted`), and shows
that even with one goroutine a lost block is enough for that to fail.

### transfers, unspent

Block 1 mints two ticks to two outputs; three more transactions, in one block or
two, spend these outputs and each other's in every way of a table of fourteen
shapes, each as a native transfer or with a transfer pin (of part, of the same
amount twice to one output, of too much, to an unusable output), on btc, on mvc,
and, with failures, on mvc from version 10 on. Three transactions are the least
for a chain in which the middle one has a pin and its neighbours have none, or
the other way round; two outputs are the least for a remainder.

- `NoInflation`: live documents never hold more of a tick than was minted, plus
  what rejected transfers copied (see `unspent`), under crashes, lost blocks and
  a failing node.
- `SpentOnChain`: a document is spent only by an indexed transaction that spends
  its output. The document names it (`Marked`), or names none, where the code writes
  none: a native transfer on mvc, and on btc a transfer pin's rejection that marks
  the document of an input with an empty one.
- `Agreement`: on btc, without failures, every unspent output holds exactly what
  a reference that moves tokens one transaction at a time in block order gives
  it, provided every block is `Simple`: no native transfer has to wait for one
  that itself has to wait for the second native pass. Longer chains of native
  transfers within a block really are left unfinished.
- `RerunHarmless`: repeating such a block moves nothing unless a transfer was
  rejected.

`unspent` is about rejected transfers. Blocks are repeated at most once
(`MaxReruns`).

### mempool, announced

Block 1 leaves a pin and a token at each of two outputs; transaction `a` spends
one of them with a transfer pin, `b` spends the other one, or `a`'s output, or
both, or replaces `a`. Two more blocks come, so that re-runs happen (one block
back instead of four), and a block can be cleaned up while the next one arrives.
In chains of their own, one crash or one unreadable block may happen.

- `Listing`: when the loop has caught up and the listener is idle, nothing of
  any block is left in the four collections, whichever cleaner came first; after
  an unreadable block that holds for all but the last block, because
  `CheckNewBlock` starts again from the block in the file. And, without crashes,
  whenever the listener is idle every pin an unconfirmed transaction creates,
  and of independent transactions every pin it moves, is listed.
- `BalanceKept`: for transactions that spend outputs of block 1 only, each address
  is shown what it will have once the mempool is confirmed (`UnspentAfter`), so
  that no token is shown twice or missing while its transfer goes from the mempool
  into a block; after a crash, what it will have once those of the transactions
  are confirmed whose announcements were not lost. (For chains within the mempool
  it does not hold: a parent's credit is counted until its block is cleaned up.)

The part of `Listing` about blocks and `BalanceKept` assume `prompt`: announcements are stored before the loop next
looks for blocks, as the ten seconds of sleep make likely. `announced` drops it.
Deadlock is checked: the loop never stops looking.

### operations

A pin is modified and revoked, once or twice, by its author or somebody else, in
every order within a block and over three blocks; names are created again or
modified; follows are started twice and ended. The chain goes on for two more
blocks, so that each block is run again by the goroutines of the two blocks
after it (`Back = 2`), while these interleave; a few chains transfer the pin, also
with a reindex call and blocks that come together, and every story is also told with
one lost block, one crash, one reindex call, and blocks that come together.

- `Numbers`: numbers are the order of the chain without gaps unless a block was
  lost, and not given twice if one was. Two lost blocks would be run again by two
  goroutines of one round, which may read the same next number.
- `OnlyOwners`: only an operation of the author, in a later block and before any
  transfer, changes a status, also when it is run again after the transfer.
- Both say nothing once the API has indexed a block before its turn (`InTurn`):
  when several blocks come together, `reindex` may be called for the last of them
  while the loop is at the first. Its pins then get their numbers first, and a
  transfer in a block that is still to come is not known when they are judged.
- `ModifiedOnce`: one pin has one accepted modification, except after a crash
  between storing it and marking its original, in one block, where the originals
  were read before either of two was stored, and in two lost blocks that are run
  again together. A modification that was refused and is itself revoked shows the
  status of that, so `Accepted` looks at those that nothing is about.
- `StatusHeals`, `InfoHeals`: re-runs undo later operations for a while, for
  instance a modification is accepted again after the revoke; once the last
  re-run of an operation is over, status, name and follow are those of the last
  operation in block order. Names and follows have provisos (names only created
  and nothing else by the address; one follow per pair), because without them
  they do not hold: a name created in block 1 and modified in block 2 is the old
  one for ever once block 1 has been run again, since the re-run of block 2
  refuses the modification of a pin that is marked as modified already.

### readers

Eighteen logs of three to six documents, each for one module: two buzzes with
likes, an unlike, comments, donations, some of another host or that cannot be
parsed; a like that is announced before its block comes; the upgrade that
deletes tweets; two registrations of one name, modifications, names that move
once and twice; items beyond the supply, described, seen in the mempool first;
a pin that makes no collection; two metablocks, with pins about their own or
another's, evaluated early, followed by pending blocks that begin too early, with an
insert that overtakes; passes before their control, in its block, after it, for two pins, announced. One crash may come
anywhere. `Limit = 2` makes a reader come back for its third document, `Supply
= 2` makes the third item the one too many, and `Back = 4` is the code's.

- `NothingSkipped`: the cursor of the tweets never passes a buzz that is not
  stored. It fails when inserts overtake each other, and when `fixStatistics`
  resets tweets and cursor between two calls of `synchTweet`; both are excluded
  (`late`, `raced`), and both really lose buzzes.
- `TweetsArrive`: every buzz becomes a tweet and stays one, even when a crash
  between insert and cursor makes each later insert meet duplicates.
- `AtMostOnce`: `MetasoSync` implements `LogReader`. Losses are allowed, and
  occur: a crash after the cursor is saved loses the batch.
- `NameOwner`: once transfers are read, a name has its pin's owner, unless the
  pin moved more than once or the crash kept the move out of the history: then
  the new owner never gets the name.
- `ItemOwnerHeals`: an item comes to its pin's owner and stays there, because
  `SyncAddress` repairs what the history misses.
- `SupplyKept`: without crashes no collection has more items than its supply;
  after one between the items and the count, it can.
- `ValuesAgree`: what is kept of metablocks, hosts and addresses, value and history,
  is what the rows add up to; without a crash always, and through crashes and
  repeats if what a block counts cannot change in between (`Steady`). Otherwise it
  can: the rows of a moved pin go to another address when they are counted again,
  and of two attempts each can find a different pin to be the first one of a
  followed address if an insert overtakes.
- `TotalsRight`, also for `Steady` chains: after each count of the pending blocks
  (not after a turn that skipped it because the service did not answer) the
  totals are the sums of the rows, and no pin counts in two metablocks. Two
  circumstances are excepted, and the first can leave a total wrong for good. When
  the service lets the pending blocks begin before a metablock ends, its last pins
  count once more as pending; the next metablock drops these rows, and a total it
  does not name keeps them. And a metablock that a crash broke off after its rows
  were written is pending once more.
- `PassesArrive`: a pass for a control of an earlier block opens it; one for a control
  of its own block is refused at first, and opens it when one of the next four blocks
  makes a round of its own, for only such a round runs the blocks before again
  (man/man.go:274). Which blocks do is part of the chain (`alone`): in one of the
  chains two blocks come together, and the pass is made good by the next one; in
  another no block comes alone, and it never is.

`CHECK_DEADLOCK FALSE`: logs end.

### wallet

Each *story* has the transactions that were there before, what others send, the
commands, what the tick asks of a mint, the fee, and the *care* taken: the
properties name the care they need. Mints need no pins, one or two, with and
without a payment, below and above the least output; transfers give part of an
output, of two, more than there is; coins are just enough, leave a change too
small, or do not suffice; two commands hurry; tokens arrive without a pin; two
pins, or a pin and tokens, share an output. Stories without a wallet give every
shape of envelope, op-return pins, pins that are paid as fees or burnt or cross
outputs, in one block or two, on btc and mvc. Two inputs and three outputs are
the least with a boundary of outputs inside an input and another one that
coincides with one. `Dust = 5` stands for 546 and `Small = 3` for 300, in units
in which an input or output costs one; the fee of a reveal is below or at twice
`Dust`, which matters to deploys.

- `SatsFollowed`: a pin that always was simple to follow is recorded at the output of
  its satoshi, unless that was paid as a fee. What is simple is computed, pin by
  pin, from the chain (`truth`): it has an owner at first; at each move its satoshi is
  the first one of the output spent, since the code ignores the offset in an output
  (bitcoin/indexer.go:201-258); it moves once in a block and shares no output with
  another pin; the node tells every value; the first output, when it is the first
  input, is worth something; on mvc, the transaction's hash is its id. For each of
  these the stories have a pin that is not followed without it (`Two`, `Lost`,
  `Silent`, `Mvc`).
- `AssetsKept`: if commands wait for the indexer and no output holds two assets,
  no pin of alice's is spent as a coin or leaves her.
- `BalanceRight`: each mint is accepted by the validator, with pins, payment and
  output as the wallet computed them beforehand, and each transfer gives exactly
  its amount.
- `NoStranded`: a commit the node took is followed by its reveal. What was paid
  to the commit's output would otherwise be lost, as its key is not kept. It
  needs all the care, and fails without: see below.

`CHECK_DEADLOCK FALSE`: stories end.

## Fairness

`rounds` and `readers` have liveness properties. In `rounds` `FairSpec` assumes weak fairness of the
main loop and, separately, of each goroutine inside `DoIndexerRun`: the loop in
`app.go` has no exit, goroutines are scheduled by the Go runtime, and no step of
them waits for another goroutine, so each step stays enabled until it is taken.
A database or node call that never returns is not considered. Nothing is assumed
of new blocks, crashes, failed fetches and API calls; the weak fairness of a
goroutine covers the steps that succeed, and a failure is a step that competes
with them, bounded by `MaxFaults`.

In `readers` each goroutine has weak fairness of its own: `Synchronization`,
`fixStatistics`, `sync` of mrc721, `SyncAddress`, and the handling of access pins
in the main loop and its re-runs. All are loops without exit that wait for
nobody. New blocks, announcements, moves and crashes are not fair: `TweetsArrive`,
`ItemOwnerHeals` and `PassesArrive` are about what has been stored.

## The proofs

TLAPS proves the following for every value of the constants: any chains, any
number of goroutines, pins, ticks, mints, documents and blocks, any supply, and,
where a theorem does not say otherwise, any number of crashes and failed
answers.

| theorem | states | about |
|---|---|---|
| `Mrc20MintProofs!TypeCorrect` | `TypeOK` | deploys and mints |
| `Mrc20MintProofs!MintCap` | `TotalCap` | the total of a tick never exceeds its `mintCount` |
| `Mrc20MintProofs!StoredMintsPaid` | `MintPaid` | a stored mint's transaction carried enough pins marked for it |
| `Mrc20MintProofs!NamesStayUnique` | `NamesUnique` | no name is deployed twice, by one goroutine |
| `Mrc20MintProofs!ShovelsStayPaid` | `ShovelsPaid` | no pin pays for two mints of a tick, with one goroutine |
| `Mrc20MintProofs!BooksStayBalanced` | `BooksBalance` | the totals are what is stored, with one goroutine and no failures |
| `Mrc20MintProofs!RerunsAreHarmless` | `RerunHarmless` | running a handled block again changes nothing, likewise |
| `Mrc20LedgerProofs!TypeCorrect` | `TypeOK` | transfers of tokens |
| `Mrc20LedgerProofs!SpentByChain` | `SpentOnChain` | only a transaction that spends an output marks its tokens spent, by name or with an empty document |
| `Mrc20LedgerProofs!TokensBacked` | `NoInflation` | what is live of a tick was minted, or copied by `sendAllAmountToFirstOutput` beside inputs left live |
| `BlockIndexerProofs!TypeCorrect` | `TypeOK` | the indexing loop |
| `BlockIndexerProofs!BlockOrder` | `InOrder` | pins are stored in block order, without failed fetches and calls ahead of the loop |
| `BlockIndexerProofs!SettledHolds` | `Settled` | between rounds pins and heights of transfers are right |
| `PinStatusProofs!TypeCorrect` | `TypeOK` | the operations on pins |
| `PinStatusProofs!NumbersHold` | `Numbers` | pin numbers count the chain; none is given twice |
| `PinStatusProofs!OwnersHold` | `OnlyOwners` | statuses change only by rightful operations of the author |
| `PinStatusProofs!OnceHolds` | `ModifiedOnce` | one accepted modification of a pin |
| `MempoolProofs!TypeCorrect` | `TypeOK` | the mempool's collections, the listener and the cleaners |
| `MempoolProofs!BalanceHolds` | `BalanceKept` | addresses are shown what they will have when the mempool is confirmed |
| `MempoolProofs!ListingHolds` | `Listing` | no record of a block's transactions stays; the node's mempool is listed |
| `ReadersProofs!TweetsComplete` | `NothingSkipped` | the cursor passes no buzz that is not stored |
| `ProtocolProofs!ReadAtMostOnce` | `AtMostOnce` | `MetasoSync` implements `LogReader` |
| `ProtocolProofs!NamesFollow` | `NameOwner` | names belong to the owners of their pins |
| `ProtocolProofs!SupplyHolds` | `SupplyKept` | no collection outgrows its supply |
| `ProtocolProofs!ValuesHold` | `ValuesAgree` | the values of metablocks, hosts and addresses are those of the rows |
| `ProtocolProofs!TotalsHold` | `TotalsRight` | the totals are the sums of the rows, and no pin counts in two metablocks |

### What they assume

Every assumption on a constant is a named `ASSUME`, which TLC evaluates on the
runs of its module.

- `ConstantsAssumption` of `Mrc20Mint`: pins and mints have the form of `DeployInfo`
  and `MintInfo`, a pre-mint is at most the limit (which `Validator.Deploy`
  requires), and the pins of a chain are finitely many. `NamesStayUnique` and
  `ShovelsStayPaid` also have `Workers = {Main}` as a hypothesis, because they are
  false with two goroutines: both may find a name free, or a pin unmarked, before
  either writes. `concurrent` does not list them for this reason.
  `BooksStayBalanced` and `RerunsAreHarmless` also have `Faulty = FALSE`: `uncounted`
  shows how a lost block puts the totals out.
- `OutputsAssumption` of `Mrc20Mint`, which only these two use, says what outputs of
  transactions are: different blocks have different ones, and so have a mint and
  the deploy whose id it names, which is the id of another transaction; a mint pin
  occurs once; the pre-mint at output 1 is not the output of the deploy's pin,
  which must be at offset 0 (mrc20_validator.go:115).
- `ConstantsAssumption` and `BlocksAssumption` of `Mrc20Ledger`: the chains are chains,
  whose mints arrive live, as `CreateMrc20MintPin` makes them; the outputs of a
  transaction are among those of the model; a transfer pin is in a transaction of its
  block, the mints of a block are finitely many, and no two transactions of a block
  spend the same output, which a node guarantees. That
  different blocks spend different outputs is not assumed.
- `ConstantsAssumption` and `OutputsAssumption` of `BlockIndexer`: the chains are
  chains, no more blocks are repeated than there are before the first, and the output
  a pin is created in is not spent before its block.
- `ConstantsAssumption` of `Mempool`: the chains are chains, the transactions are
  finitely many, and those of the first block, which the model begins with, are
  exactly the ones that spend nothing of the model.
- `ConstantsAssumption` and `PlacesAssumption` of `PinStatus`: the chains are chains,
  a re-run has at least one goroutine, a pin is inscribed at one place, and its
  output is not spent before the block that holds it; the first move of a route
  comes first. Routes need not be ordered otherwise.
- `LogAssumption` and `PinsAssumption` of `PinLog`: a log is a sequence in the
  order of `_id`, in which the documents of a block come before those of a later
  one; a pin is listed at most once by the mempool and once by its block (both
  collections have a unique index on the pin's id), and names the same collection
  in both. `KeysAssumption` names the cursors that exist.
- `MetaAssumption` of `PinLog`: the metablocks of the other service follow each other
  without gaps, some perhaps empty, and the block it lets the pending ones follow is
  not above the last one of the metablock.
- `SupplyAssumption` of `MCReaders`: a `totalsupply` is -1, for none, or not
  negative; `validateCollection` refuses others (mrc721_validator.go:38).

### The arguments

`MintCap`. `TotalCap` is not inductive: `CountMint` writes a value read several
calls earlier plus one. `IInv` adds `StageOK(w)` for each goroutine: one past the
checks of `ReadTick` still stands at a mint whose tick exists, and its snapshot is
below that tick's limit. Snapshots may be stale, and totals may fall when a
goroutine writes an old one; each write is at most a value below the limit plus
one, so the limit holds.

`NamesStayUnique` adds `NameFree`: the name of a tick about to be saved is still
free, which only the goroutine that saves could change.

`StoredMintsPaid`. Between the marks on the pins and the document are three calls,
and a crash in between leaves marks and no document, never the reverse. `PaidInv`
says of each goroutine where the mint stands: pins chosen are on its route and
enough, after `PushShovels` they are marked, and what it lists is paid. Marks and
routes only grow (`Grows`), so what was paid stays paid whatever others do.

`ShovelsStayPaid` counts. `OwedInv`: the pins marked for a tick are at least
`count` times the mints that are stored, listed for storing, or just paid. A step
moves a mint from one of the three to the next; `PushShovels` adds `count` fresh
pins at once, because pins marked before were not chosen. Crashes and refused
documents make the left side smaller only.

`BooksStayBalanced`. `BalanceInv` says of every state, not only between blocks, that
the total is the pre-mint plus the mints `Booked`: stored, or listed with a free
key. That `CountMint` adds one exactly when it books one has two halves. At the
first handling of a block nothing stored is of this block (`StoredInv`: all blocks
but the last are handled, and what is stored is from a handled one), so nothing is
at the mint's output. At a repetition something is: `MintsInv` says that of every
block that was handled each mint that would be accepted now has a document at its
output, the accepted one or the one that refused it. `DeploysInv`, that the names
of the deploys handled are taken, gives this for a new tick too, since no mint of
it can have been handled. `SaveDoc` leaves `Booked` as it is since no two documents
of the list want one key (`UniqueInv`).

`RerunsAreHarmless` adds `RerunInv`: what a repetition lists and accepts has its key
taken already, which is `MintsInv` once more.

`TypeCorrect` of `Mrc20Ledger`. Types do not hold by themselves here: an amount stored
is a sum over documents found, so the collection has to be finite, and
`NativeWrites`, `TransferWrites` and `FallbackWrites` have to be lists of documents
whose outputs exist. `Base` says so, together with what the passes rely on: the
goroutine at work is in a block that has been pinned; the list that `transferHandle`
collects contains accepted documents only and is empty before the transfer pins; and
writing that list again changes nothing (`Updated(utxo, worker.list) = utxo`).

`Updated` is a fold over a list, and what one fold does to one key is stated once,
by induction over the positions of the list (`UpdatedIsLeft`): the last write of the
key stands, unless a refused mint holds the key. The rest follows without induction.
`WrittenAgain`: a list written twice is as good as written once. `WrittenBefore`: if
the first part of a list had been written already, writing all of it is writing the
second part. That is why an attempt at a pin, which writes the whole list collected
so far, has the effect of its own writes only, although other pins' documents are in
the list and might have been spent by a pin in between: then the spending is in the
list too, after them.

`SpentByChain`. For each list of writes it is shown which transaction spends what it
marks (`NativeChanges`, `TransferChanges`, `FallbackChanges`), and `Changes` says of a
step: a document is as it was, or is live, or a transaction of the block being
indexed spends its outpoint. Blocks stay pinned, so what was right stays right.

`TokensBacked`. `WritesConserve` speaks of any list of writes: what is live of a tick
afterwards is what was live and is not written, and what the list credits; so the
tick grows by no more than the credits exceed what the live documents written held
(`SumUnion`, `SumSubset`). For each of the three lists the credits are at most that,
for three reasons. A native pass splits what it found by transaction, tick and, on mvc, input;
each of these parts gives one receipt of at most its sum (`SumOfParts`, which is where
two transactions of a block must not spend the same output). A transfer credits its
items and the remainder, which is defined as the rest of the inputs' sum; it is not
negative because `Valid` compares the sum of all items of a tick with the inputs. A
fallback credits the sum of inputs it leaves live, which is what `echoed` counts.
`Counted` states this for every step, and `StoreMints` adds to `minted` what it
inserts.

`BlockOrder`. `MaxHeight` is moved back and forth by every goroutine, yet: blocks
are stored whole (`WholeBlocks`), a goroutine is at most one block ahead of what is
stored and one of a round of re-runs only repeats (`NotAhead`), and `MaxHeight` is
a block stored or the one the main loop is at (`MaxHeightOK`). So a round that
starts from `MaxHeight`, wherever it was left, skips nothing. A call that is not
`ahead` is for a block up to `MaxHeight`, and only repeats; nothing is claimed after
one that is. `ReachInv` says that a goroutine is beyond the node's best block only
before it fetches, after such a call, so that `MaxHeight` and what is stored never are.

`SettledHolds`. While rounds do not overlap, goroutines run only when the main loop
is through with the round (`RoundInv`), so `Block` is the main loop's own while it
handles a block, and otherwise some block that is done.
- Heights (`HeightInv`): a goroutine that has caught a transfer in another's block
  found the pin at the output it was created in, as its own inputs are spent in its
  own block only; that pin has left in a block that is done, and its transfer is
  recorded. The record is kept, so the wrong height is never written. What has to be
  shown for this is that a block is not done before the transfers of the pins it
  spends at their first outputs are recorded (`MainRecords`), whether they are found
  among its inputs or, created in the block itself, among its outputs.
- Places (`PlaceInv`): either every pin is where it is after some block `n` that is
  done (`Resting`), and then nothing a goroutine catches is in its hands, because an
  output a pin has after `n` is spent later than `n` (`TrailLater`) and `Block` is
  not; or the main loop is at block `n + 1` (`Placing`), and each pin is where it is
  after `n` if its output is still to be moved (`LeftFor`) and after `n + 1` if not.
  That no two pins of a `Plain` chain share an output is why `UpdateOne` moves the
  right one. `TrueOutput` is a recursive function; its values up to the tip are shown
  to exist by induction over the naturals (`TrailUnfolds`).

`NumbersHold`. A number is read several calls before it is given, so the proof is
about who may be storing. `LoopInv`: of the blocks behind the loop at most one is
missing from the collection, namely the one that was lost, and of the goroutines at
most one is in a block that is missing, while the others only repeat (`Full`).
`OrderInv` says the same of the blocks before any stored pin. `NumbersInv`: the
number that goroutine has read is above all that are given, and, while nothing was
lost, it is their count, which the pins in block order then continue; that they are
counted without gaps is why `Cardinality` gives the number of each.

`OwnersHold`. `TransfersInv` follows what is known of the transfers through the
stages: a goroutine starts when the moves of all earlier blocks are noted, its
first step notes those of its own, so an original it reads as unmoved was not moved
up to its block (`MovedFor`). The status written later is therefore that of a
rightful operation, whatever the owner is by then (`MarksRightful`).

`OnceHolds`. `ModifiedInv`: an accepted modification is visible in its original,
which is marked or has moved, or a goroutine is between storing and marking it
(`Marking`), and then no other goroutine has anything to store. So a goroutine that
reads originals for a block to be stored sees the marks of every modification
stored before, and refuses the second one.

`ListingHolds`. Each half of `Listing` looks at a state in which nothing is under way,
so the proof says where things are until then.
- That nothing of a block is left: a record is written by the listener or the
  handler, for a transaction that is on its way (`OnWay`). `PromptInv`: if
  announcements are prompt, what is on its way belongs to blocks the loop has not
  looked for, so the listener writes nothing of a block that is being cleaned or has
  been. `PositionInv` ties `file` to the block the cleaner is in, which is the one in
  the file or the next (`CheckNewBlock` begins with the block in the file, not the
  one after). `CleanInv` then says which blocks are gone (`Cleaned`): with no failed
  deletion all up to `file`; with one, a block is cleaned again with its successor,
  which is why the last block is excepted.
- That what the node holds is listed: `OnceInv`, a transaction in the node's mempool
  has one announcement on its way, which the listener has not met yet; so
  `received` does not make it pass over the announcement. `PinsInv` and `MovesInv`
  follow pins and moves from the queue through both goroutines to their records.
  For independent transactions what `TransferCheck` finds for one transaction only
  shrinks while others are listed (`CheckShrinks`), and a pin is moved by none but
  the transaction that spends it, so nobody overwrites a move.

`BalanceHolds`. A balance adds up three collections of documents, and its parts change
in several steps, so the proof says which documents there are. `CopiesInv`: of
independent transactions the document of one (`Credit`) stands with the copies of
all that it spends and every copy with its transaction's document, because they are
written at once (`Credited`), the handler finds all of a transaction's inputs
unspent or none (`InputsTogether`), and `DeleteDocs` takes them by `operationtx`,
which they share. `WayInv`: what the node's mempool holds is on its way until it has
a document. In a state where nothing is under way `Listing` gives that no document
is of a block's transaction; so the documents are those of `seen`, which is all of
the mempool if nothing crashed, and of what they spend, which is unspent in the main
collection. The three sums are then one, by `SumUnion` and `SumSubset`. What a
transaction holds is by definition counted over all generations before it
(`Origins`); that for an independent one this is what it spends directly is an
induction over the generations (`FlatOrigins`).

`TypeCorrect` of `Mempool` needs besides `TInv` that what is found and read before it
is stored is typed too (`FoundTyped`, `DocsTyped`), and that all generations before a
transaction are transactions (`OriginsInTxs`).

`TweetsComplete`. `SkipInv` follows `synchTweet` through its three calls: after the
find, everything up to the end of the batch is a tweet or in the batch, after the
insert, a tweet. That later inserts do not come below the cursor is `LogInOrder`,
and the upgrade that deletes tweets is watched by `fixing`: as long as the markers
are not set nothing is claimed.

`ReadAtMostOnce`. `FateInv` says that what has taken effect is behind its reader's
cursor (`TakenInv`), and of a batch being read that nothing of it has taken effect
and that it is ahead of the cursor until the cursor is saved and behind it after
(`BatchInv`). Each of the steps of `MetasoSync` is then a step of `LogReader` or
a stutter: the save claims the batch, the insert and the counting settle it, a
crash and the deletions of the two fixes lose. Steps of other modules stutter.

`NamesFollow`. `NameOwner` says nothing while transfers wait to be read, so it does
not survive `SaveTransfers` by itself. `OwnerInv` says of every name, and of every
name in the batch, that its address is right once the transfers up to the cursor
are read (`FollowedTo`), and of the history that the first move of a pin is noted
with the address it went to (`MovesInv`).

`SupplyHolds`. Between `SaveItems` and `CountItems` there are more items than
`total` says. `SupplyInv` says: items accepted and not saved find room beside
`total` (`JobInv`), and the items saved are at most `total`, except for the
collections about to be counted (`CountsInv`); a crash there is the exception the
property makes.

`ValuesHold` and `TotalsHold` rest on four facts about `SyncPEV` (`RowSteps`). `LogInv`:
the log is in order and the cursor counts metablocks. `RowsInv`: the rows of a
metablock come from its blocks (`Span`), and one pair of pins has one row in it.
`StageInv`: the blocks being counted are those of the metablock at work, and the
pending rows are what was just counted as pending, or none when a count begins.
`CountInv`: until the metablock is saved its rows are its list, or, after a
crash, some of what counting it gives.
That `AddRows` leaves older rows where they are is harmless only because of
`CountGrows`: counting the blocks again gives at least what was counted, if nothing
moved or overtook.

- `ValuesInv` says of the three collections, each from its call on, that they are
  right for the metablock at work, and that they stay so for those before. The
  history of an entry is a count over all rows before, the one of `blockInfo` the
  value and history of the entry before it; both are the rows of `0..n` because these
  are the rows of `0..n-1` and those of n (`RowsSplit`).
- `TotalsInv` says in every state which totals may be wrong: a host or address whose
  total is not its sum is one the list at work names (`WillBeSet`), or one that the next count of the
  pending blocks will name, because the rows that changed are of blocks it covers.
  Here the pending blocks have to begin where the last metablock ends: then the rows
  that `DropPending` takes away come again, with the metablock that has their blocks
  or as pending (`SpansJoin`, `NamesSplit`, `NamesJoin`).
- No pin counts twice: metablocks have no block in common (`MetaOrder`).

### Only model-checked

- `StatusHeals` and `InfoHeals`, about what is right at the end of several rounds of
  re-runs: the invariant would have to say which re-runs are still to come.
- Liveness under fairness: `EventuallyIndexed`, `TweetsArrive`, `ItemOwnerHeals`,
  `PassesArrive`.
- `Agreement` of `Mrc20Ledger`, which compares with a second computation of the whole
  chain, and its `RerunHarmless`, which needs what the whole earlier handling of a
  block did.
- `SatsFollowed`, about functions that recur along a transaction's inputs and outputs
  (`TrueOutput`, `Place`, `Follow`), and `BalanceRight`, about stories of several
  transactions.
- `TypeOK` of the readers, over all five at once; the types the theorems need are in
  their invariants.
- `TypeOK`, `AssetsKept` and `NoStranded` of `Inscriber`: not attempted.

Induction over data is possible where it can be put as induction over the naturals
below a bound: a set of naturals without a least element is empty (`NaturalsClosed`),
and so a property that passes from a finite set to the set with one more element
holds of all of them (`SubsetsClosed`). The sums of `SetLemmas` and `UpdatedIsLeft`
are proved like that, for the folds of the community modules, and so are
`TrailUnfolds` and what follows from it, for a recursive function. `RECURSIVE` operators
are still out of reach.

## Disagreements found

Four runs show that the code does something other than a comment or document of
the repository says. Each counterexample was followed through the code.

- `uncounted`: "Check if already counted" (database/mongodb/mrc20.go:129) looks
  for any document at the mint's output. A mint that was refused because its
  tick's block was lost leaves one; indexed again, it is accepted, stored, and
  not counted.
- `unspent`: "Spent the input UTXO" (man/mrc20.go:430) is expressed by negative
  amounts, which `UpdateMrc20Utxo` skips: the inputs of a rejected transfer stay
  live beside their copy.
- `racing`: "check transfer in this block" (man/man.go:304) looks in the `Block`
  that any goroutine fetched last, and records the result under its own height.
- `announced`: mempool data "is automatically deleted after being included in a
  block" (README.md:183), except when the announcement is stored after the block
  was cleaned up: nothing deletes it then.
Some behaviour met while modelling contradicts no text, and is represented in
the models and named in the properties' provisos: re-runs move `MaxHeight` back
so that the loop repeats the last block every round; blocks up to the initial height
are indexed by racing goroutines only, if at all, and transfers of their pins may be
recorded under the wrong height; a pin that moves twice in
one block is followed for one hop at a time; on mvc all but the first of several
documents at one output lose their amount, and from version 10 on receipts go to
an output nobody can spend; a replaced transaction's moves stay listed for ever;
a crash between recording an announced transaction and listing its pins loses
them; a rejected transfer whose result was moved on is processed again by a
re-run, because the move overwrites the `operationtx` it is recognised by; a
modification of a revoked pin is accepted; two blocks that were lost and are run
again at once may give one number twice; a refused revoke of a follow pin ends
the follow all the same; a re-run that read an address's information before
another one wrote it writes the old name back, and a name that is modified within
four blocks of its creation ends as the old one.

Of the readers: likes, comments and donations of a batch are lost by a crash;
host data never advance beyond their first height, and only the first batch of
ticks is copied; `SyncAddress` can write an item back without the description it
was given meanwhile; two registrations of one name in a batch both pass and the
unique index keeps either; a pass for a control of several pins opens one of
them, since `pinid` is unique among passes; a control's mark as of the mempool
can be set after its block, and a control that never confirms stays.

Of the wallet: `broadcastTx` drops refusals and the command prints its success.
The commit is sent before the reveal is known to be acceptable, and the key to
its output is kept nowhere. It is stranded when a deploy's fee is below twice
546, because `CalRevealPsbtFee` counts none of its two outputs; when a second mint
is made before the first one is indexed, for both take the same pins; when two
pins share an output, which is then an input twice; and when tokens were
received without a pin, for `createMrc20NativeTransfer` copies the value of the
output that was spent, and the input is signed for that. While the indexer lags,
outputs with pins and tokens are taken for coins. `getMrc20Utxos` does not look
for pins at the outputs it spends, and a transfer that spends several outputs
pays all but one of their values as fee.

Of parsing: an output's pin goes with the first satoshi of the output, wherever
the pin is in it, and to the first output even if that is worth nothing; while the
node does not answer, transfers are missed, and pins get no owner; of several pins at an output `UpdateOne` moves one; two
inscriptions for one output get one id, and one is kept; on mvc the output of a
new transaction is not found again, so that its pins are followed for one move.

## What is not modelled

- The pin tree, further information pins, follower counts.
- The bytes of pins: content types, hosts, proofs of work; signatures.
- The mvc mempool listener: it does not remember what it received and leaves
  MRC-20 out. Mempool access to protocol data.
- Holder and transaction counts, metaid numbers, data values.
- MetaSo: synchronising several databases, blocked content, id coins, search
  words; the values by host and address of single pins.
- The wallet's creation and balance commands, and the MRC-20 documents of the
  mempool among the outputs it may choose.
- Reorganisations of the block chain: the code has no handling of them beyond
  repeating the last blocks.
- Pebble and PostgreSQL: MRC-20 is empty in both. (Pebble's `BatchAddPins` writes
  several stores one after the other and counts paths again on each repeat.)
- Configuration, queries, pages and generated documentation: no state.

## The plan

The modules, in the order in which they were written:

1. `Mrc20Mint`, with `TypeCorrect` and `MintCap`: the most valuable state of the
   system and the most calls between reading and writing.
2. `Mrc20Ledger`: it takes over the documents `Mrc20Mint` stores.
3. `BlockIndexer`: which blocks the two modules above see, in which order. Their
   `Advance`, `Reindex`, `FetchFails` and `Crash` abstract its rounds.
4. `Mempool`.
5. `PinStatus`: the other half of what `BlockIndexer` does with a block.
6. `PinLog` with `MetasoSync`, `Metaname`, `Mrc721`, `Pev` and `MetaAccess`, which
   read what `BlockIndexer` stores; `LogReader`, what a cursor promises.
7. `Ownership` and `Inscriber`: the transactions the indexer reads, and the program
   that makes them.

Theorems next in line: `AssetsKept` of `Inscriber`; `Agreement` of `Mrc20Ledger`.

Left to model: the mvc listener, holder counts, the pin tree.

## Running the checks

With the TLA+ tools, the community modules and TLAPS 1.4.5 installed:

    tlc -workers 2 -config Mrc20Mint_sequential.cfg MCMrc20Mint
    tlapm Mrc20MintProofs.tla

Each run takes between a second and two and a half minutes and visits up to two
million states.
