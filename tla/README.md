# Verification of the centralised relay

TLA+ models of the relayer in `src/`, model-checked with TLC, with theorems
proved by TLAPS. Paths below are relative to `src/relayer/` unless they begin
with `cmd/` or `test/`. `PROJECT.json` has, for every definition that models
code, the lines it stands for (`map`), the runs, the mutants that show each
property to have teeth, the hazards and the findings.

## 1. The system

The relayer carries cross-chain messages. It follows the blocks of every
configured chain, picks out the relay contract's events, and sends each message
in a transaction to its destination chain. One process, one LevelDB database,
any number of chains of two kinds (EVM and ICON).

```
 chain --node--> Listener --listenerChan(1000)--> block processor --go mergeMessages--> MessageCache
                                                       |                                   |
                                                 SaveBlockHeight                 router: route tick 1 s
                                                       v                         router: flush tick 5 min
                                                    block store                            |
                                 message store <--StoreMessage-- HandleMessageFailed       | go RouteMessage
                                      |  flush                          ^                  v
                                      +-----> MessageCache              +--- callback <- Provider.Route
                                finality store <--StoreTxObject-------------'  |
                                      |                                        +-> ClearMessages
                                 CheckFinality 5 s --> redelete / generate the message again
```

### 1.1 Components

| component | state | operations | hard behaviour | what makes it correct |
|---|---|---|---|---|
| relay engine (`relay.go`, `chain_runtime.go`) | per chain `LastBlockHeight`, `LastSavedHeight`, `listenerChan`, `MessageCache` | `Start`, block processor, `mergeMessages`, router with route and flush tick, `RouteMessage` and its callback, `HandleMessageFailed`, `ClearMessages`, `CheckFinality` | goroutines share `*RouteMessage` pointers without a lock, one message can have several copies and several goroutines, restarts, failing writes | no message is lost, a record outlives everything but delivery, the saved height never runs ahead, every seen message is settled, delivered messages are cleared |
| message cache and `RouteMessage` (`types/types.go`) | map by key, `Retry`, `IsProcessing` | `Add`, `Remove`, `IncrementRetry`, `IsStale` | an entry is replaced while a goroutine holds the old copy | an attempt at a time |
| stores (`store/*.go`, `lvldb/`) | records by prefix and key | store, get, delete, page through | iteration by prefix, paging, writes that fail | a record is there until it is deleted; every record is reached by some flush, whatever its place and its NID |
| EVM listener (`chains/evm/listener.go`) | `next`, `latest`, the channel `bnch`, the batch `query`, `lbn`, one shared filter query | start height, height ticker, batches of workers with retries, hand-over | answers out of order or missing, a counter ahead of the chain, several workers on one query | consecutive blocks, none skipped, none before it is buried, all in the end |
| ICON listener (`chains/icon/listener.go`) | BTP monitor, request and response channels | monitor, reconnect and drain, block requests | two loops on the same channels, reconnection in the middle of a batch | consecutive blocks, none skipped, reconnection ends |
| finality processor (`relay.go:398-499`, `store/finalityStore.go`) | transaction objects by destination and number | store, list, look up the receipt, delete, generate again | reorganisations, receipts that vanish, two sources with the same number | a transaction that disappears is sent again; one is forgotten only when final |
| providers: routing (`evm/route.go`, `evm/provider.go`, `icon/route.go`, `icon/client.go`) | nonce, gas settings | send, wait for the result, call back | a wait that ends before the transaction does, an error after the node took the transaction, nonces read by several goroutines | one answer per call (two from ICON at most), success only of a message that was received, no gap in the nonces, every message received in the end |
| providers: queries and events (`*/query.go`, `*/event_parse*.go`) | none | `MessageReceived`, `GenerateMessage`, `QueryTransactionReceipt`, parse an event | errors where "not there" is meant | |
| command line (`cmd/`) | `config.yaml`, `config.lock`, `appState`, the open database | `config init`, `chains add/delete/list`, `start [--fresh]`, `db` | several processes in one home directory, the lock that is not checked, a file truncated before it is written, maps keyed by NID here and by name there | the configuration changes one command at a time; what it no longer has is the only thing dropped for want of a destination |
| mock chain, contract bindings, key stores, end-to-end tests | | | test doubles, generated code, containers | not modelled |

The whole inventory with the status of each part is under `components` in
`PROJECT.json`, and `hazards` lists what can go wrong at its line.

### 1.2 How the parts interact

* A listener and its block processor share a channel of 1000 blocks; the
  listener blocks on a full one (`relay.go:23`).
* The block processor saves the height (`relay.go:278`), then starts a
  goroutine that adds the block's messages to the cache (`relay.go:283`).
* The router goroutine alternates between its two tickers in a `select`
  (`relay.go:172-186`). A route tick ranges over the caches and starts a
  `RouteMessage` goroutine per message that is neither in processing nor
  received; a flush tick brings the records of the message store back. The
  flag is set by the goroutine (`relay.go:353`), not by the router, and on the
  copy it was started with: a pass that comes before it, or one after a flush or
  a merge has replaced the entry (`relay.go:216`), starts another.
* `RouteMessage` holds a pointer to the copy it was started with. The callback
  of `Provider.Route` looks the message up in the cache again, so it may work
  on another copy, or return early when there is none (`relay.go:322`, `344`).
* A restart has nothing but the database: saved heights, records, transaction
  objects.
* Every command opens the database before it loads the configuration
  (`cmd/root.go:93-113`) and has it open until it ends. `start` works on the
  configuration it loaded, for as long as it runs.

## 2. Modules

| module | stands for | kind |
|---|---|---|
| `Relayer` | the engine without `CheckFinality`, with cache, message store, block store and the set of transaction objects | detailed specification and its safety properties |
| `RelayerLive` | the fairness and the timing under which it makes progress | fair specification, liveness |
| `Delivery` | the life of a message as the engine promises it | abstract specification |
| `MCRelayer` | the instances TLC runs | model values, symmetry |
| `RelayerProofs` | theorems about `Relayer` and `RelayerLive` | TLAPS |
| `EvmListener` | the EVM listener | detailed specification, safety and liveness |
| `EvmListenerProofs` | theorems about `EvmListener` | TLAPS |
| `IconListener` | the ICON listener | detailed specification, safety and liveness |
| `IconListenerProofs` | theorems about `IconListener` | TLAPS |
| `Finality`, `MCFinality` | `CheckFinality`, the finality store and a destination chain that is reorganised | specification, safety and liveness; its instances |
| `FinalityProofs` | theorems about `Finality` | TLAPS |
| `Routing` | `Route` to the callback, of both kinds of provider, with the node's pool and the contract | specification, safety and liveness |
| `Provider` | what `Route` promises the engine | abstract specification |
| `RoutingProofs` | theorems about `Routing` | TLAPS |
| `Config` | the commands of several processes on one home directory | specification, safety |
| `ChainRegistry` | what the commands promise of the configured chains | abstract specification |
| `ConfigProofs` | theorems about `Config` | TLAPS |
| `Stores` | iteration, pages and the flush's choice of records | operators |
| `CommandLine`, `MCCommandLine` | `Config` and `Stores` together with the relayer that `start` runs | composition, safety and liveness; its instance |
| `CommandLineProofs` | theorems about `CommandLine` and about `Stores` | TLAPS |
| `BlockFeed` | what a listener promises the engine | abstract specification |
| `StartHeight` | the functions on 64-bit heights that listeners start from | operators and theorems |

`EvmListener` and `IconListener` extend `StartHeight` and implement `BlockFeed`.
`Relayer` has the same promise on its
side: its `Emit` hands out consecutive blocks and its `Crash` restarts a
listener anywhere in `Starts(saved)`, which is what `BlockFeed` promises and
what `StartsAtOrBelowSaved` proves of the start heights. Its `Send`, `SendError`
and results are what `Provider` promises and `Routing` implements. `CommandLine`
extends `Config`, which is its configuration, and `Stores`, which is how its
relayer reads the database.

### 2.1 `Relayer`

State and code:

| variable | code |
|---|---|
| `next`, `recv` | the listener's next block, the processor's next block; `listenerChan` holds `recv .. next - 1` |
| `lastSaved`, `blockStore` | `ChainRuntime.LastSavedHeight`, the height in the database |
| `merging` | messages that a `go mergeMessages` has yet to add |
| `cache`, `heap` | `MessageCache.Messages` and what its pointers point to: `Retry` and `IsProcessing` |
| `msgStore`, `txStore` | records of the message store, keys of the finality store |
| `router` | the router goroutine: `select`, inside a flush, inside a pass over the caches, at a query, inside `ClearMessages` |
| `routes` | the `RouteMessage` goroutines with their program counter, pointer and transaction |
| `delivered`, `mempool` | the destination contract; transactions nobody waits for any more |
| `seen`, `lost`, `crashes`, `dbErrors` | history and bounds |

Pointers matter, because a message can have several copies: the one a goroutine
was started with, a newer one that a flush or a block read again put into the
cache. `Objs` are the addresses, `Swept` frees the ones nothing points to, and
`Fresh` takes the lowest free one, so that allocation adds no states of its own.

One action per step that another goroutine can interleave with. `RouteMessage`
is `Begin` (set `IsProcessing`, read `Retry`), `Increment` (write `Retry`),
`Send` or `SendError`, then the callback: `ResultSuccess` (store a transaction
object), `Clear`, `Delete`; or `ResultFailed`, `Fail` (`SetIsProcessing(false)`),
`StoreMessage`, `RemoveStored`. The read and the write of `Retry` are two steps
because nothing protects them. A flush is `FlushTick`, per chain `FlushRead`,
per record `FlushAdd`, and `FlushEnd`. A pass is `RouteTick`, per entry `Visit`
with its `QueryError`, `QueryReceived` or `Spawn`, and `PassEnd`.

What a call outside the process may do is left open: `MessageReceived` fails or
answers; `Route` fails before or after the node has taken the transaction; a
transaction is included, reverts because the message was delivered before, is
included later than anyone waits, or disappears. A database write succeeds or
returns an error, up to `MaxDbErrors`. `Crash` is possible at every step.

Properties:

* `NoLoss`: a message is delivered, in a cache, in the store, about to be
  merged or in a block still to be processed, unless a restart forgot it.
  Several goroutines remove cache entries by key, whichever copy is there, so
  this depends on the order of store and remove in every one of them.
* `SavedHeightProcessed`: the saved height is never ahead of the blocks
  handed on, through wrapped subtractions and restarts below it.
* `StoredSurvives`: a record goes only after delivery.
* `TxObjectsDelivered`: a transaction object is of a delivered message.
* `ImplementsDelivery`: refinement of `Delivery`. In particular a restart
  forgets nothing that was stored, and nothing else forgets anything.
* `OneAttempt`, `EventuallySettled`, `EventuallyCleared` in `RelayerLive`, and
  `StoredIsRoutable`, which holds there and not without its timing assumption.
  `OneAttempt` says what `IsProcessing` is good for when its goroutine is in
  time, a block is handed over once per life and a call has one callback. The
  first is the assumption `Prompt`; the other two are simplifications of `Relayer`
  (`evm/listener.go:169-171` can hand a block's messages over twice,
  `icon/route.go:131-146` can call back twice). `Routing` assumes none of them.

### 2.2 `EvmListener`

The loop of `Listener` (`Start`, `Begin`, `HeightTick`, `HeightPoll`,
`StartBatch`, `Collect`, `Deliver`) and one worker per block of the batch
(`Header`, `SetFrom`, `SetTo`, `FilterLogs`, `Retry`, `GiveUp`, `AboveHead`).
The two writes to `blockReq` and the call that reads it are separate steps:
`blockReq` is a field of the provider and the workers share it without a lock.
`Deliver` hands the previous notification to the engine when its successor
arrives. `StartFails` and `FindMessagesFails` are the returns with an error.

Properties: `HandsOverInOrder` (refinement of `BlockFeed`: consecutive blocks,
none skipped, across restarts), `Buried`, `AloneOwnLogs` (with one worker the
logs are those of the block) and `EventuallyHanded`.

### 2.3 `StartHeight`

`Prefer`, `EvmStart`, `IconStart` and `Concurrency` are the listeners' pure
functions, with `Sub` for the subtraction of `uint64` values. TLC evaluates
them inside `EvmListener` with a small `Modulus`; the theorems hold for every
width.

### 2.4 `IconListener`

`main` is the loop of `Listener`: `Reconnect`, `TakeResponse`, `Deliver`, `More`
for its cases, `TakeNotification`, `MakeRequest`, `MissingNotification`,
`MoreNotifications` for the batch it makes of notifications, `Collect` for its
end. `Answer`, `HeaderFails` and `ProofFails` are `handleBTPBlockRequest`. A
monitor (`mon`) is the goroutine of a reconnection: it asks for blocks from
`processedheight` on (`Dial`), reads (`Read`), sends (`SendNotification`), notices
late that it was cancelled (`Canceled`), breaks, sleeps and reconnects (`Break`,
`Wake`). Looking whether it is cancelled and putting a block into the channel are
two steps, so a cancelled monitor may send a stale block. `reconnect` is the
token and a loop (`DrainNext`, `DrainTake`, `MonitorDrains`, `MonitorTakes`) that
looks at the lengths of both channels and then waits for an element of either.

Properties: `HandsOverInOrder` (refinement of `BlockFeed`) and `NeverIdle`: a block
that is there is handed over in the end or the listener reconnects for ever.
That it is handed over in the end without more is not true: a notification that
arrives after `reconnect` has emptied the channel and before the next monitor
begins makes that monitor's first blocks come out of order, again and again.

### 2.5 `Finality`

`objs` is the finality store, `fin` the processor with the list and the height it
read at the beginning of a round, `tx` the destination's transactions with the
block they are in. `Tick` reads the list, `Take` picks an object of it and skips
one that is not due, `Query` asks for the receipt, `Prune` and `Remove` delete,
`Generate` (ICON), `GenerateError` and `GenerateNil` (EVM: nil without an error,
which ends the process) make the message again. `QueryError` is a node that
fails as well as a receipt that does not exist: the code does not tell them
apart. Between any two of these the chain grows or is reorganised (`Reorg`: the
transactions of the last blocks go back to the pool or are gone), a callback
stores a newer object, the router clears a message, or the process ends.
The engine is here with one goroutine per message and one flag for cache entry
and record, because `Relayer` has the rest. An object's key is its destination
and number (`finalityStore.go:50`), so that messages of several sources may share
one: `KeyOf` is any of the functions in `KeyFunctions`, and a put or a delete for
one message forgets the object of the other.

Properties: `UndeliveredIsTracked` (a delivery that is undone has an object, a
cache entry or a goroutine that leads to another look, but for the ways the
code leaves open, which the actions put into `dropped` and the property's
comment lists) and `EventuallyDecided` (a due object whose transaction is in a
block does not stay, whatever becomes of the other objects).

### 2.6 `Routing`

`att` are the `RouteMessage` goroutines: spawned, routed, signed, waiting, and `again`
between the two callbacks of an ICON provider. Of the engine there is the router
(`ClearReceived`, `Spawn`), the goroutine's call (`Route`, which sets `IsProcessing`),
what puts a new copy of a message into the cache (`Recached`: a flush, a block read
again) and the outcomes: `Succeeded` and `Failed` by the callback, which looks the message
up in the cache, and `FailedCall` by an error of `Route`, with the copy the goroutine
`Holds`. So several calls can be out for one message: the router comes by again before
the goroutine has set the flag, or finds an unmarked copy where a marked one was.
The router's test of the flag and its query are one step here (two in `Relayer`).
An EVM attempt reads its nonce
at the latest height (`GetTransationOpts`), then sends (`SendTransaction`, `Refused`,
or `AnswerLost`: the node has the transaction and the caller an error); between the
two another attempt may read the same nonce. The node has one `pool` per account:
it replaces a transaction by one of the same nonce and a higher price, refuses
others, mines in order of nonces (`Mine`) and evicts (`Evict`). An ICON attempt
(`IconSend`) has its own transaction, executed at any time (`Execute`,
`ExecuteLoose` when nobody waits any more). `Poll`, `LimitExceeded`, `PollError` and
`Callback` are `WaitForResults`; `CallbackUnreadable` and `CallbackAgain` are
`icon/route.go:131-146`, where an unreadable height calls the callback and falls
through to a second call.

Properties: `ImplementsProvider` (refinement of `Provider`), `NoGap` (because the
nonce is that of the latest block, the account never has a second pending
transaction, nor one that waits for a nonce before it) and `EventuallyReceived` (no
message is left marked with nobody working on it, though marks are set and cleared
by goroutines that hold different copies).

### 2.7 `Config`, `ChainRegistry`

A process goes from `idle` to `opened` (it has the database), `run` (it has loaded
the file), and for a command that changes the file through `reload` and `write` to
`truncated`, or for `start` to `serving`. `Load` and `Reloaded` make of the file's map
from names a map keyed by NID (`OnePerNid`), `AddChain` puts the new chain under its
*name* into that map, and writing makes it a map by name again (`OnePerName`);
which of two chains survives is Go's iteration order, a choice in the model.
`chains add` does not open the new chain's key store and every later load does:
`Bad` are the chains for which that fails. `TryLock`'s result is discarded
(`cmd/appstate.go:72`), so the lock has no state; `Open` fails while another process
has the database, and that is all that keeps two commands apart. `Kill` is possible
at every step.

Properties: `ImplementsRegistry`: each command changes the configuration in one step,
made to what is configured then, and the step is the truncation of the file: a
command killed after it leaves an empty configuration (`Forget`). `BadChainFreezes`:
with a bad chain in it the file does not change any more.

### 2.8 `Stores`, `CommandLine`

`Stores` has the records in key order: `Iterate` (a prefix of one NID is also one of
the NIDs that extend it), `Page` and `Offset` of `GetMessages`, and `FirstActive`, what
`getActiveMessagesFromStore` takes of the records. `CommandLine` puts a relayer
on top of `Config` that flushes (`Start`, `FlushTick`), finds messages (`Detect`),
delivers them, gives them up for a round of attempts (`FailRound`) or drops them
for want of a destination (`DropUnknown`), with a cache for each chain, because the
copies of one message may be in several. `start --fresh` empties the database.

Properties: `DropsOnlyUnconfigured` (a record is deleted for want of a destination
only while the *file* has none, although the relayer looks at the copy it loaded)
and `EventuallySettled` (a served chain's record is settled, however many records
are before it).

## 3. Runs

| run | what it asks | distinct states |
|---|---|---|
| `relayer_crash` | restarts at every step, one known and one unknown destination | 1.3 million |
| `relayer_race` | two routing goroutines, router, flush and merge on one message, a failing write, a destination with finality | 2.8 million |
| `relayer_live` | progress, one attempt at a time, and records that can be routed again, under the timing assumption | 97 thousand |
| `evm_listener` | order, completeness and progress of the EVM listener | 78 thousand |
| `icon_listener` | order, completeness and progress of the ICON listener | 216 thousand |
| `finality` | what a reorganisation undoes is tracked; every due object is decided; two messages with one key or two | 487 thousand |
| `routing` | two attempts at once, for one of two messages or for both, and a copy that is replaced: the providers' promise, the nonces, progress | 1.2 million |
| `command_line` | two processes, killed at any step, and the relayer of one of them over its database | 206 thousand |
| `relayer_untracked` | a delivered message's transaction is always tracked: violated | |
| `relayer_stranded` | every record can be routed again: violated | |
| `evm_logs` | workers read the logs of different blocks: violated | |
| `finality_regen` | a message whose transaction is gone is routed again: violated | |

### 3.1 Bounds

* `Routes`: two goroutines in the race and progress runs. Two is the least
  number at which an increment is lost, an entry is removed under a waiting
  callback, and a second transaction reverts. One in the crash run, where a
  restart adds the second attempt.
* `Objs` is 4: never exhausted (`Fresh` would then disable an action): a
  message has at most one copy in the cache, one at the router and one per
  goroutine, so with two goroutines no more than four are held at once.
* `DefaultTxRetry` is 3 and `TotalMaxRetryTx` five times that in the code. The
  runs use 1 and 2 rounds, in the crash run 2 and 2, so that both outcomes of
  `Retry % DefaultTxRetry == 0` and of `IsStale` occur. `MaxRetry` bounds `Retry`.
* `SaveHeightMaxAfter` 0 or 1 in place of 10, over three blocks: heights are
  saved because of a message, because of the distance, because of the wrap, and
  not saved.
* `MaxCrashes` 2: a restart whose starting height is below the saved one, and a
  restart after that. `MaxDbErrors` 1. `ChanCap` 1: the listener meets a full
  channel.
* `MaxFlush` never bites in an instance of `Relayer`; in `command_line` it is 0, so that
  every flush takes one of up to three records.
* `EvmListener`: `Modulus` 16 with heights up to 5, two workers, one retry, a
  chain that grows from 2 to 4, blocks 1, 2 and 4 with gas used, one restart.
  The first batch may be smaller than, as large as or larger than what the
  chain has.
* `IconListener`: heights 1 to 3, channels of two, two monitors alive at once (the
  current one and one that was cancelled), one broken connection, one retry,
  one block with events, one restart. With two slots a third reconnection waits
  for the oldest monitor to end; with three slots and no restart the same
  properties hold.
* `Finality`: two messages of an ICON and an EVM source, two transactions, four
  blocks, a `FinalityBlock` of 1 and one reorganisation of one block: the least at
  which an undone delivery, one moved to a later block, a second attempt and a
  stale answer occur. One restart; the one of `GenerateNil` is not counted. The
  messages have two keys or share one.
* `Routing`: two messages and two attempts at once, so that calls for one message
  and for two compete, two prices (a replacement and a refusal), one poll, and one
  fault: an error, an eviction, a revert or an unreadable result. The cache's copy of
  a message is replaced once, before, while or after attempts hold the old one; which
  of the two messages it is makes no difference (`Copied`). The same properties hold
  with three attempts for one message, and the safety properties with two polls.
* `CommandLine`: two processes, four chains (two of one name, two of one NID, one
  whose name is another's NID, one with a bad key store), the NIDs "1" and "13",
  three messages in both directions, two rounds of attempts, and no bound on the
  commands or the kills.

Each passing run has for each of its properties a mutant in `PROJECT.json`: a
definition with a plausible bug, under which TLC finds the property violated
with the same configuration.

### 3.2 Fairness and timing

`RelayerLive`: goroutines and the processors are scheduled (weak fairness). The
router's two tickers and Go's `select`, which picks at random among ready cases,
give strong fairness of `FlushTick` and `RouteTick`. That the network is not
down for ever is strong fairness of an answered query, of an accepted send and
of an included transaction: the code retries and has no other defence. Nothing
is assumed of late inclusion, dropped transactions or failures.

`Prompt` says that a goroutine with only local work left (fields, database)
does it before anybody else moves. Network calls and tickers take seconds, the
local work microseconds; the code relies on it. Without it `relayer_stranded`
shows a record no flush can bring back, so progress would not hold. Safety runs
do not assume it.

`EvmListener`: the program is scheduled (weak fairness), the height ticker has
its turn in the `select` (strong fairness), and a call for the next block that
is repeated for ever is answered at some time (strong fairness of `Header(next)`
and `FilterLogs(next)`). The chain is not assumed to grow.

`IconListener`: every goroutine is scheduled (weak fairness of the loop, of the
batch and of each monitor). Its `Prompt` is a timing assumption for safety as
well: looking at a channel's length and receiving from it are not interleaved
with another goroutine's use of the channels. The code needs it: the `len` checks
of `listener.go:51`, `120` and `155` are followed by receives that block for ever,
or skip a response, when the other loop has taken the element in between.

`Finality`: the processor is scheduled (weak fairness), and of the queries and
deletions made again and again for a key some succeed (strong fairness, per key).
The chain is not assumed to grow, nor to keep a transaction.

`Routing`: the router and the goroutines are scheduled and the node executes what it
has accepted (weak fairness); it may be slower than every poll. Its errors, evictions
and reverts are bounded by `MaxFaults`, because an account whose every transaction is
evicted delivers nothing.

`CommandLine`: the flush ticker fires and a round of attempts ends (weak fairness):
the ticker has five minutes and three attempts in one-second ticks have less. No
command is assumed to be run and no process to live; `EventuallySettled` supposes a
relayer that serves the chain from some time on.

### 3.3 Findings

* `relayer_untracked`: when the router itself learns that a message is
  delivered, it clears it without a transaction object (`relay.go:264`).
* `relayer_stranded`: `IsProcessing` is stored with the record; set between
  `SetIsProcessing(false)` and `StoreMessage`, it survives restarts and the
  router skips the message for ever (`relay.go:364-368`).
* `evm_logs`: two workers fetch the logs of one block and nobody those of the
  other (`evm/listener.go:169-171`).
* `finality_regen`: the receipt of a transaction that has disappeared is an error,
  and on an error `CheckFinality` goes to the next object: the branch that
  generates the message again is never reached for it (`relay.go:445`).

Defects that need no run, because one step shows them or because a theorem states
them:

* `latestHeight - FinalityBlock` wraps on a chain shorter than `FinalityBlock`
  (`evm/listener.go:244`): theorem `StartsOnChain`.
* The error of the header query is wrapped from a nil error, so it is lost and the
  block is handed over without its events (`icon/listener.go:235`): `HeaderFails` of
  `IconListener`.
* The second pageful of `messages list` is never shown (`store/messageStore.go:61`):
  theorem `SecondPagefulIsSkipped`; its total counts one page: `OnePageShown`.
* The result of `TryLock` is ignored (`cmd/appstate.go:72`), `chains delete` takes an NID
  where its help says a name (`cmd/chains.go`), and a killed command leaves an empty
  file: `Config`.

## 4. Proofs

`RelayerProofs` proves, for any chains, messages, goroutines, copies and bounds,
under `ConstantsAssumption` of `Relayer` alone:

* `TypeCorrect`: `Spec => []TypeOK`. Besides the types it says that a goroutine
  at work has a message and a copy and that an idle one follows no transaction;
  the other proofs need that.
* `NothingLost`: `Spec => []NoLoss`. `NoLoss` is not inductive: a callback that
  is about to clear a message, or a `HandleMessageFailed` about to remove one,
  would break it. `ClearJustified` says what those goroutines rely on: whoever
  clears has seen a delivery (or found no destination), whoever removes has
  stored. `KeepsStep` then shows for each action but `Crash` that a message
  stays accounted for, and `Crash` puts what it forgets into `lost`.
* `StoreIsDurable`: the action property `StoredSurvives`, from the same
  invariant: only `DeleteMessage` removes a record.
* `TxObjectsAreDelivered`, `SavedIsProcessed`: both inductive with the types and
  `ClearJustified`.
* `EngineImplementsDelivery`: `Spec => ImplementsDelivery`, one lemma per kind of step
  (`BlockIsSee`, `CrashIsRestart`, `IncludeIsDeliver`, `StoreIsStore`, `RemoveIsReject`,
  and those that change no status). The mapping gives every message one of
  `Delivery`'s states from what the engine has of it, so a step is only what it
  should be if nothing stale is left about: `Causal` says so. A message in hand
  anywhere (cache, merge, flush, a goroutine, the pool of the node) is one whose block
  was processed (`OnlySeen`, `RecvSeen`), what a flush has read is still stored or was
  delivered (`FlushStored`), and a message a restart forgot is in nobody's hands
  and its block is not read again (`LostForGood`), so that forgetting is final until
  the next restart and a store or delivery never revives one.
* `AtMostOneAttempt`: `TimelySpec => []OneAttempt`, under the timing assumption `Prompt` of
  3.2 and with restarts, which the run `relayer_live` leaves out. `Sole` says why
  `IsProcessing` suffices for a message that was never stored: it has one copy, the one of
  its block (`OneCopy`; a flush brings none, by `FlushStored`); one goroutine has it or the
  router is asking about it, never both (`OneHolder`); and the flag of that copy is set from
  the start of an attempt to its result (`Flagged`). `Prompt` is needed at one step: when
  the router visits the entry, a goroutine that has just been started or is about to
  store the message is the next to move, so the router has to wait for it.
* `TimelyIsRoutable`: `TimelySpec => []StoredIsRoutable`. Without the timing assumption
  `relayer_stranded` shows this property violated; `Cleared` (what `SetIsProcessing(false)`
  wrote is still there at `StoreMessage`) holds because of it.

`EvmListenerProofs`, under `WidthAssumption` and `ListenerAssumption`, for any heights,
batch size, channel, retries and restarts:

* `EvmListenerTypeOK`: `Spec => []TypeOK`, by `IInv`, which adds what the loop relies on.
  `Bounded`: the ticker's count is at most one ahead of the last block. `Held`: there are
  workers only during a batch, and `bnch` is empty then. `Consecutive`: the blocks
  handed over, the unverified last one and those in `bnch` follow each other and end
  where `next` says. `Batch`: a batch asks for blocks from `next` on, as many as the
  capacity, and who has a header or a notification has it of a block on the chain.
  That `Collect` forwards an interval (`RunIsInterval`) is shown by comparing
  cardinalities, which needs no induction.
* `EvmListenerBuried`: `Spec => []Buried`, inductive with `IInv`: a block is handed over when
  its successor, whose header some worker has seen, is in `bnch`.
* `EvmListenerAloneOwnLogs`: `Spec => []AloneOwnLogs`, from `Alone`: with a capacity of one, the
  only worker finds in the shared query what it wrote itself, step by step from
  `SetFrom` to `FilterLogs`, and what is in the channel or held back has its own logs.
* `EvmListenerHandsOverInOrder`: `Spec => HandsOverInOrder`, the refinement of `BlockFeed`, when a
  `StartHeight` is configured (`StartAt # 0`). Without one the listener begins at the
  head of the chain after a restart before the first save (`evm/listener.go:264`) and
  does pass over blocks, which is why the assumption is there. The invariant it needs is
  `NothingMissed`: everything from `StartAt` up to the next block to hand over, and up to
  the saved height, was handed over; `StartsAtOrBelowSaved` then says that a restart
  begins no higher.

`IconListenerProofs`, under `WidthAssumption` and `ListenerAssumption`, for any channels,
monitors, retries, broken connections and restarts. Both theorems are about
`TimelySpec`, without its fairness: the timing assumption `Prompt` of 3.2 is needed for
safety, since a `reconnect` that empties `btpBlockRespCh` between two receives of the
loop takes away a response, and the next one handed over is not its successor.

* `IconListenerTypeOK`: `TimelySpec => []TypeOK`, by `IInv`. `OnChain`: nobody knows of a
  block above the head, so `processedheight` is at most one above it and stays in its
  width. `Apart`: the loop does not hold what it took from a channel while a monitor
  empties it (this is what `Prompt` gives), and there are no responses while a batch is
  made or waited for. `Batch`: what is asked for is not below `processedheight`, and no
  more than `btpBlockRespCh` has room for. `Consecutive`: the blocks handed over, the one
  in hand and the ones in `btpBlockRespCh` follow each other, unless a monitor is
  emptying that. In the middle of a round `processedheight` lags by one, which `Ready`
  accounts for. Stale notifications need no invariant at all: a request is made only
  for `processedheight` plus the size of the batch.
* `IconListenerHandsOverInOrder`: `TimelySpec => HandsOverInOrder`, the refinement of `BlockFeed`
  when a `StartHeight` is configured, for the same reason as on EVM. The invariant is
  `NothingMissed` from the block before `StartAt` on, whose events come with the
  notification of `StartAt`. `ListenerAssumption` has the head above 0, because a start
  at height 0 would have no block before it.

`StartHeight` proves `StartsAtOrBelowSaved` (whatever the head, the
configuration and the wrap, a restarted listener starts at or below the saved
height, which `Relayer`'s `Starts` assumes) and `ConcurrencyBounds` (a batch has
at least one place), and `StartsOnChain` (a fresh listener starts on its chain
exactly when the subtraction does not wrap), for every word width, under
`WidthAssumption`.

`FinalityProofs`, under `FinalityAssumption`:

* `FinalityTypeCorrect`: `Spec => []TypeOK`.
* `UndeliveredTracked`: `Spec => []UndeliveredIsTracked` when `MaxReorg <= FinalityBlock`, the
  assumption under which a final height is final. The property is not inductive:
  an object is deleted on the strength of a height and a receipt that were read
  earlier. `Heights` says what is still true of them when they are used: the
  object's block is `FinalityBlock` deep, and if its transaction is still in that
  block it is still a good one (a transaction that left the block comes back in a
  later one). `Settled` is a delivery too deep to be undone, `Kept` what keeps a
  message from being forgotten once it is out of the cache, and `Watched` says that
  every confirmed message is kept or in the cache, also while a callback is
  about to clear it. `SettledStays` and `KeyOverwritten` (a put or a delete under a
  shared key) are the lemmas every action's step rests on.

`RoutingProofs`, under `RoutingAssumption`: `TypeCorrect`, `NeverAGap` and `KeepsPromise`
(`Spec => ImplementsProvider`, step by step). The invariant is `TypeOK` with
`OnePending` (a signed transaction has a nonce no higher than the account's, which
is why a pending one is the only one) and `Honest` (a good result is one of a message
that was received, and who has called `Route` has asked for its message). Nothing is
supposed of `IsProcessing`: a call may be made while others for the same message are out,
each goroutine stands for one call of `Provider`, and each call has its own answer.

`ConfigProofs`, under `ChainAssumption`: `OneChangeAtATime` (`Spec => ImplementsRegistry`) and
`FrozenByABadChain`, from `Alone` (one process at a time has the database) and
`Fresh` (what a process has in memory is what loading the present file would
give, and what it will write is one change made to that).

`CommandLineProofs`: `CommandLineTypeCorrect`, `CommandLineOneChange` and
`DropsOnlyWhatIsNotConfigured`. Every step of the composition is a step of `Config` or
leaves its variables alone, so `Alone` and `Fresh` carry over: a serving relayer's
copy is still what the file says, because nobody else can have opened the database
since.

The same module has what is proved of `Stores`: what pages show and skip (`PagesAreDisjoint`, `SecondPagefulIsSkipped`,
`OnePageShown`) and what a flush takes (`FlushIsBounded`, `FlushTakesTheFirst`), for
every number of records.

Every invariant, action property and refinement that a passing run checks is stated by a
theorem. Only model-checked is liveness (`EventuallySettled`, `EventuallyCleared`,
`EventuallyHanded`, `NeverIdle`, `EventuallyDecided`, `EventuallyReceived`): fairness and
ENABLED are out of the prover's reach.

## 5. Not modelled, and abstractions

* Message contents, keys, signatures, logging, metrics, encodings.
* The `fresh` start flag (`ClearStore`) is in `CommandLine`; in `Relayer` it is `Init`.
* Database reads do not fail. An entry added to a map while a pass ranges over
  it is seen by the next pass. The caches' unlocked maps end the process when Go
  notices the race, which is a `Crash`; a torn read that goes unnoticed is not
  modelled.
* The destination contract accepts a message once. Reorganisations are in
  `Finality` only: the source chains' blocks do not change.
* An iterator of the database is read in one step, and not while records change.
* `Routing` has one account and one destination; gas limits are not modelled, prices are
  only compared. `CommandLine` has the engine in larger steps than `Relayer`.
* `StartChainListeners` (`relay.go:125-145`): the group of listeners has no step of
  its own beyond those of its listeners.
* Dead code: the `db messages relay` and `rm` commands are not registered
  (`cmd/db.go:54-57`), the pages of the finality store are never read.
* ICON: the proofs of receipts and events are checked in one step; the shared
  `blockReq` and the client's map of connections are not torn.
* The order in which a batch's answers arrive: the code sorts them.
* The retry of a failed EVM call starts a new goroutine with one retry less;
  it is the same worker here.
* The mock chain, key stores (pure file input and output), generated bindings (more
  than 700 lines), the type and hex definitions of `icon/types`, queries without an
  effect on the engine, and the container-based tests.

## 6. Plan

Done: every module of section 2. What could follow is a composition of `Relayer` with
`BlockFeed` in place of `Emit` and `Crash`, and with `Provider` in place of its results.
