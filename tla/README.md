# TLA+ specifications of the multiverse wallet node

These modules model the parts of the node in which several threads, peers, messages
or crashes meet: the stores and the lock under them, LevelDB, the event queue, the
network, the tables of transactions, the delegated consensus, the block makers, the
wallet, and the commands and sessions through which users and other nodes reach it.
Paths below are relative to the repository. `PROJECT.json` holds the map from
definitions to source lines, the runs, the mutants, the hazards and the theorems.

Model checking: `tlc -config X.cfg M`. Proofs: `tlapm M.tla`.

## 1. The system

A node holds one block chain per fork. A block or transaction reaches `CDispatcher`
from a peer (through `CNetChannel`), from a user (RPC or DBP) or from a block maker.
The dispatcher gives a block to `CWorldLine`, `CTxPool`, `CWallet`, the service, the
fork manager and, for primary blocks, the consensus, one after the other, each under
its own lock. Delegates agree on the next primary block by sharing secrets, whose
shares travel through the delegated channel. A large node is a tree: a root that has
the primary chain and the real peers, and fork nodes below it.

What is on disk lives in LevelDB tables and in append-only files, most of it behind
two maps in memory that a thread flushes once a minute.

## 2. Modules

| module | models | one step is |
|---|---|---|
| `SharedLock` | abstract: shared, upgradable and exclusive holders | acquire, release |
| `RWAccess` | `CWalleveRWAccess` (`walleve/rwlock.h`) | a critical section or a notify call |
| `UnspentDB` | `CForkUnspentDB`, its part of `CBlockDB::UpdateFork` | a critical section, a batch, a lookup |
| `CTSDB` | `CCTSDB` under `CTxIndexDB` | the same |
| `TimeSeries` | `CTimeSeriesCached` over files and the circular stream | a call |
| `LevelDB` | the engine (`db_impl.cc`, `version_set.cc`) | a section under `mutex_`, or what is between two |
| `Iterators` | tables, merging and database iterators | a call of the iterator, a get |
| `LogFormat` | the log's writer and reader | a record written, a log read |
| `LRUCache` | the cache of open tables | a section under the cache's mutex |
| `SkipList` | the memtable's list | one link read or published |
| `PosixEnv` | writable files, background thread, limiters | a call, an atomic access |
| `EventOrder` | abstract: a queue and a running event per nonce | post, begin, end |
| `MultiEventQueue` | `CWalleveMultiEventQueue` and its threads | an atomic access or critical section |
| `PeerNet` | sockets, peers, handshake, endpoints, scores and bans | a handler of the io thread |
| `Schedule` | `CSchedule`, `COrphan`, `CInvPeer` | operators from a schedule to the next |
| `NetChannel` | `CNetChannel` for one fork | a handler, cut where others can add blocks |
| `BlockView` | `CBlockView` | operators |
| `Ledger` | `CWorldLine::AddNewBlock`, `GetBranch`, `GetBlockChanges`; `CTxPool` and `CTxPoolView`; `CDispatcher::AddNewBlock` and `AddNewTx` over chain, pool and wallet | a call that holds one lock |
| `BlockBase`, `ForkNode` | the chain store of all forks with its disk; fork manager and dispatcher above | a write or a lock, so that the process may die in between |
| `Signing` | addresses, templates, aggregated signatures, checks | a command of a wallet, a check of the node |
| `WalletTx`, `WalletKeys` | coins and transactions; keys, templates, timers | a call under the wallet's lock; a command is several |
| `Delegate` | secret sharing (`mpvss/`), `CMvDelegateVote`, `CMvDelegate` | operators |
| `DelegatedChannel` | `CDelegatedChannel` | operators |
| `DelegateNode` | `CBlockMaker`; consensus, channel and block maker as the dispatcher joins them | a call of the dispatcher, a section of a maker thread |
| `Minting` | miner, getwork and submitwork, `CForkBlockMaker`, proofs, targets and rewards | a section of a thread |
| `NodeCommands` | the chain commands of the RPC worker | one read under one lock |
| `RpcCall` | console, HTTP server, RPC module and workers | an event of one of the threads |
| `RpcRoute`, `SuperNode` | calls, and peers' messages, in a tree of nodes | a message handled |
| `DbpSession` | DBP server, service and client | a message, a timer |
| `*Proofs`, `MultiEventQueueSteps`, `MultiEventQueueOrder` | theorems | |
| `MC*` | small instances for TLC | |

An MC module instantiates several components. They share no variables: the constant
`Parts` names those a run explores, `mcPart` picks one, and the others stand still.

A definition whose comment begins with "Slip:" is a plausible mistake in the code. The
specification does not use it; put in the place of the definition that follows, it
makes a property fail.

How state corresponds to code, where it is not one to one:

- In `UnspentDB` and `CTSDB` the locks are read off the program counters of the
  threads. `RWAccess` justifies this, since it implements `SharedLock`. `flipped`,
  `flippedBefore`, `truth`, `raced` and `late` are histories and guard nothing.
- In `MultiEventQueue` the flag of a node is exchanged by `AddNew` and by `Fetch`.
  `nReadSize` is not initialised by the constructor, so its first value is any of a set.
- In `NetChannel` `mtxSched` is the variable `job`: the handler that holds it.
- In `Ledger` `task` is the block on its way through the three calls, and `pushed`
  the transactions between their two calls.
- `PeerNet`, `Schedule` and the wallet keep their state in one record and write a
  handler as an operator from one record to the next, since one lock or one thread
  makes the handler atomic.
- A crash keeps of `bbDisk`, of a `PosixEnv` file or of LevelDB's `disk` what was
  synced, and any part of what was written after.

## 3. Runs

| run | parts | bounds | shows |
|---|---|---|---|
| `unspent` | unspent, series, wallet | 1 output, 1 reader, 2 walks, 1 crash; records of 3 sizes, cache of 8 units, files of 4; 9 transactions, 2 threads | table, maps, reads and walks; what was written is read back; coins agree with chain and pool; a flush returns |
| `locks` | lock, calls | 4 threads; 2 users, 2 workers | refinement of `SharedLock`, wake-ups, upgrades; answers match calls, calls return |
| `leveldb` | store, tables, log, cache, skiplist, files | 2 writers, 1 reader, 2 keys, 3 levels, 1 stop, 1 fault; 2 tables of 6 entries; 4 records over blocks of 7; 3 threads, 2 tables, capacity 1; 3 keys, height 2; buffer of 2, 7 units, 1 map, 1 open file for 3 threads | what was written is found; waiting writers are served; each of the parts does what it promises |
| `netchannel` | channel, peers | 2 peers, 2 blocks, 2 transactions, limits of 1 and 2; 7 scripts of connections | books agree, limits hold, gone peers are forgotten; connections are watched and accounted for |
| `netchannel_blocks` | channel | 3 blocks, one invalid, one the node may make itself | requests, idle peers, honest peers kept, blocks arrive |
| `eventqueue` | queue | 3 events, 2 peers, 2 writers, 2 threads | refinement of `EventOrder`, every event handled, halt ends |
| `ledger` | ledger, signing | 8 blocks in 4 branches, 12 transactions, 1 thread in `AddNewTx`; 6 transactions to sign | tables of the best chain, pool and wallet follow; what is signed verifies and stays valid |
| `delegate` | delegate, minting, commands | 3 delegates, heights to 4, a reorganisation or restart; 5 scripts of makers; 5 of commands | votes, shares, channel; blocks fit; answers are those of some moment |
| `services` | index, forks, routes, tree, sessions, keys | 2 keys in a chunk, 1 reader, 1 crash; 3 forks, halt or death; trees of 3 and 4 nodes; 5 sockets; 2 keys and a template | entries kept, snapshots, retrievals; forks kept, restart exact; calls, messages, sessions and keys |
| `unspent_crash` (violation) | unspent | 2 outputs, 1 crash | after a crash the unspent table may lag behind the fork's last block |
| `index_lost_entry` (violation) | index | as above, no reader | an update during the flip loses entries |
| `ledger_wallet` (violation) | ledger | as `ledger` | wallet and chain can disagree about a transaction |

Why the bounds are enough: each instance holds the smallest case of each interesting
situation. Four threads let a waiter of each kind stand beside a holder. Two walks let
one wait while another runs. Two keys share a chunk. Three events make a list with a
first, middle and last node. The limits of schedule, cache and limiters are smaller
than what is asked for. The log's sizes end before, at and behind the end of a block.
The blocks of `MCLedger` have equal times, a vacant and an extended block, a
transaction on two branches and a double spend. Where everything at once is too much
for TLC (wallet, forks, trees, sessions), a set of scripts fixes which calls and events
there are; their order and interleaving stay open. The bounds are named constants
(`MaxCrashes`, `MaxEvents`, `MaxPushed`, `MaxInv`, `PeMaxUnits`, ...).

Deadlock is not checked where a part may stop for good, its items, events or scripts
being used up, and in `unspent` because of the lock cycle below.

### What the runs found

The three violations are listed in `PROJECT.json` with the lines that say otherwise.
Other behaviours are the exceptions that properties state; without the exception TLC
finds the behaviour.

- `Flush` holds `rwLower` upgraded and asks for `rwUpper`; `WalkThroughUnspent`, which
  holds `rwUpper`, asks for `rwLower`. Each can wait for the other for ever.
  `FlushReturns` says that nothing else stops a flush.
- A lock-free read that tries `rwLower` between the flip and its release misses what
  was just flipped (`late` in `ReadsLinearizable` and `RetrievesLinearizable`).
- A peer's block whose parent this node has made itself waits for ever, and so does a
  transaction whose parent came in a block or from a local user (`OrphanBlocksReleased`,
  `BlocksArrive`, `OrphanTxsReleased`).
- A subscription that changes inside `SetPeerSyncStatus` leaves a stale mark (`crossed`).
- The pool keeps stale entries of removed transactions and writes the first output's
  spender for the second (`misled`, `unrecorded`), and may arrange a child before its
  parent (`overtaken`).
- The wallet misreads a transaction reported at a wrong height (extended blocks), or as
  both removed and new (blocks of equal time) (`misplaced`).
- `CMvDelegate::Rollback` keeps a vote whose enrolment ended at a removed block
  (`stale` in `VotesFollowChain`); two threads' updates of the chain can reach the
  consensus in the wrong order (`overtaken`); a node that restarts after its enrolment
  was sent deals shares of another box (`boots` in `SharesFitEnrolment`).

## 4. Fairness

- `RWAccess`: a thread in the lock goes on, leaves, and makes its notify calls (weak
  fairness); nothing is assumed of threads outside. A woken thread gets the mutex.
- `UnspentDB`: the flush thread and the walks in progress are scheduled. Commits, reads
  and new walks need not happen.
- `MultiEventQueue`: writers inside `AddNew`, event threads and the halting thread run.
- `NetChannel`: handlers end; a peer that was asked answers or the timer of `GetData`
  closes it; an honest peer answers `GetBlocks`. Strong fairness is needed where
  `mtxSched` or the peer's queue can be taken by others in between.
- `RpcCall`: a user's own process runs, its timer included. Nothing is assumed of the node.
- All other properties are safety properties.

## 5. Proofs

All theorems hold for every value of the constants that the named assumptions allow.
Each rests on an inductive invariant, with one lemma per operation. TLC has checked
these invariants on the instances of the runs.

**The lock** (`LockedStoreProofs`, any finite set of threads): `CountersCorrect`,
`Exclusion`, `WakeupsKept`, `RefinesSharedLock`. `LockInv` adds to the counters that at most
one thread is exclusive, that a writer is alone, and for each condition variable that if
a thread waits there, some thread is inside, woken or about to notify in a way that leads
to it. `NoLostWakeup` alone is not inductive: it says that someone is awake, not that
this someone will call the right notify.

**The unspent outputs** (`UnspentDBProofs`, any outputs, readers and walks):
`CrashLeavesSnapshot`, `StoreCorrect`, `ReadsCorrect`, `WalksCorrect`. The invariant adds
what the two flushes of `Deinitialize` have already emptied, and of a reader that
whatever it can still find in the places it has left to look is among the values the
store had during the call.

**The index** (`LockedStoreProofs`, any times, keys, values and readers): `EntriesCorrect`,
`CrashLeavesFlip`, `RetrievesCorrect`. The invariant has the same parts. One step is new:
a chunk of the upper map is a copy that hides the chunks below, so it has to be complete.
It is (`CopyIsContent`), because it is taken from the chunk that the content shows at that
moment, unless `rwLower` is upgraded after the flip; `raced` records that this happened,
and `EntriesKept` excepts it.

**The event queue** (`MultiEventQueueSteps`, `MultiEventQueueProofs`,
`MultiEventQueueOrder`; any events, peers, writers and threads): `HandledOneAtATime`,
`HandledInOrder` (the queue implements `EventOrder`). Each nonce has a token, the right
to begin its next event. A thread has it from the moment it begins an event until it
finds no successor; it lies with an event in `mapRead`, or with a writer that is about to
notify. The exchange of the flag hands it over. The invariant says that there is at most
one token of a nonce (`OneToken`), and that while the last node's flag is INVALID, or a
writer stands at such a flag, or there is no last node, nobody has it and every event
posted has been begun but for that writer's (`QuietInv`). Without the second, a writer
that finds the flag INVALID could make a second token. The first module has
the writers' steps and the easier ones of the threads, the second the rest, the third
the refinement.

**The network channel** (`NetChannelProofs`; any peers, finite sets of
blocks and transactions, inputs and limits): `BooksKept`. The first part takes
`CSchedule`'s operations one at a time: each leads from a sound schedule to a sound one
(`Sound`: types, the two views agree, limits), and `Kept` says what it may add and take
away. The second, on the channel, uses only these lemmas of the schedule. `BooksInOrder` is not
inductive in three places. That a peer that left is nowhere in the schedule needs that
whatever the schedule or the handler in progress speaks of is connected, or its Deactive
is still to come (`Linked`). That `mapUnsync` follows the peers needs that the first half of
`SetPeerSyncStatus` has been done when the second is (`HalfMoved`). That no transaction is
left waiting for what has arrived needs its links to every input it misses
(`OrphansLinked`), and that one whose last input has come is among those that `AddNewTx`
is about to try (`Released`, `TxJob`). `COrphan::RemoveBranch` is a least closed set, so
`Invalidate` needs no induction.

**A call from the command line** (`RpcCallProofs`; any clients, calls, batches, worker
threads, failures and halts): `RcExchange`. `RcAnswersMatch` speaks of the answers a caller
has handled, so the invariant follows one backwards. The caller and its event queue: a call
is on its way, answered or handled, in one of these only (`UserRight`). The connection: what
is under way on one that the client has open belongs to the client's present call
(`ConnsOwned`, `Exchange`); a client that gives a call up closes its connection, and that is
why a late answer meets no other call although `GetResponse` reuses the nonce. The module:
the request of a connection is queued or a work, not both and once (`EventsRight`,
`WorksRight`), `Accepted` and `WorksServed` say that it is with someone, and tasks and
answers of a work that was dropped carry a number that no present work has (`TasksRight`).

**The memtable's skip list** (`LevelDBProofs`, any natural keys, heights and readers):
`ReadersPassNoKey`. Each level is a list in order that misses none of the nodes that are
on it, also while a node is half linked; a node on a level is on all levels below; a
reader stands on a node of its level that is before what it looks for. So a reader that
goes down loses no key. That the predecessor of a key on a level exists is the one place
where well-foundedness is used.

**LevelDB's environment** (`LevelDBProofs`, any buffer, appends, limits and finite set of
threads): `EnvironmentKeepsWord`. File and buffer are runs of consecutive units, and the
file is one even after a failed write; what is synced is a prefix of it. What has run, the
item that runs and the queue are one run of items. A limiter's count is the limit minus
the threads that have taken one; `EnvKeepsWord` bounds only those that hold one, so the
invariant also counts the threads that saw a positive value and have not looked at it yet
(`Granted`): these are the ones that may still keep theirs. `PeSpec` lets the three parts
run freely, while the run explores one at a time (`PeStep`).

Only model-checked:

- Liveness (`FlushReturns`, `UpgradeSucceeds`, `RcCallsReturn`, `BlocksArrive`,
  `QueueLives`): fairness and `ENABLED` are out of the prover's reach.
- `Ledger`, `BlockBase` and `ForkNode`, `Signing`, `Iterators`, `LogFormat`, `Delegate`,
  `Minting`: chains, views, merges and fragments are recursive, and what a recursive
  definition computes needs an induction over data that the prover cannot make.
- `PeersServed` of `NetChannel`: it speaks of blocks in the order of the chain and of the
  peers that answer honestly; it is known for the chains of the runs only.
- `PeerNet`, `TimeSeries`, `LevelDB`'s engine, `LRUCache`, `WalletTx`, `WalletKeys` and the
  other services: in reach in principle and not done. The next one worth doing is
  `CacheCounts`.

## 6. Abstractions

- `UnspentDB`, `CTSDB`, `BlockBase`: a committed LevelDB batch is atomic and durable;
  `LevelDB` shows what this needs of the engine.
- `LevelDB`: a table's size is the number of its entries; checksums hold unless a write
  was cut. Repair, dumps, benchmarks and comparators are left out.
- `NetChannel`: one fork that is not the primary one; orphans are taken up in any order;
  the choice of items to ask for is open; the dispatcher's verdict on an item is a constant.
- `Ledger`: one fork; blocks are added one at a time; contents of outputs and the checks
  of `VerifyBlock` and `VerifyBlockTx` are taken to be right; stops are clean; every
  transaction is the wallet's own. `Pop` and `Clear`, which nothing calls, are left out.
- `Signing`, `Delegate`: curve arithmetic and hashes are replaced by what they guarantee:
  which shares and signatures verify, and which do not.
- `RpcCall`, `DbpSession`, `PeerNet`: a message is one step on the wire; HTTP, SSL and
  protobuf are left out.

Not modelled: the single-threaded event queue (one queue, one thread, one mutex), and
cryptography, JSON and Snappy (functions of their input without state).
