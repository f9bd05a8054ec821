# TLA+ specification of GO_LOSOVANIE

GO_LOSOVANIE is an electronic voting ledger: a UTXO blockchain whose outputs are
coins or votes, run by validators that agree on blocks through Tendermint. A
validator is one Go process (an ABCI application) with a PostgreSQL database and a
Tendermint node beside it; users run a command-line client. This directory holds
TLA+ modules that model the validator, the network of validators as far as rewards
need it, and the client; the TLC configurations that check them, and TLAPS proofs of
what matters most.

## Inventory

| Part | State | Operations | Talks to |
|---|---|---|---|
| transaction executor, `evote/tx_executor.go` | transactions accepted since the last reset, their hashes, time and proposer of the block | `Reset`, `BeginBlock`, `AppendTx` | reads the database; called by the application |
| ABCI application, `evote/abci_app.go` | two executors (`checkTxState`, `deliverTxState`), `appBlockHash`, `appHeight` | `Info`, `InitChain`, `CheckTx`, `BeginBlock`, `DeliverTx`, `Commit`, `Query` | Tendermint over one socket, a call at a time; database; starts goroutines for the network client and for rewards |
| database, `evote/database.go`, `database/initdb/init.sql` | tables block, transaction, input, output; the mark `isSpentByTx` kept by a trigger | `SaveNextBlock` in one SQL transaction; queries | everything reads it, only `Commit` writes it |
| transactions and blocks, `evote/transaction.go`, `block.go`, `crypto.go` | none | `CreateTx`, `CreateMiningReward`, `CreateBlock`, Merkle root | |
| request handlers, `evote/client_request_handlers.go` | none | `OnFaucet` submits a transaction; the others read; `OnGetVoteResult` tallies | database, network client |
| network client, `evote/network.go` | known hosts, working hosts, current host | choice of a host, broadcast, queries | HTTP to Tendermint |
| client, `client/` | none between commands; within one, the calls that have not returned | send, create a voting, send a vote, ask the faucet, look; ask whether to retry | network client |
| start and configuration | none | flags, keys, `configure.sh` | |

How they interact. A client reads its unspent outputs from a node, builds and signs a
transaction and broadcasts it. Tendermint asks `CheckTx` of every node, puts what was
accepted into a block, and then calls `BeginBlock`, `DeliverTx` for each transaction
and `Commit` on every node. `Commit` builds the block of the transactions
`DeliverTx` accepted, starts the broadcast of a reward if this node proposed the
block, saves the block, and resets both executors. The hash of the saved block is the
app hash, so all nodes must compute the same one.

What is hard, part by part:

* executor: both executors validate against the *committed* database only. Within a
  block, conflicting transactions pass one by one; between blocks, what was accepted
  goes stale. Sums are uint32 and wrap. `processedTrans` is nil before the first
  `Reset`. Correct means: nothing is spent in two blocks, only the owner spends, value
  is preserved per voting, a block is rewarded once, and nothing is accepted that
  cannot be stored.
* application: `CheckTx` and queries interleave with a block; `Commit` panics when
  saving fails, after the reward broadcast has started; nothing is loaded at a start,
  so a restarted node executes the chain again. Correct means: every decided block is
  committed, and a replay gives the same blocks.
* database: an atomic save of four tables, with foreign keys, a unique hash, a chain
  check and a trigger that overwrites marks. Correct means: marks agree with inputs.
* wallets: they build from a snapshot of coins and votes together, with uint32
  change. Correct means: a node accepts what they build from what it shows.
* network client: a host list shared by goroutines and filled by one of them, a loop that
  changes the variable it compares with, a bounded number of retries that ends in a
  panic. Correct means: no host is asked twice in vain for one outage, and a reward is
  paid once, is not lost by a healthy proposer, and does not stop it.
* client: a request that failed is repeated by calling its function again, after which
  the first call goes on with nothing. Correct means: what the user chose is done, once.
* tally: reads the outputs unspent *now*, so what it answers depends on everything done
  since. Correct means: a vote counts once, and the end of the voting makes the result
  final.

`PROJECT.json` lists every hazard at its line with the properties aimed at it.

## Modules

There are three state machines: one validator with its Tendermint (`BlockchainApp`), the
rewards of a network of validators (`Rewards`), and a client and its hosts (`Client`);
and `Verdicts`, which varies what is submitted.

| Module | Models | Kind |
|---|---|---|
| `Transactions` | `transaction.go`, `block.go`, `crypto.go` | operators |
| `Database` | `SaveNextBlock` and the queries of `AppendTx` in `database.go`; `init.sql` | operators on a database value |
| `Queries` | the queries of `database.go` that read transactions and blocks back | operators on a database value |
| `TxExecutor` | `tx_executor.go` | operators on an executor and a database |
| `Wallets` | what the client and the faucet submit | operators |
| `VoteResult` | `OnGetVoteResult` and its queries | operators on a database |
| `BlockchainApp` | `abci_app.go` with both executors, the database, Tendermint, users, restarts | state machine |
| `Ledger` | what a validator promises to the owners of coins and votes | abstract specification |
| `Votings` | what users read over `BlockchainApp`: results, blocks, histories | properties |
| `Verdicts` | `AppendTx` and `SaveNextBlock` on every kind of body | state machine |
| `Network` | `network.go`: the choice of a host | operators on a `Network` value |
| `Rewards` | the reward goroutine of `abci_app.go`, over `Network`, among validators that crash | state machine |
| `Client` | `client/`, over `Network` | state machine |
| `MCBlockchainApp`, `MCRewards`, `MCClient` | constants of the TLC instances | |
| `SumProofs` | sums over finite sets and lists, as the folds compute them | TLAPS proofs |
| `DatabaseProofs` | what `SaveNextBlock` preserves, what `AppendTx` accepts, the loop of `CreateTx` | TLAPS proofs |
| `BlockchainAppProofs`, `ReplayProofs` | the validator | TLAPS proofs |
| `VerdictsProofs` | `Verdicts` | TLAPS proofs |
| `NetworkProofs` | the choice of a host | TLAPS proofs |
| `RewardsProofs`, `ClientProofs` | the reward goroutines, the client | TLAPS proofs |

`Transactions`, `Database`, `TxExecutor` and `BlockchainApp` extend one another in this
order; `Wallets`, `VoteResult` and `Queries` extend `Database`; `Rewards` and `Client`
extend `Network`. `BlockchainApp` instantiates `Ledger`. `SumProofs`, `DatabaseProofs`,
`BlockchainAppProofs` and `ReplayProofs` extend one another in this order, as do `SumProofs`
and `NetworkProofs`, which `RewardsProofs` and `ClientProofs` extend; `VerdictsProofs`
extends `DatabaseProofs`.

Correspondence of state and actions:

* `db` is the database: functions keyed by hash instead of serial numbers. A block is
  saved in one step because `SaveNextBlock` runs in one SQL transaction; a crash falls
  before or after it. `CanSave` is the conjunction of what the schema and its triggers
  refuse, including integer columns that are narrower than uint32 (`PgIntMax`).
* `checkTxState`, `deliverTxState`, `appBlockHash`, `appHeight` are the fields of
  `BlockchainApp`. `mapMade` of an executor tells a nil map from an empty one.
* `AppendTx` in the code returns a code and appends. The model splits it into the
  verdict (`ParseVerdict`, `AlreadyProcessed`, `BodyVerdict`: the first check that
  fails, in the order of the code) and its effect; `AppendCode` is the code returned,
  `"Panic"` for a run-time panic.
* `InitChain`, `BeginBlock`, `DeliverTx`, `Commit`, `CommitFails`, `CheckTx` are the
  ABCI handlers, one step each: the server serves one call at a time under a lock.
  `CommitFails` is `Commit` when `SaveNextBlock` returns an error.
* `phase`, `live`, `chain`, `done`, `next`, `appHashes`, and the actions `Decide`,
  `Restart*` are Tendermint and the operator of the node: a block may hold any
  transactions submitted so far, in any order, none twice, whatever this node's
  mempool thinks of them, since another validator may have proposed it.
  Because `Info` reports height 0 after a start, Tendermint calls `InitChain` and
  executes its chain from the first block.
* `phase` tells what Tendermint does with the application: `"init"` before `InitChain`,
  `"idle"` and `"block"` between and within blocks, `"failed"` after the panic in `Commit`,
  `"halted"` after one in `AppendTx`, `"refused"` when Tendermint refuses the height or the
  hash it is told. After a panic the ABCI server closes the connection and Tendermint
  stops; the process itself may still be there.
* `RestartTendermint` is Tendermint (v0.34) started again beside a running application. Its
  handshake compares the height of `Info` with its own blocks. `appHeight` is one more
  than the blocks committed (`InitChain` sets it to 1, so its comment at
  `abci_app.go:29`, "number of the last committed block", is not what it holds), so the
  handshake refuses the application (`Refuse`), or takes a block whose answers it has for
  committed (`SkipLastBlock`), or, in a replay, starts one block too late
  (`SkipReplayedBlock`). A validator that is not alone cannot go on after
  `SkipLastBlock`: the others have another app hash. `skips` counts the blocks passed over.
* `sent` is the set of transactions submitted. It never shrinks: a transaction may be
  checked and proposed again in any later block, as retries, mempool rechecks and
  peers allow. `Faucet`, `SendCoins`, `CreateVoting`, `SendVote` add what `CreateTx`
  builds from the outputs shown at that moment, in any order of the outputs (the
  queries ask for none). `PeerReward` is another validator's reward.
* `RestartWithEmptyDb` is the start of `configure.sh`'s scripts, whose database
  container is removed when it stops; `RestartKeepingDb` is a restart of the process
  alone.

* `OnGetVoteResult` is a function of `db`: the handler only reads. It counts the unspent
  outputs of the transactions that carry the voting's hash as value type and that are
  in a block before `EndTime`, drops the voting's participants (and its creator, who
  gets change in votes), and weighs an output by the vote type. It is applied to stored
  votings only; the panic for a hash that is not stored is `HostStops` in `Client`.
* `Queries` puts transactions and blocks together from the rows as `scanTxs` does: inputs,
  outputs and transactions in the order of their index columns.
* `Ledger` has two variables: the outputs recorded, with value and owner, and for each spent
  output the key that signed for it. The refinement maps the first to the output table and
  the second to the signature of the transaction that `isSpentByTx` names, so it says what
  the mark means.
* A `Network` value has the fields of the struct. `ClearedHosts` is the loop of
  `SelectNextHost` as it runs, with `curHost` changing under it; `NextLists` has no outcome
  where the code panics.
* `Rewards`: a validator and its host are one. `nw` is `bc.nw` (nil, just made, or
  initialised; `MakeNetwork` and `FillNetwork` are `initNetwork`), `jobs` the reward
  goroutines, `rewards` the rewards in a validator's database with the block that pays
  them. A block is executed in one step, `Execute`, since `BlockchainApp` has its calls; the
  verdict on a reward is that of `AppendTx`. `mempool`, `cache`, `stored`, `Gossip` and
  `Decide` are Tendermint: a transaction in the cache is refused with an RPC error, one that
  `CheckTx` refuses is answered with success. `Followed` are the validators whose
  goroutines are in the model. `status` is `"replaying"` while a started node executes the
  blocks it had, when its RPC is not served.
* `Client`: `stack` holds the calls that have not returned, each with the steps it has left
  (`Program`), as the functions of `client/` call each other and themselves. `question` is
  `retryQuestion`. "Yes" selects another host and calls what the code calls there
  (`Again`: `sendVote` calls `send`); when that returns, the first call goes on after its
  request, with nothing (`Retried`). `createVoting` repeats its request in a loop. A request
  is answered, refused, finds no host, stops its host, or is done and its answer lost.
  `chosen` remembers the last choice of the user and is there for the properties only.

Abstractions. A hash is the value it digests, so it is injective; a signature is the
key that made it and is never forged; byte strings are told apart by emptiness,
by length and by identity only. The bytes of a transaction are its record: parsing
fails for two model values only. `CreateTx` signs deterministically. Time is the
number of the block.

`Verdicts` varies what honest programs never build: it gives one executor a
transaction with any combination of inputs (unspent, spent, unknown, repeated),
outputs, scan keys, link, value type, vote type, keys and signer (`Transfers`), with any
numbers, some too large for their columns, and outputs without a key (`Amounts`), or a
reward with any fields (`Rewards`). When it is accepted, any other accepted transactions may
follow it in the block, and the block is stored if the database takes it. Only the first
one may be refused, because a refusal leaves the executor as it was.

Definitions whose comment begins with "Mutant" are slips that each property has been
shown to catch; no specification uses them.

## Runs

All bounds are constants named in `BlockchainApp`, `Rewards` and `Client`. Deadlock is not
checked: at its bounds the model stops, and a halted node or client does too.

| Run | Bounds that matter | Shows |
|---|---|---|
| `MCLedger` | 4 blocks, 2 transactions each, 4 submitted, U32 = 8, PgIntMax = 3, amounts 1, 3 and 4, a restart of Tendermint | `NoCrossBlockDoubleSpend`, `MarksMatchInputs`, `BooksBalance`, `PendingIsValid`, `HaltsOnlyIfUnstorable`, `ChainReadsBack`, `SpentStaysSpent`, `ImplementsLedger` |
| `MCVoting` | 4 blocks, 2 transactions each, 6 submitted, a validator, a voter and two candidates | `BooksBalance`, `WalletTxsAreAccepted`, `ResultIsCovered`, `InputsAreLegitimate`, `HistoryIsComplete` |
| `MCTally` | 5 blocks, a transaction each, 7 submitted, durations 2 and 3, both vote types | `ResultIsCovered`, `ResultIsFinal` |
| `MCRestart` | 2 validators, 3 blocks, a restart of each kind at any step, amounts 0 and 1, `FairSpec` | `TypeOK`, `HaltsOnlyIfUnstorable`, `StoredChainIsDecided`, `OneRewardPerBlock`, `WalletTxsAreAccepted`, `DecidedIsCommitted` |
| `MCVerdicts` | blocks of up to 2 bodies, each with up to 2 inputs and 2 outputs, over a ledger of 3 blocks; U32 = 64, PgIntMax = 31, values 1, 2 and 33, vote types 0, 1 and 32, durations 0 and 32 | `AcceptedIsStorable`, `InputsAreLegitimate`, `RewardedInOneBlock`, `SpendingNeverPanics`, `ValueIsConserved` |
| `MCRewards` | 2 validators, 3 blocks, one rewarded block, 2 outages before crashes, 2 starts, a lost answer, `FairSpec` | `PaidOnce`, `OwnHostKeepsReward`, `SurvivesOutages`, `BroadcastEnds` |
| `MCClient` | 3 hosts, one command, 2 forms, 3 retries, 2 outages, a lost answer, a voting that is stored and one that is not | `OneTxPerChoice`, `FaucetPaysOnce`, `TxIsAsChosen`, `StopsForAReason`, `OutageCostsOneRetry` |

Why the bounds are enough. A coin exists only after the reward of the first block is
in the second; it is spent in the third and its outputs, or a conflicting transaction,
in the fourth: four blocks hold a cross-block conflict, and two transactions per block
an in-block one. In `MCLedger` the amounts make payments of one and of two
inputs (a reward is 2), with change, and a value of 4 that fits uint32 and not the
column; restarts have their own run. In `MCVoting` a voting is created in
the third block and its votes are sent in the fourth, two transactions of which may send
the same vote. In `MCTally` the vote that the fourth block casts is passed on in the
fifth; the voting of the third block (time 3) ends at time 5 or 6, so that votes of the
fifth block come just after the end or just before it. In `MCRestart` three blocks make
a chain whose replay can be interrupted between any two calls; Tendermint alone is started
again there beside a node that is up to date, in a block, failed or replaying. In
`MCRewards` the followed validator proposes one block, another one pays its reward and a
third could pay it again; either validator may crash and be started twice; two hosts are
enough for a reward to be sent to a host that does not have the block yet. In `MCVerdicts`
33 and 32 exceed a column, and two outputs of 33 wrap to the value of a reward; 280 bodies are
accepted, 173 of which cannot be stored, and all pairs of the 280 make a block. `MCClient` has
one command because every command starts with an empty stack; its retries change the host
list as earlier commands would; two forms are a form and the one that a retry opens; three
hosts are needed for `SelectNextHost` to remove one that works.

What the bounds leave to the proofs. No sum wraps in `MCLedger`, `MCVoting` and `MCRestart`:
their amounts reach the width of a column; sums wrap in `MCCovered` and `MCVerdicts`. That
`BooksBalance` and `WalletTxsAreAccepted` hold when sums wrap is what `BooksAlwaysBalance` and
`WalletsAreServed` prove. `MCLedger` restarts Tendermint only; that
`SpentStaysSpent` survives a restart of the validator is in `SpendingIsFinal`.
`HaltsOnlyIfUnstorable` speaks of transactions that wallets, the faucet and the reward
goroutines build, and tolerates a value that its column cannot hold.
`OneTxPerChoice` tells two transactions apart by the form they were filled in on: it would see
a failed vote that is sent both as a vote and as a payment, and not the same form sent twice.

The other five runs are expected to fail. Each states what a document or a comment of
the repository says, and TLC shows a behaviour of the code that does otherwise:

| Run | Statement | What the code does |
|---|---|---|
| `MCRepeatedVotes` | README: repeated votes are rejected when written | two transactions of one block that send the same vote are both stored |
| `MCCovered` | `docs/structures.md`: outputs are worth no more than inputs | sums wrap modulo 2^32, here modulo 8 |
| `MCOneVote` | `docs/structures.md`: with vote type 1, one vote of a participant counts | each transaction the participant sends counts one |
| `MCAppBlockHash` | `appBlockHash` is the hash of the last committed block | it is empty after a restart over a database with blocks |
| `MCTwoRewards` | `tx_executor.go:85` and `:115`: a reward is checked for double spending, a second one of a block is refused | only stored rewards are looked at: two of one block that differ in `valueType` are stored together |

`AppendTx` does not look at the `valueType` of a transaction that creates a voting either,
although `blockchain.proto:31` wants it empty on all but votes; `ValueIsConserved` and
`RewardedInOneBlock` hold whatever it is.

So the safety properties above are what holds in spite of these: an output may be
spent twice, but within one block only, and `BooksBalance` says by exactly how much
value that exceeds the rewards. A block may be paid for twice, but in one block only
(`RewardedInOneBlock`), and not by what validators build, which is the same transaction
each time (`OneRewardPerBlock` in `MCRestart`). `StoredChainIsDecided`, `HaltsOnlyIfUnstorable` and
`DecidedIsCommitted` except a node started over a database that kept its blocks, which
stops at its first `Commit` or before (`StoppedByKeptDb`), and one whose Tendermint was
started again without it.

What `MCRewards` and `MCClient` say, and what they leave open:

* A proposer whose `curHost` is itself keeps its reward, because Tendermint checks no
  transaction during its own `Commit`; another host may answer that it has no such
  block, which counts as success, and the reward is gone. `OwnHostKeepsReward` is the first
  half.
* `SurvivesOutages`: a reward stops its validator only after a restart, a lost answer, a
  network that was not initialised in time, or more outages than there are hosts. The
  restart is no rare case: a node that replays its chain broadcasts the rewards of its own
  blocks to hosts that know them, while its own RPC is not served, so that the
  goroutine may run out of hosts and panic. A validator that is alone always
  risks it, although `abci_app.go:98` wants to "work even if we are alone". In
  `BlockchainApp` such a death is one of its restarts.
* A retried faucet request pays again when only the answer was lost, which is why
  `FaucetPaysOnce` counts lost answers; a vote whose request failed may become a payment of
  coins to a receiver entered anew (`TxIsAsChosen`); `voteInfo` ends the client
  after any request that failed, also when the retry succeeded (`StopsForAReason`).
* `OutageCostsOneRetry`: although `SelectNextHost` removes hosts that work, it never leads
  back to one that was found down, so a user answers "Yes" in vain once an outage.

Fairness. `FairSpec` of `BlockchainApp` is weakly fair to `Execute`, the calls Tendermint
makes to execute a block it has decided: one of them is enabled until the block is
committed or the node has halted, and a running Tendermint makes it without waiting for
anyone. Submitting, deciding and restarting are not fair. Restarts are bounded, so
`DecidedIsCommitted` says that a node that is no longer restarted catches up. `FairSpec` of
`Rewards` is weakly fair to each broadcast: a goroutine that has a host to ask or a panic
to make is scheduled by Go. It takes every request to end; `http.Get` has no timeout, so a
host that accepts a connection and never answers is outside the model. `Client` has no
fairness: a user may stop answering at any question.

## Proofs

What follows holds for all values of the constants: any number of keys, validators,
hosts, blocks, transactions, restarts, outages and retries, any modulus and any column
width. The proofs include every interleaving of the actions. They rest on the named
assumptions on the constants, which TLC evaluates in the runs, and on the symbolic hash:
among them, the sets of participants are finite, the hosts form a list, and the empty
string is neither a key nor the name of a panic.

The validator (`BlockchainAppProofs`):

* `TypeCorrect`: `Spec => []TypeOK`. It holds the foreign keys of the tables, so it
  needs `SaveKeepsForeignKeys` for `Commit`: the previous block of a saved block is
  stored, and an input row is added only when its transaction is found.
* `NoDoubleSpendAcrossBlocks`: `Spec => []NoCrossBlockDoubleSpend`. The property is not
  inductive: the database must also be such that every output an input names carries
  the mark (`InputsAreMarked`), and what `deliverTxState` has accepted must still be
  unspent when it is saved, and its signer's (`AcceptedAreSpendable`). `IInv` is their
  conjunction with `TypeOK`. `DeliverTx` keeps it because an accepted transaction spends
  only outputs unspent in the database (`AcceptedSpendsUnspent`: the first input that
  fails decides the verdict) and the database does not change before `Commit`; `Commit`
  keeps it by `SaveMarksInputs` and `SaveKeepsSpentInOneBlock`, since an output the block
  spends had no mark and therefore no earlier input; a restart empties the executor.
* `SpendingIsFinal`: `Spec => SpentStaysSpent`, from the same invariant: the trigger
  overwrites marks, but only of outputs that were unspent before the block.
* `LedgerImplemented`: `Spec => ImplementsLedger`, the refinement of `Ledger`. Only `Commit`
  records or spends anything. By `SaveMarksBySpender` an output it marks is named by a
  transaction of the block, `IInv` says that this one was accepted, so the output was
  unspent and the signer its owner (`AcceptedSpendsOwn`), and by `SaveKeepsOutputs` and
  `SaveKeepsTransactions` nothing older changes.
* `PendingStaysValid`: `Spec => []PendingIsValid`. The verdict on a body is a function of the
  database, which changes only when both executors are emptied (`Commit`) or new (a
  restart); in between each appends only what it accepts.
* `MarksAgree`: `Spec => []MarksMatchInputs`. By `SaveMarksByLast` the trigger, which runs
  for every row, leaves the last spender's mark.
* `InputsBelongToSigners`: `Spec => []InputsAreLegitimate`. "Of an earlier block" needs
  `OneChain`: heights are distinct and every block but the highest has a successor, which
  `checkChainInsert` keeps (`SaveKeepsOneChain`). `ChainInv` adds it to `IInv`, with what
  the verdicts on accepted bodies say (`BothGood`).
* `BlockIsRewardedOnce`: `Spec => []OneRewardPerBlock`. `AppendTx` compares a reward with
  stored ones only, so two rewards of one block for one block would both pass, were they
  different; the invariant `HonestRewards` says that all that are submitted are what
  `CreateMiningReward` builds, so they are the same transaction, and a hash is stored once.
* `HistoryMissesOnlyOvertaken`: `Spec => []HistoryIsComplete`, from `MarksAgree` and
  `InputsBelongToSigners`.

The books (also in `BlockchainAppProofs`): `BooksAlwaysBalance`, `Spec => []BooksBalance`. The executor
checks sums that wrap, a transaction at a time; the property is about the sum of all that
is unspent. `BooksInv`: the tables are finite, values are integers, and every stored
transaction is balanced modulo `U32` (`Balanced`), which `SaveKeepsBooks` keeps for a block
of accepted transactions. Summed over all transactions, one side counts all outputs and the
other all input rows; the rows are then counted by the output that they name.

Votings (also there, with the same sums):

* `ResultNeverExceeds`: `Spec => []ResultIsCovered`, the same sums over the transactions that
  pass on votes of one voting. `Balanced` alone gives it modulo `U32` only. `VotesAreValued`
  adds that the outputs of such a transaction do not wrap and that no vote of theirs is worth
  nothing; it follows from what `CreateTx` builds of one payee and the change
  (`WellValued`), and the node does not check it. `SpentByOwners` says that their inputs are
  votes of the same voting. So each of them takes as much as it gives, and the rest is
  counting by outputs.
* `ResultStays`: `Spec => ResultIsFinal`. A block stored at the end of the voting or later
  leaves `VotesInTime` but for the votes it spends (`SaveKeepsVotes`). The proof attempt
  showed that "a candidate's result never grows after the end" is false for large enough
  ballots: `OnGetVoteResult` adds uint32 values that may wrap, so a candidate who passes a
  vote on may be left with a larger result. The property now says by exactly how much a
  result changes, modulo `U32`. `ResultIsCovered` holds in spite of such a wrap.

Replays (`ReplayProofs`):

* `StoresWhatIsDecided`: `Spec => []StoredChainIsDecided`. `ReplayInv` says that there is one
  sequence of databases that the decided blocks lead to, whose hashes are the ones
  recorded, and that the node's database is one of them; within a block the executor holds
  what the block's first transactions leave accepted. What `DeliverTx` accepts is a function
  of the transaction and the database, so a replay makes the same sequence.
* `StopsOnlyIfUnstorable`: `Spec => []HaltsOnlyIfUnstorable`. `HaltInv` excludes every other
  cause of a panic: a hash that is stored already (`StoredOnce`, `BlocksDiffer`), a block that
  does not follow the last one, an executor without its map (`MapsMade`), a replayed hash
  that is not the recorded one.
* `ChainIsReadBack`: `Spec => []ChainReadsBack`. `ReadInv` says what the four tables keep of
  a block: the rows that name a transaction are the inputs and outputs of its body in their
  places (`RowsAreBodies`; a row is never skipped, because an accepted input was stored
  before), the transactions of a block have the indexes 0, 1, ... and the Merkle root of
  this list is in the hash of the block (`BlocksAreListed`), and no two blocks follow the
  same one (`PrevOnce`). It needs bodies that hold nothing but what the tables have columns
  for (`Filed`), as `CreateTx` and `CreateMiningReward` build them. `OrderedRows`: rows that
  a column counts from 0 have one order only. That the hash of a body read back is the one
  it is stored under is then `StoredOnce`.
* `WalletsAreServed`: `Spec => []WalletTxsAreAccepted`. The loop of `CreateTx` takes unspent
  outputs until their wrapped sum reaches what is asked, so it takes none that it does not
  need, and the change, a difference of two wrapped sums, settles them again modulo `U32`
  (`ChangeSettles`); every input is the user's, unspent and of the right kind (`UtxosAreOwn`),
  so the executor finds nothing to refuse (`WellPaidIsAccepted`). The exception the proof
  attempt found is part of the property: who asks for nothing, or votes with amounts whose
  sum wraps to 0, gets a transaction without inputs, of which no key can be the signer.

Any body (`VerdictsProofs`). The theorems about the validator speak of transactions that
wallets, the faucet and the reward goroutines build. Here the fields of a body vary one by
one, and nothing is known of it but what `AppendTx` checks: `AcceptedCanBeStored`,
`SpendingIsLegitimate`, `RewardsAreTogether`, `NoPanicWhenSpending` and `ValueStays`
(`Spec => ValueIsConserved`), for any keys, blocks of any length, any uint32 numbers in the
fields (`FieldsAreUint32`), a reward that fits its column (`RewardFits`; it is 1000 in the
code) and columns two values of which do not wrap when they are added (`ColumnsFit`; 2^31 - 1
and 2^32).

* What is not promised. `AppendTx` compares no number with its column, so a body that it
  accepts may stop the node, and so may a transaction that is given twice in a block:
  `AcceptedIsStorable` names both and says that nothing else does. Two rewards of one block
  that differ pass together (`MCTwoRewards`); `RewardsAreTogether` is what is left.
* `VerdictsInv`: the executor holds accepted transactions, and as long as it holds any the
  database is the initial ledger; and the database is `Good`: its foreign keys resolve, its
  blocks are one chain, inputs are marked, hashes are those of the bodies stored, and
  `InputsAreLegitimate` and `RewardedInOneBlock` hold of it.
* `SaveKeepsGood` and `NextBlockIsStored` go from what the verdict says of each transaction
  (`Sound`) to a database that can store the block and is `Good` again, for every good
  database; `AcceptedBlockIsStored` and `StoredBlockIsGood` apply them to any list of accepted
  transactions. `SaveKeepsRewardsInOneBlock`: a block adds no reward for a block that has one,
  and all that it adds are in it.
* The initial ledger is not evaluated but grown: `LedgerIsGood` applies these lemmas to its
  three blocks, for the voting of which `OneUtxoIsTaken` and `OneOutputSum` compute what
  `CreateTx` takes and pays, and `HashesDiffer` tells its transactions apart by their bodies.
* `VotingIsFound`: on the path to the lookup of the voting, the verdict on the first input
  was that its transaction has this value type, which is that of a stored voting.
* `ValuesChange`, for every database: a block of one accepted transaction takes what it
  spends from one type and adds what it makes to one. `TakenSum` is where naming an input
  twice would count twice. `AcceptedIsExact` turns the equality modulo `U32` of the verdict
  into one of numbers: neither two inputs of the ledger nor two outputs that fit their
  columns wrap, and others are not stored.

The choice of a host (`NetworkProofs`): `FailedIsCleared`, the loop of `SelectNextHost`
drops the failed host although it moves `curHost` while it compares with it, by induction on
its rounds; `HostIsFound`, it panics only when no host answers.

Rewards (`RewardsProofs`):

* `RewardedOnce`: `Spec => []PaidOnce`; a block adds only rewards that the database does not
  pay yet (`AcceptedIsNew`), each once.
* `RewardIsKept`: `Spec => []OwnHostKeepsReward`. `RewardsInv` says of a validator without
  trouble (`Careful`) what its broadcasts, its cache and its database have to do with each
  other: a reward it owes is being broadcast, or its host has it, in the mempool or paid.
* `OutagesAreSurvived`: `Spec => []SurvivesOutages`. In `SurvivalInv`, `Resilient` bounds the
  errors a broadcast has met plus the hosts of its list that are down by the outages so far.
  An error must then be a host that is down: no host refuses a reward as known, because no
  host has it while it is broadcast (`PostedIsDecided`, `JobsAreOwn`). When the errors exceed
  the hosts, so do the outages.

The client (`ClientProofs`):

* `OneTransactionPerChoice`, `TransactionsAreAsChosen`, `FaucetIsPaidFor`: the invariant
  `ClientInv` describes all stacks of calls. Only the call on top may still submit, and what
  it may is justified by the last choice (`Justified`); the calls below it have nothing left
  that sends (`Dormant`), since what they go on with after a retry is empty. It is all there
  is to prevent the second transaction, in a program where a function calls itself for a
  retry and then continues.
* `OutagesCostOneRetry`: `Spec => []OutageCostsOneRetry`. `NetInv`: retries in vain plus the
  hosts of the list that are down are no more than the outages; `FailedIsCleared` pays for a
  retry with a host of the list.
* `PanicsForAReason`: `Spec => []StopsForAReason`, by `InfoInv`: whatever shows a voting on
  the stack shows the one chosen last, and nothing else is called above it.

How sums and loops are proved. The folds of the community modules are recursive tables
chosen by `CHOOSE`; nothing is known of them until such a table is shown to exist, which
`SumProofs` and `NetworkProofs` do once (for sums in any order, for the rounds of a loop).
What a table computes follows by induction on natural numbers, in the form that the
well-foundedness of `<` allows: a set of counterexamples has a least element (`LeastNat`).
`Sum32Is` is the result for the code's arithmetic: a sum that wraps at every step is the sum
wrapped once.

Only model-checked: `DecidedIsCommitted` and `BroadcastEnds`, since liveness needs ENABLED.
The runs that expect a violation show a disagreement with a document, on one instance.

## Not modelled

* encoding of requests and answers, checks of the length of a request's fields, output on
  the terminal; that `blockchain.proto:33` gives the duration in milliseconds and the code
  takes seconds;
* values in a form that are not positive numbers;
* `BuildMerkleTree`, which has no caller; deletes, which nothing issues;
* Tendermint's own agreement, evidence and state sync: its decisions are inputs;
* database errors other than refused rows; a request that never ends; exhaustion of
  connections;
* configuration, key generation and wire formats: they run once, or are generated;
* that a node whose process stays alive after a panic in a handler keeps its reward
  goroutines: `Rewards` stops a validator as a whole.

## Plan

1. Two replicas that execute one chain and agree on every app hash although their
   mempools differ; `Rewards` with three hosts and two followed validators, whose state
   space is too large at present.
2. Runs of `ResultIsFinal` with two transactions per block and several votings; the proof
   covers them.
