--------------------------- MODULE BlockchainApp ----------------------------
(***************************************************************************)
(* One validator: the ABCI application (evote/abci_app.go) with its        *)
(* database and its two transaction executors, driven by the Tendermint    *)
(* node beside it.  The ABCI server answers one call at a time, so a       *)
(* handler is one step; calls of the consensus, mempool and query          *)
(* connections interleave between steps.                                   *)
(*                                                                         *)
(* Tendermint is external.  It decides blocks of transactions that were    *)
(* submitted to some validator, executes them in order, and keeps the      *)
(* decided blocks and their app hashes across restarts.  Whenever the      *)
(* application is started it reports height 0 (Info), so Tendermint calls  *)
(* InitChain and executes the chain from its first block.  A Tendermint    *)
(* that is started again beside a running application goes on from the     *)
(* height that Info reports.                                               *)
(***************************************************************************)
EXTENDS TxExecutor, Wallets

CONSTANTS
    Validators,       \* the keys of the validators
    thisValidator,    \* the key of this one
    VoteTypes,        \* the kinds of voting users create
    MaxBlocks,        \* bound on the blocks decided
    MaxBlockTxs,      \* bound on the transactions of a block
    MaxSent,          \* bound on the transactions users submit
    MaxPending,       \* bound on the transactions CheckTx has accepted since a block
    MaxRestarts,      \* bound on the restarts over the same database
    MaxResets,        \* bound on the restarts over an empty database
    MaxTmRestarts     \* bound on the restarts of Tendermint alone

ASSUME ValidatorsAssumption ==
    Validators \subseteq Keys /\ thisValidator \in Validators

ASSUME BoundsAssumption ==
    {MaxBlocks, MaxBlockTxs, MaxSent, MaxPending, MaxRestarts, MaxResets, MaxTmRestarts}
        \subseteq Nat

VARIABLES
    db,                \* the database
    appBlockHash,      \* hash of the block committed last; Nil after a start
    appHeight,         \* the height that Info reports
    checkTxState,      \* executor of the mempool connection
    deliverTxState,    \* executor of the consensus connection
    phase,             \* "init", "idle", "block"; "failed" after a panic in Commit,
                       \* "halted" after another one, "refused" when Tendermint
                       \* does not accept what the application reports
    live,              \* Tendermint has executed its chain and takes part again
    chain,             \* Tendermint: the decided blocks
    done,              \* Tendermint: the height it has executed since InitChain
    next,              \* Tendermint: the transaction of the block to deliver next
    appHashes,         \* Tendermint: the app hash of each height, when first committed
    sent,              \* the transactions submitted to the network so far
    restarts, resets,  \* how often the node was restarted
    tmRestarts,        \* how often Tendermint alone was
    skips              \* how often it then passed over a block not executed

app == <<appBlockHash, appHeight, checkTxState, deliverTxState>>
tendermint == <<phase, live, chain, done, next, appHashes>>
counters == <<restarts, resets, tmRestarts, skips>>
vars == <<db, app, tendermint, sent, counters>>

Init ==
    /\ db = EmptyDb
    /\ appBlockHash = Nil /\ appHeight = 0
    /\ checkTxState = NewTxExecutor /\ deliverTxState = NewTxExecutor
    /\ phase = "init" /\ live = FALSE
    /\ chain = <<>> /\ done = 0 /\ next = 1 /\ appHashes = <<>>
    /\ sent = {}
    /\ restarts = 0 /\ resets = 0 /\ tmRestarts = 0 /\ skips = 0

-----------------------------------------------------------------------------
(* The consensus connection.                                               *)

\* InitialHeight is 1 in Tendermint's genesis documents.
InitialHeight == 1

InitChain ==
    /\ phase = "init"
    /\ appHeight' = InitialHeight
    /\ phase' = "idle" /\ live' = (chain = <<>>)
    /\ UNCHANGED <<db, appBlockHash, checkTxState, deliverTxState, chain, done, next,
                   appHashes, sent, counters>>

CurrentBlock == chain[done + 1]

BeginBlock ==
    /\ phase = "idle" /\ done < Len(chain)
    /\ deliverTxState' =
            ExecBeginBlock(deliverTxState, CurrentBlock.time, CurrentBlock.proposer)
    /\ phase' = "block" /\ next' = 1
    /\ UNCHANGED <<db, appBlockHash, appHeight, checkTxState, live, chain, done,
                   appHashes, sent, counters>>

\* A panic is answered by closing the connection: Tendermint stops.
DeliverTx ==
    /\ phase = "block" /\ next <= Len(CurrentBlock.txs)
    /\ LET tx == CurrentBlock.txs[next]
       IN /\ deliverTxState' = AppendTx(deliverTxState, db, tx, FALSE)
          /\ phase' = IF AppendCode(deliverTxState, db, tx, FALSE) = "Panic"
                      THEN "halted" ELSE phase
    /\ next' = next + 1
    /\ UNCHANGED <<db, appBlockHash, appHeight, checkTxState, live, chain, done,
                   appHashes, sent, counters>>

NewBlock ==
    CreateBlock(deliverTxState.transactions, appBlockHash,
                deliverTxState.timestamp, deliverTxState.blockProposer)

\* The reward is broadcast before the block is saved, whether it is saved or not.
RewardForMe(block) ==
    IF deliverTxState.blockProposer = thisValidator
    THEN {CreateMiningReward(thisValidator, block.hash)}
    ELSE {}

BlockDelivered == phase = "block" /\ next > Len(CurrentBlock.txs)

\* Tendermint knows the app hash of a block that it executes again.
HashAgreed == done < Len(appHashes) => NewBlock.hash = appHashes[done + 1]

Commit ==
    /\ BlockDelivered
    /\ CanSave(db, NewBlock)
    /\ db' = SaveNextBlock(db, NewBlock)
    /\ sent' = sent \cup RewardForMe(NewBlock)
    /\ appBlockHash' = NewBlock.hash /\ appHeight' = appHeight + 1
    /\ checkTxState' = Reset(checkTxState)
    /\ deliverTxState' = Reset(deliverTxState)
    /\ phase' = (IF HashAgreed THEN "idle" ELSE "refused") /\ done' = done + 1
    /\ live' = (live \/ done + 1 = Len(chain))
    /\ appHashes' = IF done = Len(appHashes) THEN Append(appHashes, NewBlock.hash)
                    ELSE appHashes
    /\ UNCHANGED <<chain, next, counters>>

\* SaveNextBlock fails and rolls back, and Commit panics.
CommitFails ==
    /\ BlockDelivered
    /\ ~ CanSave(db, NewBlock)
    /\ sent' = sent \cup RewardForMe(NewBlock)
    /\ phase' = "failed"
    /\ UNCHANGED <<db, app, live, chain, done, next, appHashes, counters>>

-----------------------------------------------------------------------------
(* The mempool connection: a new transaction, one that was broadcast once  *)
(* more, or one that Tendermint rechecks after a block.                    *)

Serving == live /\ phase \in {"idle", "block"}

CheckTx ==
    /\ Serving /\ Len(checkTxState.transactions) < MaxPending
    /\ \E tx \in sent :
        /\ checkTxState' = AppendTx(checkTxState, db, tx, TRUE)
        /\ phase' = IF AppendCode(checkTxState, db, tx, TRUE) = "Panic"
                    THEN "halted" ELSE phase
    /\ UNCHANGED <<db, appBlockHash, appHeight, deliverTxState, live, chain, done, next,
                   appHashes, sent, counters>>

-----------------------------------------------------------------------------
(* The validators agree on a next block.  Its proposer may be ahead of, or *)
(* behind, this mempool: a block may hold any transactions submitted so    *)
(* far, valid or not, but none twice.                                      *)

Proposals ==
    {txs \in UNION {[1 .. n -> sent] : n \in 0 .. MaxBlockTxs} : IsInjective(txs)}

Decide ==
    /\ live /\ phase = "idle" /\ done = Len(chain) /\ Len(chain) < MaxBlocks
    /\ \E proposer \in Validators, txs \in Proposals :
        chain' = Append(chain, [proposer |-> proposer, time |-> Len(chain) + 1,
                                txs |-> txs])
    /\ UNCHANGED <<db, app, phase, live, done, next, appHashes, sent, counters>>

-----------------------------------------------------------------------------
(* Users, the faucet and the other validators submit transactions.         *)

Submit(txs) ==
    /\ Serving /\ Cardinality(sent) < MaxSent
    /\ \E tx \in txs : sent' = sent \cup {tx}
    /\ UNCHANGED <<db, app, tendermint, counters>>

Faucet == Submit(FaucetTxs(db, thisValidator))
SendCoins == Submit(SendTxs(db))
CreateVoting == \E voteType \in VoteTypes : Submit(CreateVoteTxs(db, voteType))
SendVote == Submit(SendVoteTxs(db))

\* Another validator commits a block that it proposed.
PeerReward ==
    /\ \E h \in DOMAIN db.block :
        /\ db.block[h].proposerPkey # thisValidator
        /\ sent' = sent \cup {CreateMiningReward(db.block[h].proposerPkey, h)}
    /\ UNCHANGED <<db, app, tendermint, counters>>

-----------------------------------------------------------------------------
(* A crash or a stop, and the next start.  The database keeps what it      *)
(* committed, unless its container is removed with it (configure.sh runs   *)
(* it with --rm); the application keeps nothing.                           *)


\* Mutant: the hash of the last block is remembered, and the height is not.
RestartKeepingHash ==
    /\ UNCHANGED appBlockHash /\ appHeight' = 0
    /\ checkTxState' = NewTxExecutor /\ deliverTxState' = NewTxExecutor
    /\ phase' = "init" /\ live' = FALSE /\ done' = 0 /\ next' = 1
    /\ UNCHANGED <<chain, appHashes, sent>>

Restart ==
    /\ appBlockHash' = Nil /\ appHeight' = 0
    /\ checkTxState' = NewTxExecutor /\ deliverTxState' = NewTxExecutor
    /\ phase' = "init" /\ live' = FALSE /\ done' = 0 /\ next' = 1
    /\ UNCHANGED <<chain, appHashes, sent>>

RestartKeepingDb ==
    /\ restarts < MaxRestarts /\ restarts' = restarts + 1
    /\ Restart /\ UNCHANGED <<db, resets, tmRestarts, skips>>

RestartWithEmptyDb ==
    /\ resets < MaxResets /\ resets' = resets + 1
    /\ db' = EmptyDb
    /\ Restart /\ UNCHANGED <<restarts, tmRestarts, skips>>

-----------------------------------------------------------------------------
(* A crash or a stop of Tendermint alone, for one because a call to the    *)
(* application panicked.  When it is started again it                      *)
(* asks the running application for its height (Info) and compares it with *)
(* the height of its own blocks.  The application reports one block more   *)
(* than it has committed, so as a rule Tendermint refuses it.              *)

\* Tendermint has the answers to every call of its last block: it takes the
\* block for committed without a call of Commit.
LastBlockAnswered ==
    /\ appHeight = Len(chain) /\ Len(appHashes) < Len(chain)
    /\ BlockDelivered \/ phase = "failed"

NothingToReplay ==
    /\ appHeight = 0 \/ chain = <<>>
    /\ UNCHANGED <<tendermint, skips>>

Refuse ==
    /\ appHeight # 0 /\ chain # <<>> /\ appHeight >= Len(chain) /\ ~ LastBlockAnswered
    /\ phase' = "refused"
    /\ UNCHANGED <<live, chain, done, next, appHashes, skips>>

\* The app hash is that of the block before, so a node that is not alone
\* disagrees with the others about the next block.
SkipLastBlock ==
    /\ chain # <<>> /\ LastBlockAnswered
    /\ phase' = (IF Validators = {thisValidator} THEN "idle" ELSE "refused")
    /\ done' = Len(chain) /\ appHashes' = Append(appHashes, appBlockHash)
    /\ skips' = skips + 1
    /\ UNCHANGED <<live, chain, next>>

\* While the chain is executed again: Tendermint goes on after the height
\* reported, past the block that the application was to execute.
SkipReplayedBlock ==
    /\ appHeight \in 1 .. (Len(chain) - 1)
    /\ phase' = "idle" /\ live' = FALSE /\ done' = appHeight
    /\ skips' = skips + 1
    /\ UNCHANGED <<chain, next, appHashes>>

RestartTendermint ==
    /\ tmRestarts < MaxTmRestarts /\ tmRestarts' = tmRestarts + 1
    /\ phase # "refused"
    /\ NothingToReplay \/ Refuse \/ SkipLastBlock \/ SkipReplayedBlock
    /\ UNCHANGED <<db, app, sent, restarts, resets>>

-----------------------------------------------------------------------------

Execute == InitChain \/ BeginBlock \/ DeliverTx \/ Commit \/ CommitFails

Next ==
    \/ InitChain
    \/ BeginBlock
    \/ DeliverTx
    \/ Commit
    \/ CommitFails
    \/ CheckTx
    \/ Decide
    \/ Faucet
    \/ SendCoins
    \/ CreateVoting
    \/ SendVote
    \/ PeerReward
    \/ RestartKeepingDb
    \/ RestartWithEmptyDb
    \/ RestartTendermint

Spec == Init /\ [][Next]_vars

\* Tendermint keeps executing what it has decided.
FairSpec == Spec /\ WF_vars(Execute)

-----------------------------------------------------------------------------
(* What the database relates.                                              *)

IsReward(h) == IsCoinbase(db.transaction[h].txBody)

Total(S) == MapThenSumSet(LAMBDA o : db.output[o].value, S)

-----------------------------------------------------------------------------
(* Type invariant.                                                         *)

\* The executors, and the decided blocks, of transactions of S.
Executors(S) ==
    [transactions   : Seq(S),
     timestamp      : Nat,
     blockProposer  : Validators \cup {Nil},
     processedTrans : SUBSET {tx.hash : tx \in S},
     mapMade        : BOOLEAN]

DecidedBlocks(S) == [proposer : Validators, time : Nat, txs : Seq(S)]

TypeOK ==
    /\ ForeignKeys(db)
    /\ {checkTxState, deliverTxState} \subseteq Executors(sent)
    /\ appHeight \in Nat
    /\ phase \in {"init", "idle", "block", "failed", "halted", "refused"}
    /\ live \in BOOLEAN
    /\ chain \in Seq(DecidedBlocks(sent))
    /\ done \in 0 .. Len(chain) /\ next \in Nat \ {0}
    /\ phase = "block" => done < Len(chain)
    /\ appHashes \in Seq({appHashes[i] : i \in DOMAIN appHashes})
    /\ Len(appHashes) <= Len(chain) /\ (done = 0 => appBlockHash = Nil)
    /\ restarts \in 0 .. MaxRestarts /\ resets \in 0 .. MaxResets
    /\ tmRestarts \in 0 .. MaxTmRestarts /\ skips \in 0 .. tmRestarts

-----------------------------------------------------------------------------
(* Safety.                                                                 *)

\* Votes and coins are spent once, as far as AppendTx can tell: two inputs
\* that name the same output are in the same block, because each was checked
\* against the outputs unspent before its block.
NoCrossBlockDoubleSpend == SpentInOneBlock(db)

\* What deliverTxState holds spends outputs that are still unspent in the
\* database, and belong to the key that signed.
AcceptedAreSpendable ==
    \A i \in DOMAIN deliverTxState.transactions :
        LET tx == deliverTxState.transactions[i]
        IN /\ tx.hash = Hash(tx.txBody)
           /\ \A k \in 1 .. Len(tx.txBody.inputs) :
                /\ Outpoint(tx.txBody.inputs[k]) \in Unspent(db)
                /\ db.output[Outpoint(tx.txBody.inputs[k])].spendPkey = tx.sig

\* The inductive invariant behind NoCrossBlockDoubleSpend and ImplementsLedger.
IInv ==
    TypeOK /\ AcceptedAreSpendable /\ InputsAreMarked(db) /\ NoCrossBlockDoubleSpend

\* The mark that makes an output unspendable (isSpentByTx, set by a trigger)
\* agrees with the input table: no mark without an input, and a marked output
\* names the last of the transactions that spend it.
MarksMatchInputs == MarkedByLast(db)

\* Every stored input was its signer's to spend, and for what it was spent on,
\* whatever blocks are decided and however often the node is started again.
InputsAreLegitimate == SpentByOwners(db)

\* No block is rewarded twice, although its reward may be in any later block,
\* and two validators, or one that executes its chain again, broadcast it.
OneRewardPerBlock == RewardedOnce(db)

\* Coins are minted by rewards only: the value unspent exceeds the rewards
\* paid by exactly the value of the outputs spent more than once, as uint32.
BooksBalance ==
    LET extra(o) == (Cardinality(RowsOn(db, o)) - 1) * db.output[o].value
        spent == DOMAIN db.output \ Unspent(db)
        minted == RewardCoins * Cardinality({h \in DOMAIN db.transaction : IsReward(h)})
    IN Total(Unspent(db)) % U32 = (minted + MapThenSumSet(extra, spent)) % U32

\* What the executors hold is still good: a transaction accepted since the
\* last Reset would be accepted again by the database as it is now.
PendingIsValid ==
    \A ex \in {checkTxState, deliverTxState} : \A i \in DOMAIN ex.transactions :
        BodyVerdict(db, ex.transactions[i]) = "CodeOk"

\* A node started over a database that already has a first block.
StoppedByKeptDb ==
    phase \in {"failed", "halted"} /\ appBlockHash = Nil /\ DOMAIN db.block # {}

\* AppendTx accepts only what SaveNextBlock can store, and a replay computes
\* the app hashes that Tendermint has.  The node stops only if a value does not
\* fit its column, when it is started over a database that already has a first
\* block, or after Tendermint was started again without it.
HaltsOnlyIfUnstorable ==
    /\ phase \in {"failed", "halted"} =>
        \/ \E i \in DOMAIN deliverTxState.transactions :
                ~ FitsColumns(deliverTxState.transactions[i])
        \/ StoppedByKeptDb
        \/ skips > 0
    /\ phase = "refused" => tmRestarts > 0

\* The blocks stored are the first ones Tendermint decided, linked in order
\* from height 0, under the app hashes it recorded for them: executing the
\* chain again, over an empty database, gives the same blocks.  So it is until
\* Tendermint passes over a block.
StoredChainIsDecided ==
    LET stored == DOMAIN db.block
        count == Cardinality(stored)
    IN skips = 0 =>
       /\ count <= Len(appHashes)
       /\ done > 0 => done = count /\ appBlockHash = appHashes[done]
       /\ \A k \in 1 .. count :
            /\ appHashes[k] \in stored
            /\ LET b == db.block[appHashes[k]]
               IN /\ b.height = k - 1
                  /\ b.prev = IF k = 1 THEN Nil ELSE appHashes[k - 1]
                  /\ b.proposerPkey = chain[k].proposer /\ b.timestamp = chain[k].time

\* What a user builds from the outputs a node shows is what that node accepts;
\* only a user who asks for nothing, or for votes whose sum wraps to 0, builds a
\* transaction without inputs, which nobody can have signed.
WalletTxsAreAccepted ==
    \A tx \in UNION {FaucetTxs(db, thisValidator), SendTxs(db), SendVoteTxs(db),
                     UNION {CreateVoteTxs(db, voteType) : voteType \in VoteTypes}} :
        BodyVerdict(db, tx) =
            IF tx.txBody.inputs # <<>> THEN "CodeOk" ELSE "CodeInvalidSignature"

-----------------------------------------------------------------------------
(* What the documentation says, and the code does not do.                  *)

\* README.md: repeated votes are detected and rejected when they are written.
\* AppendTx compares a vote with the stored ones only, not with those of the
\* block it is executed in (TODO at evote/tx_executor.go:38).
RepeatedVotesAreRejected ==
    \A r1, r2 \in db.input :
        SpentOutput(r1) = SpentOutput(r2) /\ ValueTypeOf(db, r1.prevTx) # Nil => r1 = r2

\* docs/structures.md: the outputs of a transaction are worth no more than its
\* inputs.  Both sums are uint32 and wrap.
OutputsAreCovered ==
    \A h \in DOMAIN db.transaction :
        LET inputs == {SpentOutput(row) : row \in {r \in db.input : r.tx = h}}
            outputs == {o \in DOMAIN db.output : o[1] = h}
        IN ~ IsReward(h) => Total(outputs) <= Total(inputs)

\* The comment on appBlockHash: hash of the last committed block.  It is not
\* loaded from the database when the node starts.
AppBlockHashIsLastCommitted ==
    \A h \in DOMAIN db.block :
        (\A g \in DOMAIN db.block : db.block[g].prev # h) => appBlockHash = h

-----------------------------------------------------------------------------
(* What a step may never do.                                               *)

\* An output keeps its value and its owner, and once spent it stays spent by
\* the same transaction; no input is lost.  Only an empty database forgets.
SpentStaysSpent ==
    [][resets' = resets =>
        /\ db.input \subseteq db'.input
        /\ \A o \in DOMAIN db.output :
            /\ o \in DOMAIN db'.output
            /\ db'.output[o].value = db.output[o].value
            /\ db'.output[o].spendPkey = db.output[o].spendPkey
            /\ db.output[o].spentBy # Nil => db'.output[o].spentBy = db.output[o].spentBy]_vars

-----------------------------------------------------------------------------
(* What the validator promises to the owners of coins and votes.           *)

Promised == INSTANCE Ledger WITH
    outputs   <- [o \in DOMAIN db.output |->
                    [value |-> db.output[o].value, spendPkey |-> db.output[o].spendPkey]],
    authority <- [o \in {p \in DOMAIN db.output : db.output[p].spentBy # Nil} |->
                    db.transaction[db.output[o].spentBy].sig]

\* The database is a ledger: what AppendTx accepts, one block after another
\* and across restarts, spends every output at most once and for its owner.
\* A block whose transactions conflict still has one spender per output: the
\* one the mark names.
ImplementsLedger == Promised!Spec

-----------------------------------------------------------------------------
(* Liveness.                                                               *)

\* A block that Tendermint has decided is committed, also by a node that is
\* started again over an empty database.  Only over a database that kept its
\* blocks, or beside a Tendermint that was started again without it, does a
\* node stop (no value is too large here).
DecidedIsCommitted ==
    (done < Len(chain)) ~>
        \/ done = Len(chain)
        \/ StoppedByKeptDb
        \/ phase = "refused"
        \/ phase = "failed" /\ skips > 0
=============================================================================
