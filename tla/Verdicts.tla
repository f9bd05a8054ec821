------------------------------ MODULE Verdicts ------------------------------
(***************************************************************************)
(* AppendTx (evote/tx_executor.go) on every kind of body it tells apart,   *)
(* over one small ledger.  BlockchainApp runs it on the transactions that  *)
(* programs build; here the fields of a body vary one by one, and a block  *)
(* is made of any transactions that are accepted.                          *)
(***************************************************************************)
EXTENDS TxExecutor

CONSTANTS
    node, voter,    \* the validator's key and another one
    Values,         \* what an output of a body may be worth
    VoteTypes,      \* what its voteType may be
    Durations,      \* and its duration
    MaxTxs          \* bound on the transactions of a block

ASSUME KeysOfLedger == {node, voter} \subseteq Keys /\ node # voter

\* These fields are uint32; nothing keeps them to what a column holds.
ASSUME FieldsAreUint32 == Values \cup VoteTypes \cup Durations \subseteq 0 .. (U32 - 1)

\* A reward (1000) fits its column, of 32 bits with a sign.
ASSUME RewardFits == RewardCoins <= PgIntMax

\* Two values that fit their columns do not wrap when they are added.
ASSUME ColumnsFit == 2 * PgIntMax < U32

-----------------------------------------------------------------------------
(* The ledger: an empty block, its reward, and a block with a voting paid  *)
(* by that reward and the reward of the second block.  The voting has two  *)
(* votes, one of them the change; two coins are unspent.                   *)

NextBlock(prev, txs) == CreateBlock(txs, prev, 1, node)

Block0 == NextBlock(Nil, <<>>)
Db0 == SaveNextBlock(EmptyDb, Block0)

Reward0 == CreateMiningReward(node, Block0.hash)
Block1 == NextBlock(Block0.hash, <<Reward0>>)
Db1 == SaveNextBlock(Db0, Block1)

Voting == CreateTx(SetToSeq(GetUTXOSByPkey(Db1, node)), <<Output(1, voter)>>, Nil, node, 1, 1)
Reward1 == CreateMiningReward(node, Block1.hash)
Block2 == NextBlock(Block1.hash, <<Voting, Reward1>>)
Ledger == SaveNextBlock(Db1, Block2)

-----------------------------------------------------------------------------
(* The bodies.                                                             *)

UpTo(n, S) == UNION {[1 .. k -> S] : k \in 0 .. n}

Inputs == {Input(o[1], o[2]) : o \in DOMAIN Ledger.output} \cup {Input(Voting.hash, 2)}

Outputs == [value : {1, RewardCoins}, spendPkey : {node}, scanPkey : {Nil, voter}]

\* Links, types and keys in any combination.
Transfers ==
    [inputs : UpTo(2, Inputs), outputs : UpTo(2, Outputs), hashLink : {Nil, Block2.hash},
     valueType : {Nil, Voting.hash, BadBytes}, voteType : {0, 1}, duration : {0},
     senderEphemeralPkey : {Nil, node}, votersSumPkey : {Nil, BadBytes, node}]

\* Numbers in any combination, and outputs without the key that their column
\* requires.
Amounts ==
    [inputs : UpTo(2, Inputs),
     outputs : UpTo(2, [value : Values, spendPkey : {Nil, node}, scanPkey : {Nil}]),
     hashLink : {Nil}, valueType : {Nil, Voting.hash}, voteType : VoteTypes,
     duration : Durations, senderEphemeralPkey : {Nil}, votersSumPkey : {Nil}]

Rewards ==
    [inputs : {<<>>},
     outputs : UpTo(2, [value : Values, spendPkey : Keys, scanPkey : {Nil, voter}]),
     hashLink : {BadBytes, Block0.hash, Block2.hash, Reward0.hash},
     valueType : {Nil, Voting.hash},
     voteType : {0}, duration : Durations, senderEphemeralPkey : {Nil, node},
     votersSumPkey : {Nil, node}]

Delivered == {Sign(body, key) : body \in Transfers \cup Amounts \cup Rewards, key \in Keys}

Accepted == {t \in Delivered : BodyVerdict(Ledger, t) = "CodeOk"}

-----------------------------------------------------------------------------
(* One executor is given the transactions of one block.                    *)

VARIABLES
    executor,    \* the executor of the consensus connection
    latest,      \* the transaction it was given last; Nil before
    db           \* the database

vars == <<executor, latest, db>>

Init == executor = Reset(NewTxExecutor) /\ latest = Nil /\ db = Ledger

\* What is refused leaves the executor as it was: only the first transaction
\* of a block is one that may be refused.
Deliver ==
    /\ Len(executor.transactions) < MaxTxs
    /\ \/ latest = Nil /\ latest' \in Delivered
       \/ executor.transactions # <<>> /\ latest' \in Accepted
    /\ executor' = AppendTx(executor, db, latest', FALSE)
    /\ UNCHANGED db

\* A block that cannot be stored stops the node.
Store ==
    LET block == NextBlock(Block2.hash, executor.transactions)
    IN /\ executor.transactions # <<>>
       /\ CanSave(db, block)
       /\ db' = SaveNextBlock(db, block)
       /\ executor' = Reset(executor)
       /\ UNCHANGED latest

Next == Deliver \/ Store

Spec == Init /\ [][Next]_vars

Answer == IF latest = Nil THEN "none" ELSE AppendCode(Reset(NewTxExecutor), Ledger, latest, FALSE)

-----------------------------------------------------------------------------

ValueOf(d, valueType) ==
    MapThenSumSet(LAMBDA o : d.output[o].value,
                  {o \in Unspent(d) : ValueTypeOf(d, o[1]) = valueType})

\* The block is one transaction, which names no input twice.
SpendsEachOnce ==
    Len(executor.transactions) = 1 /\ IsInjective(executor.transactions[1].txBody.inputs)

\* What a stored transaction does to the value in circulation: a reward mints
\* RewardCoins of the valueType it names (nothing asks that it names none), a
\* voting turns coins into as many votes of its own, and any other transaction
\* leaves the coins, and the votes of every voting, as many as they were.
\* AppendTx compares sums that wrap; it is the columns that keep a body whose
\* sum wraps out of the database.  Left out are a body that names an input
\* twice, which AppendTx counts twice, and what two transactions of a block
\* take from each other (TODO at evote/tx_executor.go:38).
ValueIsConserved ==
    [][(db' # db /\ SpendsEachOnce) =>
        LET gain(t) == ValueOf(db', t) - ValueOf(db, t)
            body == executor.transactions[1].txBody
            hash == executor.transactions[1].hash
            types == {Nil, BadBytes, Voting.hash, hash}
        IN IF IsCoinbase(body)
           THEN \A t \in types : gain(t) = IF t = body.valueType THEN RewardCoins ELSE 0
           ELSE IF body.voteType # 0
           THEN /\ gain(hash) > 0 /\ gain(Nil) = - gain(hash)
                /\ \A t \in types \ {Nil, hash} : gain(t) = 0
           ELSE \A t \in types : gain(t) = 0]_vars

\* Every stored input was its signer's to spend, and for what it was spent on:
\* the output was stored in an earlier block and belongs to the key that
\* signed, a transfer keeps its value type, and a voting is paid for with coins.
InputsAreLegitimate == SpentByOwners(db)

\* The rewards of a block pay its proposer, and are all in one block, a later
\* one: once a reward is stored AppendTx finds it, whatever else the next one
\* says.
RewardedInOneBlock == RewardsInOneBlock(db)

\* A block is rewarded at most once.  AppendTx looks for an earlier reward
\* among the stored transactions, so that two rewards of one block pass when
\* they are in one block and differ in valueType, which it does not check.
OneRewardPerBlock == RewardedOnce(db)

\* What AppendTx accepts, SaveNextBlock can store unless a field exceeds its
\* column or a transaction is given twice in the block: AppendTx looks at
\* neither, and the node stops.  The hash of what it accepts is never a stored
\* one, although it looks for stored transactions only by their links and by
\* what they spend.
AcceptedIsStorable ==
    LET txs == executor.transactions
    IN txs # <<>> =>
        \/ CanSave(db, NextBlock(Block2.hash, txs))
        \/ \E i \in DOMAIN txs : ~ FitsColumns(txs[i])
        \/ \E i, j \in DOMAIN txs : i # j /\ txs[i].hash = txs[j].hash

\* A transaction with an input never makes AppendTx panic: the voting it looks
\* up without asking whether it is stored (line 227) is the one its inputs are
\* votes of.
SpendingNeverPanics ==
    latest # Nil /\ latest.txBody.inputs # <<>> => Answer # "Panic"
=============================================================================
