------------------------------ MODULE Database ------------------------------
(***************************************************************************)
(* The node's PostgreSQL database (evote/database.go and                   *)
(* evote/database/initdb/init.sql): four tables, the triggers that guard   *)
(* them and the queries the node asks.  A database is a record of tables;  *)
(* rows are found by the hash of their block or transaction, which the     *)
(* schema makes unique, instead of by their serial numbers.                *)
(*                                                                         *)
(*   block        hash -> [height, prev, proposerPkey, timestamp]          *)
(*   transaction  hash -> [block, index, txBody, sig]                      *)
(*   input        a set of [tx, index, prevTx, outputIndex]                *)
(*   output       <<tx, index>> -> [value, spendPkey, scanPkey, spentBy]   *)
(*                                                                         *)
(* spentBy is the column isSpentByTx: Nil, or the spending transaction.    *)
(* A value that comes out of one statement is one step: SaveNextBlock runs *)
(* in one transaction of the database, and rolls back on every error.      *)
(***************************************************************************)
EXTENDS Transactions

CONSTANT PgIntMax     \* the largest value of a column of type integer

ASSUME PgIntAssumption == PgIntMax \in Nat

EmptyDb == [block |-> <<>>, transaction |-> <<>>, input |-> {}, output |-> <<>>]

-----------------------------------------------------------------------------
(* Queries.                                                                *)

GetBlockByHash(d, hash) == {h \in DOMAIN d.block : h = hash}

GetTxByHash(d, hash) == {h \in DOMAIN d.transaction : h = hash}

GetTxByHashLink(d, hashLink) ==
    {h \in DOMAIN d.transaction :
        hashLink # Nil /\ d.transaction[h].txBody.hashLink = hashLink}

\* The outputs of a transaction that creates a voting are its votes.
ValueTypeOf(d, txHash) ==
    IF d.transaction[txHash].txBody.voteType = 0
    THEN d.transaction[txHash].txBody.valueType
    ELSE txHash

\* Mutant: the query forgets to ask for isSpentByTx IS NULL.
UnspentOrSpent(d) == DOMAIN d.output

Unspent(d) == {o \in DOMAIN d.output : d.output[o].spentBy = Nil}

Utxo(d, o) ==
    [timestamp |-> d.block[d.transaction[o[1]].block].timestamp,
     valueType |-> ValueTypeOf(d, o[1]),
     txHash    |-> o[1],
     index     |-> o[2],
     value     |-> d.output[o].value,
     spendPkey |-> d.output[o].spendPkey,
     scanPkey  |-> d.output[o].scanPkey]

GetUTXOSByPkey(d, pkey) ==
    {Utxo(d, o) : o \in {p \in Unspent(d) :
        d.output[p].spendPkey = pkey \/ d.output[p].scanPkey = pkey}}

-----------------------------------------------------------------------------
(* SaveNextBlock.                                                          *)

Outpoint(input) == <<input.prevTxHash, input.outputIndex>>

\* checkChainInsert and the unique hash: the first block is the first row,
\* and a block is followed by at most one.
ChainAllows(d, block) ==
    LET prev == block.blockHeader.prevBlockHash
    IN /\ block.hash \notin DOMAIN d.block
       /\ IF prev = Nil THEN DOMAIN d.block = {}
          ELSE /\ prev \in DOMAIN d.block
               /\ \A h \in DOMAIN d.block : d.block[h].prev # prev

\* What the columns of a transaction and of its outputs can hold.
FitsColumns(tx) ==
    /\ tx.sig # Nil
    /\ tx.txBody.voteType <= PgIntMax
    /\ tx.txBody.duration <= PgIntMax
    /\ \A i \in DOMAIN tx.txBody.outputs :
            /\ tx.txBody.outputs[i].value <= PgIntMax
            /\ tx.txBody.outputs[i].spendPkey # Nil

TxsAreNew(d, txs) ==
    \A i \in DOMAIN txs :
        /\ txs[i].hash \notin DOMAIN d.transaction
        /\ \A j \in DOMAIN txs : i # j => txs[i].hash # txs[j].hash

CanSave(d, block) ==
    /\ ChainAllows(d, block)
    /\ TxsAreNew(d, block.transactions)
    /\ \A i \in DOMAIN block.transactions : FitsColumns(block.transactions[i])

\* The previous transaction of an input is looked up among the stored ones
\* and those of this block up to the i-th; the row is skipped when it is in neither.
KnownAt(d, txs, i) == DOMAIN d.transaction \cup {txs[j].hash : j \in 1 .. i}

InputRows(d, txs) ==
    UNION {{[tx |-> txs[i].hash, index |-> k - 1,
             prevTx |-> txs[i].txBody.inputs[k].prevTxHash,
             outputIndex |-> txs[i].txBody.inputs[k].outputIndex] :
                k \in {n \in 1 .. Len(txs[i].txBody.inputs) :
                        txs[i].txBody.inputs[n].prevTxHash \in KnownAt(d, txs, i)}} :
            i \in DOMAIN txs}

OutpointsOf(tx) == {<<tx.hash, k - 1>> : k \in DOMAIN tx.txBody.outputs}

\* Mutant: only the first input of a transaction is looked up.
SpendersByFirstInput(d, txs, o) ==
    {i \in DOMAIN txs :
        /\ txs[i].txBody.inputs # <<>> /\ Outpoint(txs[i].txBody.inputs[1]) = o
        /\ o[1] \in DOMAIN d.transaction \cup {txs[j].hash : j \in 1 .. (i - 1)}}

\* Mutant: the trigger compares the index of the output with that of the input.
SpendersByInputIndex(d, txs, o) ==
    {i \in DOMAIN txs :
        /\ \E k \in 1 .. Len(txs[i].txBody.inputs) :
                txs[i].txBody.inputs[k].prevTxHash = o[1] /\ k - 1 = o[2]
        /\ o[1] \in DOMAIN d.transaction \cup {txs[j].hash : j \in 1 .. (i - 1)}}

\* The transactions of the block with an input row for o inserted after o's own row.
SpendersOf(d, txs, o) ==
    {i \in DOMAIN txs :
        /\ \E k \in 1 .. Len(txs[i].txBody.inputs) : Outpoint(txs[i].txBody.inputs[k]) = o
        /\ o[1] \in DOMAIN d.transaction \cup {txs[j].hash : j \in 1 .. (i - 1)}}

\* Mutant: the trigger does not overwrite a mark that this block has set.
SpentByFirst(d, txs, o, before) ==
    LET spenders == SpendersOf(d, txs, o)
    IN IF spenders = {} THEN before
       ELSE txs[CHOOSE i \in spenders : \A j \in spenders : i <= j].hash

\* updateOutputSpendingsInsert overwrites isSpentByTx: the last row inserted wins.
SpentByAfter(d, txs, o, before) ==
    LET spenders == SpendersOf(d, txs, o)
    IN IF spenders = {} THEN before
       ELSE txs[CHOOSE i \in spenders : \A j \in spenders : j <= i].hash

\* Mutant: the height is not counted up.
SavedBlocksLevel(d, block) ==
    LET prev == block.blockHeader.prevBlockHash
    IN [h \in DOMAIN d.block \cup {block.hash} |->
            IF h = block.hash
            THEN [height |-> IF prev = Nil THEN 0 ELSE d.block[prev].height,
                  prev |-> prev,
                  proposerPkey |-> block.blockHeader.proposerPkey,
                  timestamp |-> block.blockHeader.timestamp]
            ELSE d.block[h]]

SavedBlocks(d, block) ==
    LET prev == block.blockHeader.prevBlockHash
    IN [h \in DOMAIN d.block \cup {block.hash} |->
            IF h = block.hash
            THEN [height |-> IF prev = Nil THEN 0 ELSE d.block[prev].height + 1,
                  prev |-> prev,
                  proposerPkey |-> block.blockHeader.proposerPkey,
                  timestamp |-> block.blockHeader.timestamp]
            ELSE d.block[h]]

IndexOf(txs, h) == CHOOSE i \in DOMAIN txs : txs[i].hash = h

SavedTransactions(d, block) ==
    LET txs == block.transactions
    IN [h \in DOMAIN d.transaction \cup {txs[i].hash : i \in DOMAIN txs} |->
            IF h \in DOMAIN d.transaction THEN d.transaction[h]
            ELSE [block |-> block.hash, index |-> IndexOf(txs, h) - 1,
                  txBody |-> txs[IndexOf(txs, h)].txBody,
                  sig |-> txs[IndexOf(txs, h)].sig]]

\* Mutant: an output that is not spent by this block is written without a mark.
SavedOutputAnew(d, txs, o) ==
    LET out == IF o \in DOMAIN d.output THEN d.output[o]
               ELSE txs[IndexOf(txs, o[1])].txBody.outputs[o[2] + 1]
    IN [value |-> out.value, spendPkey |-> out.spendPkey, scanPkey |-> out.scanPkey,
        spentBy |-> SpentByAfter(d, txs, o, Nil)]

SavedOutput(d, txs, o) ==
    LET isOld == o \in DOMAIN d.output
        out == IF isOld THEN d.output[o]
               ELSE txs[IndexOf(txs, o[1])].txBody.outputs[o[2] + 1]
    IN [value |-> out.value, spendPkey |-> out.spendPkey, scanPkey |-> out.scanPkey,
        spentBy |-> SpentByAfter(d, txs, o, IF isOld THEN d.output[o].spentBy ELSE Nil)]

SavedOutputs(d, txs) ==
    [o \in DOMAIN d.output \cup UNION {OutpointsOf(txs[i]) : i \in DOMAIN txs} |->
        SavedOutput(d, txs, o)]

SaveNextBlock(d, block) ==
    [block       |-> SavedBlocks(d, block),
     transaction |-> SavedTransactions(d, block),
     input       |-> d.input \cup InputRows(d, block.transactions),
     output      |-> SavedOutputs(d, block.transactions)]

-----------------------------------------------------------------------------
(* What the tables promise.                                                *)

SpentOutput(row) == <<row.prevTx, row.outputIndex>>

RowsOn(d, o) == {row \in d.input : SpentOutput(row) = o}

BlockOf(d, h) == d.transaction[h].block

HeightOf(d, h) == d.block[BlockOf(d, h)].height

\* h was stored after g: in a later block, or later in the same one.
StoredAfter(d, h, g) ==
    \/ HeightOf(d, h) > HeightOf(d, g)
    \/ /\ HeightOf(d, h) = HeightOf(d, g)
       /\ d.transaction[h].index > d.transaction[g].index

\* The references of init.sql: every row a column names is there.
ForeignKeys(d) ==
    /\ \A h \in DOMAIN d.block :
        /\ d.block[h].height \in Nat
        /\ d.block[h].prev \in DOMAIN d.block \cup {Nil}
    /\ \A h \in DOMAIN d.transaction : d.transaction[h].block \in DOMAIN d.block
    /\ \A o \in DOMAIN d.output :
        /\ o[1] \in DOMAIN d.transaction
        /\ d.output[o].spentBy \in DOMAIN d.transaction \cup {Nil}
    /\ \A row \in d.input : {row.tx, row.prevTx} \subseteq DOMAIN d.transaction

\* An output that an input names carries the mark that makes it unspendable.
InputsAreMarked(d) ==
    \A row \in d.input : SpentOutput(row) \in DOMAIN d.output \ Unspent(d)

\* Inputs that name the same output were stored by the same block.
SpentInOneBlock(d) ==
    \A r1, r2 \in d.input : SpentOutput(r1) = SpentOutput(r2) =>
        d.transaction[r1.tx].block = d.transaction[r2.tx].block

\* No mark without an input, and a marked output names the last of the
\* transactions that spend it.
MarkedByLast(d) ==
    \A o \in DOMAIN d.output :
        LET mark == d.output[o].spentBy
        IN IF mark = Nil THEN RowsOn(d, o) = {}
           ELSE /\ mark \in {row.tx : row \in RowsOn(d, o)}
                /\ \A row \in RowsOn(d, o) : row.tx = mark \/ StoredAfter(d, mark, row.tx)

\* Every input was its signer's to spend, and for what it was spent on: the
\* output was stored in an earlier block and belongs to the key that signed, a
\* transfer keeps its value type, and a voting is paid for with coins.
SpentByOwners(d) ==
    \A row \in d.input :
        LET spender == d.transaction[row.tx]
        IN /\ HeightOf(d, row.prevTx) < HeightOf(d, row.tx)
           /\ SpentOutput(row) \in DOMAIN d.output
           /\ d.output[SpentOutput(row)].spendPkey = spender.sig
           /\ ValueTypeOf(d, row.prevTx) =
                IF spender.txBody.voteType = 0 THEN spender.txBody.valueType ELSE Nil
=============================================================================
