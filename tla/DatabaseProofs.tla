--------------------------- MODULE DatabaseProofs ---------------------------
(***************************************************************************)
(* What SaveNextBlock preserves, for every database and every block: the   *)
(* foreign keys, the single chain, the marks of spent outputs, and that an *)
(* output is spent in one block only and by its owner.  Nothing is assumed *)
(* of who calls it.  And what AppendTx answers for, whatever transaction   *)
(* it is given: who signed, what is spent, which block is rewarded.  Last, *)
(* what the sums and the loop of the code compute.                         *)
(***************************************************************************)
EXTENDS TxExecutor, SumProofs, SequenceTheorems, TLAPS

-----------------------------------------------------------------------------
(* The pieces of SaveNextBlock.                                            *)

\* A hash of the block is found at its index.
LEMMA IndexOfHash ==
    ASSUME NEW txs, NEW h \in {txs[i].hash : i \in DOMAIN txs}
    PROVE  IndexOf(txs, h) \in DOMAIN txs /\ txs[IndexOf(txs, h)].hash = h
BY DEF IndexOf

\* An output that the block spends is marked with the hash of its last spender.
LEMMA MarkIsSpender ==
    ASSUME NEW d, NEW T, NEW txs \in Seq(T), NEW o, NEW before,
           SpendersOf(d, txs, o) # {}
    PROVE  \E i \in SpendersOf(d, txs, o) :
                /\ SpentByAfter(d, txs, o, before) = txs[i].hash
                /\ \A j \in SpendersOf(d, txs, o) : j <= i
<1> DEFINE S == SpendersOf(d, txs, o)
<1>1. Len(txs) \in Nat /\ DOMAIN txs = 1 .. Len(txs)
  BY LenProperties
<1>2. S \subseteq 1 .. Len(txs)
  BY <1>1 DEF SpendersOf
<1>3. \E x \in S : \A y \in S : y <= x
  BY <1>1, <1>2, GreatestIndex
<1> QED BY <1>3 DEF SpentByAfter

\* An output that no transaction of the block spends keeps its mark.
LEMMA UnspentKeepsMark ==
    ASSUME NEW d, NEW txs, NEW o, NEW before, SpendersOf(d, txs, o) = {}
    PROVE  SpentByAfter(d, txs, o, before) = before
BY DEF SpentByAfter

\* A row added by the block is an input of one of its transactions.
LEMMA NewRow ==
    ASSUME NEW d, NEW txs, NEW row \in InputRows(d, txs)
    PROVE  \E i \in DOMAIN txs : \E k \in 1 .. Len(txs[i].txBody.inputs) :
                /\ row.tx = txs[i].hash
                /\ row.prevTx = txs[i].txBody.inputs[k].prevTxHash
                /\ row.prevTx \in KnownAt(d, txs, i)
                /\ SpentOutput(row) = Outpoint(txs[i].txBody.inputs[k])
BY DEF InputRows, SpentOutput, Outpoint

\* The i-th transaction of a block is stored under its hash, at its index.
LEMMA StoredAtIndex ==
    ASSUME NEW d, NEW b, TxsAreNew(d, b.transactions), NEW i \in DOMAIN b.transactions
    PROVE  LET tx == b.transactions[i]
               e  == SaveNextBlock(d, b)
           IN /\ tx.hash \in DOMAIN e.transaction
              /\ e.transaction[tx.hash] = [block |-> b.hash, index |-> i - 1,
                                           txBody |-> tx.txBody, sig |-> tx.sig]
<1> DEFINE txs == b.transactions
<1>1. txs[i].hash \in {txs[j].hash : j \in DOMAIN txs} /\ txs[i].hash \notin DOMAIN d.transaction
  BY DEF TxsAreNew
<1>2. IndexOf(txs, txs[i].hash) = i
  BY <1>1, IndexOfHash DEF TxsAreNew
<1> QED BY <1>1, <1>2 DEF SaveNextBlock, SavedTransactions

\* A stored transaction stays as it is.
THEOREM SaveKeepsTransactions ==
    ASSUME NEW d, NEW b, NEW h \in DOMAIN d.transaction
    PROVE  /\ h \in DOMAIN SaveNextBlock(d, b).transaction
           /\ SaveNextBlock(d, b).transaction[h] = d.transaction[h]
BY DEF SaveNextBlock, SavedTransactions

\* It is in the block it was in, at the height that block was at.
LEMMA SaveKeepsHeights ==
    ASSUME NEW d, NEW b, ForeignKeys(d), ChainAllows(d, b), NEW h \in DOMAIN d.transaction
    PROVE  LET e == SaveNextBlock(d, b)
           IN BlockOf(e, h) = BlockOf(d, h) /\ HeightOf(e, h) = HeightOf(d, h)
<1>1. BlockOf(d, h) \in DOMAIN d.block /\ BlockOf(d, h) # b.hash
  BY DEF ForeignKeys, BlockOf, ChainAllows
<1>2. BlockOf(SaveNextBlock(d, b), h) = BlockOf(d, h)
  BY SaveKeepsTransactions DEF BlockOf
<1>3. SaveNextBlock(d, b).block[BlockOf(d, h)] = d.block[BlockOf(d, h)]
  BY <1>1 DEF SaveNextBlock, SavedBlocks
<1> QED BY <1>2, <1>3 DEF HeightOf

-----------------------------------------------------------------------------
(* SaveNextBlock.                                                          *)

\* The rows that SaveNextBlock adds refer to rows that are there.
THEOREM SaveKeepsForeignKeys ==
    ASSUME NEW d, NEW T, NEW b, b.transactions \in Seq(T),
           ForeignKeys(d), CanSave(d, b)
    PROVE  ForeignKeys(SaveNextBlock(d, b))
<1> DEFINE txs == b.transactions
           e == SaveNextBlock(d, b)
           new == {txs[i].hash : i \in DOMAIN txs}
<1>1. DOMAIN e.transaction = DOMAIN d.transaction \cup new
  BY DEF SaveNextBlock, SavedTransactions
<1>2. DOMAIN e.block = DOMAIN d.block \cup {b.hash}
  BY DEF SaveNextBlock, SavedBlocks
<1>3. ASSUME NEW h \in DOMAIN e.block
      PROVE  e.block[h].height \in Nat /\ e.block[h].prev \in DOMAIN e.block \cup {Nil}
  <2>1. CASE h = b.hash
    BY <2>1, <1>2, <1>3 DEF SaveNextBlock, SavedBlocks, CanSave, ChainAllows, ForeignKeys
  <2>2. CASE h # b.hash
    BY <2>2, <1>2, <1>3 DEF SaveNextBlock, SavedBlocks, ForeignKeys
  <2> QED BY <2>1, <2>2
<1>4. ASSUME NEW h \in DOMAIN e.transaction
      PROVE  e.transaction[h].block \in DOMAIN e.block
  BY <1>1, <1>2, <1>4 DEF SaveNextBlock, SavedTransactions, ForeignKeys
<1>5. ASSUME NEW o \in DOMAIN e.output
      PROVE  /\ o[1] \in DOMAIN e.transaction
             /\ e.output[o].spentBy \in DOMAIN e.transaction \cup {Nil}
  <2> DEFINE before == IF o \in DOMAIN d.output THEN d.output[o].spentBy ELSE Nil
  <2>1. o[1] \in DOMAIN e.transaction
    <3>1. CASE o \in DOMAIN d.output
      BY <3>1, <1>1 DEF ForeignKeys
    <3>2. CASE o \notin DOMAIN d.output
      <4>1. PICK i \in DOMAIN txs : o \in OutpointsOf(txs[i])
        BY <3>2, <1>5 DEF SaveNextBlock, SavedOutputs
      <4>2. o[1] = txs[i].hash
        BY <4>1 DEF OutpointsOf
      <4> QED BY <4>2, <1>1
    <3> QED BY <3>1, <3>2
  <2>2. e.output[o].spentBy = SpentByAfter(d, txs, o, before)
    BY <1>5 DEF SaveNextBlock, SavedOutputs, SavedOutput
  <2>3. before \in DOMAIN e.transaction \cup {Nil}
    BY <1>1 DEF ForeignKeys
  <2>4. SpentByAfter(d, txs, o, before) \in DOMAIN e.transaction \cup {Nil}
    <3>1. CASE SpendersOf(d, txs, o) = {}
      BY <3>1, <2>3, UnspentKeepsMark
    <3>2. CASE SpendersOf(d, txs, o) # {}
      <4>1. PICK i \in SpendersOf(d, txs, o) : SpentByAfter(d, txs, o, before) = txs[i].hash
        BY <3>2, MarkIsSpender
      <4>2. i \in DOMAIN txs
        BY DEF SpendersOf
      <4> QED BY <4>1, <4>2, <1>1
    <3> QED BY <3>1, <3>2
  <2> QED BY <2>1, <2>2, <2>4
<1>6. ASSUME NEW row \in e.input
      PROVE  {row.tx, row.prevTx} \subseteq DOMAIN e.transaction
  <2>1. CASE row \in d.input
    BY <2>1, <1>1 DEF ForeignKeys
  <2>2. CASE row \in InputRows(d, txs)
    <3>1. PICK i \in DOMAIN txs : row.tx = txs[i].hash /\ row.prevTx \in KnownAt(d, txs, i)
      BY <2>2, NewRow
    <3>2. DOMAIN txs = 1 .. Len(txs) /\ Len(txs) \in Nat
      BY LenProperties
    <3>3. \A j \in 1 .. i : j \in DOMAIN txs
      BY <3>2
    <3> QED BY <3>1, <3>3, <1>1 DEF KnownAt
  <2> QED BY <2>1, <2>2, <1>6 DEF SaveNextBlock
<1> QED BY <1>3, <1>4, <1>5, <1>6 DEF ForeignKeys

\* What the block spends was unspent, so a marked output keeps its mark, and
\* every output keeps its value and its owner.
THEOREM SaveKeepsOutputs ==
    ASSUME NEW d, NEW b,
           \A i \in DOMAIN b.transactions :
                \A k \in 1 .. Len(b.transactions[i].txBody.inputs) :
                    Outpoint(b.transactions[i].txBody.inputs[k]) \in Unspent(d)
    PROVE  LET e == SaveNextBlock(d, b)
           IN /\ d.input \subseteq e.input
              /\ \A o \in DOMAIN d.output :
                    /\ o \in DOMAIN e.output
                    /\ e.output[o].value = d.output[o].value
                    /\ e.output[o].spendPkey = d.output[o].spendPkey
                    /\ d.output[o].spentBy # Nil =>
                            e.output[o].spentBy = d.output[o].spentBy
<1> DEFINE txs == b.transactions
           e == SaveNextBlock(d, b)
<1>1. d.input \subseteq e.input
  BY DEF SaveNextBlock
<1>2. ASSUME NEW o \in DOMAIN d.output
      PROVE  /\ o \in DOMAIN e.output
             /\ e.output[o].value = d.output[o].value
             /\ e.output[o].spendPkey = d.output[o].spendPkey
             /\ d.output[o].spentBy # Nil => e.output[o].spentBy = d.output[o].spentBy
  <2>1. o \in DOMAIN e.output /\ e.output[o] = SavedOutput(d, txs, o)
    BY <1>2 DEF SaveNextBlock, SavedOutputs
  <2>2. ASSUME d.output[o].spentBy # Nil
        PROVE  SpentByAfter(d, txs, o, d.output[o].spentBy) = d.output[o].spentBy
    <3>1. o \notin Unspent(d)
      BY <2>2 DEF Unspent
    <3>2. SpendersOf(d, txs, o) = {}
      BY <3>1 DEF SpendersOf
    <3> QED BY <3>2, UnspentKeepsMark
  <2> QED BY <1>2, <2>1, <2>2 DEF SavedOutput
<1> QED BY <1>1, <1>2

\* Every output that the block spends is marked once it is saved.
THEOREM SaveMarksInputs ==
    ASSUME NEW d, NEW T, NEW b, b.transactions \in Seq(T),
           ForeignKeys(d), InputsAreMarked(d),
           \A i \in DOMAIN b.transactions :
                /\ b.transactions[i].hash # Nil
                /\ \A k \in 1 .. Len(b.transactions[i].txBody.inputs) :
                    Outpoint(b.transactions[i].txBody.inputs[k]) \in Unspent(d)
    PROVE  InputsAreMarked(SaveNextBlock(d, b))
<1> DEFINE txs == b.transactions
           e == SaveNextBlock(d, b)
<1> SUFFICES ASSUME NEW row \in e.input
             PROVE  /\ SpentOutput(row) \in DOMAIN e.output
                    /\ e.output[SpentOutput(row)].spentBy # Nil
  BY DEF InputsAreMarked, Unspent
<1> DEFINE o == SpentOutput(row)
<1>1. CASE row \in d.input
  <2>1. o \in DOMAIN d.output /\ d.output[o].spentBy # Nil
    BY <1>1 DEF InputsAreMarked, Unspent
  <2> QED BY <2>1, SaveKeepsOutputs
<1>2. CASE row \in InputRows(d, txs)
  <2>1. PICK i \in DOMAIN txs : \E k \in 1 .. Len(txs[i].txBody.inputs) :
            o = Outpoint(txs[i].txBody.inputs[k])
    BY <1>2, NewRow
  <2>2. o \in DOMAIN d.output
    BY <2>1 DEF Unspent
  <2>3. o[1] \in DOMAIN d.transaction
    BY <2>2 DEF ForeignKeys
  <2>4. i \in SpendersOf(d, txs, o)
    BY <2>1, <2>3 DEF SpendersOf
  <2>5. PICK j \in SpendersOf(d, txs, o) :
            SpentByAfter(d, txs, o, d.output[o].spentBy) = txs[j].hash
    BY <2>4, MarkIsSpender
  <2>6. txs[j].hash # Nil
    BY DEF SpendersOf
  <2>7. o \in DOMAIN e.output /\ e.output[o] = SavedOutput(d, txs, o)
    BY <2>2 DEF SaveNextBlock, SavedOutputs
  <2> QED BY <2>2, <2>5, <2>6, <2>7 DEF SavedOutput
<1> QED BY <1>1, <1>2 DEF SaveNextBlock

\* A block adds no second spending of an output spent by an earlier one.
THEOREM SaveKeepsSpentInOneBlock ==
    ASSUME NEW d, NEW b, ForeignKeys(d), InputsAreMarked(d), SpentInOneBlock(d),
           CanSave(d, b),
           \A i \in DOMAIN b.transactions :
                \A k \in 1 .. Len(b.transactions[i].txBody.inputs) :
                    Outpoint(b.transactions[i].txBody.inputs[k]) \in Unspent(d)
    PROVE  SpentInOneBlock(SaveNextBlock(d, b))
<1> DEFINE txs == b.transactions
           e == SaveNextBlock(d, b)
<1>1. ASSUME NEW row \in d.input
      PROVE  /\ SpentOutput(row) \notin Unspent(d)
             /\ e.transaction[row.tx].block = d.transaction[row.tx].block
  BY <1>1 DEF InputsAreMarked, ForeignKeys, SaveNextBlock, SavedTransactions
<1>2. ASSUME NEW row \in InputRows(d, txs)
      PROVE  /\ SpentOutput(row) \in Unspent(d)
             /\ e.transaction[row.tx].block = b.hash
  <2>1. PICK i \in DOMAIN txs : \E k \in 1 .. Len(txs[i].txBody.inputs) :
            row.tx = txs[i].hash /\ SpentOutput(row) = Outpoint(txs[i].txBody.inputs[k])
    BY <1>2, NewRow
  <2>2. row.tx \notin DOMAIN d.transaction
    BY <2>1 DEF CanSave, TxsAreNew
  <2> QED BY <2>1, <2>2 DEF SaveNextBlock, SavedTransactions
<1>3. e.input = d.input \cup InputRows(d, txs)
  BY DEF SaveNextBlock
<1> QED BY <1>1, <1>2, <1>3 DEF SpentInOneBlock

\* o is marked with tx, which is stored under its own signature.
MarkedBy(d, o, tx) ==
    d.output[o].spentBy = tx.hash /\ d.transaction[tx.hash].sig = tx.sig

\* An output that the block spends gets the mark of a transaction of the block
\* that has it among its inputs and is stored under its own signature.
THEOREM SaveMarksBySpender ==
    ASSUME NEW d, NEW T, NEW b, b.transactions \in Seq(T), CanSave(d, b)
    PROVE  LET txs == b.transactions
               e == SaveNextBlock(d, b)
           IN \A o \in DOMAIN e.output :
                e.output[o].spentBy # Nil /\ o \notin DOMAIN d.output \ Unspent(d) =>
                    \E i \in DOMAIN txs :
                        /\ \E k \in 1 .. Len(txs[i].txBody.inputs) :
                                Outpoint(txs[i].txBody.inputs[k]) = o
                        /\ MarkedBy(e, o, txs[i])
<1> DEFINE txs == b.transactions
           e == SaveNextBlock(d, b)
<1> SUFFICES ASSUME NEW o \in DOMAIN e.output, e.output[o].spentBy # Nil,
                    o \notin DOMAIN d.output \ Unspent(d)
             PROVE  \E i \in DOMAIN txs :
                        /\ \E k \in 1 .. Len(txs[i].txBody.inputs) :
                                Outpoint(txs[i].txBody.inputs[k]) = o
                        /\ MarkedBy(e, o, txs[i])
  OBVIOUS
<1> DEFINE before == IF o \in DOMAIN d.output THEN d.output[o].spentBy ELSE Nil
<1>1. e.output[o].spentBy = SpentByAfter(d, txs, o, before)
  BY DEF SaveNextBlock, SavedOutputs, SavedOutput
<1>2. before = Nil
  BY DEF Unspent
<1>3. SpendersOf(d, txs, o) # {}
  BY <1>1, <1>2, UnspentKeepsMark
<1>4. PICK i \in SpendersOf(d, txs, o) : SpentByAfter(d, txs, o, before) = txs[i].hash
  BY <1>3, MarkIsSpender
<1>5. i \in DOMAIN txs /\ \E k \in 1 .. Len(txs[i].txBody.inputs) :
            Outpoint(txs[i].txBody.inputs[k]) = o
  BY DEF SpendersOf
<1>6. e.transaction[txs[i].hash].sig = txs[i].sig
  <2>1. txs[i].hash \notin DOMAIN d.transaction
    BY <1>5 DEF CanSave, TxsAreNew
  <2>2. IndexOf(txs, txs[i].hash) = i
    BY <1>5, IndexOfHash DEF CanSave, TxsAreNew
  <2> QED BY <1>5, <2>1, <2>2 DEF SaveNextBlock, SavedTransactions
<1> QED BY <1>1, <1>4, <1>5, <1>6 DEF MarkedBy

\* The inputs that the block adds name unspent outputs.
LEMMA NewRowSpends ==
    ASSUME NEW d, NEW b, ForeignKeys(d),
           \A i \in DOMAIN b.transactions :
                \A k \in 1 .. Len(b.transactions[i].txBody.inputs) :
                    Outpoint(b.transactions[i].txBody.inputs[k]) \in Unspent(d),
           NEW row \in InputRows(d, b.transactions)
    PROVE  /\ SpentOutput(row) \in Unspent(d)
           /\ \E i \in SpendersOf(d, b.transactions, SpentOutput(row)) :
                    row.tx = b.transactions[i].hash
<1> DEFINE txs == b.transactions
           o == SpentOutput(row)
<1>1. PICK i \in DOMAIN txs :
        /\ row.tx = txs[i].hash
        /\ \E k \in 1 .. Len(txs[i].txBody.inputs) : o = Outpoint(txs[i].txBody.inputs[k])
  BY NewRow
<1>2. o \in Unspent(d)
  BY <1>1
<1>3. o[1] \in DOMAIN d.transaction
  BY <1>2 DEF ForeignKeys, Unspent
<1>4. i \in SpendersOf(d, txs, o)
  BY <1>1, <1>3 DEF SpendersOf
<1> QED BY <1>1, <1>2, <1>4

\* An input of the block that names an unspent output gets a row.
LEMMA SpenderHasRow ==
    ASSUME NEW d, NEW txs, ForeignKeys(d), NEW o \in Unspent(d),
           NEW i \in SpendersOf(d, txs, o)
    PROVE  \E row \in InputRows(d, txs) : row.tx = txs[i].hash /\ SpentOutput(row) = o
<1>1. i \in DOMAIN txs
  BY DEF SpendersOf
<1>2. PICK k \in 1 .. Len(txs[i].txBody.inputs) : Outpoint(txs[i].txBody.inputs[k]) = o
  BY DEF SpendersOf
<1>3. txs[i].txBody.inputs[k].prevTxHash \in KnownAt(d, txs, i)
  BY <1>2 DEF ForeignKeys, Unspent, Outpoint, KnownAt
<1> DEFINE row == [tx |-> txs[i].hash, index |-> k - 1,
                   prevTx |-> txs[i].txBody.inputs[k].prevTxHash,
                   outputIndex |-> txs[i].txBody.inputs[k].outputIndex]
<1>4. row \in InputRows(d, txs)
  <2>1. k \in {n \in 1 .. Len(txs[i].txBody.inputs) :
                    txs[i].txBody.inputs[n].prevTxHash \in KnownAt(d, txs, i)}
    BY <1>3
  <2>2. row \in {[tx |-> txs[i].hash, index |-> m - 1,
                  prevTx |-> txs[i].txBody.inputs[m].prevTxHash,
                  outputIndex |-> txs[i].txBody.inputs[m].outputIndex] :
                    m \in {n \in 1 .. Len(txs[i].txBody.inputs) :
                        txs[i].txBody.inputs[n].prevTxHash \in KnownAt(d, txs, i)}}
    BY <2>1
  <2> QED BY <1>1, <2>2 DEF InputRows
<1>5. row.tx = txs[i].hash /\ SpentOutput(row) = o
  BY <1>2 DEF SpentOutput, Outpoint
<1> QED BY <1>4, <1>5

\* The mark of an output names the last of the transactions that spend it.
THEOREM SaveMarksByLast ==
    ASSUME NEW d, NEW T, NEW b, b.transactions \in Seq(T),
           ForeignKeys(d), InputsAreMarked(d), MarkedByLast(d), CanSave(d, b),
           \A i \in DOMAIN b.transactions :
                /\ b.transactions[i].hash # Nil
                /\ \A k \in 1 .. Len(b.transactions[i].txBody.inputs) :
                    Outpoint(b.transactions[i].txBody.inputs[k]) \in Unspent(d)
    PROVE  MarkedByLast(SaveNextBlock(d, b))
<1> DEFINE txs == b.transactions
           e == SaveNextBlock(d, b)
<1>1. ChainAllows(d, b) /\ TxsAreNew(d, txs)
  BY DEF CanSave
<1>2. e.input = d.input \cup InputRows(d, txs)
  BY DEF SaveNextBlock
<1> SUFFICES ASSUME NEW o \in DOMAIN e.output
             PROVE  LET mark == e.output[o].spentBy
                    IN IF mark = Nil THEN RowsOn(e, o) = {}
                       ELSE /\ mark \in {row.tx : row \in RowsOn(e, o)}
                            /\ \A row \in RowsOn(e, o) :
                                    row.tx = mark \/ StoredAfter(e, mark, row.tx)
  BY DEF MarkedByLast
<1>3. \A row \in InputRows(d, txs) : SpentOutput(row) \in Unspent(d)
  BY NewRowSpends
<1>4. ASSUME NEW i \in DOMAIN txs
      PROVE  e.transaction[txs[i].hash].block = b.hash
             /\ e.transaction[txs[i].hash].index = i - 1
  <2>1. e.transaction[txs[i].hash] = [block |-> b.hash, index |-> i - 1,
                                      txBody |-> txs[i].txBody, sig |-> txs[i].sig]
    BY <1>1, StoredAtIndex
  <2> QED BY <2>1
<1>5. CASE o \in DOMAIN d.output /\ d.output[o].spentBy # Nil
  <2> DEFINE mark == d.output[o].spentBy
  <2>1. e.output[o].spentBy = mark
    BY <1>5, SaveKeepsOutputs
  <2>2. \A row \in InputRows(d, txs) : SpentOutput(row) # o
    BY <1>5, <1>3 DEF Unspent
  <2>3. RowsOn(e, o) = RowsOn(d, o)
    BY <1>2, <2>2 DEF RowsOn
  <2>4. /\ mark \in {row.tx : row \in RowsOn(d, o)}
        /\ \A row \in RowsOn(d, o) : row.tx = mark \/ StoredAfter(d, mark, row.tx)
    BY <1>5 DEF MarkedByLast
  <2>5. mark \in DOMAIN d.transaction /\ \A row \in RowsOn(d, o) : row.tx \in DOMAIN d.transaction
    BY <2>4 DEF RowsOn, ForeignKeys
  <2>6. ASSUME NEW row \in RowsOn(d, o), StoredAfter(d, mark, row.tx)
        PROVE  StoredAfter(e, mark, row.tx)
    <3>1. /\ e.transaction[mark] = d.transaction[mark]
          /\ e.transaction[row.tx] = d.transaction[row.tx]
      BY <2>5, SaveKeepsTransactions
    <3>2. HeightOf(e, mark) = HeightOf(d, mark) /\ HeightOf(e, row.tx) = HeightOf(d, row.tx)
      BY <1>1, <2>5, SaveKeepsHeights
    <3> QED BY <2>6, <3>1, <3>2 DEF StoredAfter
  <2> QED BY <1>5, <2>1, <2>3, <2>4, <2>6
<1>6. CASE ~ (o \in DOMAIN d.output /\ d.output[o].spentBy # Nil)
  <2> DEFINE S == SpendersOf(d, txs, o)
  <2>1. e.output[o].spentBy = SpentByAfter(d, txs, o, Nil)
    BY <1>6 DEF SaveNextBlock, SavedOutputs, SavedOutput
  <2>2. \A row \in d.input : SpentOutput(row) # o
    BY <1>6 DEF InputsAreMarked, Unspent
  <2>3. RowsOn(e, o) = {row \in InputRows(d, txs) : SpentOutput(row) = o}
    BY <1>2, <2>2 DEF RowsOn
  <2>4. \A row \in RowsOn(e, o) : \E i \in S : row.tx = txs[i].hash
    BY <2>3, NewRowSpends
  <2>5. CASE S = {}
    BY <2>1, <2>4, <2>5, UnspentKeepsMark
  <2>6. CASE S # {}
    <3>1. PICK i \in S : /\ SpentByAfter(d, txs, o, Nil) = txs[i].hash
                         /\ \A j \in S : j <= i
      BY <2>6, MarkIsSpender
    <3>2. /\ i \in DOMAIN txs
          /\ \E k \in 1 .. Len(txs[i].txBody.inputs) : Outpoint(txs[i].txBody.inputs[k]) = o
      BY DEF SpendersOf
    <3>3. o \in Unspent(d)
      BY <3>2
    <3>4. txs[i].hash \in {row.tx : row \in RowsOn(e, o)}
      BY <2>3, <3>3, SpenderHasRow
    <3>5. ASSUME NEW row \in RowsOn(e, o)
          PROVE  row.tx = txs[i].hash \/ StoredAfter(e, txs[i].hash, row.tx)
      <4>1. PICK j \in S : row.tx = txs[j].hash
        BY <2>4
      <4>2. j \in DOMAIN txs /\ DOMAIN txs = 1 .. Len(txs) /\ Len(txs) \in Nat
        BY LenProperties DEF SpendersOf
      <4>3. e.transaction[txs[i].hash].block = e.transaction[txs[j].hash].block
        BY <1>4, <3>2, <4>2
      <4>4. HeightOf(e, txs[i].hash) = HeightOf(e, txs[j].hash)
        BY <4>3 DEF HeightOf, BlockOf
      <4>5. /\ e.transaction[txs[i].hash].index = i - 1
            /\ e.transaction[txs[j].hash].index = j - 1
        BY <1>4, <3>2, <4>2
      <4>6. j = i \/ j < i
        BY <3>1, <3>2, <4>2
      <4>7. CASE j < i
        BY <3>2, <4>1, <4>2, <4>4, <4>5, <4>7 DEF StoredAfter
      <4> QED BY <4>1, <4>6, <4>7
    <3>6. txs[i].hash # Nil
      BY <3>2
    <3> QED BY <2>1, <3>1, <3>4, <3>5, <3>6
  <2> QED BY <2>5, <2>6
<1> QED BY <1>5, <1>6

-----------------------------------------------------------------------------
(* The chain of blocks, and who spends what.                               *)

\* The blocks form one chain: no two are at one height, and every block but
\* the highest has one that follows it.
OneChain(d) ==
    /\ \A g, h \in DOMAIN d.block : d.block[g].height = d.block[h].height => g = h
    /\ \A g, h \in DOMAIN d.block :
            d.block[g].height < d.block[h].height => \E s \in DOMAIN d.block : d.block[s].prev = g

\* A block that checkChainInsert admits goes on top of all others.
LEMMA NewBlockIsHighest ==
    ASSUME NEW d, NEW b, ForeignKeys(d), OneChain(d), ChainAllows(d, b)
    PROVE  LET e == SaveNextBlock(d, b)
           IN /\ DOMAIN e.block = DOMAIN d.block \cup {b.hash}
              /\ e.block[b.hash].height \in Nat
              /\ \A h \in DOMAIN d.block :
                    e.block[h] = d.block[h] /\ d.block[h].height < e.block[b.hash].height
<1> DEFINE e == SaveNextBlock(d, b)
           prev == b.blockHeader.prevBlockHash
<1>1. /\ DOMAIN e.block = DOMAIN d.block \cup {b.hash}
      /\ e.block[b.hash].height = IF prev = Nil THEN 0 ELSE d.block[prev].height + 1
      /\ \A h \in DOMAIN d.block : e.block[h] = d.block[h]
  BY DEF SaveNextBlock, SavedBlocks, ChainAllows
<1>2. CASE prev = Nil
  BY <1>1, <1>2 DEF ChainAllows
<1>3. CASE prev # Nil
  <2>1. prev \in DOMAIN d.block /\ \A s \in DOMAIN d.block : d.block[s].prev # prev
    BY <1>3 DEF ChainAllows
  <2>2. \A h \in DOMAIN d.block : ~ (d.block[prev].height < d.block[h].height)
    BY <2>1 DEF OneChain
  <2>3. \A h \in DOMAIN d.block : d.block[h].height \in Nat
    BY DEF ForeignKeys
  <2> QED BY <1>1, <1>3, <2>1, <2>2, <2>3
<1> QED BY <1>1, <1>2, <1>3

\* SaveNextBlock keeps the blocks in one chain.
THEOREM SaveKeepsOneChain ==
    ASSUME NEW d, NEW b, ForeignKeys(d), OneChain(d), CanSave(d, b)
    PROVE  OneChain(SaveNextBlock(d, b))
<1> DEFINE e == SaveNextBlock(d, b)
           prev == b.blockHeader.prevBlockHash
<1>1. ChainAllows(d, b)
  BY DEF CanSave
<1>2. /\ DOMAIN e.block = DOMAIN d.block \cup {b.hash}
      /\ \A h \in DOMAIN d.block :
            /\ e.block[h] = d.block[h]
            /\ d.block[h].height \in Nat
            /\ d.block[h].height < e.block[b.hash].height
      /\ e.block[b.hash].height \in Nat
  BY <1>1, NewBlockIsHighest DEF ForeignKeys
<1>3. ASSUME NEW g \in DOMAIN e.block, NEW h \in DOMAIN e.block,
             e.block[g].height = e.block[h].height
      PROVE  g = h
  BY <1>2, <1>3 DEF OneChain
<1>4. ASSUME NEW g \in DOMAIN e.block, NEW h \in DOMAIN e.block,
             e.block[g].height < e.block[h].height
      PROVE  \E s \in DOMAIN e.block : e.block[s].prev = g
  <2>1. g \in DOMAIN d.block
    BY <1>2, <1>4
  <2>2. CASE h \in DOMAIN d.block
    BY <1>2, <1>4, <2>1, <2>2 DEF OneChain
  <2>3. CASE h = b.hash
    <3>1. e.block[b.hash].prev = prev
      BY DEF SaveNextBlock, SavedBlocks
    <3>2. CASE g = prev
      BY <1>2, <3>1, <3>2
    <3>3. CASE g # prev
      <4>1. prev \in DOMAIN d.block /\ \A s \in DOMAIN d.block : d.block[s].prev # prev
        BY <1>1, <2>1 DEF ChainAllows
      <4>2. d.block[g].height < d.block[prev].height
        BY <1>2, <2>1, <3>3, <4>1 DEF OneChain
      <4> QED BY <1>2, <2>1, <4>1, <4>2 DEF OneChain
    <3> QED BY <3>2, <3>3
  <2> QED BY <1>2, <2>2, <2>3
<1> QED BY <1>3, <1>4 DEF OneChain

\* A block whose transactions spend outputs of their signers, for what these
\* outputs are, is stored above the outputs that it spends.
THEOREM SaveKeepsSpentByOwners ==
    ASSUME NEW d, NEW b, ForeignKeys(d), OneChain(d), SpentByOwners(d), CanSave(d, b),
           \A i \in DOMAIN b.transactions :
              LET tx == b.transactions[i]
              IN \A k \in 1 .. Len(tx.txBody.inputs) :
                    /\ Outpoint(tx.txBody.inputs[k]) \in Unspent(d)
                    /\ d.output[Outpoint(tx.txBody.inputs[k])].spendPkey = tx.sig
                    /\ ValueTypeOf(d, Outpoint(tx.txBody.inputs[k])[1]) =
                            IF tx.txBody.voteType = 0 THEN tx.txBody.valueType ELSE Nil
    PROVE  SpentByOwners(SaveNextBlock(d, b))
<1> DEFINE txs == b.transactions
           e == SaveNextBlock(d, b)
<1>1. ChainAllows(d, b) /\ TxsAreNew(d, txs)
  BY DEF CanSave
<1>2. \A o \in DOMAIN d.output :
        o \in DOMAIN e.output /\ e.output[o].spendPkey = d.output[o].spendPkey
  BY DEF SaveNextBlock, SavedOutputs, SavedOutput
<1>3. ASSUME NEW h \in DOMAIN d.transaction
      PROVE  /\ e.transaction[h] = d.transaction[h] /\ HeightOf(e, h) = HeightOf(d, h)
             /\ ValueTypeOf(e, h) = ValueTypeOf(d, h)
             /\ HeightOf(d, h) < e.block[b.hash].height
  <2>1. e.transaction[h] = d.transaction[h] /\ HeightOf(e, h) = HeightOf(d, h)
    BY <1>1, SaveKeepsTransactions, SaveKeepsHeights
  <2>2. BlockOf(d, h) \in DOMAIN d.block
    BY DEF BlockOf, ForeignKeys
  <2> QED BY <1>1, <2>1, <2>2, NewBlockIsHighest DEF ValueTypeOf, HeightOf
<1> SUFFICES ASSUME NEW row \in e.input
             PROVE  /\ HeightOf(e, row.prevTx) < HeightOf(e, row.tx)
                    /\ SpentOutput(row) \in DOMAIN e.output
                    /\ e.output[SpentOutput(row)].spendPkey = e.transaction[row.tx].sig
                    /\ ValueTypeOf(e, row.prevTx) =
                        IF e.transaction[row.tx].txBody.voteType = 0
                        THEN e.transaction[row.tx].txBody.valueType ELSE Nil
  BY DEF SpentByOwners
<1>4. CASE row \in d.input
  <2>1. row.tx \in DOMAIN d.transaction /\ row.prevTx \in DOMAIN d.transaction
    BY <1>4 DEF ForeignKeys
  <2>2. /\ HeightOf(d, row.prevTx) < HeightOf(d, row.tx)
        /\ SpentOutput(row) \in DOMAIN d.output
        /\ d.output[SpentOutput(row)].spendPkey = d.transaction[row.tx].sig
        /\ ValueTypeOf(d, row.prevTx) =
                IF d.transaction[row.tx].txBody.voteType = 0
                THEN d.transaction[row.tx].txBody.valueType ELSE Nil
    BY <1>4 DEF SpentByOwners
  <2> QED BY <1>2, <1>3, <2>1, <2>2
<1>5. CASE row \in InputRows(d, txs)
  <2>1. PICK i \in DOMAIN txs : \E k \in 1 .. Len(txs[i].txBody.inputs) :
            /\ row.tx = txs[i].hash
            /\ SpentOutput(row) = Outpoint(txs[i].txBody.inputs[k])
    BY <1>5, NewRow
  <2>2. /\ SpentOutput(row) \in Unspent(d)
        /\ d.output[SpentOutput(row)].spendPkey = txs[i].sig
        /\ ValueTypeOf(d, SpentOutput(row)[1]) =
                IF txs[i].txBody.voteType = 0 THEN txs[i].txBody.valueType ELSE Nil
    BY <2>1
  <2>3. /\ SpentOutput(row) \in DOMAIN d.output /\ SpentOutput(row)[1] = row.prevTx
        /\ row.prevTx \in DOMAIN d.transaction
    BY <2>2 DEF Unspent, SpentOutput, ForeignKeys
  <2>4. e.transaction[row.tx] = [block |-> b.hash, index |-> i - 1,
                                 txBody |-> txs[i].txBody, sig |-> txs[i].sig]
    BY <1>1, <2>1, StoredAtIndex
  <2>5. /\ e.transaction[row.tx].txBody = txs[i].txBody /\ e.transaction[row.tx].sig = txs[i].sig
        /\ HeightOf(e, row.tx) = e.block[b.hash].height
    BY <2>4 DEF HeightOf, BlockOf
  <2> QED BY <1>2, <1>3, <2>2, <2>3, <2>5
<1> QED BY <1>4, <1>5 DEF SaveNextBlock

-----------------------------------------------------------------------------
(* The executor.                                                           *)

\* The first input that fails decides the verdict, so none fails.
LEMMA NoBadInputs ==
    ASSUME NEW d, NEW tx, TransferVerdict(d, tx) = "CodeOk"
    PROVE  BadInputs(d, tx.txBody) = {}
<1> DEFINE body == tx.txBody
<1> SUFFICES ASSUME BadInputs(d, body) # {} PROVE FALSE
  OBVIOUS
<1>1. BadInputs(d, body) \subseteq Nat
  BY DEF BadInputs
<1>2. FirstBadInput(d, body) \in BadInputs(d, body)
  BY <1>1, LeastNat DEF FirstBadInput
<1>3. InputVerdict(d, body, FirstBadInput(d, body)) # "CodeOk"
  BY <1>2 DEF BadInputs
<1> QED BY <1>3 DEF TransferVerdict

\* A transaction that AppendTx accepts spends unspent outputs only.
LEMMA AcceptedSpendsUnspent ==
    ASSUME NEW d, NEW tx, BodyVerdict(d, tx) = "CodeOk"
    PROVE  \A k \in 1 .. Len(tx.txBody.inputs) : Outpoint(tx.txBody.inputs[k]) \in Unspent(d)
<1> DEFINE body == tx.txBody
<1>1. CASE IsCoinbase(body)
  BY <1>1 DEF IsCoinbase
<1>2. CASE ~ IsCoinbase(body)
  <2>1. TransferVerdict(d, tx) = "CodeOk"
    BY <1>2 DEF BodyVerdict
  <2>2. BadInputs(d, body) = {}
    BY <2>1, NoBadInputs
  <2>3. \A k \in 1 .. Len(body.inputs) : InputVerdict(d, body, k) = "CodeOk"
    BY <2>2 DEF BadInputs
  <2> QED BY <2>3 DEF InputVerdict
<1> QED BY <1>1, <1>2

\* The outputs that an accepted transaction spends belong to its signer: they
\* have the owner of the first one, whose signature is verified.
LEMMA AcceptedSpendsOwn ==
    ASSUME NEW d, NEW tx, BodyVerdict(d, tx) = "CodeOk"
    PROVE  \A k \in 1 .. Len(tx.txBody.inputs) :
                d.output[Outpoint(tx.txBody.inputs[k])].spendPkey = tx.sig
<1> DEFINE body == tx.txBody
<1>1. CASE IsCoinbase(body)
  BY <1>1 DEF IsCoinbase
<1>2. CASE ~ IsCoinbase(body)
  <2>1. TransferVerdict(d, tx) = "CodeOk"
    BY <1>2 DEF BodyVerdict
  <2>2. BadInputs(d, body) = {}
    BY <2>1, NoBadInputs
  <2>3. \A k \in 1 .. Len(body.inputs) : InputVerdict(d, body, k) = "CodeOk"
    BY <2>2 DEF BadInputs
  <2>4. \A k \in 1 .. Len(body.inputs) :
            d.output[Outpoint(body.inputs[k])].spendPkey = Sender(d, body)
    BY <2>3 DEF InputVerdict
  <2>5. VerifySig(tx, Sender(d, body)) = "CodeOk"
    BY <2>1, <2>2 DEF TransferVerdict
  <2>6. tx.sig = Sender(d, body)
    BY <2>5 DEF VerifySig, VerifyData
  <2> QED BY <2>4, <2>6
<1> QED BY <1>1, <1>2

\* An accepted transaction carries the hash of its body.
LEMMA AcceptedIsHashed ==
    ASSUME NEW ex, NEW d, NEW tx, NEW ignore, Accepts(ex, d, tx, ignore)
    PROVE  tx.hash = Hash(tx.txBody)
BY DEF Accepts, ParseVerdict

\* A digest is not empty.
LEMMA HashNotNil == \A x : Hash(x) # Nil
BY DEF Hash, Nil

LEMMA HashInjective == \A x, y : Hash(x) = Hash(y) => x = y
BY DEF Hash

\* The verdict compares the value type of an input with what it is spent on.
LEMMA AcceptedKeepsType ==
    ASSUME NEW d, NEW tx, BodyVerdict(d, tx) = "CodeOk"
    PROVE  \A k \in 1 .. Len(tx.txBody.inputs) :
                ValueTypeOf(d, Outpoint(tx.txBody.inputs[k])[1]) =
                    IF tx.txBody.voteType = 0 THEN tx.txBody.valueType ELSE Nil
<1> DEFINE body == tx.txBody
<1>1. CASE IsCoinbase(body)
  BY <1>1 DEF IsCoinbase
<1>2. CASE ~ IsCoinbase(body)
  <2>1. TransferVerdict(d, tx) = "CodeOk"
    BY <1>2 DEF BodyVerdict
  <2>2. BadInputs(d, body) = {}
    BY <2>1, NoBadInputs
  <2>3. \A k \in 1 .. Len(body.inputs) : InputVerdict(d, body, k) = "CodeOk"
    BY <2>2 DEF BadInputs
  <2>4. KindVerdict(d, body) = "CodeOk"
    BY <2>1, <2>2 DEF TransferVerdict
  <2>5. body.voteType = 0 => body.hashLink = Nil
    BY <2>4 DEF KindVerdict
  <2> QED BY <2>3, <2>5 DEF InputVerdict
<1> QED BY <1>1, <1>2

\* The first reward of a block, signed by its proposer.
FirstReward(d, tx) ==
    /\ GetTxByHashLink(d, tx.txBody.hashLink) = {}
    /\ tx.txBody.hashLink \in DOMAIN d.block
    /\ d.block[tx.txBody.hashLink].proposerPkey = tx.sig

\* No other reward is accepted.
LEMMA AcceptedReward ==
    ASSUME NEW d, NEW tx, IsCoinbase(tx.txBody), BodyVerdict(d, tx) = "CodeOk"
    PROVE  FirstReward(d, tx)
<1> DEFINE hashLink == tx.txBody.hashLink
<1>1. CoinbaseVerdict(d, tx) = "CodeOk"
  BY DEF BodyVerdict
<1>2. /\ GetTxByHashLink(d, hashLink) = {} /\ GetBlockByHash(d, hashLink) # {}
      /\ \A h \in GetBlockByHash(d, hashLink) :
            d.block[h].proposerPkey = tx.txBody.outputs[1].spendPkey
      /\ VerifySig(tx, tx.txBody.outputs[1].spendPkey) = "CodeOk"
  BY <1>1 DEF CoinbaseVerdict
<1>3. hashLink \in DOMAIN d.block /\ hashLink \in GetBlockByHash(d, hashLink)
  BY <1>2 DEF GetBlockByHash
<1>4. tx.sig = tx.txBody.outputs[1].spendPkey
  BY <1>2 DEF VerifySig, VerifyData
<1> QED BY <1>2, <1>3, <1>4 DEF FirstReward

\* What is accepted is a reward, or spends an unspent output of its signer.
LEMMA AcceptedIsPaid ==
    ASSUME NEW d, NEW tx, BodyVerdict(d, tx) = "CodeOk", ~ IsCoinbase(tx.txBody)
    PROVE  /\ tx.txBody.inputs # <<>> /\ Outpoint(tx.txBody.inputs[1]) \in Unspent(d)
           /\ tx.sig = Sender(d, tx.txBody)
<1>1. TransferVerdict(d, tx) = "CodeOk"
  BY DEF BodyVerdict
<1>2. BadInputs(d, tx.txBody) = {}
  BY <1>1, NoBadInputs
<1>3. VerifySig(tx, Sender(d, tx.txBody)) = "CodeOk"
  BY <1>1, <1>2 DEF TransferVerdict
<1>4. tx.sig \in Keys /\ tx.sig = Sender(d, tx.txBody)
  BY <1>3 DEF VerifySig, VerifyData
<1>5. Sender(d, tx.txBody) # Nil
  BY <1>4, KeysAssumption
<1> QED BY <1>4, <1>5 DEF Sender

\* The rewards among some transactions reward different blocks, unless they
\* have one hash, which is stored once.
RewardsDiffer(txs) ==
    \A i, j \in DOMAIN txs :
        /\ IsCoinbase(txs[i].txBody)
        /\ IsCoinbase(txs[j].txBody)
        /\ txs[i].txBody.hashLink = txs[j].txBody.hashLink
        => txs[i].hash = txs[j].hash

\* The rewards that a block adds are first ones: none of them is for a block
\* that an older one is for.  The older ones stay as they are.
LEMMA RewardsAreAdded ==
    ASSUME NEW d, NEW b, ForeignKeys(d), OneChain(d), CanSave(d, b),
           \A h \in RewardTxs(d) : PaysProposer(d, h),
           \A i \in DOMAIN b.transactions :
                IsCoinbase(b.transactions[i].txBody) => FirstReward(d, b.transactions[i])
    PROVE  LET e == SaveNextBlock(d, b)
               txs == b.transactions
           IN /\ \A h \in RewardTxs(e) : PaysProposer(e, h)
              /\ \A h \in RewardTxs(e) \cap DOMAIN d.transaction :
                    /\ h \in RewardTxs(d) /\ BlockOf(e, h) = BlockOf(d, h)
                    /\ RewardedBlock(e, h) = RewardedBlock(d, h)
                    /\ \A g \in RewardTxs(e) :
                        RewardedBlock(e, g) = RewardedBlock(e, h) => g \in DOMAIN d.transaction
              /\ \A h \in RewardTxs(e) \ DOMAIN d.transaction :
                    \E i \in DOMAIN txs :
                        /\ h = txs[i].hash /\ IsCoinbase(txs[i].txBody)
                        /\ RewardedBlock(e, h) = txs[i].txBody.hashLink
                        /\ BlockOf(e, h) = b.hash
<1> DEFINE txs == b.transactions
           e == SaveNextBlock(d, b)
           top == e.block[b.hash].height
<1>1. ChainAllows(d, b) /\ TxsAreNew(d, txs)
  BY DEF CanSave
<1>2. /\ DOMAIN d.block \subseteq DOMAIN e.block
      /\ \A h \in DOMAIN d.block : e.block[h] = d.block[h] /\ d.block[h].height < top
  BY <1>1, NewBlockIsHighest
<1>3. DOMAIN e.transaction = DOMAIN d.transaction \cup {txs[i].hash : i \in DOMAIN txs}
  BY DEF SaveNextBlock, SavedTransactions
<1>4. \A h \in DOMAIN d.transaction :
        e.transaction[h] = d.transaction[h] /\ HeightOf(e, h) = HeightOf(d, h)
  BY <1>1, SaveKeepsTransactions, SaveKeepsHeights
<1>5. ASSUME NEW i \in DOMAIN txs
      PROVE  /\ e.transaction[txs[i].hash].txBody = txs[i].txBody
             /\ e.transaction[txs[i].hash].sig = txs[i].sig
             /\ BlockOf(e, txs[i].hash) = b.hash
             /\ HeightOf(e, txs[i].hash) = top
  <2>1. e.transaction[txs[i].hash] = [block |-> b.hash, index |-> i - 1,
                                      txBody |-> txs[i].txBody, sig |-> txs[i].sig]
    BY <1>1, StoredAtIndex
  <2> QED BY <2>1 DEF HeightOf, BlockOf
<1> HIDE DEF e
<1>6. ASSUME NEW h \in RewardTxs(e), h \notin DOMAIN d.transaction
      PROVE  \E i \in DOMAIN txs :
                /\ h = txs[i].hash /\ IsCoinbase(txs[i].txBody)
                /\ RewardedBlock(e, h) = txs[i].txBody.hashLink /\ BlockOf(e, h) = b.hash
                /\ FirstReward(d, txs[i]) /\ PaysProposer(e, h)
  <2>1. PICK i \in DOMAIN txs : h = txs[i].hash
    BY <1>3, <1>6 DEF RewardTxs
  <2>2. IsCoinbase(txs[i].txBody) /\ RewardedBlock(e, h) = txs[i].txBody.hashLink
    BY <1>5, <1>6, <2>1 DEF RewardTxs, RewardedBlock
  <2>3. FirstReward(d, txs[i])
    BY <2>2
  <2>4. PaysProposer(e, h)
    BY <1>2, <1>5, <2>1, <2>2, <2>3 DEF FirstReward, PaysProposer
  <2> QED BY <1>5, <2>1, <2>2, <2>3, <2>4
<1>7. ASSUME NEW h \in RewardTxs(e), h \in DOMAIN d.transaction
      PROVE  /\ h \in RewardTxs(d) /\ BlockOf(e, h) = BlockOf(d, h)
             /\ RewardedBlock(e, h) = RewardedBlock(d, h) /\ RewardedBlock(e, h) # Nil
             /\ PaysProposer(e, h)
  <2>1. /\ h \in RewardTxs(d) /\ RewardedBlock(e, h) = RewardedBlock(d, h)
        /\ BlockOf(e, h) = BlockOf(d, h)
    BY <1>4, <1>7 DEF RewardTxs, RewardedBlock, BlockOf
  <2>2. RewardedBlock(e, h) # Nil
    BY <1>7 DEF RewardTxs, RewardedBlock, IsCoinbase
  <2>3. PaysProposer(e, h)
    BY <1>2, <1>4, <1>7, <2>1 DEF PaysProposer
  <2> QED BY <2>1, <2>2, <2>3
<1>8. ASSUME NEW h \in RewardTxs(e), h \in DOMAIN d.transaction,
             NEW g \in RewardTxs(e), RewardedBlock(e, g) = RewardedBlock(e, h)
      PROVE  g \in DOMAIN d.transaction
  <2> SUFFICES ASSUME g \notin DOMAIN d.transaction PROVE FALSE
    OBVIOUS
  <2>1. GetTxByHashLink(d, RewardedBlock(e, g)) = {}
    BY <1>6 DEF FirstReward
  <2>2. RewardedBlock(e, h) # Nil /\ d.transaction[h].txBody.hashLink = RewardedBlock(e, h)
    BY <1>7, <1>8 DEF RewardedBlock
  <2> QED BY <1>8, <2>1, <2>2 DEF GetTxByHashLink
<1>9. \A h \in RewardTxs(e) : PaysProposer(e, h)
  BY <1>6, <1>7
<1> QED BY <1>6, <1>7, <1>8, <1>9 DEF e

\* When they also reward different blocks, every block is rewarded once.
THEOREM SaveKeepsRewardedOnce ==
    ASSUME NEW d, NEW b, RewardsDiffer(b.transactions),
           ForeignKeys(d), OneChain(d), RewardedOnce(d), CanSave(d, b),
           \A i \in DOMAIN b.transactions :
                IsCoinbase(b.transactions[i].txBody) => FirstReward(d, b.transactions[i])
    PROVE  RewardedOnce(SaveNextBlock(d, b))
<1> DEFINE e == SaveNextBlock(d, b)
<1>1. /\ \A h \in RewardTxs(e) : PaysProposer(e, h)
      /\ \A h \in RewardTxs(e) \cap DOMAIN d.transaction :
            /\ h \in RewardTxs(d) /\ RewardedBlock(e, h) = RewardedBlock(d, h)
            /\ \A g \in RewardTxs(e) :
                RewardedBlock(e, g) = RewardedBlock(e, h) => g \in DOMAIN d.transaction
      /\ \A h \in RewardTxs(e) \ DOMAIN d.transaction :
            \E i \in DOMAIN b.transactions :
                /\ h = b.transactions[i].hash /\ IsCoinbase(b.transactions[i].txBody)
                /\ RewardedBlock(e, h) = b.transactions[i].txBody.hashLink
  BY RewardsAreAdded DEF RewardedOnce
<1> HIDE DEF e
<1>2. ASSUME NEW h \in RewardTxs(e), NEW g \in RewardTxs(e),
             RewardedBlock(e, g) = RewardedBlock(e, h)
      PROVE  g = h
  <2>1. CASE h \in DOMAIN d.transaction
    BY <1>1, <1>2, <2>1 DEF RewardedOnce
  <2>2. CASE h \notin DOMAIN d.transaction
    <3>1. g \notin DOMAIN d.transaction
      BY <1>1, <1>2, <2>2
    <3> QED BY <1>1, <1>2, <2>2, <3>1 DEF RewardsDiffer
  <2> QED BY <2>1, <2>2
<1> QED BY <1>1, <1>2 DEF RewardedOnce, e

\* Whatever rewards a block adds, those of one block are in one block.
THEOREM SaveKeepsRewardsInOneBlock ==
    ASSUME NEW d, NEW b, ForeignKeys(d), OneChain(d), RewardsInOneBlock(d), CanSave(d, b),
           \A i \in DOMAIN b.transactions :
                IsCoinbase(b.transactions[i].txBody) => FirstReward(d, b.transactions[i])
    PROVE  RewardsInOneBlock(SaveNextBlock(d, b))
<1> DEFINE e == SaveNextBlock(d, b)
<1>1. /\ \A h \in RewardTxs(e) : PaysProposer(e, h)
      /\ \A h \in RewardTxs(e) \cap DOMAIN d.transaction :
            /\ h \in RewardTxs(d) /\ RewardedBlock(e, h) = RewardedBlock(d, h)
            /\ BlockOf(e, h) = BlockOf(d, h)
            /\ \A g \in RewardTxs(e) :
                RewardedBlock(e, g) = RewardedBlock(e, h) => g \in DOMAIN d.transaction
      /\ \A h \in RewardTxs(e) \ DOMAIN d.transaction : BlockOf(e, h) = b.hash
  BY RewardsAreAdded DEF RewardsInOneBlock
<1> HIDE DEF e
<1>2. ASSUME NEW h \in RewardTxs(e), NEW g \in RewardTxs(e),
             RewardedBlock(e, g) = RewardedBlock(e, h)
      PROVE  BlockOf(e, g) = BlockOf(e, h)
  <2>1. CASE h \in DOMAIN d.transaction
    BY <1>1, <1>2, <2>1 DEF RewardsInOneBlock
  <2>2. CASE h \notin DOMAIN d.transaction
    <3>1. g \notin DOMAIN d.transaction
      BY <1>1, <1>2, <2>2
    <3> QED BY <1>1, <2>2, <3>1
  <2> QED BY <2>1, <2>2
<1> QED BY <1>1, <1>2 DEF RewardsInOneBlock, e

\* A stored transaction is found by its hash, and has spent its first input.
StoredOnce(d) ==
    \A h \in DOMAIN d.transaction :
        LET body == d.transaction[h].txBody
        IN /\ h = Hash(body)
           /\ body.inputs # <<>> =>
                Outpoint(body.inputs[1]) \in DOMAIN d.output \ Unspent(d)

LEMMA AcceptedIsNew ==
    ASSUME NEW d, StoredOnce(d), NEW tx, BodyVerdict(d, tx) = "CodeOk",
           tx.hash = Hash(tx.txBody)
    PROVE  tx.hash \notin DOMAIN d.transaction
<1> SUFFICES ASSUME tx.hash \in DOMAIN d.transaction PROVE FALSE
  OBVIOUS
<1>1. d.transaction[tx.hash].txBody = tx.txBody
  BY HashInjective DEF StoredOnce
<1>2. CASE IsCoinbase(tx.txBody)
  <2>1. GetTxByHashLink(d, tx.txBody.hashLink) = {}
    BY <1>2, AcceptedReward DEF FirstReward
  <2> QED BY <1>1, <1>2, <2>1 DEF GetTxByHashLink, IsCoinbase
<1>3. CASE ~ IsCoinbase(tx.txBody)
  BY <1>1, <1>3, AcceptedIsPaid DEF StoredOnce
<1> QED BY <1>2, <1>3

\* Saving what is accepted keeps every transaction found by its hash, and spent.
LEMMA SaveKeepsStoredOnce ==
    ASSUME NEW d, NEW b, ForeignKeys(d), StoredOnce(d), TxsAreNew(d, b.transactions),
           \A i \in DOMAIN b.transactions :
                /\ b.transactions[i].hash = Hash(b.transactions[i].txBody)
                /\ b.transactions[i].txBody.inputs # <<>> =>
                        1 \in 1 .. Len(b.transactions[i].txBody.inputs)
                /\ \A k \in 1 .. Len(b.transactions[i].txBody.inputs) :
                        Outpoint(b.transactions[i].txBody.inputs[k]) \in Unspent(d),
           InputsAreMarked(SaveNextBlock(d, b))
    PROVE  StoredOnce(SaveNextBlock(d, b))
<1> DEFINE txs == b.transactions
           e == SaveNextBlock(d, b)
<1> SUFFICES ASSUME NEW h \in DOMAIN e.transaction
             PROVE  LET body == e.transaction[h].txBody
                    IN /\ h = Hash(body)
                       /\ body.inputs # <<>> =>
                            Outpoint(body.inputs[1]) \in DOMAIN e.output \ Unspent(e)
  BY DEF StoredOnce
<1>1. DOMAIN e.transaction = DOMAIN d.transaction \cup {txs[i].hash : i \in DOMAIN txs}
  BY DEF SaveNextBlock, SavedTransactions
<1>2. CASE h \in DOMAIN d.transaction
  <2>1. e.transaction[h] = d.transaction[h]
    BY <1>2, SaveKeepsTransactions
  <2>2. \A o \in DOMAIN d.output \ Unspent(d) : o \in DOMAIN e.output \ Unspent(e)
    BY SaveKeepsOutputs DEF Unspent
  <2> QED BY <1>2, <2>1, <2>2 DEF StoredOnce
<1>3. CASE h \notin DOMAIN d.transaction
  <2>1. PICK i \in DOMAIN txs : h = txs[i].hash
    BY <1>1, <1>3
  <2>2. e.transaction[h].txBody = txs[i].txBody
    <3>1. e.transaction[txs[i].hash] = [block |-> b.hash, index |-> i - 1,
                                        txBody |-> txs[i].txBody, sig |-> txs[i].sig]
      BY StoredAtIndex
    <3> QED BY <2>1, <3>1
  <2>3. h = Hash(txs[i].txBody)
    BY <2>1
  <2>4. ASSUME txs[i].txBody.inputs # <<>>
        PROVE  Outpoint(txs[i].txBody.inputs[1]) \in DOMAIN e.output \ Unspent(e)
    <3> DEFINE input == txs[i].txBody.inputs[1]
               row == [tx |-> h, index |-> 0, prevTx |-> input.prevTxHash,
                       outputIndex |-> input.outputIndex]
    <3>1. 1 \in 1 .. Len(txs[i].txBody.inputs)
      BY <2>4
    <3>2. Outpoint(input) \in Unspent(d)
      BY <3>1
    <3>3. input.prevTxHash \in DOMAIN d.transaction
      <4>1. Outpoint(input)[1] \in DOMAIN d.transaction
        BY <3>2 DEF Unspent, ForeignKeys
      <4> QED BY <4>1 DEF Outpoint
    <3>4. row = [tx |-> txs[i].hash, index |-> 1 - 1, prevTx |-> input.prevTxHash,
                 outputIndex |-> input.outputIndex]
      BY <2>1
    <3>5. row \in InputRows(d, txs)
      <4> DEFINE known == {n \in 1 .. Len(txs[i].txBody.inputs) :
                            txs[i].txBody.inputs[n].prevTxHash \in KnownAt(d, txs, i)}
                 rows == {[tx |-> txs[i].hash, index |-> k - 1,
                           prevTx |-> txs[i].txBody.inputs[k].prevTxHash,
                           outputIndex |-> txs[i].txBody.inputs[k].outputIndex] : k \in known}
      <4>1. 1 \in known
        BY <3>1, <3>3 DEF KnownAt
      <4>2. row \in rows
        BY <3>4, <4>1
      <4>3. rows \subseteq InputRows(d, txs)
        BY DEF InputRows
      <4> QED BY <4>2, <4>3
    <3>6. row \in e.input
      BY <3>5 DEF SaveNextBlock
    <3>7. SpentOutput(row) = Outpoint(input)
      BY DEF SpentOutput, Outpoint
    <3> QED BY <3>6, <3>7 DEF InputsAreMarked
  <2> QED BY <2>2, <2>3, <2>4
<1> QED BY <1>2, <1>3

-----------------------------------------------------------------------------
(* uint32 sums.                                                            *)

LEMMA FiniteIndexes == \A n \in Nat : IsFiniteSet(1 .. n)
BY FS_Interval

\* A list of n integers.
IsList(v, n) == n \in Nat /\ DOMAIN v = 1 .. n /\ IntOn(v, 1 .. n)

LEMMA ListSumInt == ASSUME NEW v, NEW n, IsList(v, n) PROVE SumOf(v, 1 .. n) \in Int
BY FS_Interval, SumInt DEF IsList

LEMMA Add32Type == \A a, b \in Int : Add32(a, b) \in Int
<1> TAKE a, b \in Int
<1>1. a + b \in Int
  OBVIOUS
<1>2. (a + b) % U32 \in 0 .. (U32 - 1)
  BY <1>1, U32Assumption, DivMod
<1> QED BY <1>2, U32Assumption DEF Add32

\* What Sum32 chooses: the sum of the values at each set of indexes.
Sum32Table(it, v, n) ==
    it = [s \in SUBSET (1 .. n) |->
            IF s = {} THEN 0 ELSE LET x == Max(s) IN Add32(it[s \ {x}], v[x])]

LEMMA Sum32Chooses ==
    ASSUME NEW v, NEW n, DOMAIN v = 1 .. n
    PROVE  Sum32(v) = (CHOOSE it : Sum32Table(it, v, n))[1 .. n]
BY DEF Sum32, FoldLeft, MapThenFoldSet, Sum32Table

LEMMA Sum32TableExists ==
    ASSUME NEW v, NEW n, IsList(v, n)
    PROVE  Sum32Table(CHOOSE it : Sum32Table(it, v, n), v, n)
<1> DEFINE f == [p \in Int \X (1 .. n) |-> Add32(p[1], v[p[2]])]
<1>1. \A a \in Int : \A i \in 1 .. n : f[<<a, i>>] = Add32(a, v[i])
  OBVIOUS
<1>0. \A a \in Int : \A i \in 1 .. n : f[<<a, i>>] \in Int
  BY <1>1, Add32Type DEF IsList, IntOn
<1>2. n \in Nat /\ 0 \in Int
  BY DEF IsList
<1> HIDE DEF f
<1>3. PICK it \in [SUBSET (1 .. n) -> Int] : AreFolds(it, n, 0, f)
  BY <1>0, <1>2, FoldsExist
<1>4. ASSUME NEW s \in SUBSET (1 .. n)
      PROVE  it[s] = IF s = {} THEN 0 ELSE Add32(it[s \ {Max(s)}], v[Max(s)])
  <2>1. s # {} => Max(s) \in 1 .. n
    BY <1>2, MaxIndex
  <2> QED BY <1>1, <1>3, <2>1 DEF AreFolds
<1>5. it = [s \in SUBSET (1 .. n) |-> it[s]]
  BY <1>3
<1>6. Sum32Table(it, v, n)
  BY <1>4, <1>5 DEF Sum32Table
<1> QED BY <1>6

\* Sum32 is the sum of the values, wrapped once.
THEOREM Sum32Is ==
    ASSUME NEW v, NEW n, IsList(v, n)
    PROVE  Sum32(v) = SumOf(v, 1 .. n) % U32
<1> DEFINE it == CHOOSE t : Sum32Table(t, v, n)
           f == [p \in Int \X (1 .. n) |-> Add32(p[1], v[p[2]])]
<1>1. \A a \in Int : \A i \in 1 .. n : f[<<a, i>>] = Add32(a, v[i])
  OBVIOUS
<1>0. \A a \in Int : \A i \in 1 .. n : f[<<a, i>>] \in Int
  BY <1>1, Add32Type DEF IsList, IntOn
<1>2. n \in Nat /\ 0 \in Int /\ DOMAIN v = 1 .. n /\ IntOn(v, 1 .. n)
  BY DEF IsList
<1>3. Sum32Table(it, v, n)
  BY Sum32TableExists
<1> HIDE DEF f, it
<1>4. ASSUME NEW s \in SUBSET (1 .. n), s # {}, it[s \ {Max(s)}] \in Int
      PROVE  it[s] = f[<<it[s \ {Max(s)}], Max(s)>>]
  <2>1. Max(s) \in 1 .. n
    BY <1>2, <1>4, MaxIndex
  <2>2. it[s] = Add32(it[s \ {Max(s)}], v[Max(s)])
    BY <1>3, <1>4 DEF Sum32Table
  <2> QED BY <1>1, <1>4, <2>1, <2>2
<1>5. it[{}] = 0
  BY <1>3 DEF Sum32Table
<1>6. PICK r : IsRun(r, it, n, Int, 0, f)
  <2>1. FoldsTo(it, n, Int, 0, f)
    BY <1>0, <1>2, <1>4, <1>5 DEF FoldsTo
  <2> QED BY <2>1, FoldRun
<1> DEFINE N == {k \in Nat : k <= n => r[k] = SumOf(v, 1 .. k) % U32}
<1>7. 0 \in N
  <2>1. 1 .. 0 = {}
    OBVIOUS
  <2>2. 0 % U32 = 0
    BY U32Assumption, SmallRemainder
  <2> QED BY <1>6, <2>1, <2>2, SumEmpty DEF IsRun
<1>8. ASSUME NEW k \in Nat, k \in N PROVE k + 1 \in N
  <2> SUFFICES ASSUME k + 1 <= n PROVE r[k + 1] = SumOf(v, 1 .. k + 1) % U32
    OBVIOUS
  <2>1. k + 1 \in 1 .. n /\ (k + 1) - 1 = k /\ k \in 0 .. n /\ k <= n
    BY <1>2
  <2>2. r[k + 1] = Add32(r[k], v[k + 1]) /\ r[k] = SumOf(v, 1 .. k) % U32
    BY <1>1, <1>2, <1>6, <1>8, <2>1 DEF IsRun
  <2>3. /\ 1 .. k + 1 = (1 .. k) \cup {k + 1} /\ k + 1 \notin 1 .. k
        /\ IsFiniteSet(1 .. k)
        /\ \A i \in (1 .. k) \cup {k + 1} : i \in 1 .. n
    <3>1. 1 .. k + 1 = (1 .. k) \cup {k + 1} /\ k + 1 \notin 1 .. k
      OBVIOUS
    <3>2. \A i \in (1 .. k) \cup {k + 1} : i \in 1 .. n
      BY <1>2
    <3>3. IsFiniteSet(1 .. k)
      BY FS_Interval
    <3> QED BY <3>1, <3>2, <3>3
  <2>4. IntOn(v, (1 .. k) \cup {k + 1}) /\ IntOn(v, 1 .. k)
    BY <1>2, <2>3 DEF IntOn
  <2>5. SumOf(v, 1 .. k + 1) = v[k + 1] + SumOf(v, 1 .. k)
    BY <2>3, <2>4, SumMore
  <2>6. PICK a \in Int, b \in Int : a = SumOf(v, 1 .. k) /\ b = v[k + 1]
    BY <2>3, <2>4, SumInt DEF IntOn
  <2>7. ((a % U32) + b) % U32 = (a + b) % U32
    BY U32Assumption, RemainderOfSum
  <2>8. a + b = b + a
    OBVIOUS
  <2> QED BY <2>2, <2>5, <2>6, <2>7, <2>8 DEF Add32
<1> HIDE DEF N
<1>9. Nat \subseteq N
  BY <1>7, <1>8, NaturalInduct
<1>10. r[n] = SumOf(v, 1 .. n) % U32
  <2>1. n \in N /\ n <= n
    BY <1>2, <1>9
  <2> QED BY <2>1 DEF N
<1> QED BY <1>2, <1>6, <1>10, Sum32Chooses DEF it, IsRun

\* What one payee gets, with and without change.
LEMMA SumOfOne ==
    ASSUME NEW v, NEW a \in Int, v[1] = a
    PROVE  SumOf(v, 1 .. 1) = a
<1>1. 1 .. 1 = {} \cup {1} /\ 1 \notin {} /\ IsFiniteSet({})
  BY FS_EmptySet
<1>2. IntOn(v, {} \cup {1})
  BY DEF IntOn
<1>3. SumOf(v, {} \cup {1}) = v[1] + SumOf(v, {})
  BY <1>1, <1>2, SumMore
<1>4. SumOf(v, {}) = 0 /\ a + 0 = a
  BY SumEmpty
<1> QED BY <1>1, <1>3, <1>4

LEMMA SumOfTwo ==
    ASSUME NEW v, NEW a \in Int, NEW b \in Int, v[1] = a, v[2] = b
    PROVE  SumOf(v, 1 .. 2) = a + b
<1>1. 1 .. 2 = (1 .. 1) \cup {2} /\ 2 \notin 1 .. 1 /\ IsFiniteSet(1 .. 1)
  <2>1. IsFiniteSet(1 .. 1)
    BY FiniteIndexes
  <2> QED BY <2>1
<1>2. IntOn(v, (1 .. 1) \cup {2})
  BY <1>1 DEF IntOn
<1>3. SumOf(v, (1 .. 1) \cup {2}) = v[2] + SumOf(v, 1 .. 1)
  BY <1>1, <1>2, SumMore
<1>4. SumOf(v, 1 .. 1) = a /\ b + a = a + b
  BY SumOfOne
<1> QED BY <1>1, <1>3, <1>4

LEMMA OneOutputSum ==
    ASSUME NEW amount \in 0 .. (U32 - 1), NEW payee
    PROVE  OutputsSum(<<Output(amount, payee)>>) = amount
<1> DEFINE outs == <<Output(amount, payee)>>
           v == [i \in DOMAIN outs |-> outs[i].value]
<1>1. DOMAIN outs = 1 .. 1 /\ outs[1].value = amount
  BY DEF Output
<1>2. DOMAIN v = 1 .. 1 /\ v[1] = amount
  BY <1>1
<1>3. OutputsSum(outs) = Sum32(v)
  BY DEF OutputsSum
<1>4. amount \in Int /\ amount % U32 = amount
  BY U32Assumption, SmallRemainder
<1> HIDE DEF outs, v
<1>5. IsList(v, 1)
  BY <1>2, <1>4 DEF IsList, IntOn
<1>6. Sum32(v) = SumOf(v, 1 .. 1) % U32 /\ SumOf(v, 1 .. 1) = amount
  BY <1>2, <1>4, <1>5, Sum32Is, SumOfOne
<1> QED BY <1>3, <1>4, <1>6 DEF outs

-----------------------------------------------------------------------------
(* The inputs that CreateTx takes.                                         *)

\* One step of TakeInputs.
Taken(acc, u, valueType, need) ==
    IF u.valueType = valueType /\ acc.sum < need
    THEN [inputs |-> Append(acc.inputs, Input(u.txHash, u.index)),
          sum    |-> Add32(acc.sum, u.value)]
    ELSE acc

NothingTaken == [inputs |-> <<>>, sum |-> 0]

TakeTable(it, utxos, n, valueType, need) ==
    it = [s \in SUBSET (1 .. n) |->
            IF s = {} THEN NothingTaken
            ELSE LET x == Max(s) IN Taken(it[s \ {x}], utxos[x], valueType, need)]

LEMMA TakeInputsChooses ==
    ASSUME NEW utxos, NEW n, DOMAIN utxos = 1 .. n, NEW valueType, NEW need
    PROVE  TakeInputs(utxos, valueType, need) =
                (CHOOSE it : TakeTable(it, utxos, n, valueType, need))[1 .. n]
BY DEF TakeInputs, FoldLeft, MapThenFoldSet, TakeTable, Taken, NothingTaken

\* Nothing is in P, and no step leaves P.
StaysIn(P, utxos, n, valueType, need) ==
    /\ n \in Nat /\ NothingTaken \in P
    /\ \A a \in P : \A i \in 1 .. n : Taken(a, utxos[i], valueType, need) \in P

LEMMA TakeTableExists ==
    ASSUME NEW n, NEW utxos, NEW valueType, NEW need, NEW P, StaysIn(P, utxos, n, valueType, need)
    PROVE  TakeTable(CHOOSE it : TakeTable(it, utxos, n, valueType, need),
                     utxos, n, valueType, need)
<1> USE DEF StaysIn
<1> DEFINE f == [p \in P \X (1 .. n) |-> Taken(p[1], utxos[p[2]], valueType, need)]
<1>1. \A a \in P : \A i \in 1 .. n : f[<<a, i>>] = Taken(a, utxos[i], valueType, need)
  OBVIOUS
<1>2. \A a \in P : \A i \in 1 .. n : f[<<a, i>>] \in P
  BY <1>1
<1> HIDE DEF f
<1>3. PICK t \in [SUBSET (1 .. n) -> P] : AreFolds(t, n, NothingTaken, f)
  BY <1>2, FoldsExist
<1>4. ASSUME NEW s \in SUBSET (1 .. n)
      PROVE  t[s] = IF s = {} THEN NothingTaken
                    ELSE Taken(t[s \ {Max(s)}], utxos[Max(s)], valueType, need)
  <2>1. s # {} => Max(s) \in 1 .. n
    BY MaxIndex
  <2> QED BY <1>1, <1>3, <2>1 DEF AreFolds
<1>5. t = [s \in SUBSET (1 .. n) |-> t[s]]
  BY <1>3
<1>6. TakeTable(t, utxos, n, valueType, need)
  BY <1>4, <1>5 DEF TakeTable
<1> QED BY <1>6

\* What holds of nothing and is kept by every step holds of what is taken.
LEMMA TakeInputsIn ==
    ASSUME NEW n \in Nat, NEW utxos, DOMAIN utxos = 1 .. n, NEW valueType, NEW need,
           NEW P, NothingTaken \in P,
           \A a \in P : \A i \in 1 .. n : Taken(a, utxos[i], valueType, need) \in P
    PROVE  TakeInputs(utxos, valueType, need) \in P
<1> DEFINE f == [p \in P \X (1 .. n) |-> Taken(p[1], utxos[p[2]], valueType, need)]
           it == CHOOSE t : TakeTable(t, utxos, n, valueType, need)
<1>1. \A a \in P : \A i \in 1 .. n : f[<<a, i>>] = Taken(a, utxos[i], valueType, need)
  OBVIOUS
<1>2. \A a \in P : \A i \in 1 .. n : f[<<a, i>>] \in P
  BY <1>1
<1>3. TakeTable(it, utxos, n, valueType, need)
  BY TakeTableExists DEF StaysIn
<1> HIDE DEF f, it
<1>4. FoldsTo(it, n, P, NothingTaken, f)
  <2>1. it[{}] = NothingTaken
    BY <1>3 DEF TakeTable
  <2>2. ASSUME NEW s \in SUBSET (1 .. n), s # {}, it[s \ {Max(s)}] \in P
        PROVE  it[s] = f[<<it[s \ {Max(s)}], Max(s)>>]
    <3>1. Max(s) \in 1 .. n
      BY <2>2, MaxIndex
    <3>2. it[s] = Taken(it[s \ {Max(s)}], utxos[Max(s)], valueType, need)
      BY <1>3, <2>2 DEF TakeTable
    <3> QED BY <1>1, <2>2, <3>1, <3>2
  <2> QED BY <1>2, <2>1, <2>2 DEF FoldsTo
<1>5. PICK r : IsRun(r, it, n, P, NothingTaken, f)
  BY <1>4, FoldRun
<1>6. it[1 .. n] = TakeInputs(utxos, valueType, need)
  BY TakeInputsChooses DEF it
<1>7. n \in 0 .. n
  OBVIOUS
<1> QED BY <1>5, <1>6, <1>7 DEF IsRun

\* One output of the right kind, when something is needed, is taken.
LEMMA OneUtxoIsTaken ==
    ASSUME NEW utxo, utxo.value \in Int, NEW need \in Int, need > 0
    PROVE  TakeInputs(<<utxo>>, utxo.valueType, need) =
                [inputs |-> <<Input(utxo.txHash, utxo.index)>>, sum |-> utxo.value % U32]
<1> DEFINE utxos == <<utxo>>
           type == utxo.valueType
           P == [inputs : Seq({Input(utxo.txHash, utxo.index)}), sum : Int]
           it == CHOOSE t : TakeTable(t, utxos, 1, type, need)
<1>1. DOMAIN utxos = 1 .. 1 /\ utxos[1] = utxo
  OBVIOUS
<1> HIDE DEF utxos
<1>2. StaysIn(P, utxos, 1, type, need)
  <2>1. ASSUME NEW a \in P, NEW i \in 1 .. 1 PROVE Taken(a, utxos[i], type, need) \in P
    <3>1. a.inputs \in Seq({Input(utxo.txHash, utxo.index)}) /\ a.sum \in Int
      OBVIOUS
    <3>2. /\ Append(a.inputs, Input(utxo.txHash, utxo.index))
                \in Seq({Input(utxo.txHash, utxo.index)})
          /\ Add32(a.sum, utxo.value) \in Int
      BY <3>1, AppendProperties, Add32Type
    <3> QED BY <1>1, <2>1, <3>2 DEF Taken
  <2>2. NothingTaken \in P
    BY EmptySeq DEF NothingTaken
  <2> QED BY <2>1, <2>2 DEF StaysIn
<1>3. TakeTable(it, utxos, 1, type, need)
  BY <1>2, TakeTableExists
<1> HIDE DEF it, P
<1>4. it[{}] = NothingTaken
  BY <1>3 DEF TakeTable
<1>5. it[1 .. 1] = Taken(it[{}], utxo, type, need)
  <2>1. Max(1 .. 1) = 1
    <3>1. 1 \in Nat \ {0}
      OBVIOUS
    <3> QED BY <3>1, MaxInterval
  <2>2. (1 .. 1) \ {1} = {} /\ 1 .. 1 # {} /\ 1 .. 1 \in SUBSET (1 .. 1)
    OBVIOUS
  <2> QED BY <1>1, <1>3, <2>1, <2>2 DEF TakeTable
<1>6. Taken(NothingTaken, utxo, type, need) =
        [inputs |-> <<Input(utxo.txHash, utxo.index)>>, sum |-> utxo.value % U32]
  <2>1. 0 + utxo.value = utxo.value /\ Append(<<>>, Input(utxo.txHash, utxo.index))
            = <<Input(utxo.txHash, utxo.index)>>
    OBVIOUS
  <2> QED BY <2>1 DEF Taken, NothingTaken, Add32
<1>7. TakeInputs(utxos, type, need) = it[1 .. 1]
  <2>1. DOMAIN utxos = 1 .. 1
    BY <1>1
  <2> HIDE DEF type
  <2> QED BY ONLY <2>1, TakeInputsChooses, Zenon DEF it
<1> QED BY <1>4, <1>5, <1>6, <1>7 DEF utxos

\* Two lists of one element.
LEMMA PairOfOnes ==
    ASSUME NEW a, NEW b
    PROVE  /\ DOMAIN (<<a>> \o <<b>>) = 1 .. 2 /\ Len(<<a>> \o <<b>>) = 2
           /\ (<<a>> \o <<b>>)[1] = a /\ (<<a>> \o <<b>>)[2] = b
<1> DEFINE s == <<a>>
           t == <<b>>
<1>1. s \in Seq({a, b}) /\ t \in Seq({a, b})
  OBVIOUS
<1>2. Len(s) = 1 /\ Len(t) = 1 /\ s[1] = a /\ t[1] = b
  OBVIOUS
<1> HIDE DEF s, t
<1>3. PICK S : S = {a, b}
  OBVIOUS
<1>4. s \in Seq(S) /\ t \in Seq(S)
  BY <1>1, <1>3
<1>5. /\ s \o t \in Seq(S) /\ Len(s \o t) = Len(s) + Len(t)
      /\ \A i \in 1 .. Len(s) + Len(t) :
            (s \o t)[i] = IF i <= Len(s) THEN s[i] ELSE t[i - Len(s)]
  BY <1>4, ConcatProperties
<1>6. (s \o t)[1] = s[1] /\ (s \o t)[2] = t[1] /\ Len(s \o t) = 2
  BY <1>2, <1>5
<1>7. DOMAIN (s \o t) = 1 .. 2
  BY <1>5, <1>6, LenProperties
<1> QED BY <1>2, <1>6, <1>7 DEF s, t

-----------------------------------------------------------------------------
(* One transaction: what it gives is what it takes.                        *)

OutValues(body) == [k \in DOMAIN body.outputs |-> body.outputs[k].value]

InValues(d, body) ==
    [k \in 1 .. Len(body.inputs) |-> d.output[Outpoint(body.inputs[k])].value]

\* A transaction whose inputs and outputs are lists, of integer values.
ProperTx(tx) ==
    /\ Len(tx.txBody.inputs) \in Nat
    /\ DOMAIN tx.txBody.inputs = 1 .. Len(tx.txBody.inputs)
    /\ tx.txBody.inputs # <<>> => 1 \in DOMAIN tx.txBody.inputs
    /\ DOMAIN tx.txBody.outputs = 1 .. Len(tx.txBody.outputs)
    /\ IsList(OutValues(tx.txBody), Len(tx.txBody.outputs))

ValuesAreInts(d) == \A o \in DOMAIN d.output : d.output[o].value \in Int

MintedBy(body) == IF IsCoinbase(body) THEN RewardCoins ELSE 0

\* What an accepted transaction gives is what it takes, and a reward mints
\* RewardCoins.
LEMMA AcceptedBalances ==
    ASSUME NEW d, ValuesAreInts(d), NEW tx, ProperTx(tx), BodyVerdict(d, tx) = "CodeOk"
    PROVE  LET body == tx.txBody
           IN /\ IsList(InValues(d, body), Len(body.inputs))
              /\ SumOf(OutValues(body), 1 .. Len(body.outputs)) % U32
                    = (MintedBy(body) + SumOf(InValues(d, body), 1 .. Len(body.inputs))) % U32
<1> DEFINE body == tx.txBody
           n == Len(body.outputs)
           m == Len(body.inputs)
<1>1. m \in Nat /\ IsList(OutValues(body), n)
  BY DEF ProperTx
<1>2. IsList(InValues(d, body), m)
  <2>1. \A k \in 1 .. m : Outpoint(body.inputs[k]) \in DOMAIN d.output
    BY AcceptedSpendsUnspent DEF Unspent
  <2> QED BY <1>1, <2>1 DEF IsList, IntOn, InValues, ValuesAreInts
<1>3. CASE IsCoinbase(body)
  <2>1. m = 0 /\ 1 .. m = {}
    <3>1. body.inputs = <<>>
      BY <1>3 DEF IsCoinbase
    <3> QED BY <3>1
  <2>2. CoinbaseVerdict(d, tx) = "CodeOk"
    BY <1>3 DEF BodyVerdict
  <2>3. n = 1 /\ body.outputs[1].value = RewardCoins
    BY <2>2 DEF CoinbaseVerdict
  <2>4. 1 .. n = {} \cup {1} /\ IsFiniteSet({}) /\ 1 \notin {}
    BY <2>3, FS_EmptySet
  <2>5. IntOn(OutValues(body), {} \cup {1}) /\ OutValues(body)[1] = RewardCoins
    BY <1>1, <2>3, <2>4 DEF IsList, OutValues
  <2>6. SumOf(OutValues(body), 1 .. n) = RewardCoins
    <3>1. SumOf(OutValues(body), {} \cup {1}) = RewardCoins + 0
      BY <2>4, <2>5, SumMore, SumEmpty
    <3>2. RewardCoins \in Int /\ RewardCoins + 0 = RewardCoins
      BY RewardAssumption
    <3> QED BY <2>4, <3>1, <3>2
  <2>7. MintedBy(body) + SumOf(InValues(d, body), 1 .. m) = RewardCoins
    BY <1>3, <2>1, SumEmpty, RewardAssumption DEF MintedBy
  <2> QED BY <1>2, <2>6, <2>7
<1>4. CASE ~ IsCoinbase(body)
  <2>1. TransferVerdict(d, tx) = "CodeOk"
    BY <1>4 DEF BodyVerdict
  <2>2. BadInputs(d, body) = {}
    BY <2>1, NoBadInputs
  <2>3. OutputsSum(body.outputs) = InputsSum(d, body)
    BY <2>1, <2>2 DEF TransferVerdict
  <2>4. Sum32(OutValues(body)) = Sum32(InValues(d, body))
    BY <2>3 DEF OutputsSum, InputsSum, OutValues, InValues
  <2>5. Sum32(OutValues(body)) = SumOf(OutValues(body), 1 .. n) % U32
    BY <1>1, Sum32Is
  <2>6. Sum32(InValues(d, body)) = SumOf(InValues(d, body), 1 .. m) % U32
    BY <1>2, Sum32Is
  <2>7. PICK s \in Int : s = SumOf(InValues(d, body), 1 .. m)
    BY <1>2, ListSumInt
  <2>8. MintedBy(body) + s = s
    BY <1>4 DEF MintedBy
  <2> QED BY <1>2, <2>4, <2>5, <2>6, <2>7, <2>8
<1> QED BY <1>3, <1>4

-----------------------------------------------------------------------------
(* The tables stay finite, and the values integers.                        *)

FiniteTables(d) ==
    IsFiniteSet(DOMAIN d.transaction) /\ IsFiniteSet(DOMAIN d.output) /\ IsFiniteSet(d.input)

LEMMA FiniteUnion ==
    ASSUME NEW S, IsFiniteSet(S), NEW T, IsFiniteSet(T) PROVE IsFiniteSet(S \cup T)
BY FS_Union

\* The image of a finite set.
LEMMA FiniteImage ==
    ASSUME NEW S, IsFiniteSet(S), NEW f
    PROVE  IsFiniteSet({f[x] : x \in S})
<1> DEFINE Q == {T \in SUBSET S : IsFiniteSet({f[x] : x \in T})}
<1>1. {} \in Q
  <2>1. {f[x] : x \in {}} = {}
    OBVIOUS
  <2> QED BY <2>1, FS_EmptySet
<1>2. ASSUME NEW T \in SUBSET S, NEW x \in S \ T, T \in Q PROVE T \cup {x} \in Q
  <2>1. {f[y] : y \in T \cup {x}} = {f[y] : y \in T} \cup {f[x]}
    OBVIOUS
  <2>2. IsFiniteSet({f[y] : y \in T} \cup {f[x]})
    BY <1>2, FS_AddElement
  <2> QED BY <2>1, <2>2
<1> HIDE DEF Q
<1>3. \A T \in SUBSET S : T \in Q
  BY <1>1, <1>2, FiniteInduct
<1>4. S \in Q
  BY <1>3
<1> QED BY <1>4 DEF Q

\* The union of a family of finite sets, one for each index.
LEMMA FiniteFamily ==
    ASSUME NEW n \in Nat, NEW F, \A i \in 1 .. n : IsFiniteSet(F[i])
    PROVE  IsFiniteSet(UNION {F[i] : i \in 1 .. n})
<1>1. IsFiniteSet(1 .. n)
  BY FS_Interval
<1>2. IsFiniteSet({F[i] : i \in 1 .. n})
  BY <1>1, FiniteImage
<1> QED BY <1>2, FS_UNION

\* The keys of the outputs of a transaction, and the rows of its inputs.
OutKey(h) == [k \in Nat |-> <<h, k - 1>>]

InRow(tx) ==
    [k \in 1 .. Len(tx.txBody.inputs) |->
        [tx |-> tx.hash, index |-> k - 1,
         prevTx |-> tx.txBody.inputs[k].prevTxHash,
         outputIndex |-> tx.txBody.inputs[k].outputIndex]]

LEMMA OutpointsAre ==
    ASSUME NEW tx, ProperTx(tx)
    PROVE  OutpointsOf(tx) = {OutKey(tx.hash)[k] : k \in 1 .. Len(tx.txBody.outputs)}
<1>1. /\ DOMAIN tx.txBody.outputs = 1 .. Len(tx.txBody.outputs)
      /\ \A k \in 1 .. Len(tx.txBody.outputs) : k \in Nat
  BY DEF ProperTx
<1> QED BY <1>1 DEF OutpointsOf, OutKey

\* Every input of the block has a row, when all name stored outputs.
LEMMA RowsAre ==
    ASSUME NEW d, NEW txs, ForeignKeys(d),
           \A i \in DOMAIN txs :
                \A k \in 1 .. Len(txs[i].txBody.inputs) :
                    Outpoint(txs[i].txBody.inputs[k]) \in Unspent(d)
    PROVE  InputRows(d, txs) =
                UNION {{InRow(txs[i])[k] : k \in 1 .. Len(txs[i].txBody.inputs)} :
                            i \in DOMAIN txs}
<1>1. ASSUME NEW i \in DOMAIN txs, NEW k \in 1 .. Len(txs[i].txBody.inputs)
      PROVE  txs[i].txBody.inputs[k].prevTxHash \in KnownAt(d, txs, i)
  <2>1. Outpoint(txs[i].txBody.inputs[k])[1] \in DOMAIN d.transaction
    BY DEF ForeignKeys, Unspent
  <2> QED BY <2>1 DEF Outpoint, KnownAt
<1>2. ASSUME NEW i \in DOMAIN txs
      PROVE  {n \in 1 .. Len(txs[i].txBody.inputs) :
                txs[i].txBody.inputs[n].prevTxHash \in KnownAt(d, txs, i)}
                = 1 .. Len(txs[i].txBody.inputs)
  BY <1>1
<1>3. ASSUME NEW i \in DOMAIN txs
      PROVE  {[tx |-> txs[i].hash, index |-> k - 1,
               prevTx |-> txs[i].txBody.inputs[k].prevTxHash,
               outputIndex |-> txs[i].txBody.inputs[k].outputIndex] :
                  k \in {n \in 1 .. Len(txs[i].txBody.inputs) :
                            txs[i].txBody.inputs[n].prevTxHash \in KnownAt(d, txs, i)}}
                = {InRow(txs[i])[k] : k \in 1 .. Len(txs[i].txBody.inputs)}
  BY <1>2 DEF InRow
<1> HIDE DEF InRow
<1> QED BY <1>3 DEF InputRows

LEMMA SaveKeepsFinite ==
    ASSUME NEW d, NEW b, NEW T, b.transactions \in Seq(T), ForeignKeys(d), FiniteTables(d),
           \A i \in DOMAIN b.transactions :
                /\ ProperTx(b.transactions[i])
                /\ \A k \in 1 .. Len(b.transactions[i].txBody.inputs) :
                        Outpoint(b.transactions[i].txBody.inputs[k]) \in Unspent(d)
    PROVE  FiniteTables(SaveNextBlock(d, b))
<1> DEFINE txs == b.transactions
           n == Len(txs)
           e == SaveNextBlock(d, b)
<1>1. n \in Nat /\ DOMAIN txs = 1 .. n
  BY LenProperties
<1>2. IsFiniteSet(DOMAIN e.transaction)
  <2> DEFINE f == [i \in 1 .. n |-> txs[i].hash]
  <2>1. IsFiniteSet({f[i] : i \in 1 .. n})
    BY <1>1, FiniteIndexes, FiniteImage
  <2>2. DOMAIN e.transaction = DOMAIN d.transaction \cup {f[i] : i \in 1 .. n}
    BY <1>1 DEF SaveNextBlock, SavedTransactions
  <2>3. IsFiniteSet(DOMAIN d.transaction)
    BY DEF FiniteTables
  <2> HIDE DEF f
  <2> QED BY <2>1, <2>2, <2>3, FiniteUnion
<1>3. IsFiniteSet(DOMAIN e.output)
  <2> DEFINE F == [i \in 1 .. n |-> OutpointsOf(txs[i])]
  <2>1. ASSUME NEW i \in 1 .. n PROVE IsFiniteSet(F[i])
    <3>1. Len(txs[i].txBody.outputs) \in Nat /\ ProperTx(txs[i])
      BY <1>1 DEF ProperTx, IsList
    <3>2. IsFiniteSet(1 .. Len(txs[i].txBody.outputs))
      BY <3>1, FiniteIndexes
    <3>3. IsFiniteSet({OutKey(txs[i].hash)[k] : k \in 1 .. Len(txs[i].txBody.outputs)})
      BY <3>2, FiniteImage
    <3> QED BY <3>1, <3>3, OutpointsAre
  <2>2. IsFiniteSet(UNION {F[i] : i \in 1 .. n})
    BY <1>1, <2>1, FiniteFamily
  <2>3. DOMAIN e.output = DOMAIN d.output \cup UNION {F[i] : i \in 1 .. n}
    BY <1>1 DEF SaveNextBlock, SavedOutputs
  <2>4. IsFiniteSet(DOMAIN d.output)
    BY DEF FiniteTables
  <2> HIDE DEF F
  <2> QED BY <2>2, <2>3, <2>4, FiniteUnion
<1>4. IsFiniteSet(e.input)
  <2> DEFINE F == [i \in 1 .. n |-> {InRow(txs[i])[k] : k \in 1 .. Len(txs[i].txBody.inputs)}]
  <2>1. ASSUME NEW i \in 1 .. n PROVE IsFiniteSet(F[i])
    <3>1. Len(txs[i].txBody.inputs) \in Nat
      BY <1>1 DEF ProperTx
    <3>2. IsFiniteSet(1 .. Len(txs[i].txBody.inputs))
      BY <3>1, FiniteIndexes
    <3> QED BY <3>2, FiniteImage
  <2>2. IsFiniteSet(UNION {F[i] : i \in 1 .. n})
    BY <1>1, <2>1, FiniteFamily
  <2>3. InputRows(d, txs) =
            UNION {{InRow(txs[i])[k] : k \in 1 .. Len(txs[i].txBody.inputs)} : i \in DOMAIN txs}
    BY RowsAre
  <2>4. e.input = d.input \cup UNION {F[i] : i \in 1 .. n}
    <3>1. e.input = d.input \cup InputRows(d, txs)
      BY DEF SaveNextBlock
    <3>2. UNION {{InRow(txs[i])[k] : k \in 1 .. Len(txs[i].txBody.inputs)} : i \in DOMAIN txs}
            = UNION {F[i] : i \in 1 .. n}
      <4> DEFINE G(i) == {InRow(txs[i])[k] : k \in 1 .. Len(txs[i].txBody.inputs)}
      <4>1. DOMAIN txs = 1 .. n
        BY <1>1
      <4>2. \A i \in 1 .. n : F[i] = G(i)
        OBVIOUS
      <4> HIDE DEF F, G
      <4>3. {G(i) : i \in 1 .. n} = {F[i] : i \in 1 .. n}
        BY <4>2
      <4>4. UNION {G(i) : i \in DOMAIN txs} = UNION {F[i] : i \in 1 .. n}
        BY <4>1, <4>3
      <4> QED BY <4>4 DEF G
    <3> QED BY <2>3, <3>1, <3>2
  <2>5. IsFiniteSet(d.input)
    BY DEF FiniteTables
  <2> HIDE DEF F
  <2> QED BY <2>2, <2>4, <2>5, FiniteUnion
<1> QED BY <1>2, <1>3, <1>4 DEF FiniteTables

-----------------------------------------------------------------------------
(* What a new transaction gives.                                          *)

ValuesOf(d) == [o \in DOMAIN d.output |-> d.output[o].value]

OutputsOf(d, h) == {o \in DOMAIN d.output : o[1] = h}

\* A block of accepted transactions.
GoodBlock(d, b) ==
    /\ Len(b.transactions) \in Nat
    /\ DOMAIN b.transactions = 1 .. Len(b.transactions)
    /\ TxsAreNew(d, b.transactions)
    /\ \A i \in DOMAIN b.transactions :
            ProperTx(b.transactions[i]) /\ BodyVerdict(d, b.transactions[i]) = "CodeOk"

\* What an output row keeps of an output.
Columns(out) == [value |-> out.value, spendPkey |-> out.spendPkey, scanPkey |-> out.scanPkey]

\* A new output has the value that its transaction gives it.
LEMMA NewOutput ==
    ASSUME NEW d, NEW b, ForeignKeys(d), TxsAreNew(d, b.transactions),
           NEW i \in DOMAIN b.transactions,
           NEW k \in DOMAIN b.transactions[i].txBody.outputs, k \in Nat
    PROVE  LET e == SaveNextBlock(d, b)
               tx == b.transactions[i]
               o == <<tx.hash, k - 1>>
           IN /\ o \in DOMAIN e.output /\ o \notin DOMAIN d.output
              /\ e.output[o].value = tx.txBody.outputs[k].value
              /\ Columns(e.output[o]) = Columns(tx.txBody.outputs[k])
<1> DEFINE txs == b.transactions
           tx == txs[i]
           o == <<tx.hash, k - 1>>
           e == SaveNextBlock(d, b)
<1>1. o[1] = tx.hash /\ o[1] \notin DOMAIN d.transaction
  BY DEF TxsAreNew
<1>2. o \notin DOMAIN d.output
  BY <1>1 DEF ForeignKeys
<1>3. k \in DOMAIN tx.txBody.outputs /\ k \in Nat
  OBVIOUS
<1>4. o \in OutpointsOf(tx)
  BY <1>3 DEF OutpointsOf
<1>5. o \in DOMAIN e.output /\ e.output[o] = SavedOutput(d, txs, o)
  BY <1>4 DEF SaveNextBlock, SavedOutputs
<1>6. IndexOf(txs, o[1]) = i
  <2>1. o[1] \in {txs[j].hash : j \in DOMAIN txs}
    BY <1>1
  <2>2. IndexOf(txs, o[1]) \in DOMAIN txs /\ txs[IndexOf(txs, o[1])].hash = txs[i].hash
    BY <1>1, <2>1, IndexOfHash
  <2>3. \A j \in DOMAIN txs : txs[j].hash = txs[i].hash => j = i
    BY DEF TxsAreNew
  <2> QED BY <2>2, <2>3, Zenon
<1>7. o[2] + 1 = k
  BY <1>3
<1>8. LET out == txs[IndexOf(txs, o[1])].txBody.outputs[o[2] + 1]
      IN /\ SavedOutput(d, txs, o).value = out.value
         /\ Columns(SavedOutput(d, txs, o)) = Columns(out)
  BY <1>2 DEF SavedOutput, Columns
<1>9. /\ SavedOutput(d, txs, o).value = tx.txBody.outputs[k].value
      /\ Columns(SavedOutput(d, txs, o)) = Columns(tx.txBody.outputs[k])
  BY <1>6, <1>7, <1>8, Zenon
<1> QED BY <1>2, <1>5, <1>9, Zenon

LEMMA SavedNewOutput ==
    ASSUME NEW d, NEW b, ForeignKeys(d), GoodBlock(d, b), NEW i \in DOMAIN b.transactions,
           NEW k \in 1 .. Len(b.transactions[i].txBody.outputs)
    PROVE  LET e == SaveNextBlock(d, b)
               tx == b.transactions[i]
               o == <<tx.hash, k - 1>>
           IN /\ o \in DOMAIN e.output /\ o \notin DOMAIN d.output
              /\ e.output[o].value = tx.txBody.outputs[k].value
              /\ Columns(e.output[o]) = Columns(tx.txBody.outputs[k])
<1>1. TxsAreNew(d, b.transactions) /\ k \in DOMAIN b.transactions[i].txBody.outputs /\ k \in Nat
  BY DEF GoodBlock, ProperTx
<1> QED BY <1>1, NewOutput

\* SaveNextBlock keeps the values integers.
LEMMA SaveKeepsInts ==
    ASSUME NEW d, NEW b, ForeignKeys(d), ValuesAreInts(d), GoodBlock(d, b)
    PROVE  ValuesAreInts(SaveNextBlock(d, b))
<1> DEFINE txs == b.transactions
           e == SaveNextBlock(d, b)
<1> SUFFICES ASSUME NEW o \in DOMAIN e.output PROVE e.output[o].value \in Int
  BY DEF ValuesAreInts
<1>1. CASE o \in DOMAIN d.output
  BY <1>1 DEF ValuesAreInts, SaveNextBlock, SavedOutputs, SavedOutput
<1>2. CASE o \notin DOMAIN d.output
  <2>1. PICK i \in DOMAIN txs : o \in OutpointsOf(txs[i])
    BY <1>2 DEF SaveNextBlock, SavedOutputs
  <2>2. PICK k \in DOMAIN txs[i].txBody.outputs : o = <<txs[i].hash, k - 1>>
    BY <2>1 DEF OutpointsOf
  <2>3. /\ k \in 1 .. Len(txs[i].txBody.outputs)
        /\ txs[i].txBody.outputs[k].value \in Int
    BY DEF GoodBlock, ProperTx, IsList, IntOn, OutValues
  <2> QED BY <2>2, <2>3, SavedNewOutput
<1> QED BY <1>1, <1>2

\* The outputs of a new transaction are worth what it gives.
LEMMA NewOutputsSum ==
    ASSUME NEW d, NEW b, ForeignKeys(d), GoodBlock(d, b), NEW i \in DOMAIN b.transactions
    PROVE  LET e == SaveNextBlock(d, b)
               tx == b.transactions[i]
           IN SumOf(ValuesOf(e), OutputsOf(e, tx.hash))
                = SumOf(OutValues(tx.txBody), 1 .. Len(tx.txBody.outputs))
<1> DEFINE txs == b.transactions
           tx == txs[i]
           h == tx.hash
           n == Len(tx.txBody.outputs)
           e == SaveNextBlock(d, b)
           A == 1 .. n
           B == OutputsOf(e, h)
           f == OutKey(h)
           g == OutValues(tx.txBody)
<1>1. n \in Nat /\ DOMAIN tx.txBody.outputs = A /\ IntOn(g, A) /\ IsFiniteSet(A)
  BY FiniteIndexes DEF GoodBlock, ProperTx, IsList
<1>2. ASSUME NEW k \in A
      PROVE  f[k] = <<h, k - 1>> /\ f[k] \in B /\ g[k] = ValuesOf(e)[f[k]]
  <2>1. k \in Nat /\ f[k] = <<h, k - 1>> /\ f[k][1] = h
    BY <1>1 DEF OutKey
  <2>2. f[k] \in DOMAIN e.output /\ e.output[f[k]].value = tx.txBody.outputs[k].value
    BY <2>1, SavedNewOutput
  <2> QED BY <1>1, <2>1, <2>2 DEF OutputsOf, ValuesOf, OutValues
<1>3. ASSUME NEW o \in B PROVE \E k \in A : f[k] = o
  <2>1. o \in DOMAIN e.output /\ o[1] = h /\ h \notin DOMAIN d.transaction
    BY DEF OutputsOf, GoodBlock, TxsAreNew
  <2>2. o \notin DOMAIN d.output
    BY <2>1 DEF ForeignKeys
  <2>3. PICK j \in DOMAIN txs : o \in OutpointsOf(txs[j])
    BY <2>1, <2>2 DEF SaveNextBlock, SavedOutputs
  <2>4. PICK k \in DOMAIN txs[j].txBody.outputs : o = <<txs[j].hash, k - 1>>
    BY <2>3 DEF OutpointsOf
  <2>5. txs[j].hash = h
    BY <2>1, <2>4
  <2>6. j = i
    BY <2>5 DEF GoodBlock, TxsAreNew
  <2> QED BY <1>1, <1>2, <2>4, <2>6
<1>4. ASSUME NEW k \in A, NEW l \in A, f[k] = f[l] PROVE k = l
  <2>1. k - 1 = l - 1 /\ k \in Nat /\ l \in Nat
    BY <1>1, <1>2, <1>4
  <2> QED BY <2>1
<1>5. IntOn(ValuesOf(e), B) /\ IsFiniteSet(B)
  <2>1. B = {f[k] : k \in A}
    BY <1>2, <1>3
  <2>2. IsFiniteSet({f[k] : k \in A})
    BY <1>1, FiniteImage
  <2>3. \A o \in B : ValuesOf(e)[o] \in Int
    <3> SUFFICES ASSUME NEW o \in B PROVE ValuesOf(e)[o] \in Int
      OBVIOUS
    <3>1. PICK k \in A : f[k] = o
      BY <1>3
    <3>2. g[k] \in Int
      BY <1>1 DEF IntOn
    <3> QED BY <1>2, <3>1, <3>2
  <2> QED BY <2>1, <2>2, <2>3 DEF IntOn
<1> HIDE DEF A, B, f, g, e
<1>6. SumOf(g, A) = SumOf(ValuesOf(e), B)
  <2>1. \A k \in A : f[k] \in B /\ g[k] = ValuesOf(e)[f[k]]
    BY <1>2
  <2>2. \A o \in B : \E k \in A : f[k] = o
    BY <1>3
  <2>3. \A k \in A : \A l \in A : f[k] = f[l] => k = l
    BY <1>4
  <2>4. IsFiniteSet(A) /\ IsFiniteSet(B) /\ IntOn(ValuesOf(e), B)
    BY <1>1, <1>5
  <2> QED BY <2>1, <2>2, <2>3, <2>4, SumOfImages
<1> QED BY <1>6 DEF A, B, g, e

-----------------------------------------------------------------------------
(* What a set of outputs is worth.                                         *)

ValueSum(d, S) == MapThenSumSet(LAMBDA o : d.output[o].value, S)

\* The recursive function that MapThenSumSet chooses.
ValueTable(it, d, S) ==
    it = [s \in SUBSET S |->
            IF s = {} THEN 0
            ELSE LET o == CHOOSE o \in s : TRUE IN d.output[o].value + it[s \ {o}]]

LEMMA ValueSumIs ==
    ASSUME NEW d, ValuesAreInts(d), NEW S \in SUBSET DOMAIN d.output, IsFiniteSet(S)
    PROVE  ValueSum(d, S) = SumOf(ValuesOf(d), S)
<1> DEFINE g == ValuesOf(d)
           it == CHOOSE t : ValueTable(t, d, S)
<1>1. \A o \in S : g[o] = d.output[o].value
  BY DEF ValuesOf
<1>2. IntOn(g, S)
  BY <1>1 DEF IntOn, ValuesAreInts
<1>3. PICK F : AreSums(F, g, S)
  BY <1>2, SumsExist
<1>4. ASSUME NEW s \in SUBSET S, s # {}
      PROVE  g[CHOOSE o \in s : TRUE] = d.output[CHOOSE o \in s : TRUE].value
  BY <1>1, <1>4
<1> HIDE DEF g
<1>5. SumTable(F, g, S)
  BY <1>3, SumsAreTable
<1>6. ValueTable(F, d, S)
  BY <1>4, <1>5 DEF SumTable, ValueTable
<1>7. ValueTable(it, d, S)
  BY <1>6
<1>8. ValueSum(d, S) = it[S]
  BY DEF ValueSum, MapThenSumSet, MapThenFoldSet, ValueTable
<1> HIDE DEF it
<1>9. SumTable(it, g, S)
  BY <1>4, <1>7 DEF SumTable, ValueTable
<1>10. it[S] = F[S]
  BY <1>3, <1>9, TableIsSums
<1>11. SumOf(g, S) = F[S]
  BY <1>3, SumIs
<1> QED BY <1>8, <1>10, <1>11 DEF g
=============================================================================
