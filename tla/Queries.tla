------------------------------ MODULE Queries --------------------------------
(***************************************************************************)
(* What users read back from a node: the queries that rebuild transactions *)
(* and blocks from the rows of the four tables (scanTxs, GetTxsByHashes,   *)
(* GetTxsByPubKey, GetBlocksByHashes and GetBlockAfter in                  *)
(* evote/database.go), which OnGetTxsByHashes and OnGetTxsByPkey answer    *)
(* with.  A list that a query does not order is a set here.                *)
(***************************************************************************)
EXTENDS Database

\* ORDER BY a column.
OrderBy(rows, column) ==
    CHOOSE list \in SetToSeqs(rows) :
        \A i, j \in DOMAIN list : i < j => column[list[i]] <= column[list[j]]

\* Mutant: the rows come in the order of the transactions they name.
InputsByPrevTx(d, h) ==
    LET rows == {row \in d.input : row.tx = h}
        list == OrderBy(rows, [row \in rows |-> d.transaction[row.prevTx].index])
    IN [k \in DOMAIN list |-> Input(list[k].prevTx, list[k].outputIndex)]

ReadInputs(d, h) ==
    LET rows == {row \in d.input : row.tx = h}
        list == OrderBy(rows, [row \in rows |-> row.index])
    IN [k \in DOMAIN list |-> Input(list[k].prevTx, list[k].outputIndex)]

ReadOutputs(d, h) ==
    LET rows == {o \in DOMAIN d.output : o[1] = h}
        list == OrderBy(rows, [o \in rows |-> o[2]])
    IN [k \in DOMAIN list |->
            [value     |-> d.output[list[k]].value,
             spendPkey |-> d.output[list[k]].spendPkey,
             scanPkey  |-> d.output[list[k]].scanPkey]]

\* The fields other than inputs and outputs are columns of the transaction.
ReadTx(d, h) ==
    [txBody |-> [d.transaction[h].txBody EXCEPT !.inputs = ReadInputs(d, h),
                                                !.outputs = ReadOutputs(d, h)],
     hash   |-> h,
     sig    |-> d.transaction[h].sig]

GetTxsByHashes(d, hashes) == {ReadTx(d, h) : h \in hashes \cap DOMAIN d.transaction}

ReadBlockTxs(d, b) ==
    LET rows == {h \in DOMAIN d.transaction : d.transaction[h].block = b}
        list == OrderBy(rows, [h \in rows |-> d.transaction[h].index])
    IN [i \in DOMAIN list |-> ReadTx(d, list[i])]

ReadBlock(d, b) ==
    CreateBlock(ReadBlockTxs(d, b), d.block[b].prev, d.block[b].timestamp,
                d.block[b].proposerPkey)

GetBlocksByHashes(d, hashes) == {ReadBlock(d, b) : b \in hashes \cap DOMAIN d.block}

\* The block after one, or the first block after Nil.
GetBlockAfter(d, hash) == {ReadBlock(d, b) : b \in {g \in DOMAIN d.block : d.block[g].prev = hash}}

\* Mutant: the transactions that spend are not asked for.
TxsPayingOnly(d, pkey) ==
    {o[1] : o \in {p \in DOMAIN d.output :
                        d.output[p].spendPkey = pkey \/ d.output[p].scanPkey = pkey}}

\* The transactions with an output of the key, and those that the marks of its
\* outputs name.
TxsOfPubKey(d, pkey) ==
    LET own == {o \in DOMAIN d.output :
                    d.output[o].spendPkey = pkey \/ d.output[o].scanPkey = pkey}
    IN {o[1] : o \in own} \cup ({d.output[o].spentBy : o \in own} \ {Nil})

GetTxsByPubKey(d, pkey) == GetTxsByHashes(d, TxsOfPubKey(d, pkey))
=============================================================================
