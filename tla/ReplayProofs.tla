---------------------------- MODULE ReplayProofs -----------------------------
(***************************************************************************)
(* Executing the chain again gives the same blocks, for every chain and    *)
(* every number of restarts: a validator that starts over an empty         *)
(* database stores the blocks it stored before, under the hashes that      *)
(* Tendermint recorded.                                                    *)
(*                                                                         *)
(* What DeliverTx accepts depends on the transaction and on the database   *)
(* only, and the database on the blocks stored before.  So there is one    *)
(* history of databases that the decided blocks lead to, and the node's    *)
(* own is always one of them (ReplayInv).                                  *)
(*                                                                         *)
(* What is read back from it is what was stored: rows, in the order of     *)
(* their indexes, make up the same transactions and blocks (ReadInv).  And *)
(* a wallet that is shown it can spend what it is shown.                   *)
(***************************************************************************)
EXTENDS BlockchainAppProofs

-----------------------------------------------------------------------------
(* The transactions of a block that are accepted, one after another.       *)

Passes(d, tx) == ParseVerdict(tx) = "CodeOk" /\ BodyVerdict(d, tx) = "CodeOk"

\* r[i] is what is accepted of the first i transactions.
Selection(r, d, txs, n) ==
    /\ r[0] = <<>>
    /\ \A i \in 1 .. n :
        r[i] = IF Passes(d, txs[i]) THEN Append(r[i - 1], txs[i]) ELSE r[i - 1]

Executed(acc, d, txs, n) == \E r : Selection(r, d, txs, n) /\ r[n] = acc

LEMMA ExecutedNone == \A d, txs : Executed(<<>>, d, txs, 0)
<1> TAKE d, txs
<1> DEFINE r == [i \in 0 .. 0 |-> <<>>]
<1>1. Selection(r, d, txs, 0) /\ r[0] = <<>>
  BY DEF Selection
<1> QED BY <1>1 DEF Executed

LEMMA ExecutedNext ==
    ASSUME NEW d, NEW txs, NEW n \in Nat, NEW acc, Executed(acc, d, txs, n)
    PROVE  Executed(IF Passes(d, txs[n + 1]) THEN Append(acc, txs[n + 1]) ELSE acc,
                    d, txs, n + 1)
<1> DEFINE new == IF Passes(d, txs[n + 1]) THEN Append(acc, txs[n + 1]) ELSE acc
<1>1. PICK r : Selection(r, d, txs, n) /\ r[n] = acc
  BY DEF Executed
<1> DEFINE q == [i \in 0 .. n + 1 |-> IF i = n + 1 THEN new ELSE r[i]]
<1>2. q[n + 1] = new /\ \A i \in 0 .. n : q[i] = r[i]
  OBVIOUS
<1> HIDE DEF q
<1>3. ASSUME NEW i \in 1 .. n + 1
      PROVE  q[i] = IF Passes(d, txs[i]) THEN Append(q[i - 1], txs[i]) ELSE q[i - 1]
  <2>1. CASE i = n + 1
    <3>1. q[i - 1] = acc
      BY <1>1, <1>2, <2>1
    <3> QED BY <1>2, <2>1, <3>1
  <2>2. CASE i # n + 1
    <3>1. i \in 1 .. n /\ q[i] = r[i] /\ q[i - 1] = r[i - 1]
      BY <1>2, <2>2
    <3> QED BY <1>1, <3>1 DEF Selection
  <2> QED BY <2>1, <2>2
<1>4. q[0] = <<>>
  BY <1>1, <1>2 DEF Selection
<1>5. Selection(q, d, txs, n + 1)
  BY <1>3, <1>4 DEF Selection
<1> QED BY <1>2, <1>5 DEF Executed

\* One database accepts one list of them.
LEMMA ExecutedOnce ==
    ASSUME NEW d, NEW txs, NEW n \in Nat, NEW a, Executed(a, d, txs, n),
           NEW b, Executed(b, d, txs, n)
    PROVE  a = b
<1>1. PICK r : Selection(r, d, txs, n) /\ r[n] = a
  BY DEF Executed
<1>2. PICK q : Selection(q, d, txs, n) /\ q[n] = b
  BY DEF Executed
<1> DEFINE N == {k \in Nat : k <= n => r[k] = q[k]}
<1>3. 0 \in N
  BY <1>1, <1>2 DEF Selection
<1>4. ASSUME NEW k \in Nat, k \in N PROVE k + 1 \in N
  <2> SUFFICES ASSUME k + 1 <= n PROVE r[k + 1] = q[k + 1]
    OBVIOUS
  <2>1. k + 1 \in 1 .. n /\ (k + 1) - 1 = k /\ r[k] = q[k]
    BY <1>4
  <2> QED BY <1>1, <1>2, <2>1 DEF Selection
<1> HIDE DEF N
<1>5. n \in N /\ n <= n
  BY <1>3, <1>4, NaturalInduct
<1> QED BY <1>1, <1>2, <1>5 DEF N

\* DeliverTx appends a transaction if it passes.
LEMMA DeliverSelects ==
    ASSUME NEW S, NEW ex \in Executors(S), NEW d, NEW tx
    PROVE  AppendTx(ex, d, tx, FALSE).transactions =
                IF Passes(d, tx) THEN Append(ex.transactions, tx) ELSE ex.transactions
<1> DEFINE no == FALSE
<1>1. ~ AlreadyProcessed(ex, tx, no)
  BY DEF AlreadyProcessed
<1>2. Accepts(ex, d, tx, no) <=> Passes(d, tx)
  BY <1>1 DEF Accepts, Passes
<1> HIDE DEF no
<1>3. CASE ~ Passes(d, tx)
  <2>1. AppendTx(ex, d, tx, no) = ex
    BY <1>2, <1>3 DEF AppendTx
  <2> QED BY <1>3, <2>1 DEF no
<1>4. CASE Passes(d, tx)
  <2>1. AppendTx(ex, d, tx, no).transactions = Append(ex.transactions, tx)
    BY <1>2, <1>4 DEF AppendTx, Executors
  <2> QED BY <1>4, <2>1 DEF no
<1> QED BY <1>3, <1>4

-----------------------------------------------------------------------------
(* The history of databases that the decided blocks lead to.               *)

\* The block b makes e of d, and is stored under hash.
Executes(d, e, b, prev, hash) ==
    \E acc : LET block == CreateBlock(acc, prev, b.time, b.proposer)
            IN /\ Executed(acc, d, b.txs, Len(b.txs))
               /\ hash = block.hash /\ CanSave(d, block) /\ e = SaveNextBlock(d, block)

Prev(hashes, k) == IF k = 1 THEN Nil ELSE hashes[k - 1]

IsHistory(D, blocks, hashes, n) ==
    /\ D[0] = EmptyDb
    /\ \A k \in 1 .. n :
        Executes(D[k - 1], D[k], blocks[k], Prev(hashes, k), hashes[k])

\* Executing a block again stores it under the same hash.
LEMMA ExecutesOnce ==
    ASSUME NEW d, NEW e, NEW b, NEW prev, NEW hash, Executes(d, e, b, prev, hash),
           Len(b.txs) \in Nat, NEW acc, Executed(acc, d, b.txs, Len(b.txs))
    PROVE  /\ hash = CreateBlock(acc, prev, b.time, b.proposer).hash
           /\ e = SaveNextBlock(d, CreateBlock(acc, prev, b.time, b.proposer))
<1>1. PICK a : LET block == CreateBlock(a, prev, b.time, b.proposer)
               IN /\ Executed(a, d, b.txs, Len(b.txs))
                  /\ hash = block.hash /\ e = SaveNextBlock(d, block)
  BY DEF Executes
<1>2. a = acc
  BY <1>1, ExecutedOnce
<1> QED BY <1>1, <1>2

\* A history of the first n blocks is one of every chain that starts with them.
LEMMA SameHistory ==
    ASSUME NEW D, NEW blocks, NEW hashes, NEW n \in Nat, IsHistory(D, blocks, hashes, n),
           NEW more, NEW others,
           \A k \in 1 .. n : more[k] = blocks[k] /\ others[k] = hashes[k]
    PROVE  IsHistory(D, more, others, n)
<1>1. \A k \in 1 .. n : Prev(others, k) = Prev(hashes, k)
  BY DEF Prev
<1> QED BY <1>1 DEF IsHistory

LEMMA LongerHistory ==
    ASSUME NEW D, NEW blocks, NEW hashes, NEW n \in Nat, IsHistory(D, blocks, hashes, n),
           NEW e, Executes(D[n], e, blocks[n + 1], Prev(hashes, n + 1), hashes[n + 1])
    PROVE  \E H : /\ IsHistory(H, blocks, hashes, n + 1) /\ H[n + 1] = e
                 /\ \A k \in 0 .. n : H[k] = D[k]
<1> DEFINE H == [k \in 0 .. n + 1 |-> IF k = n + 1 THEN e ELSE D[k]]
<1>1. H[n + 1] = e /\ \A k \in 0 .. n : H[k] = D[k]
  OBVIOUS
<1> HIDE DEF H
<1>2. ASSUME NEW k \in 1 .. n + 1
      PROVE  Executes(H[k - 1], H[k], blocks[k], Prev(hashes, k), hashes[k])
  <2>1. CASE k = n + 1
    <3>1. H[k - 1] = D[n] /\ H[k] = e
      BY <1>1, <2>1
    <3> QED BY <2>1, <3>1
  <2>2. CASE k # n + 1
    <3>1. k \in 1 .. n /\ H[k - 1] = D[k - 1] /\ H[k] = D[k]
      BY <1>1, <2>2
    <3> QED BY <3>1 DEF IsHistory
  <2> QED BY <2>1, <2>2
<1>3. H[0] = EmptyDb
  BY <1>1 DEF IsHistory
<1> QED BY <1>1, <1>2, <1>3 DEF IsHistory

\* The blocks of a database that the first k decided blocks lead to.
ChainStored(d, blocks, hashes, k) ==
    /\ DOMAIN d.block = {hashes[i] : i \in 1 .. k}
    /\ \A i, j \in 1 .. k : hashes[i] = hashes[j] => i = j
    /\ \A i \in 1 .. k : hashes[i] # Nil
    /\ \A i \in 1 .. k :
        d.block[hashes[i]] = [height       |-> i - 1,
                              prev         |-> Prev(hashes, i),
                              proposerPkey |-> blocks[i].proposer,
                              timestamp    |-> blocks[i].time]
    /\ IsFiniteSet(DOMAIN d.block) /\ Cardinality(DOMAIN d.block) = k

LEMMA NothingStored == ASSUME NEW blocks, NEW hashes PROVE ChainStored(EmptyDb, blocks, hashes, 0)
<1>1. 1 .. 0 = {} /\ DOMAIN EmptyDb.block = {}
  BY DEF EmptyDb
<1> QED BY <1>1, FS_EmptySet DEF ChainStored

LEMMA OneMoreStored ==
    ASSUME NEW d, NEW e, NEW blocks, NEW hashes, NEW k \in Nat,
           ChainStored(d, blocks, hashes, k),
           Executes(d, e, blocks[k + 1], Prev(hashes, k + 1), hashes[k + 1])
    PROVE  ChainStored(e, blocks, hashes, k + 1)
<1> DEFINE prev == Prev(hashes, k + 1)
           b == blocks[k + 1]
<1>1. PICK acc : LET block == CreateBlock(acc, prev, b.time, b.proposer)
                 IN /\ hashes[k + 1] = block.hash /\ CanSave(d, block)
                    /\ e = SaveNextBlock(d, block)
  BY DEF Executes
<1> DEFINE block == CreateBlock(acc, prev, b.time, b.proposer)
<1>2. /\ block.blockHeader.prevBlockHash = prev
      /\ block.blockHeader.proposerPkey = b.proposer
      /\ block.blockHeader.timestamp = b.time
  BY DEF CreateBlock
<1> HIDE DEF block, prev
<1>3. /\ hashes[k + 1] = block.hash /\ block.hash \notin DOMAIN d.block
      /\ e.block = SavedBlocks(d, block)
  BY <1>1 DEF CanSave, ChainAllows, SaveNextBlock, block, prev
<1>4. DOMAIN e.block = DOMAIN d.block \cup {hashes[k + 1]}
  BY <1>3 DEF SavedBlocks
<1>5. \A i \in 1 .. k + 1 : i = k + 1 \/ i \in 1 .. k
  BY IndexOrLast
<1>6. \A i \in 1 .. k : i \in 1 .. k + 1 /\ hashes[i] \in DOMAIN d.block
  BY DEF ChainStored
<1>7. DOMAIN e.block = {hashes[i] : i \in 1 .. k + 1}
  <2>1. k + 1 \in 1 .. k + 1
    OBVIOUS
  <2> QED BY <1>4, <1>5, <1>6, <2>1 DEF ChainStored
<1>8. /\ \A i, j \in 1 .. k + 1 : hashes[i] = hashes[j] => i = j
      /\ \A i \in 1 .. k + 1 : hashes[i] # Nil
  <2>1. block.hash # Nil
    BY HashNotNil DEF block, CreateBlock
  <2> QED BY <1>3, <1>5, <1>6, <2>1 DEF ChainStored
<1>9. ASSUME NEW i \in 1 .. k + 1
      PROVE  e.block[hashes[i]] = [height       |-> i - 1,
                                   prev         |-> Prev(hashes, i),
                                   proposerPkey |-> blocks[i].proposer,
                                   timestamp    |-> blocks[i].time]
  <2>1. CASE i = k + 1
    <3>1. e.block[hashes[k + 1]] =
            [height |-> IF prev = Nil THEN 0 ELSE d.block[prev].height + 1,
             prev |-> prev, proposerPkey |-> b.proposer, timestamp |-> b.time]
      BY <1>2, <1>3 DEF SavedBlocks
    <3>2. (IF prev = Nil THEN 0 ELSE d.block[prev].height + 1) = k
      <4>1. CASE k = 0
        BY <4>1 DEF prev, Prev
      <4>2. CASE k # 0
        <5>1. prev = hashes[k] /\ k \in 1 .. k
          BY <4>2 DEF prev, Prev
        <5>2. hashes[k] # Nil
          BY <5>1 DEF ChainStored
        <5>3. d.block[hashes[k]] = [height       |-> k - 1,
                                    prev         |-> Prev(hashes, k),
                                    proposerPkey |-> blocks[k].proposer,
                                    timestamp    |-> blocks[k].time]
          BY <5>1 DEF ChainStored
        <5> QED BY <5>1, <5>2, <5>3
      <4> QED BY <4>1, <4>2
    <3> QED BY <2>1, <3>1, <3>2 DEF prev
  <2>2. CASE i \in 1 .. k
    <3>1. hashes[i] \in DOMAIN d.block /\ hashes[i] # block.hash
      BY <1>3, <1>6, <2>2
    <3>2. e.block[hashes[i]] = d.block[hashes[i]]
      BY <1>3, <3>1 DEF SavedBlocks
    <3> QED BY <2>2, <3>2 DEF ChainStored
  <2> QED BY <1>5, <2>1, <2>2
<1>10. IsFiniteSet(DOMAIN e.block) /\ Cardinality(DOMAIN e.block) = k + 1
  <2>1. IsFiniteSet(DOMAIN d.block) /\ Cardinality(DOMAIN d.block) = k
    BY DEF ChainStored
  <2>2. hashes[k + 1] \notin DOMAIN d.block
    BY <1>3
  <2>3. /\ IsFiniteSet(DOMAIN d.block \cup {hashes[k + 1]})
        /\ Cardinality(DOMAIN d.block \cup {hashes[k + 1]}) = Cardinality(DOMAIN d.block) + 1
    <3> DEFINE S == DOMAIN d.block
               x == hashes[k + 1]
    <3>1. IsFiniteSet(S) /\ x \notin S
      BY <2>1, <2>2
    <3> HIDE DEF S, x
    <3>2. IsFiniteSet(S \cup {x}) /\ Cardinality(S \cup {x}) = Cardinality(S) + 1
      BY <3>1, FS_AddElement
    <3> QED BY <3>2 DEF S, x
  <2> QED BY <1>4, <2>1, <2>3, Zenon
<1> QED BY <1>7, <1>8, <1>9, <1>10 DEF ChainStored

LEMMA HistoryStores ==
    ASSUME NEW D, NEW blocks, NEW hashes, NEW n \in Nat, IsHistory(D, blocks, hashes, n),
           NEW c \in 0 .. n
    PROVE  ChainStored(D[c], blocks, hashes, c)
<1> DEFINE N == {k \in Nat : k <= n => ChainStored(D[k], blocks, hashes, k)}
<1>1. 0 \in N
  BY NothingStored DEF IsHistory
<1>2. ASSUME NEW k \in Nat, k \in N PROVE k + 1 \in N
  <2> SUFFICES ASSUME k + 1 <= n PROVE ChainStored(D[k + 1], blocks, hashes, k + 1)
    OBVIOUS
  <2>1. k + 1 \in 1 .. n /\ (k + 1) - 1 = k /\ ChainStored(D[k], blocks, hashes, k)
    BY <1>2
  <2>2. Executes(D[k], D[k + 1], blocks[k + 1], Prev(hashes, k + 1), hashes[k + 1])
    BY <2>1 DEF IsHistory
  <2> QED BY <2>1, <2>2, OneMoreStored
<1> HIDE DEF N
<1>3. c \in N /\ c <= n
  BY <1>1, <1>2, NaturalInduct
<1> QED BY <1>3 DEF N

-----------------------------------------------------------------------------
(* The invariant.                                                          *)

FromHistory(D, c) ==
    /\ IsHistory(D, chain, appHashes, Len(appHashes))
    /\ c \in 0 .. Len(appHashes) /\ db = D[c]
    /\ done > 0 => done = c /\ appBlockHash = appHashes[done]

\* The database is one of the history; past a start, the one that was executed to.
HasHistory == \E D, c : FromHistory(D, c)

\* What is accepted of the block so far depends on the database alone.
ExecutingBlock ==
    /\ next - 1 \in 0 .. Len(CurrentBlock.txs)
    /\ Executed(deliverTxState.transactions, db, CurrentBlock.txs, next - 1)
    /\ deliverTxState.timestamp = CurrentBlock.time
    /\ deliverTxState.blockProposer = CurrentBlock.proposer

ReplayInv ==
    skips = 0 =>
        /\ HasHistory
        /\ phase \in {"init", "idle"} => deliverTxState.transactions = <<>>
        /\ phase = "block" => ExecutingBlock

\* A commit follows the history: it is the first one of its height, or it gives
\* what the commit before gave, under the hash that Tendermint has.
LEMMA CommitFollowsHistory ==
    ASSUME TypeOK, ReplayInv, skips = 0, Commit
    PROVE  HashAgreed /\ HasHistory'
<1> DEFINE n == Len(appHashes)
           k == done + 1
           acc == deliverTxState.transactions
<1>1. PICK D, c : FromHistory(D, c)
  BY DEF ReplayInv, HasHistory
<1>2. /\ n \in Nat /\ done \in Nat /\ Len(chain) \in Nat /\ done < Len(chain) /\ n <= Len(chain)
      /\ appHashes \in Seq({appHashes[i] : i \in DOMAIN appHashes})
  BY LenProperties DEF TypeOK, Commit, BlockDelivered
<1>3. /\ IsHistory(D, chain, appHashes, n) /\ c \in 0 .. n /\ db = D[c]
      /\ done > 0 => done = c /\ appBlockHash = appHashes[done]
  BY <1>1 DEF FromHistory
<1>4. ChainStored(db, chain, appHashes, c)
  BY <1>2, <1>3, HistoryStores
<1>5. done = c
  <2>1. CASE done = 0
    <3>1. NewBlock.blockHeader.prevBlockHash = Nil
      BY <2>1 DEF TypeOK, NewBlock, CreateBlock
    <3>2. DOMAIN db.block = {}
      BY <3>1 DEF Commit, CanSave, ChainAllows
    <3>3. c # 0 => 1 \in 1 .. c
      BY <1>3
    <3> QED BY <1>4, <2>1, <3>2, <3>3 DEF ChainStored
  <2>2. CASE done # 0
    BY <1>2, <1>3, <2>2
  <2> QED BY <2>1, <2>2
<1>6. appBlockHash = Prev(appHashes, k)
  BY <1>2, <1>3 DEF Prev, TypeOK
<1>7. Executed(acc, db, chain[k].txs, Len(chain[k].txs)) /\ Len(chain[k].txs) \in Nat
  <2>1. ExecutingBlock /\ next > Len(CurrentBlock.txs) /\ next \in Nat
    BY DEF Commit, BlockDelivered, ReplayInv, TypeOK
  <2>2. CurrentBlock.txs \in Seq(sent)
    BY <1>2, CurrentBlockType DEF DecidedBlocks
  <2>3. Len(CurrentBlock.txs) \in Nat
    BY <2>2, LenProperties
  <2>4. next - 1 = Len(CurrentBlock.txs)
    BY <2>1, <2>3 DEF ExecutingBlock
  <2> QED BY <2>1, <2>3, <2>4 DEF ExecutingBlock, CurrentBlock
<1>8. NewBlock = CreateBlock(acc, Prev(appHashes, k), chain[k].time, chain[k].proposer)
  BY <1>6 DEF NewBlock, ReplayInv, ExecutingBlock, Commit, BlockDelivered, CurrentBlock
<1>9. /\ CanSave(db, NewBlock) /\ db' = SaveNextBlock(db, NewBlock) /\ chain' = chain
      /\ done' = k /\ appBlockHash' = NewBlock.hash
      /\ appHashes' = IF done = n THEN Append(appHashes, NewBlock.hash) ELSE appHashes
  BY DEF Commit
<1> HIDE DEF n, k, acc
<1>10. CASE done = n
  <2>1. /\ Len(appHashes') = n + 1 /\ appHashes'[n + 1] = NewBlock.hash
        /\ \A i \in 1 .. n : appHashes'[i] = appHashes[i]
    <3> DEFINE T == {appHashes[i] : i \in DOMAIN appHashes} \cup {NewBlock.hash}
    <3>1. appHashes \in Seq(T)
      BY <1>2, SeqMonotonic
    <3>2. NewBlock.hash \in T
      OBVIOUS
    <3> HIDE DEF T
    <3> QED BY <1>9, <1>10, <3>1, <3>2, AppendProperties DEF n
  <2>2. Prev(appHashes', k) = Prev(appHashes, k)
    BY <1>2, <1>10, <2>1 DEF Prev, k
  <2>3. IsHistory(D, chain', appHashes', n)
    BY <1>2, <1>3, <1>9, <2>1, SameHistory
  <2>4. Executes(D[n], db', chain'[k], Prev(appHashes', k), appHashes'[k])
    <3>1. appHashes'[k] = NewBlock.hash /\ D[n] = db /\ chain' = chain
      BY <1>3, <1>5, <1>9, <1>10, <2>1 DEF k
    <3> QED BY <1>7, <1>8, <1>9, <2>2, <3>1 DEF Executes
  <2>5. k = n + 1
    BY <1>10 DEF k
  <2>6. PICK H, m : IsHistory(H, chain', appHashes', m) /\ H[m] = db' /\ m = n + 1
    <3>1. PICK m, bs, hs : m = n /\ bs = chain' /\ hs = appHashes'
      OBVIOUS
    <3>2. Executes(D[m], db', bs[m + 1], Prev(hs, m + 1), hs[m + 1])
      BY <2>4, <2>5, <3>1
    <3>3. m \in Nat /\ IsHistory(D, bs, hs, m)
      BY <1>2, <2>3, <3>1
    <3>4. \E H : IsHistory(H, bs, hs, m + 1) /\ H[m + 1] = db'
      BY <3>2, <3>3, LongerHistory
    <3> QED BY <3>1, <3>4
  <2>7. FromHistory(H, m)'
    <3>1. m \in 0 .. m /\ done' = m /\ appBlockHash' = appHashes'[m] /\ Len(appHashes') = m
      BY <1>2, <1>9, <2>1, <2>5, <2>6
    <3> QED BY <2>6, <3>1 DEF FromHistory
  <2>8. HashAgreed
    BY <1>10 DEF HashAgreed, n
  <2> QED BY <2>7, <2>8 DEF HasHistory
<1>11. CASE done # n
  <2>1. k \in 1 .. n /\ k - 1 = done
    BY <1>2, <1>3, <1>5, <1>11 DEF k
  <2>2. Executes(db, D[k], chain[k], Prev(appHashes, k), appHashes[k])
    BY <1>3, <1>5, <2>1 DEF IsHistory
  <2>3. appHashes[k] = NewBlock.hash /\ D[k] = db'
    BY <1>7, <1>8, <1>9, <2>2, ExecutesOnce
  <2>4. PICK m : m = k
    OBVIOUS
  <2>5. FromHistory(D, m)'
    <3>1. appHashes' = appHashes /\ chain' = chain /\ done' = m /\ appBlockHash' = appHashes'[m]
      BY <1>9, <1>11, <2>3, <2>4
    <3>2. m \in 0 .. n /\ db' = D[m]
      BY <2>1, <2>3, <2>4
    <3> QED BY <1>3, <3>1, <3>2 DEF FromHistory, n
  <2>6. HashAgreed
    BY <2>3 DEF HashAgreed, k
  <2> QED BY <2>5, <2>6 DEF HasHistory
<1> QED BY <1>10, <1>11

\* As long as the chain, the database and the height executed are the same, so
\* is the history.
LEMMA KeepsHistory ==
    ASSUME HasHistory, UNCHANGED <<db, chain, appHashes, done, appBlockHash>>
    PROVE  HasHistory'
<1>1. PICK D, c : FromHistory(D, c)
  BY DEF HasHistory
<1>2. FromHistory(D, c)'
  BY <1>1 DEF FromHistory
<1> QED BY <1>2 DEF HasHistory

\* A decision makes the chain longer than the history.
LEMMA DecideReplay == ASSUME TypeOK, ReplayInv, skips = 0, Decide PROVE ReplayInv'
<1>1. PICK D, c : FromHistory(D, c)
  BY DEF ReplayInv, HasHistory
<1>2. PICK proposer \in Validators, txs \in Proposals :
        chain' = Append(chain, [proposer |-> proposer, time |-> Len(chain) + 1, txs |-> txs])
  BY DEF Decide
<1>3. UNCHANGED <<db, app, phase, done, appHashes, skips>> /\ phase = "idle"
  BY DEF Decide, counters
<1>4. \A k \in 1 .. Len(appHashes) : chain'[k] = chain[k]
  <2> DEFINE b == [proposer |-> proposer, time |-> Len(chain) + 1, txs |-> txs]
             T == DecidedBlocks(sent) \cup {b}
  <2>1. chain \in Seq(T) /\ b \in T
    BY SeqMonotonic DEF TypeOK
  <2>2. Len(appHashes) \in Nat /\ Len(appHashes) <= Len(chain) /\ Len(chain) \in Nat
    BY LenProperties DEF TypeOK
  <2> HIDE DEF b, T
  <2>3. \A k \in 1 .. Len(chain) : Append(chain, b)[k] = chain[k]
    BY <2>1, AppendProperties
  <2> QED BY <1>2, <2>2, <2>3 DEF b
<1>5. Len(appHashes) \in Nat
  BY LenProperties DEF TypeOK
<1>6. IsHistory(D, chain', appHashes, Len(appHashes))
  BY <1>1, <1>4, <1>5, SameHistory DEF FromHistory
<1>7. FromHistory(D, c)'
  BY <1>1, <1>3, <1>6 DEF FromHistory, app
<1> QED BY <1>3, <1>7 DEF ReplayInv, HasHistory, app

LEMMA RestartReplay ==
    ASSUME TypeOK, ReplayInv, skips = 0, Restart, db' = db \/ db' = EmptyDb, skips' = skips
    PROVE  ReplayInv'
<1>1. PICK D, c : FromHistory(D, c)
  BY DEF ReplayInv, HasHistory
<1>2. UNCHANGED <<chain, appHashes>> /\ done' = 0 /\ phase' = "init"
      /\ deliverTxState'.transactions = <<>>
  BY DEF Restart, NewTxExecutor
<1>3. HasHistory'
  <2>1. CASE db' = db
    <3>1. FromHistory(D, c)'
      BY <1>1, <1>2, <2>1 DEF FromHistory
    <3> QED BY <3>1 DEF HasHistory
  <2>2. CASE db' = EmptyDb
    <3>1. 0 \in 0 .. Len(appHashes)
      BY LenProperties DEF TypeOK
    <3>2. FromHistory(D, 0)'
      BY <1>1, <1>2, <2>2, <3>1 DEF FromHistory, IsHistory
    <3> QED BY <3>2 DEF HasHistory
  <2> QED BY <2>1, <2>2
<1> QED BY <1>2, <1>3 DEF ReplayInv

\* BeginBlock starts with nothing accepted.
LEMMA BeginBlockReplay == ASSUME TypeOK, ReplayInv, skips = 0, BeginBlock PROVE ReplayInv'
<1>1. /\ UNCHANGED <<db, chain, appHashes, done, appBlockHash, skips>>
      /\ phase = "idle" /\ phase' = "block" /\ next' = 1 /\ done < Len(chain)
      /\ deliverTxState' = ExecBeginBlock(deliverTxState, CurrentBlock.time, CurrentBlock.proposer)
  BY DEF BeginBlock, counters
<1>2. CurrentBlock' = CurrentBlock
  BY <1>1 DEF CurrentBlock
<1>3. /\ deliverTxState'.transactions = <<>>
      /\ deliverTxState'.timestamp = CurrentBlock.time
      /\ deliverTxState'.blockProposer = CurrentBlock.proposer
  BY <1>1 DEF ExecBeginBlock, ReplayInv, TypeOK, Executors
<1>4. Len(CurrentBlock.txs) \in Nat
  <2>1. CurrentBlock.txs \in Seq(sent)
    BY <1>1, CurrentBlockType DEF DecidedBlocks
  <2> QED BY <2>1, LenProperties
<1>5. next' - 1 = 0 /\ next' - 1 \in 0 .. Len(CurrentBlock.txs)
  BY <1>1, <1>4
<1>6. ExecutingBlock'
  BY <1>1, <1>2, <1>3, <1>5, ExecutedNone DEF ExecutingBlock
<1>7. HasHistory'
  BY <1>1, KeepsHistory DEF ReplayInv
<1> QED BY <1>1, <1>6, <1>7 DEF ReplayInv

\* DeliverTx accepts one transaction more, or not.
LEMMA DeliverTxReplay == ASSUME TypeOK, ReplayInv, skips = 0, DeliverTx PROVE ReplayInv'
<1> DEFINE tx == CurrentBlock.txs[next]
<1>1. /\ UNCHANGED <<db, chain, appHashes, done, appBlockHash, skips>>
      /\ phase = "block" /\ next' = next + 1 /\ phase' \in {"block", "halted"}
      /\ next <= Len(CurrentBlock.txs) /\ next \in Nat
      /\ deliverTxState' = AppendTx(deliverTxState, db, tx, FALSE)
  BY DEF DeliverTx, counters, TypeOK
<1>2. CurrentBlock' = CurrentBlock /\ ExecutingBlock
  BY <1>1 DEF CurrentBlock, ReplayInv
<1>3. next - 1 \in Nat /\ (next - 1) + 1 = next /\ (next + 1) - 1 = next
      /\ next \in 0 .. Len(CurrentBlock.txs)
  <2>1. Len(CurrentBlock.txs) \in Nat
    <3>1. CurrentBlock.txs \in Seq(sent)
      BY <1>1, CurrentBlockType DEF DecidedBlocks, TypeOK
    <3> QED BY <3>1, LenProperties
  <2> QED BY <1>1, <1>2, <2>1 DEF ExecutingBlock
<1>4. deliverTxState'.transactions =
        IF Passes(db, tx) THEN Append(deliverTxState.transactions, tx)
        ELSE deliverTxState.transactions
  BY <1>1, DeliverSelects DEF TypeOK
<1>5. Executed(deliverTxState'.transactions, db, CurrentBlock.txs, next)
  <2>1. Executed(deliverTxState.transactions, db, CurrentBlock.txs, next - 1)
    BY <1>2 DEF ExecutingBlock
  <2> QED BY <1>3, <1>4, <2>1, ExecutedNext
<1>6. /\ deliverTxState'.timestamp = deliverTxState.timestamp
      /\ deliverTxState'.blockProposer = deliverTxState.blockProposer
  BY <1>1 DEF AppendTx, TypeOK, Executors
<1>7. ExecutingBlock'
  BY <1>1, <1>2, <1>3, <1>5, <1>6 DEF ExecutingBlock
<1>8. HasHistory'
  BY <1>1, KeepsHistory DEF ReplayInv
<1> QED BY <1>1, <1>7, <1>8 DEF ReplayInv

LEMMA CommitReplay == ASSUME TypeOK, ReplayInv, skips = 0, Commit PROVE ReplayInv'
<1>1. deliverTxState' = Reset(deliverTxState) /\ phase' \in {"idle", "refused"}
  BY DEF Commit
<1>2. deliverTxState'.transactions = <<>>
  BY <1>1, ResetType DEF TypeOK
<1>3. HasHistory'
  BY CommitFollowsHistory
<1> QED BY <1>1, <1>2, <1>3 DEF ReplayInv

\* A step that leaves the block alone, or ends it.
LEMMA QuietReplay ==
    ASSUME ReplayInv, skips = 0,
           UNCHANGED <<db, chain, appHashes, done, appBlockHash, deliverTxState, next>>,
           \/ phase' = phase \/ phase' \in {"failed", "halted", "refused"}
           \/ phase = "init" /\ phase' = "idle"
    PROVE  ReplayInv'
<1>1. HasHistory'
  BY KeepsHistory DEF ReplayInv
<1>2. phase' = "block" => ExecutingBlock'
  <2> SUFFICES ASSUME phase' = "block" PROVE ExecutingBlock'
    OBVIOUS
  <2>1. ExecutingBlock
    BY DEF ReplayInv
  <2>2. CurrentBlock' = CurrentBlock
    BY DEF CurrentBlock
  <2> QED BY <2>1, <2>2 DEF ExecutingBlock
<1> QED BY <1>1, <1>2 DEF ReplayInv

LEMMA InitReplay == ASSUME Init PROVE ReplayInv
<1> DEFINE D == [k \in 0 .. 0 |-> EmptyDb]
<1>1. Len(appHashes) = 0 /\ 0 \in 0 .. 0 /\ 1 .. 0 = {}
  BY EmptySeq DEF Init
<1>2. IsHistory(D, chain, appHashes, 0) /\ D[0] = EmptyDb
  BY <1>1 DEF IsHistory
<1> HIDE DEF D
<1>3. FromHistory(D, 0)
  BY <1>1, <1>2 DEF FromHistory, Init
<1>4. HasHistory
  BY <1>3 DEF HasHistory
<1> QED BY <1>4 DEF ReplayInv, Init, NewTxExecutor

LEMMA NextReplay == ASSUME TypeOK, TypeOK', ReplayInv, [Next]_vars PROVE ReplayInv'
<1>1. CASE skips' # 0
  BY <1>1 DEF ReplayInv
<1>2. CASE skips' = 0
  <2>0. skips = 0
    <3>1. CASE RestartTendermint
      <4>1. skips' = skips \/ skips' = skips + 1
        BY <3>1 DEF RestartTendermint, NothingToReplay, Refuse, SkipLastBlock,
           SkipReplayedBlock
      <4>2. skips \in Nat
        BY DEF TypeOK
      <4> QED BY <1>2, <4>1, <4>2
    <3>2. CASE ~ RestartTendermint
      <4>1. skips' = skips
        BY <3>2 DEF Next, vars, counters, InitChain, BeginBlock, DeliverTx, Commit,
           CommitFails, CheckTx, Decide, Faucet, SendCoins, CreateVoting, SendVote,
           Submit, PeerReward, RestartKeepingDb, RestartWithEmptyDb
      <4> QED BY <1>2, <4>1
    <3> QED BY <3>1, <3>2
  <2>1. CASE InitChain
    BY <2>0, <2>1, QuietReplay DEF InitChain
  <2>2. CASE BeginBlock
    BY <2>0, <2>2, BeginBlockReplay
  <2>3. CASE DeliverTx
    BY <2>0, <2>3, DeliverTxReplay
  <2>4. CASE Commit
    BY <2>0, <2>4, CommitReplay
  <2>5. CASE CommitFails
    BY <2>0, <2>5, QuietReplay DEF CommitFails, app
  <2>6. CASE CheckTx
    BY <2>0, <2>6, QuietReplay DEF CheckTx
  <2>7. CASE Decide
    BY <2>0, <2>7, DecideReplay
  <2>8. CASE Faucet \/ SendCoins \/ CreateVoting \/ SendVote
    BY <2>0, <2>8, QuietReplay DEF Faucet, SendCoins, CreateVoting, SendVote, Submit, app,
       tendermint
  <2>9. CASE PeerReward
    BY <2>0, <2>9, QuietReplay DEF PeerReward, app, tendermint
  <2>10. CASE RestartKeepingDb \/ RestartWithEmptyDb
    BY <2>0, <2>10, RestartReplay DEF RestartKeepingDb, RestartWithEmptyDb
  <2>11. CASE RestartTendermint
    <3>1. UNCHANGED <<db, app>> /\ (NothingToReplay \/ Refuse)
      BY <1>2, <2>0, <2>11 DEF RestartTendermint, SkipLastBlock, SkipReplayedBlock
    <3> QED BY <2>0, <3>1, QuietReplay DEF NothingToReplay, Refuse, app, tendermint
  <2>12. CASE UNCHANGED vars
    BY <2>0, <2>12, QuietReplay DEF vars, app, tendermint
  <2> QED BY <2>1, <2>2, <2>3, <2>4, <2>5, <2>6, <2>7, <2>8, <2>9, <2>10, <2>11, <2>12
          DEF Next
<1> QED BY <1>1, <1>2

LEMMA ReplayInductive == Spec => [](TypeOK /\ ReplayInv)
<1>1. ASSUME Init PROVE TypeOK /\ ReplayInv
  BY <1>1, InitTypeOK, InitReplay
<1>2. ASSUME TypeOK /\ ReplayInv, [Next]_vars PROVE (TypeOK /\ ReplayInv)'
  BY <1>2, NextTypeOK, NextReplay
<1> QED BY <1>1, <1>2, PTL DEF Spec

-----------------------------------------------------------------------------
(* The chain of blocks.                                                    *)

\* A validator stores the blocks that Tendermint decided, in their order, by
\* their proposers, under the hashes recorded when each was first committed;
\* and as many as it has executed since it was started (Commit of
\* abci_app.go): however often it starts over an empty database, as long as
\* Tendermint passes over no block.
THEOREM StoresWhatIsDecided == Spec => []StoredChainIsDecided
<1>1. ASSUME TypeOK, ReplayInv PROVE StoredChainIsDecided
  <2> SUFFICES ASSUME skips = 0 PROVE
        LET stored == DOMAIN db.block
            count == Cardinality(stored)
        IN /\ count <= Len(appHashes)
           /\ done > 0 => done = count /\ appBlockHash = appHashes[done]
           /\ \A k \in 1 .. count :
                /\ appHashes[k] \in stored
                /\ LET b == db.block[appHashes[k]]
                   IN /\ b.height = k - 1
                      /\ b.prev = IF k = 1 THEN Nil ELSE appHashes[k - 1]
                      /\ b.proposerPkey = chain[k].proposer /\ b.timestamp = chain[k].time
    BY DEF StoredChainIsDecided
  <2>1. PICK D, c : FromHistory(D, c)
    BY <1>1 DEF ReplayInv, HasHistory
  <2>2. Len(appHashes) \in Nat
    BY <1>1, LenProperties DEF TypeOK
  <2>3. ChainStored(db, chain, appHashes, c)
    BY <2>1, <2>2, HistoryStores DEF FromHistory
  <2>4. Cardinality(DOMAIN db.block) = c /\ DOMAIN db.block = {appHashes[i] : i \in 1 .. c}
    BY <2>3 DEF ChainStored
  <2>5. c <= Len(appHashes) /\ (done > 0 => done = c /\ appBlockHash = appHashes[done])
    BY <2>1, <2>2 DEF FromHistory
  <2>6. ASSUME NEW k \in 1 .. c
        PROVE  LET b == db.block[appHashes[k]]
               IN /\ b.height = k - 1
                  /\ b.prev = IF k = 1 THEN Nil ELSE appHashes[k - 1]
                  /\ b.proposerPkey = chain[k].proposer /\ b.timestamp = chain[k].time
    <3>1. db.block[appHashes[k]] = [height       |-> k - 1,
                                    prev         |-> Prev(appHashes, k),
                                    proposerPkey |-> chain[k].proposer,
                                    timestamp    |-> chain[k].time]
      BY <2>3 DEF ChainStored
    <3> QED BY <3>1 DEF Prev
  <2> QED BY <2>4, <2>5, <2>6
<1> QED BY <1>1, ReplayInductive, PTL

-----------------------------------------------------------------------------
(* What is accepted can be stored.                                         *)
(*                                                                         *)
(* The table of transactions takes a hash once.  An accepted transaction   *)
(* is not stored yet: as a reward it would be the second one of its block, *)
(* and the first input of another would be marked as spent (StoredOnce).   *)
(* Two of one block differ, so their hashes do.                            *)

\* A transaction has the shape that Sign gives it, of a body that opens no
\* voting by itself (InitVote is never submitted).
Signed(tx) == tx = Sign(tx.txBody, tx.sig) /\ tx.txBody.senderEphemeralPkey = Nil

SignedTxs(S) == \A tx \in S : Signed(tx)

\* The body decides who has to sign.
LEMMA AcceptedBodyDecides ==
    ASSUME NEW d, NEW t, NEW u, Signed(t), Signed(u), t.txBody = u.txBody,
           BodyVerdict(d, t) = "CodeOk", BodyVerdict(d, u) = "CodeOk"
    PROVE  t = u
<1>1. CASE IsCoinbase(t.txBody)
  <2>1. /\ d.block[t.txBody.hashLink].proposerPkey = t.sig
        /\ d.block[u.txBody.hashLink].proposerPkey = u.sig
    BY <1>1, AcceptedReward DEF FirstReward
  <2> QED BY <2>1 DEF Signed
<1>2. CASE ~ IsCoinbase(t.txBody)
  <2>1. t.sig = Sender(d, t.txBody) /\ u.sig = Sender(d, u.txBody)
    BY <1>2, AcceptedIsPaid
  <2> QED BY <2>1 DEF Signed
<1> QED BY <1>1, <1>2

\* What is accepted of different transactions is different.
LEMMA ExecutedDistinct ==
    ASSUME NEW d, NEW T, NEW txs \in Seq(T), IsInjective(txs), NEW n \in 0 .. Len(txs),
           NEW acc, Executed(acc, d, txs, n)
    PROVE  IsInjective(acc)
<1>1. PICK r : Selection(r, d, txs, n) /\ r[n] = acc
  BY DEF Executed
<1>2. Len(txs) \in Nat /\ DOMAIN txs = 1 .. Len(txs)
  BY LenProperties
<1> DEFINE Good(s, k) == /\ s \in Seq(T) /\ IsInjective(s)
                         /\ \A i \in DOMAIN s : \E m \in 1 .. k : s[i] = txs[m]
           N == {k \in Nat : k <= n => Good(r[k], k)}
<1>3. 0 \in N
  <2>1. r[0] = <<>> /\ <<>> \in Seq(T) /\ DOMAIN <<>> = {}
    BY <1>1, EmptySeq DEF Selection
  <2>2. IsInjective(<<>>)
    BY <2>1 DEF IsInjective
  <2> QED BY <2>1, <2>2
<1>4. ASSUME NEW k \in Nat, k \in N PROVE k + 1 \in N
  <2> SUFFICES ASSUME k + 1 <= n PROVE Good(r[k + 1], k + 1)
    OBVIOUS
  <2>1. k + 1 \in 1 .. n /\ (k + 1) - 1 = k /\ k + 1 \in DOMAIN txs /\ Good(r[k], k)
    BY <1>2, <1>4
  <2>2. r[k + 1] = IF Passes(d, txs[k + 1]) THEN Append(r[k], txs[k + 1]) ELSE r[k]
    BY <1>1, <2>1 DEF Selection
  <2> DEFINE s == r[k]
             t == Append(s, txs[k + 1])
  <2>3. Good(s, k + 1)
    BY <2>1
  <2>4. /\ t \in Seq(T) /\ Len(s) \in Nat /\ DOMAIN s = 1 .. Len(s)
        /\ DOMAIN t = 1 .. Len(s) + 1 /\ t[Len(s) + 1] = txs[k + 1]
        /\ \A i \in 1 .. Len(s) : t[i] = s[i]
    BY <2>1, AppendProperties, LenProperties, ElementOfSeq
  <2>5. \A i \in DOMAIN t : i \in DOMAIN s \/ i = Len(s) + 1
    BY <2>4
  <2> HIDE DEF t
  <2>6. \A i \in DOMAIN s : s[i] # txs[k + 1]
    <3> SUFFICES ASSUME NEW i \in DOMAIN s, s[i] = txs[k + 1] PROVE FALSE
      OBVIOUS
    <3>1. PICK m \in 1 .. k : s[i] = txs[m]
      BY <2>1
    <3>2. m \in DOMAIN txs /\ m # k + 1
      BY <1>2, <2>1
    <3> QED BY <2>1, <3>1, <3>2 DEF IsInjective
  <2>7. IsInjective(t)
    BY <2>1, <2>4, <2>5, <2>6 DEF IsInjective
  <2>8. \A i \in DOMAIN t : \E m \in 1 .. k + 1 : t[i] = txs[m]
    BY <2>3, <2>4, <2>5
  <2>9. Good(t, k + 1)
    BY <2>4, <2>7, <2>8
  <2> QED BY <2>2, <2>3, <2>9 DEF t
<1> HIDE DEF N
<1>5. n \in N /\ n <= n
  BY <1>2, <1>3, <1>4, NaturalInduct
<1> QED BY <1>1, <1>5 DEF N

-----------------------------------------------------------------------------
(* No panic of the executor, but over a kept database.                     *)

\* An executor panics only when it writes to a map that no Reset has made, and
\* then there is a block: what is accepted refers to one.
LEMMA PanicNeedsBlock ==
    ASSUME NEW ex, NEW d, ForeignKeys(d), NEW tx, Signed(tx), NEW ignore,
           AppendCode(ex, d, tx, ignore) = "Panic"
    PROVE  ~ ex.mapMade /\ DOMAIN d.block # {}
<1>1. ParseVerdict(tx) # "Panic"
  BY DEF ParseVerdict
<1>2. BodyVerdict(d, tx) # "Panic"
  <2>1. \A pkey : VerifySig(tx, pkey) # "Panic"
    BY DEF VerifySig
  <2>2. CoinbaseVerdict(d, tx) # "Panic"
    BY <2>1 DEF CoinbaseVerdict
  <2>3. \A i : InputVerdict(d, tx.txBody, i) # "Panic"
    BY DEF InputVerdict
  <2>4. KindVerdict(d, tx.txBody) # "Panic"
    BY DEF KindVerdict, IsInitVote, Signed
  <2>5. TransferVerdict(d, tx) # "Panic"
    BY <2>1, <2>3, <2>4 DEF TransferVerdict
  <2> QED BY <2>2, <2>5 DEF BodyVerdict
<1>3. BodyVerdict(d, tx) = "CodeOk" /\ ~ ex.mapMade
  BY <1>1, <1>2 DEF AppendCode
<1>4. CASE IsCoinbase(tx.txBody)
  BY <1>3, <1>4, AcceptedReward DEF FirstReward
<1>5. CASE ~ IsCoinbase(tx.txBody)
  <2> DEFINE o == Outpoint(tx.txBody.inputs[1])
  <2>1. o \in DOMAIN d.output
    BY <1>3, <1>5, AcceptedIsPaid DEF Unspent
  <2>2. d.transaction[o[1]].block \in DOMAIN d.block
    BY <2>1 DEF ForeignKeys
  <2> QED BY <1>3, <2>2
<1> QED BY <1>3, <1>4, <1>5

-----------------------------------------------------------------------------
(* The next block follows the last one stored.                             *)

\* The hash of a block depends on that of the block before it.
LEMMA HistoryLinks ==
    ASSUME NEW D, NEW blocks, NEW hashes, NEW n \in Nat, IsHistory(D, blocks, hashes, n),
           NEW i \in 1 .. n
    PROVE  \E header : hashes[i] = Hash(header) /\ header.prevBlockHash = Prev(hashes, i)
<1>1. PICK acc : hashes[i] = CreateBlock(acc, Prev(hashes, i), blocks[i].time,
                                         blocks[i].proposer).hash
  BY DEF IsHistory, Executes
<1> DEFINE header == [prevBlockHash |-> Prev(hashes, i), merkleTree |-> BuildMerkleTreeTxs(acc),
                      proposerPkey |-> blocks[i].proposer, timestamp |-> blocks[i].time]
<1>2. hashes[i] = Hash(header) /\ header.prevBlockHash = Prev(hashes, i)
  BY <1>1 DEF CreateBlock
<1> QED BY <1>2

\* The checks of the table of blocks fail only for the first block that is
\* executed over a database which already has one.
LEMMA NewBlockFollows ==
    ASSUME TypeOK, ReplayInv, skips = 0, BlockDelivered
    PROVE  ChainAllows(db, NewBlock) \/ (appBlockHash = Nil /\ DOMAIN db.block # {})
<1> DEFINE n == Len(appHashes)
           prev == NewBlock.blockHeader.prevBlockHash
<1>1. PICK D, c : FromHistory(D, c)
  BY DEF ReplayInv, HasHistory
<1>2. n \in Nat /\ done \in Nat
  BY LenProperties DEF TypeOK
<1>3. /\ IsHistory(D, chain, appHashes, n) /\ c \in 0 .. n /\ db = D[c]
      /\ done > 0 => done = c /\ appBlockHash = appHashes[done]
  BY <1>1 DEF FromHistory
<1>4. ChainStored(db, chain, appHashes, c)
  BY <1>2, <1>3, HistoryStores
<1>5. PICK header : NewBlock.hash = Hash(header) /\ header.prevBlockHash = appBlockHash
                    /\ prev = appBlockHash
  BY DEF NewBlock, CreateBlock
<1> HIDE DEF n, prev
<1>6. CASE done = 0
  <2>1. appBlockHash = Nil
    BY <1>6 DEF TypeOK
  <2>2. DOMAIN db.block = {} => ChainAllows(db, NewBlock)
    BY <1>5, <2>1 DEF ChainAllows, prev
  <2> QED BY <2>1, <2>2
<1>7. CASE done # 0
  <2>1. done = c /\ c \in 1 .. c /\ appBlockHash = appHashes[c] /\ c \in 1 .. n
    BY <1>2, <1>3, <1>7
  <2>2. /\ DOMAIN db.block = {appHashes[i] : i \in 1 .. c}
        /\ \A i, j \in 1 .. c : appHashes[i] = appHashes[j] => i = j
        /\ \A i \in 1 .. c : appHashes[i] # Nil
    BY <1>4 DEF ChainStored
  <2>3. appBlockHash \in DOMAIN db.block /\ appBlockHash # Nil
    BY <2>1, <2>2
  <2>4. \A i \in 1 .. c : Prev(appHashes, i) # appHashes[c]
    <3> SUFFICES ASSUME NEW i \in 1 .. c, Prev(appHashes, i) = appHashes[c] PROVE FALSE
      OBVIOUS
    <3>1. i # 1 /\ appHashes[i - 1] = appHashes[c]
      BY <2>1, <2>3 DEF Prev
    <3>2. i - 1 \in 1 .. c /\ i - 1 # c
      BY <1>2, <1>3, <3>1
    <3> QED BY <2>1, <2>2, <3>1, <3>2
  <2>5. \A h \in DOMAIN db.block : db.block[h].prev # appHashes[c]
    <3> SUFFICES ASSUME NEW i \in 1 .. c PROVE db.block[appHashes[i]].prev # appHashes[c]
      BY <2>2
    <3>1. db.block[appHashes[i]] = [height |-> i - 1, prev |-> Prev(appHashes, i),
                                    proposerPkey |-> chain[i].proposer,
                                    timestamp |-> chain[i].time]
      BY <1>4 DEF ChainStored
    <3> QED BY <2>4, <3>1
  <2>6. NewBlock.hash \notin DOMAIN db.block
    <3> SUFFICES ASSUME NEW i \in 1 .. c, NewBlock.hash = appHashes[i] PROVE FALSE
      BY <2>2
    <3>1. i \in 1 .. n
      BY <1>2, <1>3
    <3>2. PICK other : appHashes[i] = Hash(other) /\ other.prevBlockHash = Prev(appHashes, i)
      BY <1>2, <1>3, <3>1, HistoryLinks
    <3>3. other = header
      BY <1>5, <3>2, HashInjective
    <3> QED BY <1>5, <2>1, <2>4, <3>2, <3>3
  <2>7. ChainAllows(db, NewBlock)
    BY <1>5, <2>1, <2>3, <2>5, <2>6 DEF ChainAllows, prev
  <2> QED BY <2>7
<1> QED BY <1>6, <1>7

-----------------------------------------------------------------------------
(* When the node stops.                                                    *)

\* No decided block holds a transaction twice.
BlocksDiffer == \A i \in DOMAIN chain : IsInjective(chain[i].txs)

\* Past a commit both executors can write to their maps.
MapsMade == appBlockHash # Nil => checkTxState.mapMade /\ deliverTxState.mapMade

HaltInv == SignedTxs(sent) /\ StoredOnce(db) /\ BlocksDiffer /\ MapsMade
                /\ HaltsOnlyIfUnstorable

\* The transactions of the block are not stored yet, and differ.
LEMMA NewBlockIsNew ==
    ASSUME ChainInv, ReplayInv, skips = 0, SignedTxs(sent), StoredOnce(db), BlocksDiffer,
           BlockDelivered
    PROVE  TxsAreNew(db, NewBlock.transactions)
<1> DEFINE acc == deliverTxState.transactions
<1>1. TypeOK /\ AcceptedAreSpendable /\ BothGood
  BY DEF ChainInv, IInv
<1>2. acc \in Seq(sent)
  BY <1>1 DEF TypeOK, Executors
<1>3. ASSUME NEW i \in DOMAIN acc
      PROVE  /\ BodyVerdict(db, acc[i]) = "CodeOk" /\ acc[i].hash = Hash(acc[i].txBody)
             /\ Signed(acc[i])
  <2>1. acc[i] \in sent
    BY <1>2, LenProperties, ElementOfSeq
  <2> QED BY <1>1, <2>1 DEF BothGood, AllGood, AcceptedAreSpendable, SignedTxs
<1>4. IsInjective(acc)
  <2>1. done + 1 \in DOMAIN chain
    <3>1. chain \in Seq(DecidedBlocks(sent)) /\ done \in 0 .. Len(chain) /\ done < Len(chain)
      BY <1>1 DEF TypeOK, BlockDelivered
    <3>2. Len(chain) \in Nat /\ DOMAIN chain = 1 .. Len(chain)
      BY <3>1, LenProperties
    <3> QED BY <3>1, <3>2
  <2>2. IsInjective(CurrentBlock.txs)
    BY <2>1 DEF BlocksDiffer, CurrentBlock
  <2>3. CurrentBlock.txs \in Seq(sent)
    BY <1>1, CurrentBlockType DEF DecidedBlocks, BlockDelivered, TypeOK
  <2>4. next - 1 \in 0 .. Len(CurrentBlock.txs) /\ Executed(acc, db, CurrentBlock.txs, next - 1)
    BY DEF ReplayInv, ExecutingBlock, BlockDelivered
  <2> QED BY <2>2, <2>3, <2>4, ExecutedDistinct
<1>5. \A i \in DOMAIN acc : acc[i].hash \notin DOMAIN db.transaction
  BY <1>3, AcceptedIsNew
<1>6. ASSUME NEW i \in DOMAIN acc, NEW j \in DOMAIN acc, i # j, acc[i].hash = acc[j].hash
      PROVE  FALSE
  <2>1. acc[i].txBody = acc[j].txBody
    BY <1>3, <1>6, HashInjective
  <2>2. acc[i] = acc[j]
    BY <1>3, <2>1, AcceptedBodyDecides
  <2> QED BY <1>4, <1>6, <2>2 DEF IsInjective
<1> HIDE DEF acc
<1>7. NewBlock.transactions = acc
  BY NewBlockFields DEF acc
<1> QED BY <1>5, <1>6, <1>7 DEF TxsAreNew

\* Nothing else fails a commit than a column, a kept database or a skipped block.
LEMMA CommitFailsForReason ==
    ASSUME ChainInv, ReplayInv, HaltInv, CommitFails
    PROVE  HaltsOnlyIfUnstorable'
<1> DEFINE acc == deliverTxState.transactions
<1>1. /\ BlockDelivered /\ ~ CanSave(db, NewBlock) /\ phase' = "failed"
      /\ UNCHANGED <<db, app, counters>>
  BY DEF CommitFails
<1>2. CASE skips # 0
  <2>1. skips' \in Nat /\ skips' # 0
    BY <1>1, <1>2 DEF ChainInv, IInv, TypeOK, counters
  <2> QED BY <1>1, <2>1 DEF HaltsOnlyIfUnstorable
<1>3. CASE skips = 0
  <2>1. TxsAreNew(db, NewBlock.transactions)
    BY <1>1, <1>3, NewBlockIsNew DEF HaltInv
  <2>2. ChainAllows(db, NewBlock) \/ (appBlockHash = Nil /\ DOMAIN db.block # {})
    BY <1>1, <1>3, NewBlockFollows DEF ChainInv, IInv
  <2>3. \/ \E i \in DOMAIN acc : ~ FitsColumns(acc[i])
        \/ appBlockHash = Nil /\ DOMAIN db.block # {}
    BY <1>1, <2>1, <2>2, NewBlockFields DEF CanSave
  <2> HIDE DEF acc
  <2>4. deliverTxState'.transactions = acc /\ appBlockHash' = appBlockHash /\ db' = db
    BY <1>1 DEF acc, app
  <2> QED BY <1>1, <2>3, <2>4 DEF HaltsOnlyIfUnstorable, StoppedByKeptDb
<1> QED BY <1>2, <1>3

\* Neither wallets nor validators submit anything else than signed bodies.
LEMMA WalletTxsAreSigned ==
    ASSUME NEW d, NEW v, NEW voteType,
           NEW tx \in FaucetTxs(d, v) \cup SendTxs(d) \cup CreateVoteTxs(d, voteType)
                        \cup SendVoteTxs(d)
    PROVE  Signed(tx)
<1>1. \A key, outputs, valueType, vote, duration :
        \A t \in Created(d, key, outputs, valueType, vote, duration) : Signed(t)
  <2>1. \A utxos, key, outputs, valueType, vote, duration :
            Signed(CreateTx(utxos, outputs, valueType, key, vote, duration))
    BY DEF CreateTx, Sign, TxBody, Signed
  <2> QED BY <2>1 DEF Created
<1>2. CASE tx \in FaucetTxs(d, v)
  <2>1. PICK amount \in Amounts, payee \in Payees :
            tx \in Created(d, v, <<Output(amount, payee)>>, Nil, 0, 0)
    BY <1>2 DEF FaucetTxs
  <2> QED BY <1>1, <2>1
<1>3. CASE tx \in SendTxs(d)
  <2>1. PICK user \in Users, amount \in Amounts, payee \in Payees :
            tx \in Created(d, user, <<Output(amount, payee)>>, Nil, 0, 0)
    BY <1>3 DEF SendTxs
  <2> QED BY <1>1, <2>1
<1>4. CASE tx \in CreateVoteTxs(d, voteType)
  BY <1>1, <1>4 DEF CreateVoteTxs
<1>5. CASE tx \in SendVoteTxs(d)
  <2>1. PICK user \in Users, amount \in Amounts, payee \in Payees :
            \E utxo \in GetUTXOSByPkey(d, user) :
                tx \in Created(d, user, <<Output(amount, payee)>>, utxo.valueType, 0, 0)
    BY <1>5 DEF SendVoteTxs
  <2> QED BY <1>1, <2>1
<1> QED BY <1>2, <1>3, <1>4, <1>5

LEMMA NextSignedTxs == ASSUME SignedTxs(sent), [Next]_vars PROVE SignedTxs(sent')
<1>0. \A v, h : Signed(CreateMiningReward(v, h))
  BY DEF CreateMiningReward, Sign, TxBody, Signed
<1>1. CASE Commit \/ CommitFails
  <2>1. sent' = sent \cup RewardForMe(NewBlock)
    BY <1>1 DEF Commit, CommitFails
  <2> QED BY <1>0, <2>1 DEF RewardForMe, SignedTxs
<1>2. CASE Faucet \/ SendCoins \/ CreateVoting \/ SendVote
  <2>1. PICK tx : Signed(tx) /\ sent' = sent \cup {tx}
    BY <1>2, WalletTxsAreSigned DEF Faucet, SendCoins, CreateVoting, SendVote, Submit
  <2> QED BY <2>1 DEF SignedTxs
<1>3. CASE PeerReward
  BY <1>0, <1>3 DEF PeerReward, SignedTxs
<1>4. CASE sent' = sent
  BY <1>4
<1> QED BY <1>1, <1>2, <1>3, <1>4 DEF Next, vars, InitChain, BeginBlock, DeliverTx, CheckTx,
    Decide, RestartKeepingDb, RestartWithEmptyDb, Restart, RestartTendermint

LEMMA NextStoredOnce ==
    ASSUME ChainInv, ChainInv', ProperTxs(sent), StoredOnce(db), [Next]_vars
    PROVE  StoredOnce(db')
<1>1. CASE Commit
  <2> DEFINE txs == NewBlock.transactions
  <2>1. /\ db' = SaveNextBlock(db, NewBlock) /\ CanSave(db, NewBlock)
        /\ TypeOK /\ ForeignKeys(db) /\ BothGood /\ AcceptedAreSpendable
        /\ InputsAreMarked(db')
    BY <1>1 DEF ChainInv, Commit, IInv, TypeOK
  <2>2. txs \in Seq(sent)
    BY <2>1, NewBlockFields DEF TypeOK, Executors
  <2>3. ASSUME NEW i \in DOMAIN txs
        PROVE  /\ txs[i].hash = Hash(txs[i].txBody)
               /\ txs[i].txBody.inputs # <<>> => 1 \in 1 .. Len(txs[i].txBody.inputs)
               /\ \A k \in 1 .. Len(txs[i].txBody.inputs) :
                        Outpoint(txs[i].txBody.inputs[k]) \in Unspent(db)
    <3>1. txs[i] \in sent
      BY <2>2, LenProperties, ElementOfSeq
    <3>2. txs[i].hash = Hash(txs[i].txBody)
      BY <2>1, NewBlockFields DEF AcceptedAreSpendable
    <3>3. BodyVerdict(db, txs[i]) = "CodeOk"
      BY <2>1, NewBlockIsGood
    <3> QED BY <3>1, <3>2, <3>3, AcceptedSpendsUnspent DEF ProperTxs, ProperTx
  <2>4. TxsAreNew(db, txs)
    BY <2>1 DEF CanSave
  <2> QED BY <2>1, <2>3, <2>4, SaveKeepsStoredOnce
<1>2. CASE RestartWithEmptyDb
  BY <1>2 DEF RestartWithEmptyDb, EmptyDb, StoredOnce
<1>3. CASE db' = db
  BY <1>3
<1> QED BY <1>1, <1>2, <1>3, DbSteps

LEMMA NextBlocksDiffer == ASSUME TypeOK, BlocksDiffer, [Next]_vars PROVE BlocksDiffer'
<1>1. CASE Decide
  <2>1. PICK proposer \in Validators, txs \in Proposals :
        chain' = Append(chain, [proposer |-> proposer, time |-> Len(chain) + 1, txs |-> txs])
    BY <1>1 DEF Decide
  <2> DEFINE b == [proposer |-> proposer, time |-> Len(chain) + 1, txs |-> txs]
             T == DecidedBlocks(sent) \cup {b}
  <2>2. chain \in Seq(T) /\ b \in T
    BY SeqMonotonic DEF TypeOK
  <2>3. IsInjective(b.txs)
    BY DEF Proposals
  <2> HIDE DEF b, T
  <2>4. /\ DOMAIN chain' = 1 .. Len(chain) + 1 /\ Len(chain) \in Nat
        /\ DOMAIN chain = 1 .. Len(chain) /\ chain'[Len(chain) + 1] = b
        /\ \A i \in 1 .. Len(chain) : chain'[i] = chain[i]
    BY <2>1, <2>2, AppendProperties, LenProperties DEF b
  <2>5. \A i \in DOMAIN chain' : i \in DOMAIN chain \/ i = Len(chain) + 1
    BY <2>4
  <2> QED BY <2>3, <2>4, <2>5 DEF BlocksDiffer
<1>2. CASE chain' = chain
  BY <1>2 DEF BlocksDiffer
<1> QED BY <1>1, <1>2 DEF Next, vars, tendermint, InitChain, BeginBlock, DeliverTx, Commit,
    CommitFails, CheckTx, Faucet, SendCoins, CreateVoting, SendVote, Submit, PeerReward,
    RestartKeepingDb, RestartWithEmptyDb, Restart, RestartTendermint, NothingToReplay, Refuse,
    SkipLastBlock, SkipReplayedBlock

LEMMA NextMapsMade == ASSUME TypeOK, MapsMade, [Next]_vars PROVE MapsMade'
<1>1. checkTxState \in Executors(sent) /\ deliverTxState \in Executors(sent)
  BY DEF TypeOK
<1>2. \A d, tx, ignore : \A ex \in Executors(sent) :
        AppendTx(ex, d, tx, ignore).mapMade = ex.mapMade
  BY DEF AppendTx, Executors
<1>3. CASE Commit
  BY <1>1, <1>3 DEF Commit, Reset, Executors, MapsMade
<1>4. CASE RestartKeepingDb \/ RestartWithEmptyDb
  BY <1>4 DEF RestartKeepingDb, RestartWithEmptyDb, Restart, MapsMade
<1>5. CASE BeginBlock
  BY <1>1, <1>5 DEF BeginBlock, ExecBeginBlock, Executors, MapsMade
<1>6. CASE DeliverTx
  <2> DEFINE no == FALSE
  <2> HIDE DEF no
  <2>1. deliverTxState' = AppendTx(deliverTxState, db, CurrentBlock.txs[next], no)
        /\ UNCHANGED <<appBlockHash, checkTxState>>
    BY <1>6 DEF DeliverTx, no
  <2> QED BY <1>1, <1>2, <2>1 DEF MapsMade
<1>7. CASE CheckTx
  <2> DEFINE yes == TRUE
  <2> HIDE DEF yes
  <2>1. PICK tx : checkTxState' = AppendTx(checkTxState, db, tx, yes)
    BY <1>7 DEF CheckTx, yes
  <2>2. UNCHANGED <<appBlockHash, deliverTxState>>
    BY <1>7 DEF CheckTx
  <2> QED BY <1>1, <1>2, <2>1, <2>2 DEF MapsMade
<1>8. CASE UNCHANGED <<appBlockHash, checkTxState, deliverTxState>>
  BY <1>8 DEF MapsMade
<1> QED BY <1>3, <1>4, <1>5, <1>6, <1>7, <1>8 DEF Next, vars, app, InitChain, CommitFails,
    Decide, Faucet, SendCoins, CreateVoting, SendVote, Submit, PeerReward, RestartTendermint

\* A step that neither stops the node nor starts it changes no reason to stop.
LEMMA QuietHalts ==
    ASSUME HaltsOnlyIfUnstorable,
           UNCHANGED <<db, appBlockHash, deliverTxState, skips, tmRestarts>>,
           phase' = phase \/ phase' \in {"init", "idle", "block"}
    PROVE  HaltsOnlyIfUnstorable'
BY DEF HaltsOnlyIfUnstorable, StoppedByKeptDb

\* A panic of an executor before the first commit.
LEMMA PanicHalts ==
    ASSUME MapsMade, ForeignKeys(db), NEW tx, Signed(tx), NEW ignore,
           NEW ex \in {checkTxState, deliverTxState},
           AppendCode(ex, db, tx, ignore) = "Panic",
           UNCHANGED <<db, appBlockHash>>, phase' = "halted"
    PROVE  HaltsOnlyIfUnstorable'
<1>1. ~ ex.mapMade /\ DOMAIN db.block # {}
  BY PanicNeedsBlock
<1>2. appBlockHash = Nil
  BY <1>1 DEF MapsMade
<1>3. StoppedByKeptDb'
  BY <1>1, <1>2 DEF StoppedByKeptDb
<1> QED BY <1>3 DEF HaltsOnlyIfUnstorable

LEMMA NextHalts ==
    ASSUME ChainInv, ReplayInv, HaltInv, [Next]_vars
    PROVE  HaltsOnlyIfUnstorable'
<1>1. TypeOK /\ HaltsOnlyIfUnstorable /\ MapsMade /\ SignedTxs(sent) /\ ForeignKeys(db)
  BY DEF ChainInv, IInv, HaltInv, TypeOK
<1>2. CASE DeliverTx
  <2> DEFINE no == FALSE
             tx == CurrentBlock.txs[next]
  <2> HIDE DEF no
  <2>1. tx \in sent
    BY <1>1, <1>2, CurrentTxType DEF DeliverTx, TypeOK
  <2>2. /\ phase' = IF AppendCode(deliverTxState, db, tx, no) = "Panic" THEN "halted" ELSE phase
        /\ UNCHANGED <<db, appBlockHash, skips, tmRestarts>> /\ phase = "block"
    BY <1>2 DEF DeliverTx, no, counters
  <2> HIDE DEF tx
  <2>3. CASE AppendCode(deliverTxState, db, tx, no) = "Panic"
    BY <1>1, <2>1, <2>2, <2>3, PanicHalts DEF SignedTxs
  <2>4. CASE AppendCode(deliverTxState, db, tx, no) # "Panic"
    BY <2>2, <2>4 DEF HaltsOnlyIfUnstorable
  <2> QED BY <2>3, <2>4
<1>3. CASE CheckTx
  <2> DEFINE yes == TRUE
  <2> HIDE DEF yes
  <2>1. PICK tx \in sent :
            phase' = IF AppendCode(checkTxState, db, tx, yes) = "Panic" THEN "halted" ELSE phase
    BY <1>3 DEF CheckTx, yes
  <2>2. UNCHANGED <<db, appBlockHash, deliverTxState, skips, tmRestarts>>
    BY <1>3 DEF CheckTx, counters
  <2>3. CASE AppendCode(checkTxState, db, tx, yes) = "Panic"
    BY <1>1, <2>1, <2>2, <2>3, PanicHalts DEF SignedTxs
  <2>4. CASE AppendCode(checkTxState, db, tx, yes) # "Panic"
    BY <1>1, <2>1, <2>2, <2>4, QuietHalts
  <2> QED BY <2>3, <2>4
<1>4. CASE Commit
  <2>1. phase' = (IF HashAgreed THEN "idle" ELSE "refused") /\ UNCHANGED counters
    BY <1>4 DEF Commit
  <2>2. CASE skips = 0
    <3>1. HashAgreed
      BY <1>1, <1>4, <2>2, CommitFollowsHistory
    <3> QED BY <2>1, <3>1 DEF HaltsOnlyIfUnstorable
  <2>3. CASE skips # 0
    <3>1. tmRestarts > 0
      BY <1>1, <2>3 DEF TypeOK
    <3> QED BY <2>1, <3>1 DEF HaltsOnlyIfUnstorable, counters
  <2> QED BY <2>2, <2>3
<1>5. CASE CommitFails
  BY <1>5, CommitFailsForReason
<1>6. CASE RestartKeepingDb \/ RestartWithEmptyDb
  BY <1>6 DEF RestartKeepingDb, RestartWithEmptyDb, Restart, HaltsOnlyIfUnstorable
<1>7. CASE RestartTendermint
  <2>1. UNCHANGED <<db, app>> /\ tmRestarts' = tmRestarts + 1 /\ tmRestarts \in Nat
    BY <1>1, <1>7 DEF RestartTendermint, TypeOK
  <2>2. tmRestarts' > 0
    BY <2>1
  <2>3. \/ phase' = phase /\ skips' = skips
        \/ phase' \in {"idle", "refused"}
    BY <1>7 DEF RestartTendermint, NothingToReplay, Refuse, SkipLastBlock, SkipReplayedBlock,
       tendermint
  <2> QED BY <1>1, <2>1, <2>2, <2>3 DEF HaltsOnlyIfUnstorable, StoppedByKeptDb, app
<1>8. CASE InitChain \/ BeginBlock
  <2>1. phase' \in {"idle", "block"}
    BY <1>8 DEF InitChain, BeginBlock
  <2> QED BY <2>1 DEF HaltsOnlyIfUnstorable
<1>9. CASE Decide \/ Faucet \/ SendCoins \/ CreateVoting \/ SendVote \/ PeerReward
           \/ UNCHANGED vars
  <2>1. UNCHANGED <<db, app, phase, counters>>
    BY <1>9 DEF Decide, Faucet, SendCoins, CreateVoting, SendVote, Submit, PeerReward, vars,
       tendermint
  <2> QED BY <1>1, <2>1, QuietHalts DEF app, counters
<1> QED BY <1>2, <1>3, <1>4, <1>5, <1>6, <1>7, <1>8, <1>9 DEF Next

LEMMA HaltInductive == Spec => []HaltInv
<1>1. Init => HaltInv
  <2> SUFFICES ASSUME Init PROVE HaltInv
    OBVIOUS
  <2>1. SignedTxs(sent) /\ StoredOnce(db)
    BY DEF Init, SignedTxs, StoredOnce, EmptyDb
  <2>2. BlocksDiffer /\ MapsMade /\ HaltsOnlyIfUnstorable
    BY DEF Init, BlocksDiffer, MapsMade, HaltsOnlyIfUnstorable
  <2> QED BY <2>1, <2>2 DEF HaltInv
<1>2. ASSUME ChainInv, ChainInv', ReplayInv, ProperTxs(sent), HaltInv, [Next]_vars PROVE HaltInv'
  <2>1. SignedTxs(sent') /\ HaltsOnlyIfUnstorable'
    BY <1>2, NextSignedTxs, NextHalts DEF HaltInv
  <2>2. StoredOnce(db')
    BY <1>2, NextStoredOnce DEF HaltInv
  <2>3. BlocksDiffer' /\ MapsMade'
    BY <1>2, NextBlocksDiffer, NextMapsMade DEF HaltInv, ChainInv, IInv
  <2> QED BY <2>1, <2>2, <2>3 DEF HaltInv
<1> QED BY <1>1, <1>2, ChainInductive, ReplayInductive, BooksInductive, PTL DEF Spec

\* A validator stops for three reasons only: a value that does not fit its
\* column (SaveNextBlock of database.go), a start over a database that already
\* has a first block, and a Tendermint that was started again without it.  What
\* AppendTx accepts can otherwise be stored, and a replay computes the app hashes
\* that Tendermint has.
THEOREM StopsOnlyIfUnstorable == Spec => []HaltsOnlyIfUnstorable
BY HaltInductive, PTL DEF HaltInv

-----------------------------------------------------------------------------
(* What is read back is what was stored.                                   *)
(*                                                                         *)
(* The rows of a transaction, put in the order of their index, are the     *)
(* lists of its body, and the transactions of a block in the order of      *)
(* theirs are those it was made of: so a block read back has the Merkle    *)
(* root and the hash it was stored under.                                  *)

\* Numbers that grow from 1 to n within 1 .. n are 1 to n.
LEMMA GrowingIsIdentity ==
    ASSUME NEW n \in Nat, NEW p \in [1 .. n -> 1 .. n],
           \A i, j \in 1 .. n : i < j => p[i] < p[j]
    PROVE  \A i \in 1 .. n : p[i] = i
<1>1. \A i \in 1 .. n : p[i] >= i
  <2> DEFINE N == {m \in Nat : m \in 1 .. n => p[m] >= m}
  <2>1. 0 \in N
    OBVIOUS
  <2>2. ASSUME NEW m \in Nat, m \in N PROVE m + 1 \in N
    <3> SUFFICES ASSUME m + 1 \in 1 .. n PROVE p[m + 1] >= m + 1
      OBVIOUS
    <3>1. CASE m = 0
      BY <3>1
    <3>2. CASE m # 0
      <4>1. m \in 1 .. n /\ m < m + 1 /\ p[m] \in 1 .. n /\ p[m + 1] \in 1 .. n
        BY <3>2
      <4>2. p[m] >= m
        BY <2>2, <4>1
      <4>3. p[m] < p[m + 1]
        BY <4>1
      <4> QED BY <4>1, <4>2, <4>3
    <3> QED BY <3>1, <3>2
  <2> HIDE DEF N
  <2>3. Nat \subseteq N
    BY <2>1, <2>2, NaturalInduct
  <2> QED BY <2>3 DEF N
<1>2. \A i \in 1 .. n : p[i] <= i
  <2> DEFINE N == {m \in Nat : n - m \in 1 .. n => p[n - m] <= n - m}
  <2>1. 0 \in N
    OBVIOUS
  <2>2. ASSUME NEW m \in Nat, m \in N PROVE m + 1 \in N
    <3> SUFFICES ASSUME n - (m + 1) \in 1 .. n PROVE p[n - (m + 1)] <= n - (m + 1)
      OBVIOUS
    <3> DEFINE i == n - (m + 1)
               j == n - m
    <3>1. i \in 1 .. n /\ j \in 1 .. n /\ i < j /\ i = j - 1
      OBVIOUS
    <3>2. p[j] <= j
      BY <2>2, <3>1
    <3> HIDE DEF i, j
    <3>3. p[i] < p[j] /\ p[i] \in 1 .. n /\ p[j] \in 1 .. n
      BY <3>1
    <3>4. p[i] <= i
      BY <3>1, <3>2, <3>3
    <3> QED BY <3>4 DEF i
  <2> HIDE DEF N
  <2>3. Nat \subseteq N
    BY <2>1, <2>2, NaturalInduct
  <2>4. ASSUME NEW i \in 1 .. n PROVE p[i] <= i
    <3>1. n - i \in N
      BY <2>3
    <3>2. n - (n - i) = i
      OBVIOUS
    <3> QED BY <3>1, <3>2 DEF N
  <2> QED BY <2>4
<1>3. \A i \in 1 .. n : p[i] \in 1 .. n
  OBVIOUS
<1> QED BY <1>1, <1>2, <1>3

\* Rows whose column counts them from 0 are read in its order.
Counted(rows, column, n, e) ==
    /\ n \in Nat /\ e \in [1 .. n -> rows]
    /\ \A row \in rows : \E k \in 1 .. n : e[k] = row
    /\ \A k \in 1 .. n : column[e[k]] = k - 1

LEMMA OrderedRows ==
    ASSUME NEW rows, NEW column, NEW n, NEW e, Counted(rows, column, n, e)
    PROVE  OrderBy(rows, column) = e
<1>0. /\ n \in Nat /\ e \in [1 .. n -> rows]
      /\ \A row \in rows : \E k \in 1 .. n : e[k] = row
      /\ \A k \in 1 .. n : column[e[k]] = k - 1
  BY DEF Counted
<1> DEFINE sorted(list) == \A i, j \in DOMAIN list : i < j => column[list[i]] <= column[list[j]]
           list == OrderBy(rows, column)
<1>1. \A i, j \in 1 .. n : e[i] = e[j] => i = j
  <2> SUFFICES ASSUME NEW i \in 1 .. n, NEW j \in 1 .. n, e[i] = e[j] PROVE i = j
    OBVIOUS
  <2>1. i - 1 = j - 1
    BY <1>0
  <2> QED BY <2>1
<1>2. Cardinality(rows) = n
  <2>1. e \in Bijection(1 .. n, rows)
    BY <1>0, <1>1 DEF Bijection, Injection, Surjection, IsInjective
  <2> QED BY <1>0, <2>1, FS_CountingElements DEF ExistsBijection
<1>3. SetToSeqs(rows) = {f \in [1 .. n -> rows] : \A i, j \in 1 .. n : i # j => f[i] # f[j]}
  BY <1>2 DEF SetToSeqs
<1>4. e \in SetToSeqs(rows) /\ sorted(e)
  BY <1>0, <1>1, <1>3
<1>5. list \in SetToSeqs(rows) /\ sorted(list)
  BY <1>4 DEF OrderBy
<1> HIDE DEF list
<1>6. list \in [1 .. n -> rows] /\ \A i, j \in 1 .. n : i # j => list[i] # list[j]
  BY <1>3, <1>5
<1> DEFINE p == [i \in 1 .. n |-> column[list[i]] + 1]
<1>7. ASSUME NEW i \in 1 .. n PROVE p[i] \in 1 .. n /\ list[i] = e[p[i]]
  <2>1. PICK k \in 1 .. n : e[k] = list[i]
    BY <1>0, <1>6
  <2>2. column[list[i]] = k - 1
    BY <1>0, <2>1
  <2> QED BY <2>1, <2>2
<1>8. ASSUME NEW i \in 1 .. n, NEW j \in 1 .. n, i < j PROVE p[i] < p[j]
  <2>1. column[list[i]] <= column[list[j]] /\ list[i] # list[j]
    BY <1>5, <1>6, <1>8
  <2>2. PICK x \in 1 .. n : e[x] = list[i]
    BY <1>0, <1>6
  <2>3. PICK y \in 1 .. n : e[y] = list[j]
    BY <1>0, <1>6
  <2>4. column[list[i]] = x - 1 /\ column[list[j]] = y - 1
    BY <1>0, <2>2, <2>3
  <2>5. x < y
    BY <2>1, <2>2, <2>3, <2>4
  <2>6. p[i] = column[list[i]] + 1 /\ p[j] = column[list[j]] + 1
    OBVIOUS
  <2> HIDE DEF p
  <2>7. p[i] = x /\ p[j] = y
    BY <2>4, <2>6
  <2> QED BY <2>5, <2>7
<1>9. p \in [1 .. n -> 1 .. n]
  BY <1>7
<1> HIDE DEF p
<1>10. \A i \in 1 .. n : p[i] = i
  BY <1>0, <1>8, <1>9, GrowingIsIdentity
<1>11. \A i \in 1 .. n : list[i] = e[i]
  BY <1>7, <1>10
<1> QED BY <1>0, <1>6, <1>11 DEF list

-----------------------------------------------------------------------------
(* The bodies that users sign hold inputs, outputs and the columns of the  *)
(* transaction, and nothing that the tables do not keep.                   *)

InputList(inputs) ==
    \E X : inputs \in Seq(X) /\ \A x \in X : x = Input(x.prevTxHash, x.outputIndex)

OutputList(outputs) ==
    \E X : outputs \in Seq(X) /\ \A x \in X : x = Output(x.value, x.spendPkey)

Filed(body) ==
    /\ Len(body.inputs) \in Nat /\ Len(body.outputs) \in Nat
    /\ body.inputs = [k \in 1 .. Len(body.inputs) |->
                        Input(body.inputs[k].prevTxHash, body.inputs[k].outputIndex)]
    /\ body.outputs = [k \in 1 .. Len(body.outputs) |-> Columns(body.outputs[k])]
    /\ \A k \in 1 .. Len(body.outputs) : body.outputs[k].scanPkey = Nil
    /\ body = TxBody(body.inputs, body.outputs, body.hashLink, body.valueType,
                     body.voteType, body.duration)

LEMMA ListsAreFiled ==
    ASSUME NEW inputs, InputList(inputs), NEW outputs, OutputList(outputs),
           NEW hashLink, NEW valueType, NEW voteType, NEW duration
    PROVE  Filed(TxBody(inputs, outputs, hashLink, valueType, voteType, duration))
<1> DEFINE body == TxBody(inputs, outputs, hashLink, valueType, voteType, duration)
<1>1. PICK X : inputs \in Seq(X) /\ \A x \in X : x = Input(x.prevTxHash, x.outputIndex)
  BY DEF InputList
<1>2. PICK Y : outputs \in Seq(Y) /\ \A y \in Y : y = Output(y.value, y.spendPkey)
  BY DEF OutputList
<1>3. /\ Len(inputs) \in Nat /\ inputs \in [1 .. Len(inputs) -> X]
      /\ Len(outputs) \in Nat /\ outputs \in [1 .. Len(outputs) -> Y]
  BY <1>1, <1>2, LenProperties
<1>4. inputs = [k \in 1 .. Len(inputs) |-> Input(inputs[k].prevTxHash, inputs[k].outputIndex)]
  BY <1>1, <1>3
<1>5. /\ outputs = [k \in 1 .. Len(outputs) |-> Columns(outputs[k])]
      /\ \A k \in 1 .. Len(outputs) : outputs[k].scanPkey = Nil
  <2>1. \A y \in Y : y = Columns(y) /\ y.scanPkey = Nil
    BY <1>2 DEF Output, Columns
  <2> QED BY <1>3, <2>1
<1>6. /\ body.inputs = inputs /\ body.outputs = outputs
      /\ body.hashLink = hashLink /\ body.valueType = valueType
      /\ body.voteType = voteType /\ body.duration = duration
  BY DEF TxBody
<1> HIDE DEF body
<1>7. body = TxBody(body.inputs, body.outputs, body.hashLink, body.valueType,
                    body.voteType, body.duration)
  BY <1>6 DEF body
<1>8. Filed(body)
  BY <1>3, <1>4, <1>5, <1>6, <1>7 DEF Filed
<1> QED BY <1>8 DEF body

LEMMA NothingListed == InputList(<<>>) /\ OutputList(<<>>)
<1> DEFINE X == {}
<1>1. <<>> \in Seq(X)
  BY EmptySeq
<1>2. \A x \in X : x = Input(x.prevTxHash, x.outputIndex) /\ x = Output(x.value, x.spendPkey)
  OBVIOUS
<1> HIDE DEF X
<1> QED BY <1>1, <1>2 DEF InputList, OutputList

LEMMA OneOutput == \A value, key : OutputList(<<Output(value, key)>>)
<1> TAKE value, key
<1> DEFINE out == Output(value, key)
<1>1. out = Output(out.value, out.spendPkey)
  BY DEF Output
<1> HIDE DEF out
<1> DEFINE X == {out}
<1>2. <<out>> \in Seq(X) /\ \A x \in X : x = Output(x.value, x.spendPkey)
  BY <1>1
<1> HIDE DEF X
<1>3. OutputList(<<out>>)
  BY <1>2 DEF OutputList
<1> QED BY <1>3 DEF out

LEMMA OutputsWithChange ==
    ASSUME NEW outputs, OutputList(outputs), NEW change, OutputList(change)
    PROVE  OutputList(outputs \o change)
<1>1. PICK X : outputs \in Seq(X) /\ \A x \in X : x = Output(x.value, x.spendPkey)
  BY DEF OutputList
<1>2. PICK Y : change \in Seq(Y) /\ \A y \in Y : y = Output(y.value, y.spendPkey)
  BY DEF OutputList
<1> DEFINE Z == X \cup Y
<1>3. outputs \in Seq(Z) /\ change \in Seq(Z)
  BY <1>1, <1>2, SeqMonotonic
<1>4. \A z \in Z : z = Output(z.value, z.spendPkey)
  BY <1>1, <1>2
<1> HIDE DEF Z
<1>5. outputs \o change \in Seq(Z)
  BY <1>3, ConcatProperties
<1> QED BY <1>4, <1>5 DEF OutputList

LEMMA CreatedIsFiled ==
    ASSUME NEW d, FiniteTables(d), ValuesAreInts(d), NEW key, NEW outputs, OutputList(outputs),
           NEW valueType, NEW voteType, NEW duration,
           NEW tx \in Created(d, key, outputs, valueType, voteType, duration)
    PROVE  Filed(tx.txBody)
<1>1. PICK utxos \in SetToSeqs(GetUTXOSByPkey(d, key)) :
            tx = CreateTx(utxos, outputs, valueType, key, voteType, duration)
  BY DEF Created
<1>2. PICK n \in Nat : /\ DOMAIN utxos = 1 .. n
                       /\ \A i \in 1 .. n : utxos[i].value \in Int
  BY UtxosAreListed
<1> DEFINE need == OutputsSum(outputs)
           taken == TakeInputs(utxos, valueType, need)
           change == IF taken.sum > need
                     THEN <<Output(taken.sum - need, utxos[1].spendPkey)>> ELSE <<>>
           X == {Input(utxos[i].txHash, utxos[i].index) : i \in 1 .. n}
<1>3. InputList(taken.inputs)
  <2>1. Utxos(utxos, n, X)
    BY <1>2 DEF Utxos
  <2>2. \A x \in X : x = Input(x.prevTxHash, x.outputIndex)
    BY DEF Input
  <2> HIDE DEF X, need
  <2>3. taken \in SomeTaken(X)
    BY <2>1, TakeInputsType
  <2> HIDE DEF taken
  <2>4. taken.inputs \in Seq(X)
    BY <2>3 DEF SomeTaken
  <2> QED BY <2>2, <2>4 DEF InputList
<1>4. tx.txBody = TxBody(taken.inputs, outputs \o change, Nil, valueType, voteType, duration)
  BY <1>1 DEF CreateTx, Sign
<1> HIDE DEF taken, need
<1>5. OutputList(change)
  BY OneOutput, NothingListed
<1> HIDE DEF change
<1>6. OutputList(outputs \o change)
  BY <1>5, OutputsWithChange
<1> QED BY <1>3, <1>4, <1>6, ListsAreFiled

LEMMA BallotsAreOutputs ==
    ASSUME NEW amount, NEW electorate \in Electorates,
           NEW ballots \in Ballots(electorate, amount)
    PROVE  OutputList(ballots)
<1>1. PICK order \in SetToSeqs(electorate) :
            ballots = [i \in DOMAIN order |-> Output(amount, order[i])]
  BY DEF Ballots
<1>2. Cardinality(electorate) \in Nat
  BY WalletsAssumption, FS_CardinalityType
<1> DEFINE n == Cardinality(electorate)
           X == {Output(amount, payee) : payee \in electorate}
<1>3. DOMAIN order = 1 .. n /\ \A i \in 1 .. n : order[i] \in electorate
  BY DEF SetToSeqs
<1>4. ballots \in [1 .. n -> X]
  BY <1>1, <1>3
<1>5. \A x \in X : x = Output(x.value, x.spendPkey)
  BY DEF Output
<1> HIDE DEF n, X
<1>6. ballots \in Seq(X)
  BY <1>2, <1>4, SeqDef DEF n
<1> QED BY <1>5, <1>6 DEF OutputList

LEMMA WalletTxsAreFiled ==
    ASSUME NEW d, FiniteTables(d), ValuesAreInts(d), NEW v, NEW voteType,
           NEW tx \in FaucetTxs(d, v) \cup SendTxs(d) \cup CreateVoteTxs(d, voteType)
                        \cup SendVoteTxs(d)
    PROVE  Filed(tx.txBody)
<1>1. CASE tx \in FaucetTxs(d, v)
  <2>1. PICK amount \in Amounts, payee \in Payees :
            tx \in Created(d, v, <<Output(amount, payee)>>, Nil, 0, 0)
    BY <1>1 DEF FaucetTxs
  <2> QED BY <2>1, OneOutput, CreatedIsFiled
<1>2. CASE tx \in SendTxs(d)
  <2>1. PICK user \in Users, amount \in Amounts, payee \in Payees :
            tx \in Created(d, user, <<Output(amount, payee)>>, Nil, 0, 0)
    BY <1>2 DEF SendTxs
  <2> QED BY <2>1, OneOutput, CreatedIsFiled
<1>3. CASE tx \in CreateVoteTxs(d, voteType)
  <2>1. PICK user \in Users, electorate \in Electorates, amount \in Amounts,
             duration \in Durations :
            \E ballots \in Ballots(electorate, amount) :
                tx \in Created(d, user, ballots, Nil, voteType, duration)
    BY <1>3 DEF CreateVoteTxs
  <2> QED BY <2>1, BallotsAreOutputs, CreatedIsFiled
<1>4. CASE tx \in SendVoteTxs(d)
  <2>1. PICK user \in Users, amount \in Amounts, payee \in Payees :
            \E utxo \in GetUTXOSByPkey(d, user) :
                tx \in Created(d, user, <<Output(amount, payee)>>, utxo.valueType, 0, 0)
    BY <1>4 DEF SendVoteTxs
  <2> QED BY <2>1, OneOutput, CreatedIsFiled
<1> QED BY <1>1, <1>2, <1>3, <1>4

LEMMA RewardIsFiled == \A v, h : Filed(CreateMiningReward(v, h).txBody)
BY NothingListed, OneOutput, ListsAreFiled DEF CreateMiningReward, Sign

FiledTxs(S) == \A tx \in S : Filed(tx.txBody)

LEMMA NextFiledTxs ==
    ASSUME FiledTxs(sent), FiniteTables(db), ValuesAreInts(db), [Next]_vars
    PROVE  FiledTxs(sent')
<1>1. CASE Commit \/ CommitFails
  <2>1. sent' = sent \cup RewardForMe(NewBlock)
    BY <1>1 DEF Commit, CommitFails
  <2> QED BY <2>1, RewardIsFiled DEF RewardForMe, FiledTxs
<1>2. CASE Faucet \/ SendCoins \/ CreateVoting \/ SendVote
  <2>1. PICK tx : Filed(tx.txBody) /\ sent' = sent \cup {tx}
    BY <1>2, WalletTxsAreFiled DEF Faucet, SendCoins, CreateVoting, SendVote, Submit
  <2> QED BY <2>1 DEF FiledTxs
<1>3. CASE PeerReward
  BY <1>3, RewardIsFiled DEF PeerReward, FiledTxs
<1>4. CASE sent' = sent
  BY <1>4
<1> QED BY <1>1, <1>2, <1>3, <1>4 DEF Next, vars, InitChain, BeginBlock, DeliverTx, CheckTx,
    Decide, RestartKeepingDb, RestartWithEmptyDb, Restart, RestartTendermint

-----------------------------------------------------------------------------
(* The rows of the tables are those bodies.                                *)

BodyRow(h, body, k) ==
    [tx |-> h, index |-> k - 1, prevTx |-> body.inputs[k].prevTxHash,
     outputIndex |-> body.inputs[k].outputIndex]

\* The rows that name a transaction are its inputs and outputs, in their places.
RowsAreBodies(d) ==
    \A h \in DOMAIN d.transaction :
        LET body == d.transaction[h].txBody
        IN /\ Filed(body)
           /\ RowsOf(d, h) = {BodyRow(h, body, k) : k \in 1 .. Len(body.inputs)}
           /\ OutputsOf(d, h) = {<<h, k - 1>> : k \in 1 .. Len(body.outputs)}
           /\ \A k \in 1 .. Len(body.outputs) :
                Columns(d.output[<<h, k - 1>>]) = Columns(body.outputs[k])

LEMMA OldColumns ==
    ASSUME NEW d, NEW b, NEW o \in DOMAIN d.output
    PROVE  /\ o \in DOMAIN SaveNextBlock(d, b).output
           /\ Columns(SaveNextBlock(d, b).output[o]) = Columns(d.output[o])
<1>1. /\ o \in DOMAIN SaveNextBlock(d, b).output
      /\ SaveNextBlock(d, b).output[o] = SavedOutput(d, b.transactions, o)
  BY DEF SaveNextBlock, SavedOutputs
<1> QED BY <1>1 DEF SavedOutput, Columns

LEMMA SaveKeepsRows ==
    ASSUME NEW d, NEW b, ForeignKeys(d), GoodBlock(d, b), RowsAreBodies(d),
           \A i \in DOMAIN b.transactions : Filed(b.transactions[i].txBody)
    PROVE  RowsAreBodies(SaveNextBlock(d, b))
<1> DEFINE txs == b.transactions
           e == SaveNextBlock(d, b)
<1> SUFFICES ASSUME NEW h \in DOMAIN e.transaction
             PROVE  LET body == e.transaction[h].txBody
                    IN /\ Filed(body)
                       /\ RowsOf(e, h) = {BodyRow(h, body, k) : k \in 1 .. Len(body.inputs)}
                       /\ OutputsOf(e, h) = {<<h, k - 1>> : k \in 1 .. Len(body.outputs)}
                       /\ \A k \in 1 .. Len(body.outputs) :
                            Columns(e.output[<<h, k - 1>>]) = Columns(body.outputs[k])
  BY DEF RowsAreBodies
<1>1. ASSUME NEW row \in e.input, row \notin d.input
      PROVE  \E i \in DOMAIN txs : \E k \in 1 .. Len(txs[i].txBody.inputs) :
                row = BodyRow(txs[i].hash, txs[i].txBody, k)
  <2>1. row \in InputRows(d, txs)
    BY <1>1 DEF SaveNextBlock
  <2> QED BY <2>1 DEF InputRows, BodyRow
<1>2. ASSUME NEW i \in DOMAIN txs, NEW k \in 1 .. Len(txs[i].txBody.inputs)
      PROVE  BodyRow(txs[i].hash, txs[i].txBody, k) \in e.input
  <2>1. Outpoint(txs[i].txBody.inputs[k]) \in Unspent(d)
    BY AcceptedSpendsUnspent DEF GoodBlock
  <2>2. Outpoint(txs[i].txBody.inputs[k])[1] \in DOMAIN d.transaction
    BY <2>1 DEF ForeignKeys, Unspent
  <2>3. txs[i].txBody.inputs[k].prevTxHash \in KnownAt(d, txs, i)
    BY <2>2 DEF Outpoint, KnownAt
  <2> DEFINE known == {n \in 1 .. Len(txs[i].txBody.inputs) :
                        txs[i].txBody.inputs[n].prevTxHash \in KnownAt(d, txs, i)}
             rows == {[tx |-> txs[i].hash, index |-> n - 1,
                       prevTx |-> txs[i].txBody.inputs[n].prevTxHash,
                       outputIndex |-> txs[i].txBody.inputs[n].outputIndex] : n \in known}
  <2>4. BodyRow(txs[i].hash, txs[i].txBody, k) \in rows
    BY <2>3 DEF BodyRow
  <2>5. rows \subseteq InputRows(d, txs)
    BY DEF InputRows
  <2> QED BY <2>4, <2>5 DEF SaveNextBlock
<1>3. \A row \in d.input : row \in e.input /\ row.tx \in DOMAIN d.transaction
  BY DEF SaveNextBlock, ForeignKeys
<1>4. ASSUME NEW o \in DOMAIN e.output, o \notin DOMAIN d.output
      PROVE  \E i \in DOMAIN txs : \E k \in 1 .. Len(txs[i].txBody.outputs) :
                o = <<txs[i].hash, k - 1>>
  <2>1. \E i \in DOMAIN txs : \E k \in 1 .. Len(txs[i].txBody.outputs) :
            /\ o = <<txs[i].hash, k - 1>>
            /\ o[1] \in DOMAIN e.transaction
            /\ e.transaction[o[1]] = [block |-> b.hash, index |-> i - 1,
                                     txBody |-> txs[i].txBody, sig |-> txs[i].sig]
    BY <1>4, NewOutputIsInBlock
  <2> QED BY <2>1
<1>5. ASSUME NEW i \in DOMAIN txs, NEW k \in 1 .. Len(txs[i].txBody.outputs)
      PROVE  /\ <<txs[i].hash, k - 1>> \in DOMAIN e.output
             /\ Columns(e.output[<<txs[i].hash, k - 1>>]) = Columns(txs[i].txBody.outputs[k])
  <2>1. LET tx == b.transactions[i]
            o == <<tx.hash, k - 1>>
        IN /\ o \in DOMAIN e.output /\ o \notin DOMAIN d.output
           /\ e.output[o].value = tx.txBody.outputs[k].value
           /\ Columns(e.output[o]) = Columns(tx.txBody.outputs[k])
    BY SavedNewOutput
  <2> QED BY <2>1
<1>6. \A o \in DOMAIN d.output :
            /\ o[1] \in DOMAIN d.transaction /\ o \in DOMAIN e.output
            /\ Columns(e.output[o]) = Columns(d.output[o])
  BY OldColumns DEF ForeignKeys
<1>7. \A i \in DOMAIN txs : /\ txs[i].hash \notin DOMAIN d.transaction
                            /\ \A j \in DOMAIN txs : txs[j].hash = txs[i].hash => j = i
  BY DEF GoodBlock, TxsAreNew
<1>8. CASE h \in DOMAIN d.transaction
  <2> DEFINE body == d.transaction[h].txBody
  <2>1. e.transaction[h] = d.transaction[h]
    BY <1>8, SaveKeepsTransactions
  <2>2. /\ Filed(body)
        /\ RowsOf(d, h) = {BodyRow(h, body, k) : k \in 1 .. Len(body.inputs)}
        /\ OutputsOf(d, h) = {<<h, k - 1>> : k \in 1 .. Len(body.outputs)}
        /\ \A k \in 1 .. Len(body.outputs) :
             Columns(d.output[<<h, k - 1>>]) = Columns(body.outputs[k])
    BY <1>8 DEF RowsAreBodies
  <2> HIDE DEF body
  <2>3. RowsOf(e, h) = RowsOf(d, h)
    <3>1. \A row \in e.input : row.tx = h => row \in d.input
      <4> SUFFICES ASSUME NEW row \in e.input, row.tx = h, row \notin d.input PROVE FALSE
        OBVIOUS
      <4>1. PICK i \in DOMAIN txs : row.tx = txs[i].hash
        BY <1>1 DEF BodyRow
      <4> QED BY <1>7, <1>8, <4>1
    <3> QED BY <1>3, <3>1 DEF RowsOf
  <2>4. OutputsOf(e, h) = OutputsOf(d, h)
    <3>1. \A o \in DOMAIN e.output : o[1] = h => o \in DOMAIN d.output
      <4> SUFFICES ASSUME NEW o \in DOMAIN e.output, o[1] = h, o \notin DOMAIN d.output PROVE FALSE
        OBVIOUS
      <4>1. PICK i \in DOMAIN txs : o[1] = txs[i].hash
        BY <1>4
      <4> QED BY <1>7, <1>8, <4>1
    <3> QED BY <1>6, <3>1 DEF OutputsOf
  <2>5. \A k \in 1 .. Len(body.outputs) :
            Columns(e.output[<<h, k - 1>>]) = Columns(d.output[<<h, k - 1>>])
    <3> SUFFICES ASSUME NEW k \in 1 .. Len(body.outputs)
                 PROVE  Columns(e.output[<<h, k - 1>>]) = Columns(d.output[<<h, k - 1>>])
      OBVIOUS
    <3>1. <<h, k - 1>> \in OutputsOf(d, h)
      BY <2>2
    <3> QED BY <1>6, <3>1 DEF OutputsOf
  <2> QED BY <2>1, <2>2, <2>3, <2>4, <2>5 DEF body
<1>9. CASE h \notin DOMAIN d.transaction
  <2>1. PICK i \in DOMAIN txs : h = txs[i].hash
    BY <1>9 DEF SaveNextBlock, SavedTransactions
  <2> DEFINE body == txs[i].txBody
  <2>2. e.transaction[h].txBody = body
    <3>1. TxsAreNew(d, txs)
      BY DEF GoodBlock
    <3>2. e.transaction[txs[i].hash] = [block |-> b.hash, index |-> i - 1,
                                        txBody |-> txs[i].txBody, sig |-> txs[i].sig]
      BY <3>1, StoredAtIndex
    <3> QED BY <2>1, <3>2
  <2>3. Filed(body)
    OBVIOUS
  <2>4. RowsOf(e, h) = {BodyRow(h, body, k) : k \in 1 .. Len(body.inputs)}
    <3>1. ASSUME NEW row \in RowsOf(e, h)
          PROVE  \E k \in 1 .. Len(body.inputs) : row = BodyRow(h, body, k)
      <4>1. row \in e.input /\ row.tx = h /\ row \notin d.input
        BY <1>3, <1>9 DEF RowsOf
      <4>2. PICK j \in DOMAIN txs : \E k \in 1 .. Len(txs[j].txBody.inputs) :
                row = BodyRow(txs[j].hash, txs[j].txBody, k)
        BY <1>1, <4>1
      <4>3. row.tx = txs[j].hash
        BY <4>2 DEF BodyRow
      <4>4. j = i
        BY <1>7, <2>1, <4>1, <4>3
      <4> QED BY <2>1, <4>2, <4>4
    <3>2. ASSUME NEW k \in 1 .. Len(body.inputs) PROVE BodyRow(h, body, k) \in RowsOf(e, h)
      <4>1. BodyRow(h, body, k) \in e.input
        BY <1>2, <2>1
      <4>2. BodyRow(h, body, k).tx = h
        BY DEF BodyRow
      <4> QED BY <4>1, <4>2 DEF RowsOf
    <3> HIDE DEF body
    <3> QED BY <3>1, <3>2
  <2>5. OutputsOf(e, h) = {<<h, k - 1>> : k \in 1 .. Len(body.outputs)}
    <3>1. ASSUME NEW o \in OutputsOf(e, h)
          PROVE  \E k \in 1 .. Len(body.outputs) : o = <<h, k - 1>>
      <4>1. o \in DOMAIN e.output /\ o[1] = h /\ o \notin DOMAIN d.output
        BY <1>6, <1>9 DEF OutputsOf
      <4>2. PICK j \in DOMAIN txs : \E k \in 1 .. Len(txs[j].txBody.outputs) :
                o = <<txs[j].hash, k - 1>>
        BY <1>4, <4>1
      <4>3. j = i
        BY <1>7, <2>1, <4>1, <4>2
      <4> QED BY <2>1, <4>2, <4>3
    <3>2. ASSUME NEW k \in 1 .. Len(body.outputs) PROVE <<h, k - 1>> \in OutputsOf(e, h)
      BY <1>5, <2>1 DEF OutputsOf
    <3> HIDE DEF body
    <3> QED BY <3>1, <3>2
  <2>6. \A k \in 1 .. Len(body.outputs) :
            Columns(e.output[<<h, k - 1>>]) = Columns(body.outputs[k])
    BY <1>5, <2>1
  <2> HIDE DEF body
  <2> QED BY <2>2, <2>3, <2>4, <2>5, <2>6
<1> QED BY <1>8, <1>9

-----------------------------------------------------------------------------
(* The blocks are those that their transactions and their links make.      *)

Root(hashes) == IF hashes = <<>> THEN ZeroHash ELSE buildMerkleTreeMutable(hashes)

TxsOf(d, b) == {h \in DOMAIN d.transaction : d.transaction[h].block = b}

\* The n transactions of a block, in their places.
ListsTxs(d, b, n, hashes) ==
    /\ n \in Nat /\ hashes \in [1 .. n -> TxsOf(d, b)]
    /\ \A h \in TxsOf(d, b) : \E k \in 1 .. n : hashes[k] = h
    /\ \A k \in 1 .. n : d.transaction[hashes[k]].index = k - 1

HeaderOf(d, b, root) ==
    [prevBlockHash |-> d.block[b].prev, merkleTree |-> root,
     proposerPkey |-> d.block[b].proposerPkey, timestamp |-> d.block[b].timestamp]

BlocksAreListed(d) ==
    \A b \in DOMAIN d.block :
        \E n, hashes : ListsTxs(d, b, n, hashes) /\ b = Hash(HeaderOf(d, b, Root(hashes)))

PrevOnce(d) == \A g, h \in DOMAIN d.block : d.block[g].prev = d.block[h].prev => g = h

LEMMA RootOfTxs ==
    ASSUME NEW T, NEW txs \in Seq(T)
    PROVE  BuildMerkleTreeTxs(txs) = Root([i \in 1 .. Len(txs) |-> txs[i].hash])
<1> DEFINE hashes == [i \in 1 .. Len(txs) |-> txs[i].hash]
           S == {txs[i].hash : i \in 1 .. Len(txs)}
<1>1. Len(txs) \in Nat /\ DOMAIN txs = 1 .. Len(txs)
  BY LenProperties
<1>2. hashes \in Seq(S) /\ Len(hashes) = Len(txs)
  <2>1. hashes \in [1 .. Len(txs) -> S]
    OBVIOUS
  <2>2. DOMAIN hashes = 1 .. Len(txs)
    OBVIOUS
  <2> HIDE DEF hashes, S
  <2>3. hashes \in Seq(S)
    BY <1>1, <2>1, SeqDef
  <2> QED BY <1>1, <2>2, <2>3, LenProperties
<1> HIDE DEF hashes, S
<1>3. txs = <<>> <=> hashes = <<>>
  BY <1>1, <1>2, EmptySeq
<1>4. [i \in DOMAIN txs |-> txs[i].hash] = hashes
  BY <1>1 DEF hashes
<1> QED BY <1>3, <1>4 DEF BuildMerkleTreeTxs, Root, hashes

LEMMA SaveKeepsBlocks ==
    ASSUME NEW d, NEW T, NEW txs \in Seq(T), NEW prev, NEW time, NEW proposer,
           ForeignKeys(d), PrevOnce(d), BlocksAreListed(d),
           CanSave(d, CreateBlock(txs, prev, time, proposer))
    PROVE  LET e == SaveNextBlock(d, CreateBlock(txs, prev, time, proposer))
           IN PrevOnce(e) /\ BlocksAreListed(e)
<1> DEFINE b == CreateBlock(txs, prev, time, proposer)
           e == SaveNextBlock(d, b)
<1>1. /\ b.transactions = txs /\ b.blockHeader.prevBlockHash = prev
      /\ b.blockHeader.timestamp = time /\ b.blockHeader.proposerPkey = proposer
      /\ b.hash = Hash([prevBlockHash |-> prev, merkleTree |-> BuildMerkleTreeTxs(txs),
                        proposerPkey |-> proposer, timestamp |-> time])
  BY DEF CreateBlock
<1>2. ChainAllows(d, b) /\ TxsAreNew(d, txs)
  BY <1>1 DEF CanSave
<1> HIDE DEF b
<1>3. /\ DOMAIN e.block = DOMAIN d.block \cup {b.hash} /\ b.hash \notin DOMAIN d.block
      /\ \A h \in DOMAIN d.block : e.block[h] = d.block[h]
      /\ e.block[b.hash].prev = prev /\ e.block[b.hash].timestamp = time
      /\ e.block[b.hash].proposerPkey = proposer
  BY <1>1, <1>2 DEF SaveNextBlock, SavedBlocks, ChainAllows
<1>4. PrevOnce(e)
  <2>1. \A h \in DOMAIN d.block : d.block[h].prev # prev
    BY <1>1, <1>2 DEF ChainAllows
  <2> HIDE DEF e
  <2> QED BY <1>3, <2>1 DEF PrevOnce
<1>5. /\ \A h \in DOMAIN d.transaction :
            /\ h \in DOMAIN e.transaction /\ e.transaction[h] = d.transaction[h]
            /\ e.transaction[h].block # b.hash
      /\ \A h \in DOMAIN e.transaction : h \notin DOMAIN d.transaction =>
            \E i \in DOMAIN txs : h = txs[i].hash
  <2>1. \A h \in DOMAIN d.transaction :
            h \in DOMAIN e.transaction /\ e.transaction[h] = d.transaction[h]
    BY SaveKeepsTransactions
  <2>2. DOMAIN e.transaction = DOMAIN d.transaction \cup {txs[i].hash : i \in DOMAIN txs}
    BY <1>1 DEF SaveNextBlock, SavedTransactions
  <2>3. \A h \in DOMAIN d.transaction : d.transaction[h].block \in DOMAIN d.block
    BY DEF ForeignKeys
  <2> HIDE DEF e
  <2> QED BY <1>3, <2>1, <2>2, <2>3
<1>6. \A i \in DOMAIN txs : /\ txs[i].hash \in DOMAIN e.transaction
                            /\ e.transaction[txs[i].hash].block = b.hash
                            /\ e.transaction[txs[i].hash].index = i - 1
  <2> SUFFICES ASSUME NEW i \in DOMAIN txs
               PROVE  /\ txs[i].hash \in DOMAIN e.transaction
                      /\ e.transaction[txs[i].hash].block = b.hash
                      /\ e.transaction[txs[i].hash].index = i - 1
    OBVIOUS
  <2>1. TxsAreNew(d, b.transactions) /\ i \in DOMAIN b.transactions
    BY <1>1, <1>2
  <2>2. LET tx == b.transactions[i]
        IN /\ tx.hash \in DOMAIN e.transaction
           /\ e.transaction[tx.hash] = [block |-> b.hash, index |-> i - 1,
                                        txBody |-> tx.txBody, sig |-> tx.sig]
    BY <2>1, StoredAtIndex
  <2> QED BY <1>1, <2>2
<1> HIDE DEF e
<1>7. ASSUME NEW g \in DOMAIN d.block
      PROVE  \E n, hashes : ListsTxs(e, g, n, hashes) /\ g = Hash(HeaderOf(e, g, Root(hashes)))
  <2>1. PICK n, hashes : ListsTxs(d, g, n, hashes) /\ g = Hash(HeaderOf(d, g, Root(hashes)))
    BY DEF BlocksAreListed
  <2>2. TxsOf(e, g) = TxsOf(d, g)
    <3>1. \A h \in DOMAIN e.transaction :
                e.transaction[h].block = g => h \in DOMAIN d.transaction
      BY <1>3, <1>5, <1>6
    <3> QED BY <1>5, <3>1 DEF TxsOf
  <2>3. \A h \in TxsOf(d, g) : e.transaction[h] = d.transaction[h]
    BY <1>5 DEF TxsOf
  <2>4. ListsTxs(e, g, n, hashes)
    BY <2>1, <2>2, <2>3 DEF ListsTxs
  <2>5. HeaderOf(e, g, Root(hashes)) = HeaderOf(d, g, Root(hashes))
    BY <1>3 DEF HeaderOf
  <2> QED BY <2>1, <2>4, <2>5
<1>8. \E n, hashes : /\ ListsTxs(e, b.hash, n, hashes)
                     /\ b.hash = Hash(HeaderOf(e, b.hash, Root(hashes)))
  <2> DEFINE n == Len(txs)
             hashes == [i \in 1 .. n |-> txs[i].hash]
  <2>1. n \in Nat /\ DOMAIN txs = 1 .. n
    BY LenProperties
  <2>2. TxsOf(e, b.hash) = {txs[i].hash : i \in 1 .. n}
    <3>1. \A h \in DOMAIN e.transaction :
                e.transaction[h].block = b.hash => h \notin DOMAIN d.transaction
      BY <1>5
    <3> HIDE DEF n
    <3> QED BY <1>5, <1>6, <2>1, <3>1 DEF TxsOf
  <2>3. ListsTxs(e, b.hash, n, hashes)
    <3> HIDE DEF n
    <3>1. hashes \in [1 .. n -> TxsOf(e, b.hash)]
      BY <2>2
    <3>2. \A h \in TxsOf(e, b.hash) : \E k \in 1 .. n : hashes[k] = h
      BY <2>2
    <3>3. \A k \in 1 .. n : e.transaction[hashes[k]].index = k - 1
      BY <1>6, <2>1
    <3> QED BY <2>1, <3>1, <3>2, <3>3 DEF ListsTxs
  <2>4. BuildMerkleTreeTxs(txs) = Root(hashes)
    BY RootOfTxs
  <2> HIDE DEF hashes, n
  <2>5. b.hash = Hash(HeaderOf(e, b.hash, Root(hashes)))
    BY <1>1, <1>3, <2>4 DEF HeaderOf
  <2> QED BY <2>3, <2>5
<1>9. BlocksAreListed(e)
  BY <1>3, <1>7, <1>8 DEF BlocksAreListed
<1> QED BY <1>4, <1>9 DEF e, b

-----------------------------------------------------------------------------
(* So the queries put together what was stored.                            *)

LEMMA InputsReadBack ==
    ASSUME NEW d, RowsAreBodies(d), NEW h \in DOMAIN d.transaction
    PROVE  ReadInputs(d, h) = d.transaction[h].txBody.inputs
<1> DEFINE body == d.transaction[h].txBody
           n == Len(body.inputs)
           rows == {row \in d.input : row.tx = h}
           places == [k \in 1 .. n |-> BodyRow(h, body, k)]
           column == [row \in rows |-> row.index]
<1>1. n \in Nat /\ rows = {BodyRow(h, body, k) : k \in 1 .. n}
  BY DEF RowsAreBodies, Filed, RowsOf
<1>2. body.inputs = [k \in 1 .. n |->
                        Input(body.inputs[k].prevTxHash, body.inputs[k].outputIndex)]
  BY DEF RowsAreBodies, Filed
<1>3. \A k \in 1 .. n : BodyRow(h, body, k).index = k - 1
  BY DEF BodyRow
<1> HIDE DEF body, n
<1>4. places \in [1 .. n -> rows] /\ \A row \in rows : \E k \in 1 .. n : places[k] = row
  BY <1>1
<1>5. \A k \in 1 .. n : column[places[k]] = k - 1
  BY <1>1, <1>3
<1>6. ReadInputs(d, h) = [k \in DOMAIN OrderBy(rows, column) |->
            Input(OrderBy(rows, column)[k].prevTx, OrderBy(rows, column)[k].outputIndex)]
  BY DEF ReadInputs
<1>7. \A k \in 1 .. n :
        /\ places[k].prevTx = body.inputs[k].prevTxHash
        /\ places[k].outputIndex = body.inputs[k].outputIndex
  BY DEF BodyRow
<1>8. DOMAIN places = 1 .. n
  OBVIOUS
<1> HIDE DEF places, rows, column
<1>9. OrderBy(rows, column) = places
  <2>1. Counted(rows, column, n, places)
    BY <1>1, <1>4, <1>5 DEF Counted
  <2> QED BY <2>1, OrderedRows
<1>10. ReadInputs(d, h) = [k \in 1 .. n |-> Input(places[k].prevTx, places[k].outputIndex)]
  BY <1>6, <1>8, <1>9
<1>11. ReadInputs(d, h) = body.inputs
  BY <1>2, <1>7, <1>10
<1> QED BY <1>11 DEF body

LEMMA OutputsReadBack ==
    ASSUME NEW d, RowsAreBodies(d), NEW h \in DOMAIN d.transaction
    PROVE  ReadOutputs(d, h) = d.transaction[h].txBody.outputs
<1> DEFINE body == d.transaction[h].txBody
           n == Len(body.outputs)
           rows == {o \in DOMAIN d.output : o[1] = h}
           places == [k \in 1 .. n |-> <<h, k - 1>>]
           column == [o \in rows |-> o[2]]
<1>1. n \in Nat /\ rows = {<<h, k - 1>> : k \in 1 .. n}
  BY DEF RowsAreBodies, Filed, OutputsOf
<1>2. body.outputs = [k \in 1 .. n |-> Columns(body.outputs[k])]
  BY DEF RowsAreBodies, Filed
<1>3. \A k \in 1 .. n : Columns(d.output[<<h, k - 1>>]) = Columns(body.outputs[k])
  BY DEF RowsAreBodies
<1> HIDE DEF body, n
<1>4. places \in [1 .. n -> rows] /\ \A o \in rows : \E k \in 1 .. n : places[k] = o
  BY <1>1
<1>5. \A k \in 1 .. n : column[places[k]] = k - 1
  BY <1>1
<1>6. ReadOutputs(d, h) =
        [k \in DOMAIN OrderBy(rows, column) |-> Columns(d.output[OrderBy(rows, column)[k]])]
  BY DEF ReadOutputs, Columns
<1>7. DOMAIN places = 1 .. n /\ \A k \in 1 .. n : places[k] = <<h, k - 1>>
  OBVIOUS
<1> HIDE DEF places, rows, column
<1>8. OrderBy(rows, column) = places
  <2>1. Counted(rows, column, n, places)
    BY <1>1, <1>4, <1>5 DEF Counted
  <2> QED BY <2>1, OrderedRows
<1>9. ReadOutputs(d, h) = [k \in 1 .. n |-> Columns(d.output[places[k]])]
  BY <1>6, <1>7, <1>8
<1>10. \A k \in 1 .. n : Columns(d.output[places[k]]) = Columns(body.outputs[k])
  BY <1>3, <1>7
<1>11. ReadOutputs(d, h) = body.outputs
  BY <1>2, <1>9, <1>10
<1> QED BY <1>11 DEF body

LEMMA TxReadsBack ==
    ASSUME NEW d, RowsAreBodies(d), NEW h \in DOMAIN d.transaction
    PROVE  ReadTx(d, h).txBody = d.transaction[h].txBody /\ ReadTx(d, h).hash = h
<1> DEFINE body == d.transaction[h].txBody
<1>1. ReadTx(d, h).txBody = [body EXCEPT !.inputs = body.inputs, !.outputs = body.outputs]
  BY InputsReadBack, OutputsReadBack DEF ReadTx
<1>2. body = TxBody(body.inputs, body.outputs, body.hashLink, body.valueType,
                    body.voteType, body.duration)
  BY DEF RowsAreBodies, Filed
<1> HIDE DEF body
<1>3. [body EXCEPT !.inputs = body.inputs, !.outputs = body.outputs] = body
  BY <1>2 DEF TxBody
<1>4. ReadTx(d, h).hash = h
  BY DEF ReadTx
<1> QED BY <1>1, <1>3, <1>4 DEF body

LEMMA BlockReadsBack ==
    ASSUME NEW d, BlocksAreListed(d), NEW b \in DOMAIN d.block
    PROVE  ReadBlock(d, b).hash = b
<1>1. PICK n, hashes : ListsTxs(d, b, n, hashes) /\ b = Hash(HeaderOf(d, b, Root(hashes)))
  BY DEF BlocksAreListed
<1> DEFINE rows == {h \in DOMAIN d.transaction : d.transaction[h].block = b}
           column == [h \in rows |-> d.transaction[h].index]
           txs == ReadBlockTxs(d, b)
<1>2. /\ n \in Nat /\ hashes \in [1 .. n -> rows]
      /\ \A h \in rows : \E k \in 1 .. n : hashes[k] = h
      /\ \A k \in 1 .. n : d.transaction[hashes[k]].index = k - 1
  BY <1>1 DEF ListsTxs, TxsOf
<1>3. \A k \in 1 .. n : column[hashes[k]] = k - 1
  BY <1>2
<1>4. txs = [i \in DOMAIN OrderBy(rows, column) |-> ReadTx(d, OrderBy(rows, column)[i])]
  BY DEF ReadBlockTxs
<1> HIDE DEF rows, column
<1>5. OrderBy(rows, column) = hashes
  <2>1. Counted(rows, column, n, hashes)
    BY <1>2, <1>3 DEF Counted
  <2> QED BY <2>1, OrderedRows
<1>6. txs = [i \in 1 .. n |-> ReadTx(d, hashes[i])]
  BY <1>2, <1>4, <1>5
<1> HIDE DEF txs
<1>7. BuildMerkleTreeTxs(txs) = Root(hashes)
  <2> DEFINE T == {ReadTx(d, hashes[i]) : i \in 1 .. n}
  <2>1. txs \in [1 .. n -> T]
    BY <1>6
  <2> HIDE DEF T
  <2>2. txs \in Seq(T) /\ DOMAIN txs = 1 .. n
    BY <1>2, <2>1, SeqDef
  <2>3. Len(txs) = n
    BY <1>2, <2>2, LenProperties
  <2>4. \A i \in 1 .. n : txs[i].hash = hashes[i]
    BY <1>6 DEF ReadTx
  <2>5. [i \in 1 .. Len(txs) |-> txs[i].hash] = hashes
    BY <1>2, <2>3, <2>4
  <2> QED BY <2>2, <2>5, RootOfTxs
<1>8. ReadBlock(d, b).hash = Hash(HeaderOf(d, b, Root(hashes)))
  BY <1>7 DEF ReadBlock, CreateBlock, HeaderOf, txs
<1> QED BY <1>1, <1>8

-----------------------------------------------------------------------------
(* And so it is after every step.                                          *)

ReadInv == FiledTxs(sent) /\ RowsAreBodies(db) /\ PrevOnce(db) /\ BlocksAreListed(db)

LEMMA NextReadInv ==
    ASSUME ChainInv, ProperTxs(sent), BooksInv(db), ReadInv, [Next]_vars
    PROVE  ReadInv'
<1>1. FiledTxs(sent')
  BY NextFiledTxs DEF ReadInv, BooksInv
<1>2. CASE Commit
  <2> DEFINE txs == deliverTxState.transactions
  <2>1. /\ db' = SaveNextBlock(db, NewBlock) /\ CanSave(db, NewBlock) /\ ForeignKeys(db)
        /\ NewBlock.transactions \in Seq(sent) /\ GoodBlock(db, NewBlock)
    BY <1>2, CommitIsGood DEF ChainInv, IInv, TypeOK
  <2>2. \A i \in DOMAIN NewBlock.transactions : Filed(NewBlock.transactions[i].txBody)
    BY <2>1, LenProperties, ElementOfSeq DEF ReadInv, FiledTxs
  <2>3. RowsAreBodies(db')
    BY <2>1, <2>2, SaveKeepsRows DEF ReadInv
  <2>4. NewBlock = CreateBlock(txs, appBlockHash, deliverTxState.timestamp,
                               deliverTxState.blockProposer)
    BY DEF NewBlock
  <2>5. txs \in Seq(sent)
    BY <2>1, NewBlockFields
  <2> HIDE DEF txs
  <2>6. PrevOnce(db') /\ BlocksAreListed(db')
    BY <2>1, <2>4, <2>5, SaveKeepsBlocks DEF ReadInv
  <2> QED BY <1>1, <2>3, <2>6 DEF ReadInv
<1>3. CASE RestartWithEmptyDb
  BY <1>1, <1>3 DEF RestartWithEmptyDb, EmptyDb, ReadInv, RowsAreBodies, PrevOnce, BlocksAreListed
<1>4. CASE db' = db
  BY <1>1, <1>4 DEF ReadInv
<1> QED BY <1>2, <1>3, <1>4, DbSteps

LEMMA ReadInductive == Spec => []ReadInv
<1>1. Init => ReadInv
  BY DEF Init, EmptyDb, ReadInv, FiledTxs, RowsAreBodies, PrevOnce, BlocksAreListed
<1>2. ASSUME ChainInv, ProperTxs(sent) /\ BooksInv(db), ReadInv, [Next]_vars PROVE ReadInv'
  BY <1>2, NextReadInv
<1> QED BY <1>1, <1>2, ChainInductive, BooksInductive, PTL DEF Spec

LEMMA ReadsBack ==
    ASSUME ForeignKeys(db), StoredOnce(db), ReadInv
    PROVE  ChainReadsBack
<1>1. \A b \in DOMAIN db.block : ReadBlock(db, b).hash = b
  BY BlockReadsBack DEF ReadInv
<1>2. ASSUME NEW hash \in {Nil} \cup DOMAIN db.block
      PROVE  Cardinality(GetBlockAfter(db, hash)) <= 1
  <2> DEFINE after == {g \in DOMAIN db.block : db.block[g].prev = hash}
  <2>1. CASE after = {}
    <3>1. GetBlockAfter(db, hash) = {}
      BY <2>1 DEF GetBlockAfter
    <3> QED BY <3>1, FS_EmptySet
  <2>2. CASE after # {}
    <3>1. PICK g : after = {g}
      BY <2>2 DEF ReadInv, PrevOnce
    <3>2. GetBlockAfter(db, hash) = {ReadBlock(db, g)}
      BY <3>1 DEF GetBlockAfter
    <3>3. Cardinality({ReadBlock(db, g)}) = 1
      BY FS_Singleton, Zenon
    <3> QED BY <3>2, <3>3
  <2> QED BY <2>1, <2>2
<1>3. {b.hash : b \in UNION {GetBlockAfter(db, hash) : hash \in {Nil} \cup DOMAIN db.block}}
            = DOMAIN db.block
  <2> DEFINE read == UNION {GetBlockAfter(db, hash) : hash \in {Nil} \cup DOMAIN db.block}
  <2>1. ASSUME NEW b \in read PROVE b.hash \in DOMAIN db.block
    <3>1. PICK g \in DOMAIN db.block : b = ReadBlock(db, g)
      BY <2>1 DEF GetBlockAfter
    <3> QED BY <1>1, <3>1
  <2>2. ASSUME NEW g \in DOMAIN db.block PROVE ReadBlock(db, g) \in read
    <3>1. ReadBlock(db, g) \in GetBlockAfter(db, db.block[g].prev)
      BY DEF GetBlockAfter
    <3>2. db.block[g].prev \in {Nil} \cup DOMAIN db.block
      BY DEF ForeignKeys
    <3> QED BY <3>1, <3>2
  <2> HIDE DEF read
  <2>3. {b.hash : b \in read} = DOMAIN db.block
    BY <1>1, <2>1, <2>2
  <2> QED BY <2>3 DEF read
<1>4. {b.hash : b \in GetBlocksByHashes(db, DOMAIN db.block)} = DOMAIN db.block
  <2>1. {b.hash : b \in {ReadBlock(db, g) : g \in DOMAIN db.block}} = DOMAIN db.block
    BY <1>1
  <2>2. GetBlocksByHashes(db, DOMAIN db.block) = {ReadBlock(db, g) : g \in DOMAIN db.block}
    BY DEF GetBlocksByHashes
  <2> QED BY <2>1, <2>2
<1>5. ASSUME NEW tx \in GetTxsByHashes(db, DOMAIN db.transaction)
      PROVE  tx.hash = Hash(tx.txBody)
  <2>1. PICK h \in DOMAIN db.transaction : tx = ReadTx(db, h)
    BY DEF GetTxsByHashes
  <2>2. tx.txBody = db.transaction[h].txBody /\ tx.hash = h
    BY <2>1, TxReadsBack DEF ReadInv
  <2> QED BY <2>2 DEF StoredOnce
<1> QED BY <1>2, <1>3, <1>4, <1>5 DEF ChainReadsBack

\* Whoever reads the blocks one after another, from the first to the last,
\* gets every block stored, at most one after each, with the hash it is stored
\* under and transactions that have the hash of their bodies, whatever blocks
\* were decided and however often the node was started again (ORDER BY index in
\* the queries of evote/database.go).
THEOREM ChainIsReadBack == Spec => []ChainReadsBack
<1>1. ASSUME ChainInv, HaltInv, ReadInv PROVE ChainReadsBack
  BY <1>1, ReadsBack DEF ChainInv, IInv, TypeOK, HaltInv
<1> QED BY <1>1, ChainInductive, HaltInductive, ReadInductive, PTL

-----------------------------------------------------------------------------
(* What a wallet builds, the node that showed it its outputs accepts.      *)

\* One more value is added to the sum, which wraps.
LEMMA Sum32Append ==
    ASSUME NEW v, NEW n, IsList(v, n), NEW a \in Int,
           NEW w, DOMAIN w = 1 .. n + 1, \A i \in 1 .. n : w[i] = v[i], w[n + 1] = a
    PROVE  Sum32(w) = Add32(Sum32(v), a)
<1>1. /\ n \in Nat /\ n + 1 \in Nat
      /\ 1 .. n + 1 = (1 .. n) \cup {n + 1} /\ n + 1 \notin 1 .. n
      /\ IsFiniteSet(1 .. n)
  <2>1. n \in Nat
    BY DEF IsList
  <2>2. IsFiniteSet(1 .. n)
    BY <2>1, FiniteIndexes
  <2> QED BY <2>1, <2>2
<1>2. /\ IntOn(w, (1 .. n) \cup {n + 1}) /\ IntOn(w, 1 .. n)
      /\ IsList(w, n + 1)
  BY <1>1 DEF IsList, IntOn
<1>3. Sum32(w) = SumOf(w, 1 .. n + 1) % U32 /\ Sum32(v) = SumOf(v, 1 .. n) % U32
  BY <1>2, Sum32Is
<1>4. SumOf(w, 1 .. n + 1) = a + SumOf(w, 1 .. n)
  BY <1>1, <1>2, SumMore
<1>5. SumOf(w, 1 .. n) = SumOf(v, 1 .. n)
  BY <1>1, <1>2, SumCongruence
<1>6. PICK s \in Int : s = SumOf(v, 1 .. n)
  BY ListSumInt
<1>7. ((s % U32) + a) % U32 = (s + a) % U32
  BY U32Assumption, RemainderOfSum
<1>8. s + a = a + s
  OBVIOUS
<1> QED BY <1>3, <1>4, <1>5, <1>6, <1>7, <1>8 DEF Add32

InSum(d, inputs) ==
    Sum32([k \in 1 .. Len(inputs) |-> d.output[Outpoint(inputs[k])].value])

\* Inputs that name outputs of integer values.
IntInputs(d, X) == \A x \in X : d.output[Outpoint(x)].value \in Int

LEMMA OneMoreTaken ==
    ASSUME NEW d, NEW X, IntInputs(d, X), NEW s \in Seq(X), NEW x \in X
    PROVE  InSum(d, Append(s, x)) = Add32(InSum(d, s), d.output[Outpoint(x)].value)
<1> DEFINE n == Len(s)
           t == Append(s, x)
           v == [k \in 1 .. Len(s) |-> d.output[Outpoint(s[k])].value]
           w == [k \in 1 .. Len(t) |-> d.output[Outpoint(t[k])].value]
<1>1. /\ n \in Nat /\ Len(t) = n + 1 /\ \A k \in 1 .. n : s[k] \in X
      /\ \A k \in 1 .. n : t[k] = s[k]
      /\ t[n + 1] = x
  BY LenProperties, ElementOfSeq, AppendProperties
<1>2. InSum(d, s) = Sum32(v) /\ InSum(d, t) = Sum32(w)
  BY DEF InSum
<1> HIDE DEF t
<1>3. /\ IsList(v, n) /\ DOMAIN w = 1 .. n + 1
      /\ \A i \in 1 .. n : w[i] = v[i]
      /\ w[n + 1] = d.output[Outpoint(x)].value
  BY <1>1 DEF IsList, IntOn, IntInputs
<1>4. d.output[Outpoint(x)].value \in Int
  BY DEF IntInputs
<1> HIDE DEF v, w, n
<1>5. Sum32(w) = Add32(Sum32(v), d.output[Outpoint(x)].value)
  BY <1>3, <1>4, Sum32Append
<1> QED BY <1>2, <1>5 DEF t

\* A list of n outputs; those of one value type are what the inputs X spend.
ListedFor(d, X, utxos, n, valueType) ==
    /\ n \in Nat /\ DOMAIN utxos = 1 .. n
    /\ \A i \in 1 .. n :
        LET x == Input(utxos[i].txHash, utxos[i].index)
        IN utxos[i].valueType = valueType =>
                x \in X /\ utxos[i].value = d.output[Outpoint(x)].value

\* The inputs that TakeInputs takes are worth the sum that it stops at.
LEMMA TakenAddsUp ==
    ASSUME NEW d, NEW X, IntInputs(d, X), NEW utxos, NEW n, NEW valueType, NEW need,
           ListedFor(d, X, utxos, n, valueType)
    PROVE  /\ TakeInputs(utxos, valueType, need) \in SomeTaken(X)
           /\ TakeInputs(utxos, valueType, need).sum
                = InSum(d, TakeInputs(utxos, valueType, need).inputs)
<1> DEFINE P == {a \in SomeTaken(X) : a.sum = InSum(d, a.inputs)}
<1>1. ASSUME NEW a \in P, NEW i \in 1 .. n PROVE Taken(a, utxos[i], valueType, need) \in P
  <2>1. CASE utxos[i].valueType = valueType /\ a.sum < need
    <3> DEFINE x == Input(utxos[i].txHash, utxos[i].index)
               b == Taken(a, utxos[i], valueType, need)
    <3>1. a.inputs \in Seq(X) /\ a.sum \in 0 .. (U32 - 1) /\ a.sum = InSum(d, a.inputs)
      BY DEF SomeTaken
    <3>2. x \in X /\ utxos[i].value = d.output[Outpoint(x)].value /\ utxos[i].value \in Int
      BY <2>1 DEF ListedFor, IntInputs
    <3>3. b = [inputs |-> Append(a.inputs, x), sum |-> Add32(a.sum, utxos[i].value)]
      BY <2>1 DEF Taken
    <3> HIDE DEF x
    <3>4. Append(a.inputs, x) \in Seq(X)
      BY <3>1, <3>2, AppendProperties
    <3>5. Add32(a.sum, utxos[i].value) \in 0 .. (U32 - 1)
      <4>1. a.sum + utxos[i].value \in Int
        BY <3>1, <3>2, U32Assumption
      <4> QED BY <4>1, U32Assumption, DivMod DEF Add32
    <3>6. InSum(d, Append(a.inputs, x)) = Add32(a.sum, utxos[i].value)
      BY <3>1, <3>2, OneMoreTaken
    <3>7. b.inputs = Append(a.inputs, x) /\ b.sum = Add32(a.sum, utxos[i].value)
      BY <3>3
    <3>8. b \in SomeTaken(X)
      BY <3>3, <3>4, <3>5 DEF SomeTaken
    <3> HIDE DEF b
    <3>9. b \in P
      BY <3>6, <3>7, <3>8
    <3> QED BY <3>9 DEF b
  <2>2. CASE ~ (utxos[i].valueType = valueType /\ a.sum < need)
    BY <2>2 DEF Taken
  <2> QED BY <2>1, <2>2
<1>2. NothingTaken \in P
  <2>1. <<>> \in Seq(X) /\ 0 \in 0 .. (U32 - 1) /\ Len(<<>>) = 0 /\ 1 .. 0 = {}
    BY EmptySeq, U32Assumption
  <2> DEFINE v == [k \in 1 .. Len(<<>>) |-> d.output[Outpoint(<<>>[k])].value]
  <2>2. IsList(v, 0)
    BY <2>1 DEF IsList, IntOn
  <2>3. InSum(d, <<>>) = Sum32(v)
    BY DEF InSum
  <2> HIDE DEF v
  <2>4. Sum32(v) = SumOf(v, 1 .. 0) % U32 /\ SumOf(v, 1 .. 0) = 0
    BY <2>1, <2>2, Sum32Is, SumEmpty
  <2>5. 0 % U32 = 0
    BY U32Assumption, SmallRemainder
  <2> QED BY <2>1, <2>3, <2>4, <2>5 DEF NothingTaken, SomeTaken
<1> HIDE DEF P
<1>3. TakeInputs(utxos, valueType, need) \in P
  BY <1>1, <1>2, TakeInputsIn DEF ListedFor
<1> QED BY <1>3 DEF P

\* A body paid for with outputs of one key that are unspent and of its value
\* type, of which its outputs give back every coin or vote.
WellPaid(d, key, body) ==
    /\ body.outputs # <<>> /\ WithScanKey(body) = {}
    /\ OutputsSum(body.outputs) = InSum(d, body.inputs)
    /\ body.inputs # <<>> => 1 \in 1 .. Len(body.inputs)
    /\ body.inputs = <<>> => Len(body.inputs) = 0
    /\ \A i \in 1 .. Len(body.inputs) :
        /\ Outpoint(body.inputs[i]) \in Unspent(d)
        /\ d.output[Outpoint(body.inputs[i])].spendPkey = key
        /\ ValueTypeOf(d, body.inputs[i].prevTxHash) = body.valueType
    /\ body.hashLink = Nil /\ (body.voteType # 0 => body.valueType = Nil)
    /\ body.senderEphemeralPkey = Nil /\ body.votersSumPkey = Nil

LEMMA WellPaidIsAccepted ==
    ASSUME NEW d, NEW key \in Keys, NEW tx, WellPaid(d, key, tx.txBody), tx.sig = key
    PROVE  BodyVerdict(d, tx) =
                IF tx.txBody.inputs # <<>> THEN "CodeOk" ELSE "CodeInvalidSignature"
<1> DEFINE body == tx.txBody
<1>1. /\ body.outputs # <<>> /\ body.hashLink = Nil /\ ~ IsCoinbase(body)
      /\ WithScanKey(body) = {} /\ KindVerdict(d, body) = "CodeOk"
  BY DEF WellPaid, IsCoinbase, KindVerdict, IsInitVote
<1>2. OutputsSum(body.outputs) = InputsSum(d, body)
  BY DEF WellPaid, InSum, InputsSum
<1>3. /\ body.inputs # <<>> => Sender(d, body) = key
      /\ body.inputs = <<>> => Sender(d, body) = Nil
  BY DEF WellPaid, Sender
<1>4. BadInputs(d, body) = {}
  <2>1. ASSUME NEW i \in 1 .. Len(body.inputs) PROVE InputVerdict(d, body, i) = "CodeOk"
    <3>1. body.inputs # <<>>
      BY <2>1 DEF WellPaid
    <3>2. Outpoint(body.inputs[i])[1] = body.inputs[i].prevTxHash
      BY DEF Outpoint
    <3> QED BY <1>3, <3>1, <3>2 DEF WellPaid, InputVerdict
  <2> QED BY <2>1 DEF BadInputs
<1>5. TransferVerdict(d, tx) = VerifySig(tx, Sender(d, body))
  BY <1>1, <1>2, <1>4 DEF TransferVerdict
<1>6. BodyVerdict(d, tx) = VerifySig(tx, Sender(d, body))
  BY <1>1, <1>5 DEF BodyVerdict
<1> QED BY <1>3, <1>6, KeysAssumption DEF VerifySig, VerifyData

\* The outputs shown to a key are its own: none has a scan key.
LEMMA UtxosAreOwn ==
    ASSUME NEW d, ForeignKeys(d), RowsAreBodies(d), NEW key \in Keys,
           NEW u \in GetUTXOSByPkey(d, key)
    PROVE  LET o == Outpoint(Input(u.txHash, u.index))
           IN /\ o \in Unspent(d) /\ d.output[o].spendPkey = key
              /\ ValueTypeOf(d, u.txHash) = u.valueType /\ d.output[o].value = u.value
<1>1. PICK o \in Unspent(d) :
            /\ u = Utxo(d, o)
            /\ d.output[o].spendPkey = key \/ d.output[o].scanPkey = key
  BY DEF GetUTXOSByPkey
<1>2. o \in DOMAIN d.output /\ o[1] \in DOMAIN d.transaction
  BY DEF Unspent, ForeignKeys
<1> DEFINE body == d.transaction[o[1]].txBody
<1>3. /\ Filed(body) /\ o \in {<<o[1], k - 1>> : k \in 1 .. Len(body.outputs)}
      /\ \A k \in 1 .. Len(body.outputs) :
            Columns(d.output[<<o[1], k - 1>>]) = Columns(body.outputs[k])
  BY <1>2 DEF RowsAreBodies, OutputsOf
<1>4. PICK k \in 1 .. Len(body.outputs) : o = <<o[1], k - 1>>
  BY <1>3
<1>5. Columns(d.output[o]) = Columns(body.outputs[k]) /\ body.outputs[k].scanPkey = Nil
  BY <1>3, <1>4 DEF Filed
<1>6. d.output[o].scanPkey = Nil
  BY <1>5 DEF Columns
<1>7. d.output[o].spendPkey = key
  BY <1>1, <1>6, KeysAssumption
<1>8. u.txHash = o[1] /\ u.index = o[2] /\ u.value = d.output[o].value
      /\ u.valueType = ValueTypeOf(d, o[1])
  <2>1. /\ Utxo(d, o).txHash = o[1] /\ Utxo(d, o).index = o[2]
        /\ Utxo(d, o).value = d.output[o].value
        /\ Utxo(d, o).valueType = ValueTypeOf(d, o[1])
    BY DEF Utxo
  <2> QED BY <1>1, <2>1
<1>9. Outpoint(Input(u.txHash, u.index)) = o
  <2>1. o = <<o[1], o[2]>>
    BY <1>4
  <2> QED BY <1>8, <2>1 DEF Outpoint, Input
<1> QED BY <1>7, <1>8, <1>9

\* The outputs entered and the change are worth what was taken.
LEMMA ChangeSettles ==
    ASSUME NEW outputs, ValuedList(outputs), NEW sum \in 0 .. (U32 - 1), NEW owner,
           sum >= OutputsSum(outputs)
    PROVE  OutputsSum(outputs \o Change(sum, OutputsSum(outputs), owner)) = sum
<1> DEFINE need == OutputsSum(outputs)
           v == [i \in DOMAIN outputs |-> outputs[i].value]
<1>1. need \in Int /\ need = Sum32(v)
  BY OutputsSumInt DEF OutputsSum
<1>2. IsList(v, Len(outputs)) /\ Len(outputs) \in Nat /\ DOMAIN outputs = 1 .. Len(outputs)
  BY ValuedIsList
<1>3. PICK X : outputs \in Seq(X)
  BY DEF ValuedList
<1> HIDE DEF need
<1>4. CASE sum > need
  <2> DEFINE change == Output(sum - need, owner)
             all == Append(outputs, change)
             w == [i \in DOMAIN all |-> all[i].value]
  <2>1. outputs \o <<change>> = all
    BY <1>3
  <2>2. outputs \in Seq(X \cup {change})
    BY <1>3, SeqMonotonic
  <2>3. change.value = sum - need /\ sum - need \in Int
    BY <1>1, <1>4, U32Assumption DEF Output
  <2>4. Change(sum, need, owner) = <<change>>
    BY <1>4 DEF Change
  <2> HIDE DEF change
  <2>5. /\ DOMAIN all = 1 .. Len(outputs) + 1
        /\ \A i \in 1 .. Len(outputs) : all[i] = outputs[i]
        /\ all[Len(outputs) + 1] = change
    BY <1>2, <2>2, AppendProperties, LenProperties
  <2> HIDE DEF all
  <2>6. /\ DOMAIN w = 1 .. Len(outputs) + 1 /\ \A i \in 1 .. Len(outputs) : w[i] = v[i]
        /\ w[Len(outputs) + 1] = sum - need
    BY <1>2, <2>3, <2>5
  <2>7. OutputsSum(all) = Sum32(w)
    BY DEF OutputsSum
  <2> HIDE DEF v, w
  <2>8. Sum32(w) = Add32(need, sum - need)
    BY <1>1, <1>2, <2>3, <2>6, Sum32Append
  <2>9. need + (sum - need) = sum
    BY <1>1, U32Assumption
  <2>10. sum % U32 = sum
    BY U32Assumption, SmallRemainder
  <2> QED BY <2>1, <2>4, <2>7, <2>8, <2>9, <2>10 DEF all, Add32, need
<1>5. CASE ~ (sum > need)
  <2>1. Change(sum, need, owner) = <<>> /\ outputs \o <<>> = outputs
    BY <1>3, <1>5, ConcatEmptySeq DEF Change
  <2>2. sum = need
    BY <1>1, <1>5, U32Assumption DEF need
  <2> QED BY <2>1, <2>2 DEF need
<1> QED BY <1>4, <1>5

\* So CreateTx makes a body that is paid for.
LEMMA CreatedIsServed ==
    ASSUME NEW d, ForeignKeys(d), FiniteTables(d), ValuesAreInts(d), RowsAreBodies(d),
           NEW key \in Keys, NEW outputs, ValuedList(outputs), OutputList(outputs),
           NEW valueType, NEW voteType, voteType # 0 => valueType = Nil, NEW duration,
           NEW tx \in Created(d, key, outputs, valueType, voteType, duration)
    PROVE  BodyVerdict(d, tx) =
                IF tx.txBody.inputs # <<>> THEN "CodeOk" ELSE "CodeInvalidSignature"
<1> DEFINE S == GetUTXOSByPkey(d, key)
           need == OutputsSum(outputs)
           X == {x \in {Input(u.txHash, u.index) : u \in S} :
                    /\ Outpoint(x) \in Unspent(d) /\ d.output[Outpoint(x)].spendPkey = key
                    /\ ValueTypeOf(d, x.prevTxHash) = valueType}
<1>1. PICK utxos \in SetToSeqs(S) :
            /\ CanCreateTx(utxos, outputs, valueType)
            /\ tx = CreateTx(utxos, outputs, valueType, key, voteType, duration)
  BY DEF Created
<1>2. PICK n \in Nat : /\ DOMAIN utxos = 1 .. n
                       /\ \A i \in 1 .. n : utxos[i].value \in Int
  BY UtxosAreListed
<1> DEFINE taken == TakeInputs(utxos, valueType, need)
           change == Change(taken.sum, need, utxos[1].spendPkey)
           body == tx.txBody
<1>3. \A i \in 1 .. n : utxos[i] \in S
  BY <1>2 DEF SetToSeqs
<1>4. ListedFor(d, X, utxos, n, valueType)
  <2>1. ASSUME NEW i \in 1 .. n, utxos[i].valueType = valueType
        PROVE  LET x == Input(utxos[i].txHash, utxos[i].index)
               IN x \in X /\ utxos[i].value = d.output[Outpoint(x)].value
    <3> DEFINE x == Input(utxos[i].txHash, utxos[i].index)
    <3>1. /\ Outpoint(x) \in Unspent(d) /\ d.output[Outpoint(x)].spendPkey = key
          /\ ValueTypeOf(d, utxos[i].txHash) = valueType
          /\ utxos[i].value = d.output[Outpoint(x)].value
      BY <1>3, <2>1, UtxosAreOwn
    <3>2. x.prevTxHash = utxos[i].txHash
      BY DEF Input
    <3>3. x \in {Input(u.txHash, u.index) : u \in S}
      BY <1>3, <2>1
    <3> HIDE DEF S, x
    <3>4. x \in X
      BY <3>1, <3>2, <3>3
    <3> QED BY <3>1, <3>4 DEF x
  <2> HIDE DEF X
  <2> QED BY <1>2, <2>1 DEF ListedFor
<1>5. IntInputs(d, X)
  BY DEF IntInputs, ValuesAreInts, Unspent
<1>6. \A x \in X :
            /\ Outpoint(x) \in Unspent(d) /\ d.output[Outpoint(x)].spendPkey = key
            /\ ValueTypeOf(d, x.prevTxHash) = valueType
  OBVIOUS
<1> HIDE DEF X, S
<1>7. taken.inputs \in Seq(X) /\ taken.sum \in 0 .. (U32 - 1) /\ taken.sum = InSum(d, taken.inputs)
  BY <1>4, <1>5, TakenAddsUp DEF SomeTaken
<1>8. outputs # <<>> /\ taken.sum >= need
  BY <1>1 DEF CanCreateTx
<1>9. /\ body.inputs = taken.inputs /\ body.outputs = outputs \o change
      /\ body.hashLink = Nil /\ body.valueType = valueType /\ body.voteType = voteType
      /\ body.senderEphemeralPkey = Nil /\ body.votersSumPkey = Nil
      /\ tx.sig = key
  BY <1>1 DEF CreateTx, Sign, TxBody, Change
<1> HIDE DEF taken
<1>10. OutputsSum(outputs \o change) = taken.sum
  BY <1>7, <1>8, ChangeSettles
<1> HIDE DEF need
<1>11. OutputList(outputs \o change)
  <2>1. OutputList(change)
    BY OneOutput, NothingListed DEF Change
  <2> HIDE DEF change
  <2> QED BY <2>1, OutputsWithChange
<1>12. outputs \o change # <<>>
  <2>1. PICK Y : outputs \in Seq(Y) /\ change \in Seq(Y)
    <3>1. PICK Z : outputs \in Seq(Z)
      BY DEF OutputList
    <3> DEFINE out == Output(taken.sum - need, utxos[1].spendPkey)
               Y == Z \cup {out}
    <3>2. outputs \in Seq(Y)
      BY <3>1, SeqMonotonic
    <3>3. change \in {<<out>>, <<>>}
      BY DEF Change
    <3> HIDE DEF out, change
    <3>4. <<out>> \in Seq(Y) /\ <<>> \in Seq(Y)
      OBVIOUS
    <3> QED BY <3>2, <3>3, <3>4
  <2> HIDE DEF change
  <2>2. Len(outputs) > 0 /\ Len(change) >= 0 /\ Len(outputs) \in Nat /\ Len(change) \in Nat
    BY <1>8, <2>1, LenProperties, EmptySeq
  <2>3. Len(outputs \o change) = Len(outputs) + Len(change)
    BY <2>1, ConcatProperties
  <2> QED BY <2>2, <2>3
<1>13. WithScanKey(body) = {}
  <2>1. PICK Y : body.outputs \in Seq(Y) /\ \A y \in Y : y = Output(y.value, y.spendPkey)
    BY <1>9, <1>11 DEF OutputList
  <2>2. \A y \in Y : y.scanPkey = Nil
    BY <2>1 DEF Output
  <2>3. \A i \in DOMAIN body.outputs : body.outputs[i].scanPkey = Nil
    BY <2>1, <2>2, LenProperties, ElementOfSeq
  <2> QED BY <2>3 DEF WithScanKey
<1> HIDE DEF change, body
<1>14. WellPaid(d, key, body)
  <2>1. \A i \in 1 .. Len(body.inputs) : body.inputs[i] \in X
    BY <1>7, <1>9, ElementOfSeq
  <2>2. /\ body.inputs # <<>> => 1 \in 1 .. Len(body.inputs)
        /\ body.inputs = <<>> => Len(body.inputs) = 0
    BY <1>7, <1>9, LenProperties, EmptySeq
  <2> QED BY <1>6, <1>7, <1>9, <1>10, <1>12, <1>13, <2>1, <2>2 DEF WellPaid
<1> QED BY <1>9, <1>14, WellPaidIsAccepted DEF body

Served(d, tx) ==
    BodyVerdict(d, tx) = IF tx.txBody.inputs # <<>> THEN "CodeOk" ELSE "CodeInvalidSignature"

\* Every transaction of a wallet or a faucet is made like that.
LEMMA WalletTxsAreServed ==
    ASSUME NEW d, ForeignKeys(d), FiniteTables(d), ValuesAreInts(d), RowsAreBodies(d),
           NEW v \in Keys, NEW voteType,
           NEW tx \in FaucetTxs(d, v) \cup SendTxs(d) \cup CreateVoteTxs(d, voteType)
                        \cup SendVoteTxs(d)
    PROVE  Served(d, tx)
<1>1. \A key \in Keys : \A outputs, valueType, vote, duration :
        ValuedList(outputs) /\ OutputList(outputs) /\ (vote # 0 => valueType = Nil) =>
            \A t \in Created(d, key, outputs, valueType, vote, duration) : Served(d, t)
  BY CreatedIsServed DEF Served
<1>2. \A amount \in Amounts : \A payee :
            ValuedList(<<Output(amount, payee)>>) /\ OutputList(<<Output(amount, payee)>>)
  BY EnteredIsValued, OneOutput
<1>3. \A user \in Users : user \in Keys
  BY WalletsAssumption
<1>4. CASE tx \in FaucetTxs(d, v)
  <2>1. PICK amount \in Amounts, payee \in Payees :
            tx \in Created(d, v, <<Output(amount, payee)>>, Nil, 0, 0)
    BY <1>4 DEF FaucetTxs
  <2> QED BY <1>1, <1>2, <2>1
<1>5. CASE tx \in SendTxs(d)
  <2>1. PICK user \in Users, amount \in Amounts, payee \in Payees :
            tx \in Created(d, user, <<Output(amount, payee)>>, Nil, 0, 0)
    BY <1>5 DEF SendTxs
  <2> QED BY <1>1, <1>2, <1>3, <2>1
<1>6. CASE tx \in CreateVoteTxs(d, voteType)
  <2>1. PICK user \in Users, electorate \in Electorates, amount \in Amounts,
             duration \in Durations :
            \E ballots \in Ballots(electorate, amount) :
                tx \in Created(d, user, ballots, Nil, voteType, duration)
    BY <1>6 DEF CreateVoteTxs
  <2> QED BY <1>1, <1>3, <2>1, BallotsAreValued, BallotsAreOutputs
<1>7. CASE tx \in SendVoteTxs(d)
  <2>1. PICK user \in Users, amount \in Amounts, payee \in Payees :
            \E utxo \in GetUTXOSByPkey(d, user) :
                tx \in Created(d, user, <<Output(amount, payee)>>, utxo.valueType, 0, 0)
    BY <1>7 DEF SendVoteTxs
  <2> QED BY <1>1, <1>2, <1>3, <2>1
<1> QED BY <1>4, <1>5, <1>6, <1>7

\* Whatever a user, a voter or the faucet builds from the unspent outputs that a
\* node shows it is a transaction that this node accepts: TakeInputs and CreateTx
\* (evote/transaction.go) pick outputs of one owner and one value type, and give
\* back as change what AppendTx wants given back, on sums that wrap alike.  Only
\* who asks for nothing, or for votes that add up to 2^32, builds one that no
\* signature fits.
THEOREM WalletsAreServed == Spec => []WalletTxsAreAccepted
<1>1. ASSUME ChainInv, BooksInv(db), ReadInv PROVE WalletTxsAreAccepted
  <2>1. /\ ForeignKeys(db) /\ FiniteTables(db) /\ ValuesAreInts(db) /\ RowsAreBodies(db)
        /\ thisValidator \in Keys
    BY <1>1, ValidatorsAssumption DEF ChainInv, IInv, TypeOK, BooksInv, ReadInv
  <2>2. \A voteType : \A tx \in FaucetTxs(db, thisValidator) \cup SendTxs(db)
                                    \cup CreateVoteTxs(db, voteType) \cup SendVoteTxs(db) :
            Served(db, tx)
    BY <2>1, WalletTxsAreServed
  <2>3. ASSUME NEW tx \in UNION {FaucetTxs(db, thisValidator), SendTxs(db), SendVoteTxs(db),
                        UNION {CreateVoteTxs(db, voteType) : voteType \in VoteTypes}}
        PROVE  Served(db, tx)
    BY <2>2
  <2> QED BY <2>3 DEF WalletTxsAreAccepted, Served
<1> QED BY <1>1, ChainInductive, BooksInductive, ReadInductive, PTL
=============================================================================
