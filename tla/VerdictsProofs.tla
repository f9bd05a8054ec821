--------------------------- MODULE VerdictsProofs ---------------------------
(***************************************************************************)
(* The verdicts on every kind of body, for every set of keys, every        *)
(* reward, every width of the integers and any numbers in the fields of a  *)
(* body: what AppendTx accepts can be stored unless a field exceeds its    *)
(* column, what is stored keeps the promises of the ledger and neither     *)
(* makes nor loses value, and what spends something never makes it panic.  *)
(***************************************************************************)
EXTENDS Verdicts, DatabaseProofs

-----------------------------------------------------------------------------
(* A ledger that grows by blocks of sound transactions.                    *)

Good(d) ==
    /\ ForeignKeys(d) /\ OneChain(d) /\ InputsAreMarked(d)
    /\ SpentByOwners(d) /\ RewardsInOneBlock(d) /\ StoredOnce(d)

\* What a transaction must be, for d to stay good when it is stored.
Sound(d, t) ==
    /\ t.hash = Hash(t.txBody)
    /\ t.txBody.inputs # <<>> => 1 \in 1 .. Len(t.txBody.inputs)
    /\ \A k \in 1 .. Len(t.txBody.inputs) :
        /\ Outpoint(t.txBody.inputs[k]) \in Unspent(d)
        /\ d.output[Outpoint(t.txBody.inputs[k])].spendPkey = t.sig
        /\ ValueTypeOf(d, Outpoint(t.txBody.inputs[k])[1]) =
                IF t.txBody.voteType = 0 THEN t.txBody.valueType ELSE Nil
    /\ IsCoinbase(t.txBody) => FirstReward(d, t)

LEMMA SaveKeepsGood ==
    ASSUME NEW d, Good(d), NEW T, NEW b, b.transactions \in Seq(T), CanSave(d, b),
           \A i \in DOMAIN b.transactions : Sound(d, b.transactions[i])
    PROVE  Good(SaveNextBlock(d, b))
<1> DEFINE txs == b.transactions
           e == SaveNextBlock(d, b)
<1>1. /\ ForeignKeys(d) /\ OneChain(d) /\ InputsAreMarked(d)
      /\ SpentByOwners(d) /\ RewardsInOneBlock(d) /\ StoredOnce(d)
  BY DEF Good
<1>2. \A i \in DOMAIN txs :
        /\ txs[i].hash = Hash(txs[i].txBody)
        /\ txs[i].hash # Nil
        /\ txs[i].txBody.inputs # <<>> => 1 \in 1 .. Len(txs[i].txBody.inputs)
        /\ \A k \in 1 .. Len(txs[i].txBody.inputs) :
                Outpoint(txs[i].txBody.inputs[k]) \in Unspent(d)
        /\ IsCoinbase(txs[i].txBody) => FirstReward(d, txs[i])
  BY HashNotNil DEF Sound
<1>3. ForeignKeys(e)
  BY <1>1, SaveKeepsForeignKeys
<1>4. OneChain(e)
  BY <1>1, SaveKeepsOneChain
<1>5. InputsAreMarked(e)
  BY <1>1, <1>2, SaveMarksInputs
<1>6. SpentByOwners(e)
  BY <1>1, SaveKeepsSpentByOwners DEF Sound
<1>7. RewardsInOneBlock(e)
  BY <1>1, <1>2, SaveKeepsRewardsInOneBlock
<1>8. StoredOnce(e)
  <2>1. TxsAreNew(d, txs)
    BY DEF CanSave
  <2> QED BY <1>1, <1>2, <1>5, <2>1, SaveKeepsStoredOnce
<1> QED BY <1>3, <1>4, <1>5, <1>6, <1>7, <1>8 DEF Good

\* The block that has the hash tip is the last one; without blocks tip is Nil.
IsTip(d, tip) ==
    IF tip = Nil THEN DOMAIN d.block = {}
    ELSE tip \in DOMAIN d.block /\ \A h \in DOMAIN d.block : d.block[h].prev # tip

\* A block is stored with the previous block that its hash digests.
Linked(d) ==
    \A h \in DOMAIN d.block :
        \E header : h = Hash(header) /\ header.prevBlockHash = d.block[h].prev

Grows(d, tip) == Good(d) /\ Linked(d) /\ IsTip(d, tip)

\* A block of such transactions can be stored on top, and another one on it.
LEMMA NextBlockIsStored ==
    ASSUME NEW d, NEW tip, Grows(d, tip), NEW T, NEW txs \in Seq(T),
           TxsAreNew(d, txs),
           \A i \in DOMAIN txs : Sound(d, txs[i]) /\ FitsColumns(txs[i])
    PROVE  LET b == NextBlock(tip, txs)
           IN CanSave(d, b) /\ Grows(SaveNextBlock(d, b), b.hash)
<1> DEFINE b == NextBlock(tip, txs)
           e == SaveNextBlock(d, b)
<1>1. PICK header :
        /\ b.blockHeader = header /\ b.transactions = txs /\ b.hash = Hash(header)
        /\ header.prevBlockHash = tip
  BY DEF NextBlock, CreateBlock
<1> HIDE DEF b
<1>2. b.hash \notin DOMAIN d.block
  <2> SUFFICES ASSUME b.hash \in DOMAIN d.block PROVE FALSE
    OBVIOUS
  <2>1. d.block[b.hash].prev = tip
    BY <1>1, HashInjective DEF Grows, Linked
  <2>2. tip \in DOMAIN d.block \cup {Nil}
    BY <2>1 DEF Grows, Good, ForeignKeys
  <2> QED BY <2>1, <2>2 DEF Grows, IsTip
<1>3. ChainAllows(d, b)
  BY <1>1, <1>2 DEF ChainAllows, Grows, IsTip
<1>4. CanSave(d, b)
  BY <1>1, <1>3 DEF CanSave
<1>5. Good(e)
  BY <1>1, <1>4, SaveKeepsGood DEF Grows
<1>6. /\ DOMAIN e.block = DOMAIN d.block \cup {b.hash} /\ e.block[b.hash].prev = tip
      /\ \A h \in DOMAIN d.block : e.block[h].prev = d.block[h].prev
  BY <1>1, <1>2 DEF SaveNextBlock, SavedBlocks
<1>7. Linked(e)
  BY <1>1, <1>6 DEF Grows, Linked
<1>8. IsTip(e, b.hash)
  <2>1. b.hash # Nil
    BY <1>1, HashNotNil
  <2>2. \A h \in DOMAIN d.block : d.block[h].prev \in DOMAIN d.block \cup {Nil}
    BY DEF Grows, Good, ForeignKeys
  <2>3. tip \in DOMAIN d.block \cup {Nil}
    BY DEF Grows, IsTip
  <2> QED BY <1>2, <1>6, <2>1, <2>2, <2>3 DEF IsTip
<1> QED BY <1>4, <1>5, <1>7, <1>8 DEF Grows, b

-----------------------------------------------------------------------------
(* The first block.                                                        *)

LEMMA NothingGrows == Grows(EmptyDb, Nil)
<1>1. /\ DOMAIN EmptyDb.block = {} /\ DOMAIN EmptyDb.transaction = {}
      /\ DOMAIN EmptyDb.output = {} /\ EmptyDb.input = {}
  BY DEF EmptyDb
<1>2. Good(EmptyDb)
  BY <1>1 DEF Good, ForeignKeys, OneChain, InputsAreMarked, SpentByOwners,
      RewardsInOneBlock, RewardTxs, StoredOnce
<1> QED BY <1>1, <1>2 DEF Grows, Linked, IsTip

LEMMA FirstBlock ==
    /\ Grows(Db0, Block0.hash)
    /\ DOMAIN Db0.transaction = {} /\ DOMAIN Db0.output = {}
    /\ DOMAIN Db0.block = {Block0.hash} /\ Db0.block[Block0.hash].proposerPkey = node
<1>1. <<>> \in Seq({}) /\ DOMAIN <<>> = {}
  BY EmptySeq
<1>2. TxsAreNew(EmptyDb, <<>>)
  BY <1>1 DEF TxsAreNew
<1>3. Grows(Db0, Block0.hash)
  BY <1>1, <1>2, NothingGrows, NextBlockIsStored DEF Db0, Block0
<1>4. Block0.transactions = <<>> /\ Block0.blockHeader.proposerPkey = node
  BY DEF Block0, NextBlock, CreateBlock
<1>5. DOMAIN EmptyDb.block = {} /\ DOMAIN EmptyDb.transaction = {} /\ DOMAIN EmptyDb.output = {}
  BY DEF EmptyDb
<1>6. DOMAIN Db0.transaction = {} /\ DOMAIN Db0.output = {}
  BY <1>1, <1>4, <1>5 DEF Db0, SaveNextBlock, SavedTransactions, SavedOutputs
<1>7. DOMAIN Db0.block = {Block0.hash} /\ Db0.block[Block0.hash].proposerPkey = node
  BY <1>4, <1>5 DEF Db0, SaveNextBlock, SavedBlocks
<1> QED BY <1>3, <1>6, <1>7

-----------------------------------------------------------------------------
(* The second block, with the reward of the first.                         *)

\* The fields of a reward.
LEMMA RewardFields ==
    ASSUME NEW h
    PROVE  LET t == CreateMiningReward(node, h)
           IN /\ t.hash = Hash(t.txBody) /\ t.sig = node
              /\ t.txBody.inputs = <<>> /\ t.txBody.outputs = <<Output(RewardCoins, node)>>
              /\ t.txBody.hashLink = h /\ t.txBody.valueType = Nil
              /\ t.txBody.voteType = 0 /\ t.txBody.duration = 0
BY DEF CreateMiningReward, Sign, TxBody

LEMMA RewardFitsColumns == ASSUME NEW h PROVE FitsColumns(CreateMiningReward(node, h))
<1> DEFINE t == CreateMiningReward(node, h)
<1>1. /\ t.sig = node /\ t.txBody.outputs = <<Output(RewardCoins, node)>>
      /\ t.txBody.voteType = 0 /\ t.txBody.duration = 0
  BY RewardFields
<1>2. node # Nil
  BY KeysAssumption, KeysOfLedger
<1>3. 0 <= PgIntMax
  BY PgIntAssumption
<1>4. \A i \in DOMAIN t.txBody.outputs : t.txBody.outputs[i] = Output(RewardCoins, node)
  BY <1>1
<1> HIDE DEF t
<1> QED BY <1>1, <1>2, <1>3, <1>4, RewardFits DEF FitsColumns, Output, t

LEMMA RewardIsSound ==
    ASSUME NEW d, NEW h \in DOMAIN d.block, d.block[h].proposerPkey = node,
           GetTxByHashLink(d, h) = {}
    PROVE  Sound(d, CreateMiningReward(node, h))
<1>1. Len(<<>>) = 0 /\ 1 .. 0 = {}
  OBVIOUS
<1> QED BY <1>1, RewardFields DEF Sound, FirstReward

\* Where the reward of the first block is.
Coins == <<Reward0.hash, 0>>

LEMMA SecondBlock ==
    /\ Grows(Db1, Block1.hash)
    /\ DOMAIN Db1.transaction = {Reward0.hash}
    /\ Db1.transaction[Reward0.hash].txBody = Reward0.txBody
    /\ DOMAIN Db1.output = {Coins}
    /\ Db1.output[Coins] = [value |-> RewardCoins, spendPkey |-> node, scanPkey |-> Nil,
                            spentBy |-> Nil]
    /\ Block1.hash # Block0.hash
    /\ Block1.hash \in DOMAIN Db1.block /\ Db1.block[Block1.hash].proposerPkey = node
<1> DEFINE txs == <<Reward0>>
<1>1. txs \in Seq({Reward0}) /\ DOMAIN txs = {1} /\ txs[1] = Reward0 /\ 1 .. 0 = {} /\ Len(<<>>) = 0
  OBVIOUS
<1>2. /\ Reward0.hash = Hash(Reward0.txBody) /\ Reward0.txBody.inputs = <<>>
      /\ Reward0.txBody.outputs = <<Output(RewardCoins, node)>>
  BY RewardFields DEF Reward0
<1>3. Sound(Db0, Reward0) /\ FitsColumns(Reward0)
  <2>1. GetTxByHashLink(Db0, Block0.hash) = {}
    BY FirstBlock DEF GetTxByHashLink
  <2> QED BY <2>1, FirstBlock, RewardIsSound, RewardFitsColumns DEF Reward0
<1>4. TxsAreNew(Db0, txs)
  BY <1>1, FirstBlock DEF TxsAreNew
<1>5. /\ Block1.transactions = txs /\ Block1.blockHeader.proposerPkey = node
      /\ Block1 = NextBlock(Block0.hash, txs)
  BY DEF Block1, NextBlock, CreateBlock
<1> HIDE DEF txs
<1>6. CanSave(Db0, Block1) /\ Grows(Db1, Block1.hash)
  BY <1>1, <1>3, <1>4, <1>5, FirstBlock, NextBlockIsStored DEF Db1
<1>7. /\ DOMAIN Db1.transaction = {Reward0.hash}
      /\ Db1.transaction[Reward0.hash].txBody = Reward0.txBody
  <2>1. Reward0.hash \in DOMAIN Db1.transaction /\ DOMAIN Db1.transaction = {Reward0.hash}
    BY <1>1, <1>5, FirstBlock DEF Db1, SaveNextBlock, SavedTransactions
  <2>2. Db1.transaction[Reward0.hash] =
            [block |-> Block1.hash, index |-> 1 - 1, txBody |-> Reward0.txBody, sig |-> Reward0.sig]
    <3>1. /\ TxsAreNew(Db0, Block1.transactions) /\ 1 \in DOMAIN Block1.transactions
          /\ Block1.transactions[1] = Reward0
      BY <1>1, <1>4, <1>5
    <3> QED BY <3>1, StoredAtIndex DEF Db1
  <2> QED BY <2>1, <2>2
<1>8. DOMAIN Db1.output = {Coins}
  <2>1. OutpointsOf(Reward0) = {Coins}
    <3>1. DOMAIN Reward0.txBody.outputs = {1} /\ 1 - 1 = 0
      BY <1>2
    <3> QED BY <3>1 DEF OutpointsOf, Coins
  <2> QED BY <1>1, <1>5, <2>1, FirstBlock DEF Db1, SaveNextBlock, SavedOutputs
<1>9. Db1.output[Coins] = [value |-> RewardCoins, spendPkey |-> node, scanPkey |-> Nil,
                           spentBy |-> Nil]
  <2>1. Db1.output[Coins] = SavedOutput(Db0, txs, Coins)
    BY <1>5, <1>8 DEF Db1, SaveNextBlock, SavedOutputs
  <2>2. SpendersOf(Db0, txs, Coins) = {}
    BY <1>1, <1>2 DEF SpendersOf
  <2>3. SpentByAfter(Db0, txs, Coins, Nil) = Nil
    BY <2>2, UnspentKeepsMark
  <2>4. Coins \notin DOMAIN Db0.output /\ Coins[1] = Reward0.hash /\ Coins[2] + 1 = 1
    BY FirstBlock DEF Coins
  <2>5. IndexOf(txs, Reward0.hash) = 1
    BY <1>1 DEF IndexOf
  <2>6. Reward0.txBody.outputs[1] = Output(RewardCoins, node)
    BY <1>2
  <2> QED BY <1>1, <2>1, <2>3, <2>4, <2>5, <2>6 DEF SavedOutput, Output
<1>10. /\ Block1.hash # Block0.hash
       /\ Block1.hash \in DOMAIN Db1.block /\ Db1.block[Block1.hash].proposerPkey = node
  BY <1>5, <1>6, FirstBlock DEF CanSave, ChainAllows, Db1, SaveNextBlock, SavedBlocks
<1> QED BY <1>6, <1>7, <1>8, <1>9, <1>10

-----------------------------------------------------------------------------
(* The voting, paid with those coins.                                      *)

LEMMA OneElementList == ASSUME NEW u PROVE SetToSeq({u}) = <<u>>
<1> DEFINE lists == {f \in [1 .. 1 -> {u}] : IsInjective(f)}
<1>1. Cardinality({u}) = 1
  BY FS_Singleton
<1>2. SetToSeq({u}) = CHOOSE f \in [1 .. 1 -> {u}] : IsInjective(f)
  BY <1>1 DEF SetToSeq
<1>3. <<u>> \in [1 .. 1 -> {u}] /\ \A f \in [1 .. 1 -> {u}] : f = <<u>>
  <2>1. ASSUME NEW f \in [1 .. 1 -> {u}] PROVE f = <<u>>
    <3>1. f = [i \in 1 .. 1 |-> u] /\ <<u>> = [i \in 1 .. 1 |-> u]
      OBVIOUS
    <3> QED BY <3>1
  <2> QED BY <2>1
<1>4. IsInjective(<<u>>)
  BY DEF IsInjective
<1> QED BY <1>2, <1>3, <1>4

\* What is left of the reward when one coin is paid for a vote of voter's.
LeftOver == IF RewardCoins > 1 THEN <<Output(RewardCoins - 1, node)>> ELSE <<>>

VotingOutputs == <<Output(1, voter)>> \o LeftOver

\* The voting takes the reward and creates as many votes.
LEMMA VotingFields ==
    /\ Voting.hash = Hash(Voting.txBody) /\ Voting.sig = node
    /\ Voting.txBody.inputs = <<Input(Reward0.hash, 0)>>
    /\ Voting.txBody.outputs = VotingOutputs
    /\ Voting.txBody.hashLink = Nil /\ Voting.txBody.valueType = Nil
    /\ Voting.txBody.voteType = 1 /\ Voting.txBody.duration = 1
<1> DEFINE u == Utxo(Db1, Coins)
<1>1. GetUTXOSByPkey(Db1, node) = {u}
  <2>1. {o \in Unspent(Db1) : Db1.output[o].spendPkey = node
                                \/ Db1.output[o].scanPkey = node} = {Coins}
    BY SecondBlock DEF Unspent
  <2> QED BY <2>1 DEF GetUTXOSByPkey
<1>2. SetToSeq(GetUTXOSByPkey(Db1, node)) = <<u>>
  BY <1>1, OneElementList
<1>3. /\ u.value = RewardCoins /\ u.txHash = Reward0.hash /\ u.index = 0
      /\ u.valueType = Nil /\ u.spendPkey = node
  <2>1. ValueTypeOf(Db1, Reward0.hash) = Nil
    <3>1. Reward0.txBody.voteType = 0 /\ Reward0.txBody.valueType = Nil
      BY RewardFields DEF Reward0
    <3> QED BY <3>1, SecondBlock DEF ValueTypeOf
  <2>2. Coins[1] = Reward0.hash /\ Coins[2] = 0
    BY DEF Coins
  <2> QED BY <2>1, <2>2, SecondBlock DEF Utxo
<1> HIDE DEF u
<1>4. RewardCoins \in Int /\ RewardCoins % U32 = RewardCoins /\ 1 \in 0 .. (U32 - 1)
  BY RewardAssumption, U32Assumption, SmallRemainder
<1>5. OutputsSum(<<Output(1, voter)>>) = 1
  BY <1>4, OneOutputSum
<1>6. TakeInputs(<<u>>, Nil, 1) = [inputs |-> <<Input(Reward0.hash, 0)>>, sum |-> RewardCoins]
  <2>1. 1 \in Int /\ 1 > 0
    OBVIOUS
  <2> QED BY <1>3, <1>4, <2>1, OneUtxoIsTaken
<1>7. <<u>>[1] = u
  OBVIOUS
<1>8. Voting = Sign(TxBody(<<Input(Reward0.hash, 0)>>, VotingOutputs, Nil, Nil, 1, 1), node)
  BY <1>2, <1>3, <1>5, <1>6, <1>7 DEF Voting, CreateTx, VotingOutputs, LeftOver
<1> QED BY <1>8 DEF Sign, TxBody

\* Its outputs are worth something, and no more than the reward.
LEMMA VotingOutputsAre ==
    /\ VotingOutputs \in
            Seq([value : 1 .. RewardCoins, spendPkey : {node, voter}, scanPkey : {Nil}])
    /\ VotingOutputs # <<>>
<1> DEFINE X == [value : 1 .. RewardCoins, spendPkey : {node, voter}, scanPkey : {Nil}]
<1>1. RewardCoins \in Nat /\ 1 <= RewardCoins
  BY RewardAssumption, U32Assumption
<1>2. Output(1, voter) \in X
  BY <1>1 DEF Output
<1>3. RewardCoins > 1 => Output(RewardCoins - 1, node) \in X
  BY <1>1 DEF Output
<1> HIDE DEF X
<1>4. <<Output(1, voter)>> \in Seq(X) /\ Len(<<Output(1, voter)>>) = 1
  BY <1>2
<1>5. LeftOver \in Seq(X)
  BY <1>3, EmptySeq DEF LeftOver
<1>6. VotingOutputs \in Seq(X) /\ Len(VotingOutputs) = 1 + Len(LeftOver)
  BY <1>4, <1>5, ConcatProperties DEF VotingOutputs
<1>7. VotingOutputs # <<>>
  <2>1. Len(LeftOver) \in Nat /\ Len(<<>>) = 0
    BY <1>5, LenProperties
  <2> QED BY <1>6, <2>1
<1> QED BY <1>6, <1>7 DEF X

LEMMA VotingIsSound == Sound(Db1, Voting) /\ FitsColumns(Voting)
<1>1. Sound(Db1, Voting)
  <2>1. /\ Len(Voting.txBody.inputs) = 1 /\ 1 .. 1 = {1}
        /\ Outpoint(Voting.txBody.inputs[1]) = Coins
    BY VotingFields DEF Input, Outpoint, Coins
  <2>2. Coins \in Unspent(Db1) /\ Db1.output[Coins].spendPkey = node
    BY SecondBlock DEF Unspent
  <2>3. ValueTypeOf(Db1, Coins[1]) = Nil
    <3>1. Reward0.txBody.voteType = 0 /\ Reward0.txBody.valueType = Nil /\ Coins[1] = Reward0.hash
      BY RewardFields DEF Reward0, Coins
    <3> QED BY <3>1, SecondBlock DEF ValueTypeOf
  <2> QED BY <2>1, <2>2, <2>3, VotingFields DEF Sound, IsCoinbase
<1>2. FitsColumns(Voting)
  <2>1. /\ RewardCoins \in Nat /\ 1 <= RewardCoins /\ PgIntMax \in Nat
        /\ RewardCoins <= PgIntMax
    BY RewardAssumption, U32Assumption, PgIntAssumption, RewardFits
  <2>2. node # Nil /\ voter # Nil
    BY KeysAssumption, KeysOfLedger
  <2>3. ASSUME NEW i \in DOMAIN VotingOutputs
        PROVE  VotingOutputs[i].value <= PgIntMax /\ VotingOutputs[i].spendPkey # Nil
    <3>1. VotingOutputs[i] \in
            [value : 1 .. RewardCoins, spendPkey : {node, voter}, scanPkey : {Nil}]
      BY VotingOutputsAre, LenProperties, ElementOfSeq
    <3> QED BY <2>1, <2>2, <3>1
  <2> QED BY <2>1, <2>2, <2>3, VotingFields DEF FitsColumns
<1> QED BY <1>1, <1>2

-----------------------------------------------------------------------------
(* The third block.                                                        *)

LEMMA HashesDiffer ==
    Reward1.hash # Reward0.hash /\ Voting.hash # Reward0.hash /\ Voting.hash # Reward1.hash
<1>1. /\ Reward0.hash = Hash(Reward0.txBody) /\ Reward0.txBody.hashLink = Block0.hash
      /\ Reward0.txBody.voteType = 0
  BY RewardFields DEF Reward0
<1>2. /\ Reward1.hash = Hash(Reward1.txBody) /\ Reward1.txBody.hashLink = Block1.hash
      /\ Reward1.txBody.voteType = 0
  BY RewardFields DEF Reward1
<1> QED BY <1>1, <1>2, SecondBlock, VotingFields, HashInjective

\* The ledger keeps its promises, and its outputs are coins or votes of the
\* stored voting.
LEMMA LedgerIsGood ==
    /\ Grows(Ledger, Block2.hash)
    /\ DOMAIN Ledger.transaction = {Reward0.hash, Voting.hash, Reward1.hash}
    /\ ValueTypeOf(Ledger, Reward0.hash) = Nil /\ ValueTypeOf(Ledger, Reward1.hash) = Nil
    /\ ValueTypeOf(Ledger, Voting.hash) = Voting.hash
<1> DEFINE txs == <<Voting, Reward1>>
<1>1. /\ txs \in Seq({Voting, Reward1}) /\ DOMAIN txs = {1, 2}
      /\ txs[1] = Voting /\ txs[2] = Reward1
  OBVIOUS
<1>2. Sound(Db1, Voting) /\ FitsColumns(Voting)
  BY VotingIsSound
<1>3. Sound(Db1, Reward1) /\ FitsColumns(Reward1)
  <2>1. GetTxByHashLink(Db1, Block1.hash) = {}
    <3>1. Reward0.txBody.hashLink = Block0.hash
      BY RewardFields DEF Reward0
    <3> QED BY <3>1, SecondBlock DEF GetTxByHashLink
  <2> QED BY <2>1, SecondBlock, RewardIsSound, RewardFitsColumns DEF Reward1
<1>4. TxsAreNew(Db1, txs)
  BY <1>1, SecondBlock, HashesDiffer DEF TxsAreNew
<1>5. Block2.transactions = txs /\ Block2 = NextBlock(Block1.hash, txs)
  BY DEF Block2, NextBlock, CreateBlock
<1> HIDE DEF txs
<1>6. Grows(Ledger, Block2.hash)
  BY <1>1, <1>2, <1>3, <1>4, <1>5, SecondBlock, NextBlockIsStored DEF Ledger
<1>7. DOMAIN Ledger.transaction = {Reward0.hash, Voting.hash, Reward1.hash}
  BY <1>1, <1>5, SecondBlock DEF Ledger, SaveNextBlock, SavedTransactions
<1>8. /\ Ledger.transaction[Voting.hash].txBody = Voting.txBody
      /\ Ledger.transaction[Reward1.hash].txBody = Reward1.txBody
  <2>1. /\ TxsAreNew(Db1, Block2.transactions)
        /\ 1 \in DOMAIN Block2.transactions /\ Block2.transactions[1] = Voting
        /\ 2 \in DOMAIN Block2.transactions /\ Block2.transactions[2] = Reward1
    BY <1>1, <1>4, <1>5
  <2>2. ASSUME NEW i \in DOMAIN Block2.transactions
        PROVE  Ledger.transaction[Block2.transactions[i].hash].txBody
                    = Block2.transactions[i].txBody
    <3>1. Ledger.transaction[Block2.transactions[i].hash] =
            [block |-> Block2.hash, index |-> i - 1, txBody |-> Block2.transactions[i].txBody,
             sig |-> Block2.transactions[i].sig]
      BY <2>1, StoredAtIndex DEF Ledger
    <3> QED BY <3>1
  <2> QED BY <2>1, <2>2
<1>9. Ledger.transaction[Reward0.hash].txBody = Reward0.txBody
  BY SecondBlock, SaveKeepsTransactions DEF Ledger
<1>10. /\ Reward0.txBody.voteType = 0 /\ Reward0.txBody.valueType = Nil
       /\ Reward1.txBody.voteType = 0 /\ Reward1.txBody.valueType = Nil
  BY RewardFields DEF Reward0, Reward1
<1> QED BY <1>6, <1>7, <1>8, <1>9, <1>10, VotingFields DEF ValueTypeOf

-----------------------------------------------------------------------------
(* What is accepted there can be stored, and what is stored is sound.      *)

Uint32 == 0 .. (U32 - 1)

\* The outputs of a body: its numbers are of 32 bits, and a key may be missing.
AnyOutputs == [value : Uint32, spendPkey : Keys \cup {Nil}, scanPkey : {Nil, voter}]

LEMMA ShortLists ==
    ASSUME NEW S, NEW T, S \subseteq T, NEW n \in Nat, NEW s \in UpTo(n, S)
    PROVE  s \in Seq(T) /\ Len(s) \in 0 .. n
<1>1. PICK k \in 0 .. n : s \in [1 .. k -> S]
  BY DEF UpTo
<1>2. k \in Nat /\ s \in [1 .. k -> T] /\ DOMAIN s = 1 .. k
  BY <1>1
<1>3. s \in Seq(T)
  BY <1>2
<1>4. Len(s) = k
  BY <1>2, <1>3
<1> QED BY <1>1, <1>3, <1>4

LEMMA BodyFields ==
    ASSUME NEW body \in Transfers \cup Amounts \cup Rewards
    PROVE  /\ body.inputs \in Seq(Inputs) /\ Len(body.inputs) \in 0 .. 2
           /\ body.outputs \in Seq(AnyOutputs) /\ Len(body.outputs) \in 0 .. 2
<1>1. 1 \in Uint32 /\ RewardCoins \in Uint32 /\ Values \subseteq Uint32
  BY RewardAssumption, U32Assumption, RewardFits, ColumnsFit, PgIntAssumption, FieldsAreUint32
     DEF Uint32
<1>2. node \in Keys /\ voter \in Keys /\ 2 \in Nat
  BY KeysOfLedger
<1>3. CASE body \in Transfers
  <2>1. Outputs \subseteq AnyOutputs
    BY <1>1, <1>2 DEF Outputs, AnyOutputs
  <2>2. body.inputs \in UpTo(2, Inputs) /\ body.outputs \in UpTo(2, Outputs)
    BY <1>3 DEF Transfers
  <2> QED BY <1>2, <2>1, <2>2, ShortLists
<1>4. CASE body \in Amounts
  <2> DEFINE X == [value : Values, spendPkey : {Nil, node}, scanPkey : {Nil}]
  <2>1. X \subseteq AnyOutputs
    BY <1>1, <1>2 DEF AnyOutputs
  <2>2. body.inputs \in UpTo(2, Inputs) /\ body.outputs \in UpTo(2, X)
    BY <1>4 DEF Amounts
  <2> HIDE DEF X
  <2> QED BY <1>2, <2>1, <2>2, ShortLists
<1>5. CASE body \in Rewards
  <2> DEFINE X == [value : Values, spendPkey : Keys, scanPkey : {Nil, voter}]
  <2>1. X \subseteq AnyOutputs
    BY <1>1, <1>2 DEF AnyOutputs
  <2>2. body.inputs = <<>> /\ body.outputs \in UpTo(2, X)
    BY <1>5 DEF Rewards
  <2>3. body.inputs \in Seq(Inputs) /\ Len(body.inputs) \in 0 .. 2
    BY <2>2, EmptySeq
  <2> HIDE DEF X
  <2> QED BY <1>2, <2>1, <2>2, <2>3, ShortLists
<1> QED BY <1>3, <1>4, <1>5

LEMMA DeliveredFields ==
    ASSUME NEW t \in Delivered
    PROVE  /\ t.sig \in Keys /\ t.hash = Hash(t.txBody)
           /\ t.txBody.inputs \in Seq(Inputs) /\ Len(t.txBody.inputs) \in 0 .. 2
           /\ t.txBody.outputs \in Seq(AnyOutputs) /\ Len(t.txBody.outputs) \in 0 .. 2
<1>1. PICK body \in Transfers \cup Amounts \cup Rewards, key \in Keys : t = Sign(body, key)
  BY DEF Delivered
<1>2. t.sig = key /\ t.hash = Hash(t.txBody) /\ t.txBody = body
  BY <1>1 DEF Sign
<1> QED BY <1>2, BodyFields

\* A list that is not empty has a first element.
LEMMA FirstIndex == ASSUME NEW S, NEW s \in Seq(S), s # <<>> PROVE 1 \in 1 .. Len(s)
BY LenProperties, EmptySeq

LEMMA AcceptedIsSound ==
    ASSUME NEW t \in Accepted
    PROVE  Sound(Ledger, t) /\ t.hash \notin DOMAIN Ledger.transaction
<1>1. t \in Delivered /\ BodyVerdict(Ledger, t) = "CodeOk"
  BY DEF Accepted
<1>2. t.sig \in Keys /\ t.hash = Hash(t.txBody) /\ t.txBody.inputs \in Seq(Inputs)
  BY <1>1, DeliveredFields
<1>3. t.txBody.inputs # <<>> => 1 \in 1 .. Len(t.txBody.inputs)
  BY <1>2, FirstIndex
<1>4. t.hash \notin DOMAIN Ledger.transaction
  BY <1>1, <1>2, LedgerIsGood, AcceptedIsNew DEF Grows, Good
<1> QED BY <1>1, <1>2, <1>3, <1>4, AcceptedSpendsUnspent, AcceptedSpendsOwn, AcceptedKeepsType,
           AcceptedReward DEF Sound

\* Any accepted transactions make a block that can be stored, when each is there
\* once and fits the columns.
LEMMA AcceptedBlockIsStored ==
    ASSUME NEW txs \in Seq(Accepted), \A i \in DOMAIN txs : FitsColumns(txs[i]),
           \A i, j \in DOMAIN txs : i # j => txs[i].hash # txs[j].hash
    PROVE  CanSave(Ledger, NextBlock(Block2.hash, txs))
<1>1. \A i \in DOMAIN txs : txs[i] \in Accepted
  BY LenProperties, ElementOfSeq
<1>2. \A i \in DOMAIN txs : Sound(Ledger, txs[i]) /\ txs[i].hash \notin DOMAIN Ledger.transaction
  BY <1>1, AcceptedIsSound
<1>3. TxsAreNew(Ledger, txs)
  BY <1>2 DEF TxsAreNew
<1> QED BY <1>2, <1>3, LedgerIsGood, NextBlockIsStored

\* And what can be stored leaves a good ledger.
LEMMA StoredBlockIsGood ==
    ASSUME NEW txs \in Seq(Accepted), CanSave(Ledger, NextBlock(Block2.hash, txs))
    PROVE  Good(SaveNextBlock(Ledger, NextBlock(Block2.hash, txs)))
<1> DEFINE b == NextBlock(Block2.hash, txs)
<1>1. b.transactions = txs
  BY DEF NextBlock, CreateBlock
<1> HIDE DEF b
<1>2. \A i \in DOMAIN txs : txs[i] \in Accepted
  BY LenProperties, ElementOfSeq
<1>3. \A i \in DOMAIN txs : Sound(Ledger, txs[i])
  BY <1>2, AcceptedIsSound
<1>4. Good(Ledger) /\ CanSave(Ledger, b)
  BY LedgerIsGood DEF Grows, b
<1>5. Good(SaveNextBlock(Ledger, b))
  BY <1>1, <1>3, <1>4, SaveKeepsGood
<1> QED BY <1>5 DEF b

-----------------------------------------------------------------------------
(* No panic when something is spent.                                       *)

\* The votes of the database are those of stored votings.
VotingsAreStored(d) ==
    \A h \in DOMAIN d.transaction : ValueTypeOf(d, h) \in DOMAIN d.transaction \cup {Nil}

\* AppendTx looks up the voting of a transaction that initialises votes only
\* after it has found the first input to be one of that voting's votes.
LEMMA VotingIsFound ==
    ASSUME NEW d, ForeignKeys(d), VotingsAreStored(d),
           NEW t, t.txBody.inputs # <<>>, 1 \in 1 .. Len(t.txBody.inputs)
    PROVE  BodyVerdict(d, t) # "Panic"
<1> DEFINE body == t.txBody
           o == Outpoint(body.inputs[1])
<1> SUFFICES ASSUME BodyVerdict(d, t) = "Panic" PROVE FALSE
  OBVIOUS
<1>1. TransferVerdict(d, t) = "Panic"
  BY DEF BodyVerdict, IsCoinbase
<1>2. \A i : InputVerdict(d, body, i) # "Panic"
  BY DEF InputVerdict
<1>3. \A pkey : VerifySig(t, pkey) # "Panic"
  BY DEF VerifySig
<1>4. BadInputs(d, body) = {} /\ KindVerdict(d, body) = "Panic"
  BY <1>1, <1>2, <1>3 DEF TransferVerdict
<1>5. /\ body.voteType = 0 /\ body.hashLink = Nil /\ IsInitVote(body)
      /\ InitVoteVerdict(d, body) = "Panic"
  BY <1>4 DEF KindVerdict
<1>6. body.valueType # Nil /\ GetTxByHash(d, body.valueType) = {}
  BY <1>5 DEF IsInitVote, InitVoteVerdict
<1>7. InputVerdict(d, body, 1) = "CodeOk"
  BY <1>4 DEF BadInputs
<1>8. o \in Unspent(d) /\ ValueTypeOf(d, o[1]) = body.valueType
  BY <1>5, <1>7 DEF InputVerdict
<1>9. o[1] \in DOMAIN d.transaction
  BY <1>8 DEF Unspent, ForeignKeys
<1>10. body.valueType \in DOMAIN d.transaction
  BY <1>6, <1>8, <1>9 DEF VotingsAreStored
<1> QED BY <1>6, <1>10 DEF GetTxByHash

LEMMA NoPanic ==
    ASSUME NEW t \in Delivered, t.txBody.inputs # <<>>
    PROVE  AppendCode(Reset(NewTxExecutor), Ledger, t, FALSE) # "Panic"
<1>1. VotingsAreStored(Ledger) /\ ForeignKeys(Ledger)
  BY LedgerIsGood DEF VotingsAreStored, Grows, Good
<1>2. 1 \in 1 .. Len(t.txBody.inputs)
  BY DeliveredFields, FirstIndex
<1>3. BodyVerdict(Ledger, t) # "Panic"
  BY <1>1, <1>2, VotingIsFound
<1>4. Reset(NewTxExecutor).mapMade = TRUE
  BY DEF Reset, NewTxExecutor
<1>5. ParseVerdict(t) # "Panic"
  BY DEF ParseVerdict
<1> QED BY <1>3, <1>4, <1>5 DEF AppendCode

-----------------------------------------------------------------------------
(* What a block of one transaction does to the value in circulation.       *)

\* The unspent outputs of a type.
Pool(d, type) == {o \in Unspent(d) : ValueTypeOf(d, o[1]) = type}

\* The outputs that a transaction spends, and the types of what it makes and
\* of what it spends.
TakenBy(t) == {Outpoint(t.txBody.inputs[k]) : k \in 1 .. Len(t.txBody.inputs)}

MadeType(t) == IF t.txBody.voteType = 0 THEN t.txBody.valueType ELSE t.hash

TakesOnly(d, t, from) == \A o \in TakenBy(t) : ValueTypeOf(d, o[1]) = from

\* b holds t, which d accepts, and nothing else.
HoldsOne(d, b, t) ==
    /\ GoodBlock(d, b) /\ b.transactions \in Seq({t})
    /\ DOMAIN b.transactions = {1} /\ b.transactions[1] = t /\ t.hash # Nil

LEMMA OneIsNew ==
    ASSUME NEW d, ForeignKeys(d), NEW b, NEW t, HoldsOne(d, b, t)
    PROVE  /\ DOMAIN SaveNextBlock(d, b).output = DOMAIN d.output \cup OutpointsOf(t)
           /\ t.hash \notin DOMAIN d.transaction
           /\ \A o \in OutpointsOf(t) : o[1] = t.hash /\ o \notin DOMAIN d.output
           /\ TakenBy(t) \subseteq Unspent(d)
<1>1. DOMAIN SaveNextBlock(d, b).output = DOMAIN d.output \cup OutpointsOf(t)
  BY DEF HoldsOne, SaveNextBlock, SavedOutputs
<1>2. t.hash \notin DOMAIN d.transaction
  BY DEF HoldsOne, GoodBlock, TxsAreNew
<1>3. \A o \in OutpointsOf(t) : o[1] = t.hash /\ o \notin DOMAIN d.output
  BY <1>2 DEF OutpointsOf, ForeignKeys
<1>4. TakenBy(t) \subseteq Unspent(d)
  <2>1. BodyVerdict(d, t) = "CodeOk"
    BY DEF HoldsOne, GoodBlock
  <2> QED BY <2>1, AcceptedSpendsUnspent DEF TakenBy
<1> QED BY <1>1, <1>2, <1>3, <1>4

LEMMA PoolsChange ==
    ASSUME NEW d, ForeignKeys(d), NEW b, NEW t, HoldsOne(d, b, t), NEW type
    PROVE  Pool(SaveNextBlock(d, b), type) =
                (Pool(d, type) \ TakenBy(t))
                    \cup (IF type = MadeType(t) THEN OutpointsOf(t) ELSE {})
<1> DEFINE txs == b.transactions
           e == SaveNextBlock(d, b)
           marked(o, before) == SpentByAfter(d, txs, o, before)
<1>1. /\ txs \in Seq({t}) /\ DOMAIN txs = {1} /\ txs[1] = t /\ t.hash # Nil
      /\ TxsAreNew(d, txs)
  BY DEF HoldsOne, GoodBlock
<1>2. /\ DOMAIN e.output = DOMAIN d.output \cup OutpointsOf(t)
      /\ t.hash \notin DOMAIN d.transaction
      /\ \A o \in OutpointsOf(t) : o[1] = t.hash /\ o \notin DOMAIN d.output
      /\ TakenBy(t) \subseteq Unspent(d)
  BY OneIsNew
<1>3. ASSUME NEW o
      PROVE  SpendersOf(d, txs, o) =
                IF o \in TakenBy(t) /\ o[1] \in DOMAIN d.transaction THEN {1} ELSE {}
  <2>1. {txs[j].hash : j \in 1 .. (1 - 1)} = {}
    OBVIOUS
  <2> QED BY <1>1, <2>1 DEF SpendersOf, TakenBy
<1>4. ASSUME NEW o \in DOMAIN d.output
      PROVE  o \in Unspent(e) <=> o \in Unspent(d) \ TakenBy(t)
  <2>1. o \in DOMAIN e.output /\ e.output[o].spentBy = marked(o, d.output[o].spentBy)
    <3>1. o \in DOMAIN e.output /\ e.output[o] = SavedOutput(d, txs, o)
      BY <1>2 DEF SaveNextBlock, SavedOutputs
    <3> HIDE DEF e
    <3> QED BY <3>1 DEF SavedOutput
  <2>2. o[1] \in DOMAIN d.transaction
    BY DEF ForeignKeys
  <2>3. CASE o \in TakenBy(t)
    <3>1. SpendersOf(d, txs, o) = {1}
      BY <1>3, <2>2, <2>3
    <3>2. marked(o, d.output[o].spentBy) = t.hash
      BY <1>1, <3>1, MarkIsSpender
    <3> QED BY <1>1, <2>1, <2>3, <3>2 DEF Unspent
  <2>4. CASE o \notin TakenBy(t)
    <3>1. SpendersOf(d, txs, o) = {}
      BY <1>3, <2>4
    <3>2. marked(o, d.output[o].spentBy) = d.output[o].spentBy
      BY <3>1, UnspentKeepsMark
    <3> QED BY <2>1, <2>4, <3>2 DEF Unspent
  <2> QED BY <2>3, <2>4
<1>5. ASSUME NEW o \in OutpointsOf(t) PROVE o \in Unspent(e)
  <2>1. o \in DOMAIN e.output /\ e.output[o].spentBy = marked(o, Nil)
    <3>1. o \in DOMAIN e.output /\ e.output[o] = SavedOutput(d, txs, o)
      BY <1>2 DEF SaveNextBlock, SavedOutputs
    <3> HIDE DEF e
    <3> QED BY <1>2, <3>1 DEF SavedOutput
  <2>2. SpendersOf(d, txs, o) = {}
    BY <1>2, <1>3
  <2>3. marked(o, Nil) = Nil
    BY <2>2, UnspentKeepsMark
  <2> QED BY <2>1, <2>3 DEF Unspent
<1>6. \A h \in DOMAIN d.transaction : ValueTypeOf(e, h) = ValueTypeOf(d, h)
  BY SaveKeepsTransactions DEF ValueTypeOf
<1>7. ValueTypeOf(e, t.hash) = MadeType(t)
  <2>1. e.transaction[t.hash] =
            [block |-> b.hash, index |-> 1 - 1, txBody |-> t.txBody, sig |-> t.sig]
    BY <1>1, StoredAtIndex
  <2> QED BY <2>1 DEF ValueTypeOf, MadeType
<1>8. \A o \in DOMAIN d.output : ValueTypeOf(e, o[1]) = ValueTypeOf(d, o[1])
  BY <1>6 DEF ForeignKeys
<1>9. Unspent(e) \subseteq DOMAIN e.output /\ Unspent(d) \subseteq DOMAIN d.output
  BY DEF Unspent
<1> HIDE DEF e
<1> DEFINE left == Pool(d, type) \ TakenBy(t)
           made == IF type = MadeType(t) THEN OutpointsOf(t) ELSE {}
<1>10. ASSUME NEW o \in DOMAIN d.output PROVE o \in Pool(e, type) <=> o \in left \cup made
  BY <1>2, <1>4, <1>8, <1>10 DEF Pool
<1>11. ASSUME NEW o \in OutpointsOf(t) PROVE o \in Pool(e, type) <=> o \in left \cup made
  BY <1>2, <1>5, <1>7, <1>9 DEF Pool
<1>12. /\ Pool(e, type) \subseteq DOMAIN d.output \cup OutpointsOf(t)
       /\ left \cup made \subseteq DOMAIN d.output \cup OutpointsOf(t)
  BY <1>2, <1>9 DEF Pool
<1> HIDE DEF left, made
<1>13. Pool(e, type) = left \cup made
  BY <1>10, <1>11, <1>12
<1> QED BY <1>13 DEF left, made, e

\* The value of each type changes by what is spent and by what is made of it.
LEMMA ValuesChange ==
    ASSUME NEW d, ForeignKeys(d), ValuesAreInts(d), IsFiniteSet(DOMAIN d.output),
           NEW b, NEW t, HoldsOne(d, b, t),
           NEW from, TakesOnly(d, t, from), NEW type
    PROVE  LET e == SaveNextBlock(d, b)
           IN /\ SumOf(ValuesOf(e), Pool(e, type)) =
                    SumOf(ValuesOf(d), Pool(d, type))
                        - (IF type = from THEN SumOf(ValuesOf(d), TakenBy(t)) ELSE 0)
                        + (IF type = MadeType(t)
                           THEN SumOf(OutValues(t.txBody), 1 .. Len(t.txBody.outputs)) ELSE 0)
              /\ IsFiniteSet(DOMAIN e.output) /\ ValuesAreInts(e)
<1> DEFINE e == SaveNextBlock(d, b)
           v == ValuesOf(d)
           w == ValuesOf(e)
           pool == Pool(d, type)
           left == pool \ TakenBy(t)
           gone == pool \cap TakenBy(t)
           made == IF type = MadeType(t) THEN OutpointsOf(t) ELSE {}
           given == SumOf(OutValues(t.txBody), 1 .. Len(t.txBody.outputs))
<1>1. /\ DOMAIN e.output = DOMAIN d.output \cup OutpointsOf(t)
      /\ \A o \in OutpointsOf(t) : o[1] = t.hash /\ o \notin DOMAIN d.output
      /\ TakenBy(t) \subseteq Unspent(d) /\ t.hash \notin DOMAIN d.transaction
  BY OneIsNew
<1>2. GoodBlock(d, b) /\ DOMAIN b.transactions = {1} /\ b.transactions[1] = t /\ ProperTx(t)
  BY DEF HoldsOne, GoodBlock
<1>3. IsFiniteSet(OutpointsOf(t))
  <2>1. IsFiniteSet(1 .. Len(t.txBody.outputs))
    BY <1>2, FiniteIndexes DEF ProperTx, IsList
  <2>2. IsFiniteSet({OutKey(t.hash)[k] : k \in 1 .. Len(t.txBody.outputs)})
    BY <2>1, FiniteImage
  <2> QED BY <1>2, <2>2, OutpointsAre
<1>4. ValuesAreInts(e)
  BY <1>2, SaveKeepsInts
<1>5. /\ Unspent(d) \subseteq DOMAIN d.output /\ pool \subseteq Unspent(d)
      /\ left \subseteq pool /\ gone \subseteq pool /\ pool = left \cup gone /\ left \cap gone = {}
  BY DEF Unspent, Pool
<1>6. gone = IF type = from THEN TakenBy(t) ELSE {}
  BY <1>1 DEF Pool, TakesOnly
<1>7. made \subseteq OutpointsOf(t) /\ left \cap made = {}
  BY <1>1, <1>5
<1>8. Pool(e, type) = left \cup made
  BY PoolsChange
<1>9. w = [o \in DOMAIN e.output |-> e.output[o].value]
      /\ v = [o \in DOMAIN d.output |-> d.output[o].value]
  BY DEF ValuesOf
<1>10. \A o \in DOMAIN d.output : v[o] = w[o] /\ v[o] \in Int
  <2>1. \A i \in DOMAIN b.transactions :
            \A k \in 1 .. Len(b.transactions[i].txBody.inputs) :
                Outpoint(b.transactions[i].txBody.inputs[k]) \in Unspent(d)
    BY <1>1, <1>2 DEF TakenBy
  <2>2. \A o \in DOMAIN d.output : e.output[o].value = d.output[o].value
    BY <2>1, SaveKeepsOutputs
  <2> HIDE DEF v, w, e
  <2> QED BY <1>1, <1>9, <2>2 DEF ValuesAreInts
<1>11. SumOf(w, OutpointsOf(t)) = given
  <2>1. OutputsOf(e, t.hash) = OutpointsOf(t)
    <3>1. \A o \in DOMAIN d.output : o[1] # t.hash
      BY <1>1 DEF ForeignKeys
    <3> HIDE DEF e
    <3> QED BY <1>1, <3>1 DEF OutputsOf
  <2>2. LET f == SaveNextBlock(d, b)
            one == b.transactions[1]
        IN SumOf(ValuesOf(f), OutputsOf(f, one.hash))
                = SumOf(OutValues(one.txBody), 1 .. Len(one.txBody.outputs))
    BY <1>2, NewOutputsSum
  <2> QED BY <1>2, <2>1, <2>2
<1>12. \A o \in DOMAIN e.output : w[o] \in Int
  BY <1>4, <1>9 DEF ValuesAreInts
<1>13. IsFiniteSet(DOMAIN e.output)
  BY <1>1, <1>3, FiniteUnion
<1> HIDE DEF e, v, w, left, gone, made, pool
<1>14. IsFiniteSet(left) /\ IsFiniteSet(gone) /\ IsFiniteSet(made)
  <2>1. left \subseteq DOMAIN d.output /\ gone \subseteq DOMAIN d.output
    BY <1>5
  <2> QED BY <1>3, <1>7, <2>1, FS_Subset
<1>15. SumOf(w, left \cup made) = SumOf(w, left) + SumOf(w, made)
  <2>1. IntOn(w, left \cup made)
    BY <1>1, <1>5, <1>7, <1>12 DEF IntOn
  <2> QED BY <1>7, <1>14, <2>1, SumUnion
<1>16. SumOf(v, pool) = SumOf(v, left) + SumOf(v, gone)
  <2>1. IntOn(v, left \cup gone)
    BY <1>5, <1>10 DEF IntOn
  <2> QED BY <1>5, <1>14, <2>1, SumUnion
<1>17. SumOf(v, left) = SumOf(w, left)
  <2>1. IntOn(v, left) /\ \A o \in left : v[o] = w[o]
    BY <1>5, <1>10 DEF IntOn
  <2> QED BY <1>14, <2>1, SumCongruence
<1>18. /\ SumOf(v, left) \in Int /\ SumOf(v, gone) \in Int
       /\ SumOf(w, made) \in Int
  <2>1. IntOn(v, left) /\ IntOn(v, gone)
    BY <1>5, <1>10 DEF IntOn
  <2>2. IntOn(w, made)
    BY <1>1, <1>7, <1>12 DEF IntOn
  <2> QED BY <1>14, <2>1, <2>2, SumInt
<1>19. SumOf(v, gone) = IF type = from THEN SumOf(v, TakenBy(t)) ELSE 0
  BY <1>6, SumEmpty
<1>20. SumOf(w, made) = IF type = MadeType(t) THEN given ELSE 0
  BY <1>11, SumEmpty DEF made
<1> HIDE DEF given
<1>21. SumOf(w, left \cup made) = SumOf(v, pool) - SumOf(v, gone) + SumOf(w, made)
  BY <1>15, <1>16, <1>17, <1>18
<1>22. SumOf(w, Pool(e, type)) =
            SumOf(v, pool) - (IF type = from THEN SumOf(v, TakenBy(t)) ELSE 0)
                + (IF type = MadeType(t) THEN given ELSE 0)
  BY <1>8, <1>19, <1>20, <1>21
<1> QED BY <1>4, <1>13, <1>22 DEF e, v, w, pool, given

\* What a transaction spends is worth the sum over its inputs when no two of
\* them name the same output.
LEMMA TakenSum ==
    ASSUME NEW d, ValuesAreInts(d), NEW t, ProperTx(t), TakenBy(t) \subseteq DOMAIN d.output,
           \A k, l \in 1 .. Len(t.txBody.inputs) :
                Outpoint(t.txBody.inputs[k]) = Outpoint(t.txBody.inputs[l]) => k = l
    PROVE  SumOf(ValuesOf(d), TakenBy(t))
                = SumOf(InValues(d, t.txBody), 1 .. Len(t.txBody.inputs))
<1> DEFINE A == 1 .. Len(t.txBody.inputs)
           B == TakenBy(t)
           f == [k \in A |-> Outpoint(t.txBody.inputs[k])]
           g == InValues(d, t.txBody)
           h == ValuesOf(d)
<1>1. IsFiniteSet(A)
  BY FiniteIndexes DEF ProperTx
<1>2. \A k \in A : f[k] = Outpoint(t.txBody.inputs[k]) /\ f[k] \in B /\ f[k] \in DOMAIN d.output
  BY DEF TakenBy
<1>3. \A o \in B : \E k \in A : f[k] = o
  BY DEF TakenBy
<1>4. \A k \in A : \A l \in A : f[k] = f[l] => k = l
  BY <1>2
<1>5. \A k \in A : g[k] = h[f[k]]
  BY <1>2 DEF InValues, ValuesOf
<1>6. B = {f[k] : k \in A}
  BY <1>2 DEF TakenBy
<1> HIDE DEF f
<1>7. IsFiniteSet(B)
  <2>1. IsFiniteSet({f[k] : k \in A})
    BY <1>1, FiniteImage
  <2> QED BY <1>6, <2>1
<1>8. IntOn(h, B)
  BY DEF IntOn, ValuesOf, ValuesAreInts
<1> HIDE DEF A, B, g, h
<1>9. SumOf(g, A) = SumOf(h, B)
  BY <1>1, <1>2, <1>3, <1>4, <1>5, <1>7, <1>8, SumOfImages
<1> QED BY <1>9 DEF A, B, g, h

\* A sum of at most two values that fit their columns does not wrap.
LEMMA SmallSum ==
    ASSUME NEW v, NEW n \in 0 .. 2, \A k \in 1 .. n : v[k] \in 0 .. PgIntMax
    PROVE  /\ SumOf(v, 1 .. n) \in 0 .. (U32 - 1)
           /\ (n # 0 /\ \A k \in 1 .. n : v[k] > 0) => SumOf(v, 1 .. n) > 0
<1>1. PgIntMax \in Nat /\ U32 \in Nat \ {0} /\ 2 * PgIntMax < U32
  BY PgIntAssumption, U32Assumption, ColumnsFit
<1>2. CASE n = 0
  <2>1. 1 .. n = {}
    BY <1>2
  <2> QED BY <1>1, <1>2, <2>1, SumEmpty
<1>3. CASE n = 1
  <2>1. v[1] \in 0 .. PgIntMax /\ v[1] \in Int /\ 1 \in 1 .. n
    BY <1>1, <1>3
  <2>2. SumOf(v, 1 .. 1) = v[1]
    BY <2>1, SumOfOne
  <2> QED BY <1>1, <1>3, <2>1, <2>2
<1>4. CASE n = 2
  <2>1. /\ v[1] \in 0 .. PgIntMax /\ v[1] \in Int /\ 1 \in 1 .. n
        /\ v[2] \in 0 .. PgIntMax /\ v[2] \in Int /\ 2 \in 1 .. n
    BY <1>1, <1>4
  <2>2. SumOf(v, 1 .. 2) = v[1] + v[2]
    BY <2>1, SumOfTwo
  <2> QED BY <1>1, <1>4, <2>1, <2>2
<1> QED BY <1>2, <1>3, <1>4

-----------------------------------------------------------------------------
(* Nothing that is stored wraps in this ledger.                            *)

LEMMA ListsAreProper ==
    ASSUME NEW t, NEW S, t.txBody.inputs \in Seq(S), NEW X, t.txBody.outputs \in Seq(X),
           \A x \in X : x.value \in Int
    PROVE  ProperTx(t)
<1>1. /\ Len(t.txBody.inputs) \in Nat /\ DOMAIN t.txBody.inputs = 1 .. Len(t.txBody.inputs)
      /\ t.txBody.inputs # <<>> => 1 \in DOMAIN t.txBody.inputs
  BY LenProperties, FirstIndex
<1>2. /\ Len(t.txBody.outputs) \in Nat
      /\ DOMAIN t.txBody.outputs = 1 .. Len(t.txBody.outputs)
  BY LenProperties
<1>3. \A k \in 1 .. Len(t.txBody.outputs) : t.txBody.outputs[k] \in X
  BY <1>2, ElementOfSeq
<1> QED BY <1>1, <1>2, <1>3 DEF ProperTx, IsList, IntOn, OutValues

\* Every output of the ledger is worth something, and no more than a reward.
LEMMA LedgerValues ==
    /\ IsFiniteSet(DOMAIN Ledger.output)
    /\ \A o \in DOMAIN Ledger.output : Ledger.output[o].value \in 1 .. RewardCoins
<1> DEFINE txs == <<Voting, Reward1>>
           X == [value : 1 .. RewardCoins, spendPkey : {node, voter}, scanPkey : {Nil}]
<1>1. /\ txs \in Seq({Voting, Reward1}) /\ DOMAIN txs = {1, 2}
      /\ txs[1] = Voting /\ txs[2] = Reward1
  OBVIOUS
<1>2. RewardCoins \in Nat /\ RewardCoins \in 1 .. RewardCoins
  BY RewardAssumption, U32Assumption
<1>3. Voting.txBody.outputs \in Seq(X) /\ Voting.txBody.inputs \in Seq({Input(Reward0.hash, 0)})
  BY VotingFields, VotingOutputsAre
<1>4. Reward1.txBody.outputs \in Seq(X) /\ Reward1.txBody.inputs \in Seq({})
  <2>1. Output(RewardCoins, node) \in X
    BY <1>2 DEF Output
  <2>2. <<Output(RewardCoins, node)>> \in Seq(X) /\ <<>> \in Seq({})
    BY <2>1, EmptySeq
  <2> QED BY <2>2, RewardFields DEF Reward1
<1>5. \A x \in X : x.value \in 1 .. RewardCoins /\ x.value \in Int
  BY <1>2
<1> HIDE DEF X
<1>6. ProperTx(Voting) /\ ProperTx(Reward1)
  BY <1>3, <1>4, <1>5, ListsAreProper
<1>7. Block2.transactions = txs
  BY DEF Block2, NextBlock, CreateBlock
<1>8. TxsAreNew(Db1, txs)
  BY <1>1, SecondBlock, HashesDiffer DEF TxsAreNew
<1> HIDE DEF txs
<1>9. DOMAIN Ledger.output = {Coins} \cup UNION {OutpointsOf(txs[i]) : i \in DOMAIN txs}
  BY <1>7, SecondBlock DEF Ledger, SaveNextBlock, SavedOutputs
<1>10. \A i \in DOMAIN txs : ProperTx(txs[i]) /\ txs[i].txBody.outputs \in Seq(X)
  BY <1>1, <1>3, <1>4, <1>6
<1>11. IsFiniteSet(DOMAIN Ledger.output)
  <2>1. ASSUME NEW i \in DOMAIN txs PROVE IsFiniteSet(OutpointsOf(txs[i]))
    <3>1. IsFiniteSet(1 .. Len(txs[i].txBody.outputs))
      BY <1>10, FiniteIndexes DEF ProperTx, IsList
    <3>2. IsFiniteSet({OutKey(txs[i].hash)[k] : k \in 1 .. Len(txs[i].txBody.outputs)})
      BY <3>1, FiniteImage
    <3> QED BY <1>10, <3>2, OutpointsAre
  <2>2. UNION {OutpointsOf(txs[i]) : i \in DOMAIN txs}
            = OutpointsOf(txs[1]) \cup OutpointsOf(txs[2])
    BY <1>1
  <2>3. IsFiniteSet({Coins})
    BY FS_Singleton
  <2>4. IsFiniteSet(OutpointsOf(txs[1]) \cup OutpointsOf(txs[2]))
    BY <1>1, <2>1, FiniteUnion
  <2> QED BY <1>9, <2>2, <2>3, <2>4, FiniteUnion
<1>12. ASSUME NEW o \in DOMAIN Ledger.output PROVE Ledger.output[o].value \in 1 .. RewardCoins
  <2>1. CASE o = Coins
    <3>1. Ledger.output[o] = SavedOutput(Db1, txs, o)
      BY <1>7 DEF Ledger, SaveNextBlock, SavedOutputs
    <3>2. o \in DOMAIN Db1.output /\ Db1.output[o].value = RewardCoins
      BY <2>1, SecondBlock
    <3>3. Ledger.output[o].value = RewardCoins
      BY <3>1, <3>2 DEF SavedOutput
    <3> QED BY <1>2, <3>3
  <2>2. CASE o # Coins
    <3>1. PICK i \in DOMAIN txs : o \in OutpointsOf(txs[i])
      BY <1>9, <2>2
    <3>2. PICK k \in DOMAIN txs[i].txBody.outputs : o = <<txs[i].hash, k - 1>>
      BY <3>1 DEF OutpointsOf
    <3>3. k \in Nat /\ txs[i].txBody.outputs[k] \in X
      BY <1>10, LenProperties, ElementOfSeq
    <3>4. ForeignKeys(Db1)
      BY SecondBlock DEF Grows, Good
    <3>5. Ledger.output[o].value = txs[i].txBody.outputs[k].value
      BY <1>7, <1>8, <3>2, <3>3, <3>4, NewOutput DEF Ledger
    <3> QED BY <1>5, <3>3, <3>5
  <2> QED BY <2>1, <2>2
<1> QED BY <1>11, <1>12

LEMMA DeliveredIsProper == ASSUME NEW t \in Delivered PROVE ProperTx(t)
<1>1. t.txBody.inputs \in Seq(Inputs) /\ t.txBody.outputs \in Seq(AnyOutputs)
  BY DeliveredFields
<1>2. \A x \in AnyOutputs : x.value \in Int
  BY U32Assumption DEF AnyOutputs, Uint32
<1> QED BY <1>1, <1>2, ListsAreProper

\* What an accepted transaction that fits the columns gives is exactly what it
\* takes and mints, although AppendTx compares sums that wrap.
LEMMA AcceptedIsExact ==
    ASSUME NEW t \in Accepted, FitsColumns(t)
    PROVE  LET body  == t.txBody
               given == SumOf(OutValues(body), 1 .. Len(body.outputs))
               taken == SumOf(InValues(Ledger, body), 1 .. Len(body.inputs))
           IN /\ given \in Int /\ taken \in Int /\ given > 0
              /\ given = MintedBy(body) + taken
<1> DEFINE body  == t.txBody
           given == SumOf(OutValues(body), 1 .. Len(body.outputs))
           taken == SumOf(InValues(Ledger, body), 1 .. Len(body.inputs))
<1>1. t \in Delivered /\ BodyVerdict(Ledger, t) = "CodeOk"
  BY DEF Accepted
<1>2. ValuesAreInts(Ledger) /\ ProperTx(t)
  BY <1>1, LedgerValues, DeliveredIsProper DEF ValuesAreInts
<1>3. given % U32 = (MintedBy(body) + taken) % U32
  BY <1>1, <1>2, AcceptedBalances
<1>4. RewardCoins \in 1 .. PgIntMax /\ PgIntMax \in Nat /\ U32 \in Nat /\ PgIntMax < U32
  BY RewardAssumption, U32Assumption, PgIntAssumption, RewardFits, ColumnsFit
<1>5. given \in 0 .. (U32 - 1)
  <2>1. ASSUME NEW k \in 1 .. Len(body.outputs)
        PROVE  OutValues(body)[k] \in 0 .. PgIntMax
    <3>1. k \in DOMAIN body.outputs /\ OutValues(body)[k] = body.outputs[k].value
      BY <1>2 DEF ProperTx, IsList, OutValues
    <3>2. body.outputs[k] \in AnyOutputs
      BY <1>1, DeliveredFields, ElementOfSeq
    <3>3. body.outputs[k].value \in 0 .. (U32 - 1)
      BY <3>2 DEF AnyOutputs, Uint32
    <3>4. body.outputs[k].value <= PgIntMax
      BY <3>1 DEF FitsColumns
    <3> QED BY <1>4, <3>1, <3>3, <3>4
  <2> QED BY <1>1, <2>1, DeliveredFields, SmallSum
<1>6. taken \in 0 .. (U32 - 1) /\ (Len(body.inputs) # 0 => taken > 0)
  <2>1. \A k \in 1 .. Len(body.inputs) : InValues(Ledger, body)[k] \in 1 .. RewardCoins
    BY <1>1, AcceptedSpendsUnspent, LedgerValues DEF InValues, Unspent
  <2>2. \A k \in 1 .. Len(body.inputs) :
            InValues(Ledger, body)[k] \in 0 .. PgIntMax /\ InValues(Ledger, body)[k] > 0
    BY <1>4, <2>1
  <2> QED BY <1>1, <2>2, DeliveredFields, SmallSum
<1>7. MintedBy(body) + taken \in 0 .. (U32 - 1) /\ MintedBy(body) + taken > 0
  <2>1. CASE IsCoinbase(body)
    <3>1. 1 .. Len(body.inputs) = {}
      BY <2>1 DEF IsCoinbase
    <3>2. taken = 0
      BY <3>1, SumEmpty
    <3> QED BY <1>4, <2>1, <3>2 DEF MintedBy
  <2>2. CASE ~ IsCoinbase(body)
    <3>1. body.inputs # <<>> /\ body.inputs \in Seq(Inputs)
      BY <1>1, <2>2, AcceptedIsPaid, DeliveredFields
    <3>2. Len(body.inputs) # 0
      BY <3>1, EmptySeq
    <3> QED BY <1>6, <2>2, <3>2, U32Assumption DEF MintedBy
  <2> QED BY <2>1, <2>2
<1> HIDE DEF given, taken
<1>8. given = MintedBy(body) + taken
  BY <1>3, <1>5, <1>7, U32Assumption, SmallRemainder
<1>9. given \in Int /\ taken \in Int
  BY <1>5, <1>6, U32Assumption
<1> QED BY <1>7, <1>8, <1>9 DEF given, taken

\* What storing an accepted transaction adds to each type: what it gives to
\* the type that it makes, less what it takes from the type that it spends.
LEMMA StoredGain ==
    ASSUME NEW t \in Accepted, FitsColumns(t), IsInjective(t.txBody.inputs), NEW type
    PROVE  LET body  == t.txBody
               e     == SaveNextBlock(Ledger, NextBlock(Block2.hash, <<t>>))
               given == SumOf(OutValues(body), 1 .. Len(body.outputs))
               from  == IF body.voteType = 0 THEN body.valueType ELSE Nil
           IN ValueOf(e, type) - ValueOf(Ledger, type) =
                (IF type = MadeType(t) THEN given ELSE 0)
                    - (IF type = from THEN given - MintedBy(body) ELSE 0)
<1> DEFINE body  == t.txBody
           b     == NextBlock(Block2.hash, <<t>>)
           e     == SaveNextBlock(Ledger, b)
           given == SumOf(OutValues(body), 1 .. Len(body.outputs))
           taken == SumOf(InValues(Ledger, body), 1 .. Len(body.inputs))
           from  == IF body.voteType = 0 THEN body.valueType ELSE Nil
<1>1. /\ ForeignKeys(Ledger) /\ ValuesAreInts(Ledger) /\ IsFiniteSet(DOMAIN Ledger.output)
      /\ StoredOnce(Ledger) /\ ProperTx(t) /\ t.hash = Hash(body)
      /\ t \in Delivered /\ BodyVerdict(Ledger, t) = "CodeOk"
  BY LedgerIsGood, LedgerValues, DeliveredIsProper, DeliveredFields
     DEF Grows, Good, ValuesAreInts, Accepted
<1>2. HoldsOne(Ledger, b, t)
  <2>1. b.transactions = <<t>>
    BY DEF NextBlock, CreateBlock
  <2>2. /\ <<t>> \in Seq({t}) /\ DOMAIN <<t>> = {1} /\ <<t>>[1] = t
        /\ Len(<<t>>) = 1 /\ 1 .. 1 = {1} /\ 1 \in Nat
    OBVIOUS
  <2> HIDE DEF b
  <2>3. t.hash \notin DOMAIN Ledger.transaction /\ t.hash # Nil
    BY <1>1, AcceptedIsNew, HashNotNil
  <2> QED BY <1>1, <2>1, <2>2, <2>3 DEF HoldsOne, GoodBlock, TxsAreNew
<1> HIDE DEF b
<1>3. TakesOnly(Ledger, t, from)
  BY <1>1, AcceptedKeepsType DEF TakesOnly, TakenBy
<1>4. TakenBy(t) \subseteq DOMAIN Ledger.output
  BY <1>1, <1>2, OneIsNew DEF Unspent
<1>5. SumOf(ValuesOf(Ledger), TakenBy(t)) = taken
  <2>1. ASSUME NEW k \in 1 .. Len(body.inputs), NEW l \in 1 .. Len(body.inputs),
               Outpoint(body.inputs[k]) = Outpoint(body.inputs[l])
        PROVE  k = l
    <3>1. body.inputs[k] \in Inputs /\ body.inputs[l] \in Inputs
      BY <1>1, DeliveredFields, ElementOfSeq
    <3>2. \A x \in Inputs : x = [prevTxHash |-> x.prevTxHash, outputIndex |-> x.outputIndex]
      BY DEF Inputs, Input
    <3>3. body.inputs[k] = body.inputs[l]
      BY <2>1, <3>1, <3>2 DEF Outpoint
    <3>4. k \in DOMAIN body.inputs /\ l \in DOMAIN body.inputs
      BY <1>1 DEF ProperTx
    <3> QED BY <3>3, <3>4 DEF IsInjective
  <2> QED BY <1>1, <1>4, <2>1, TakenSum
<1> HIDE DEF from
<1>6. /\ SumOf(ValuesOf(e), Pool(e, type)) =
            SumOf(ValuesOf(Ledger), Pool(Ledger, type))
                - (IF type = from THEN SumOf(ValuesOf(Ledger), TakenBy(t)) ELSE 0)
                + (IF type = MadeType(t) THEN given ELSE 0)
      /\ IsFiniteSet(DOMAIN e.output) /\ ValuesAreInts(e)
  BY <1>1, <1>2, <1>3, ValuesChange
<1>7. ASSUME NEW d, ValuesAreInts(d), IsFiniteSet(DOMAIN d.output)
      PROVE  /\ ValueOf(d, type) = SumOf(ValuesOf(d), Pool(d, type))
             /\ ValueOf(d, type) \in Int
  <2>1. Pool(d, type) \in SUBSET DOMAIN d.output
    BY DEF Pool, Unspent
  <2>2. IsFiniteSet(Pool(d, type))
    BY <1>7, <2>1, FS_Subset
  <2>3. ValueOf(d, type) = ValueSum(d, Pool(d, type))
    BY DEF ValueOf, ValueSum, Pool
  <2>4. IntOn(ValuesOf(d), Pool(d, type))
    BY <1>7, <2>1 DEF IntOn, ValuesOf, ValuesAreInts
  <2> QED BY <1>7, <2>1, <2>2, <2>3, <2>4, ValueSumIs, SumInt
<1>8. /\ ValueOf(e, type) = SumOf(ValuesOf(e), Pool(e, type))
      /\ ValueOf(Ledger, type) = SumOf(ValuesOf(Ledger), Pool(Ledger, type))
      /\ ValueOf(Ledger, type) \in Int
  BY <1>1, <1>6, <1>7
<1>9. given \in Int /\ taken \in Int /\ given = MintedBy(body) + taken
  BY AcceptedIsExact
<1>10. MintedBy(body) \in Int
  BY RewardAssumption, U32Assumption DEF MintedBy
<1> HIDE DEF given, taken, e
<1>11. given - MintedBy(body) = taken
  BY <1>9, <1>10
<1>12. ValueOf(e, type) - ValueOf(Ledger, type) =
            (IF type = MadeType(t) THEN given ELSE 0)
                - (IF type = from THEN given - MintedBy(body) ELSE 0)
  BY <1>5, <1>6, <1>8, <1>9, <1>11
<1> QED BY <1>12 DEF given, e, b, from

-----------------------------------------------------------------------------
(* The states of Verdicts.                                                 *)

VerdictsInv ==
    /\ latest \in Delivered \cup {Nil}
    /\ {"transactions", "processedTrans"} \subseteq DOMAIN executor
    /\ executor.transactions \in Seq(Accepted)
    /\ latest = Nil => executor.transactions = <<>>
    /\ (latest = Nil \/ executor.transactions # <<>>) => db = Ledger
    /\ Good(db)

LEMMA InitVerdicts == Init => VerdictsInv
<1> SUFFICES ASSUME Init PROVE VerdictsInv
  OBVIOUS
<1>1. executor = Reset(NewTxExecutor) /\ latest = Nil /\ db = Ledger
  BY DEF Init
<1>2. {"transactions", "processedTrans"} \subseteq DOMAIN executor /\ executor.transactions = <<>>
  BY <1>1 DEF Reset, NewTxExecutor
<1>3. executor.transactions \in Seq(Accepted)
  BY <1>2, EmptySeq
<1>4. Good(Ledger)
  BY LedgerIsGood DEF Grows
<1> QED BY <1>1, <1>2, <1>3, <1>4 DEF VerdictsInv

LEMMA DeliveredIsTx == ASSUME NEW t \in Delivered PROVE t # Nil
<1>1. DOMAIN t = {"txBody", "hash", "sig"}
  BY DEF Delivered, Sign
<1>2. DOMAIN Nil = {}
  BY DEF Nil
<1> QED BY <1>1, <1>2

LEMMA DeliverVerdicts == ASSUME VerdictsInv, Deliver PROVE VerdictsInv'
<1>1. /\ db = Ledger /\ latest' \in Delivered
      /\ executor' = AppendTx(executor, db, latest', FALSE) /\ db' = db /\ Good(db)
      /\ {"transactions", "processedTrans"} \subseteq DOMAIN executor
      /\ executor.transactions \in Seq(Accepted)
  BY DEF VerdictsInv, Deliver, Accepted
<1>2. CASE Accepts(executor, db, latest', FALSE)
  <2>1. /\ DOMAIN executor' = DOMAIN executor
        /\ executor'.transactions = Append(executor.transactions, latest')
    BY <1>1, <1>2 DEF AppendTx
  <2>2. latest' \in Accepted
    BY <1>1, <1>2 DEF Accepts, Accepted
  <2>3. Append(executor.transactions, latest') \in Seq(Accepted)
    BY <1>1, <2>2, AppendProperties
  <2> QED BY <1>1, <2>1, <2>3, DeliveredIsTx DEF VerdictsInv
<1>3. CASE ~ Accepts(executor, db, latest', FALSE)
  <2>1. executor' = executor
    BY <1>1, <1>3 DEF AppendTx
  <2> QED BY <1>1, <2>1, DeliveredIsTx DEF VerdictsInv
<1> QED BY <1>2, <1>3

LEMMA StoreVerdicts == ASSUME VerdictsInv, Store PROVE VerdictsInv'
<1> DEFINE txs == executor.transactions
<1>1. /\ latest' = latest /\ latest \in Delivered \cup {Nil}
      /\ executor' = Reset(executor) /\ txs # <<>> /\ db = Ledger
      /\ {"transactions", "processedTrans"} \subseteq DOMAIN executor
      /\ CanSave(Ledger, NextBlock(Block2.hash, txs)) /\ txs \in Seq(Accepted)
      /\ db' = SaveNextBlock(Ledger, NextBlock(Block2.hash, txs))
  BY DEF VerdictsInv, Store
<1>2. Good(db')
  BY <1>1, StoredBlockIsGood
<1>3. DOMAIN executor' = DOMAIN executor /\ executor'.transactions = <<>>
  BY <1>1 DEF Reset
<1>4. executor'.transactions \in Seq(Accepted)
  BY <1>3, EmptySeq
<1>5. latest # Nil
  BY DEF VerdictsInv, Store
<1> QED BY <1>1, <1>2, <1>3, <1>4, <1>5 DEF VerdictsInv

LEMMA VerdictsInductive == Spec => []VerdictsInv
<1>1. VerdictsInv /\ [Next]_vars => VerdictsInv'
  BY DeliverVerdicts, StoreVerdicts DEF Next, vars, VerdictsInv
<1> QED BY <1>1, InitVerdicts, PTL DEF Spec

\* SaveNextBlock can store any transactions that AppendTx accepted in a block,
\* unless a field exceeds its column or one transaction was given twice.
THEOREM AcceptedCanBeStored == Spec => []AcceptedIsStorable
<1>1. ASSUME VerdictsInv PROVE AcceptedIsStorable
  BY <1>1, AcceptedBlockIsStored DEF VerdictsInv, AcceptedIsStorable
<1> QED BY <1>1, VerdictsInductive, PTL

\* Whatever the fields of a body, what it spends is its signer's, was stored
\* in an earlier block and is spent for what it is.
THEOREM SpendingIsLegitimate == Spec => []InputsAreLegitimate
<1>1. VerdictsInv => InputsAreLegitimate
  BY DEF VerdictsInv, Good, InputsAreLegitimate
<1> QED BY <1>1, VerdictsInductive, PTL

\* Whatever else their bodies say, the rewards of a block pay its proposer and
\* are in one block: none is accepted when another one is stored.
THEOREM RewardsAreTogether == Spec => []RewardedInOneBlock
<1>1. VerdictsInv => RewardedInOneBlock
  BY DEF VerdictsInv, Good, RewardedInOneBlock
<1> QED BY <1>1, VerdictsInductive, PTL

\* AppendTx does not panic on a body with an input, of whatever kind.
THEOREM NoPanicWhenSpending == Spec => []SpendingNeverPanics
<1>1. VerdictsInv => SpendingNeverPanics
  BY NoPanic DEF VerdictsInv, SpendingNeverPanics, Answer
<1> QED BY <1>1, VerdictsInductive, PTL

\* Whatever the fields of the one body of a block that names no input twice, a
\* reward mints RewardCoins, a voting turns coins into as many votes, and
\* nothing else makes or loses value of any type.
THEOREM ValueStays == Spec => ValueIsConserved
<1> DEFINE tx == executor.transactions[1]
           gain(t) == ValueOf(db', t) - ValueOf(db, t)
           body == tx.txBody
           types == {Nil, BadBytes, Voting.hash, tx.hash}
           Conserved ==
                IF IsCoinbase(body)
                THEN \A t \in types : gain(t) = IF t = body.valueType THEN RewardCoins ELSE 0
                ELSE IF body.voteType # 0
                THEN /\ gain(tx.hash) > 0 /\ gain(Nil) = - gain(tx.hash)
                     /\ \A t \in types \ {Nil, tx.hash} : gain(t) = 0
                ELSE \A t \in types : gain(t) = 0
           given == SumOf(OutValues(body), 1 .. Len(body.outputs))
           from  == IF body.voteType = 0 THEN body.valueType ELSE Nil
<1>1. ASSUME VerdictsInv, Next, db' # db, SpendsEachOnce PROVE Conserved
  <2>1. Store
    BY <1>1 DEF Next, Deliver
  <2>2. executor.transactions = <<tx>> /\ tx \in Accepted
    BY <1>1 DEF SpendsEachOnce, VerdictsInv
  <2>3. /\ db = Ledger /\ CanSave(Ledger, NextBlock(Block2.hash, <<tx>>))
        /\ db' = SaveNextBlock(Ledger, NextBlock(Block2.hash, <<tx>>))
    BY <1>1, <2>1, <2>2 DEF Store, VerdictsInv
  <2>4. FitsColumns(tx)
    <3>1. NextBlock(Block2.hash, <<tx>>).transactions = <<tx>>
      BY DEF NextBlock, CreateBlock
    <3>2. 1 \in DOMAIN <<tx>> /\ <<tx>>[1] = tx
      OBVIOUS
    <3> QED BY <2>3, <3>1, <3>2 DEF CanSave
  <2>5. IsInjective(body.inputs)
    BY <1>1 DEF SpendsEachOnce
  <2>6. tx \in Delivered /\ BodyVerdict(Ledger, tx) = "CodeOk"
    BY <2>2 DEF Accepted
  <2> HIDE DEF tx
  <2>7. \A t : gain(t) = (IF t = MadeType(tx) THEN given ELSE 0)
                            - (IF t = from THEN given - MintedBy(body) ELSE 0)
    BY <2>2, <2>3, <2>4, <2>5, StoredGain
  <2>8. given \in Int /\ given > 0
    BY <2>2, <2>4, AcceptedIsExact
  <2>9. RewardCoins \in Int
    BY RewardAssumption, U32Assumption
  <2> HIDE DEF gain, given
  <2>10. CASE IsCoinbase(body)
    <3>1. body.voteType = 0
      BY <2>6, <2>10 DEF IsCoinbase, BodyVerdict
    <3>2. MadeType(tx) = body.valueType /\ from = body.valueType /\ MintedBy(body) = RewardCoins
      BY <2>10, <3>1 DEF MadeType, MintedBy
    <3>3. \A t : gain(t) = IF t = body.valueType THEN RewardCoins ELSE 0
      BY <2>7, <2>8, <2>9, <3>2
    <3> QED BY <2>10, <3>3
  <2>11. CASE ~ IsCoinbase(body) /\ body.voteType # 0
    <3>1. MadeType(tx) = tx.hash /\ from = Nil /\ MintedBy(body) = 0
      BY <2>11 DEF MadeType, MintedBy
    <3>2. tx.hash # Nil
      BY <2>6, DeliveredFields, HashNotNil
    <3>3. gain(tx.hash) = given /\ gain(Nil) = - given
      BY <2>7, <2>8, <3>1, <3>2
    <3>4. \A t \in types \ {Nil, tx.hash} : gain(t) = 0
      BY <2>7, <2>8, <3>1
    <3> QED BY <2>8, <2>11, <3>3, <3>4
  <2>12. CASE ~ IsCoinbase(body) /\ body.voteType = 0
    <3>1. MadeType(tx) = body.valueType /\ from = body.valueType /\ MintedBy(body) = 0
      BY <2>12 DEF MadeType, MintedBy
    <3>2. \A t : gain(t) = 0
      BY <2>7, <2>8, <3>1
    <3> QED BY <2>12, <3>2
  <2> QED BY <2>10, <2>11, <2>12
<1>2. VerdictsInv /\ [Next]_vars => [db' # db /\ SpendsEachOnce => Conserved]_vars
  BY <1>1
<1> QED BY <1>2, VerdictsInductive, PTL DEF Spec, ValueIsConserved
=============================================================================
