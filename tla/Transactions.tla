---------------------------- MODULE Transactions ----------------------------
(***************************************************************************)
(* The values the node works on: byte strings, hashes, signatures, uint32  *)
(* sums, transactions and blocks, and the functions that build them        *)
(* (evote/transaction.go, evote/block.go, evote/crypto.go).                *)
(*                                                                         *)
(* Byte strings are told apart only by what the code asks of them:         *)
(*   Nil       an empty byte string (a nil slice; NULL in the database)    *)
(*   Hash(x)   the SHA3 digest of x: HashSize bytes.  Digests are symbolic *)
(*             and collision free: Hash is injective and never Nil         *)
(*   a key     PkeySize bytes; a signature is named by the key that made   *)
(*             it over the body it accompanies                             *)
(*   BadBytes  a non-empty byte string of a length no field accepts        *)
(***************************************************************************)
EXTENDS Integers, Sequences, FiniteSets, SequencesExt

CONSTANTS
    Keys,          \* public keys of validators, wallets and candidates
    BadBytes,      \* a non-empty byte string of the wrong length
    ZeroHash,      \* HashSize zero bytes, the Merkle leaf of an empty block
    RewardCoins,   \* the value of a mining reward
    U32            \* the modulus of uint32 arithmetic

Nil == <<>>

ASSUME KeysAssumption == Nil \notin Keys /\ BadBytes \notin Keys
ASSUME BytesAssumption == BadBytes # Nil /\ ZeroHash # Nil
ASSUME U32Assumption == U32 \in Nat \ {0}
ASSUME RewardAssumption == RewardCoins \in 1 .. (U32 - 1)

Hash(x) == <<x>>

-----------------------------------------------------------------------------
(* uint32 arithmetic: every sum wraps.                                     *)

Add32(a, b) == (a + b) % U32

Sum32(values) == FoldLeft(Add32, 0, values)

OutputsSum(outputs) ==
    Sum32([i \in DOMAIN outputs |-> outputs[i].value])

-----------------------------------------------------------------------------
(* Transactions.  An input names an output by its transaction's hash and   *)
(* its index, counted from 0.                                              *)

Input(prevTxHash, outputIndex) ==
    [prevTxHash |-> prevTxHash, outputIndex |-> outputIndex]

Output(value, spendPkey) ==
    [value |-> value, spendPkey |-> spendPkey, scanPkey |-> Nil]

TxBody(inputs, outputs, hashLink, valueType, voteType, duration) ==
    [inputs |-> inputs, outputs |-> outputs, hashLink |-> hashLink,
     valueType |-> valueType, voteType |-> voteType, duration |-> duration,
     senderEphemeralPkey |-> Nil, votersSumPkey |-> Nil]

Sign(txBody, key) == [txBody |-> txBody, hash |-> Hash(txBody), sig |-> key]

\* A signature is accepted for the key that made it, and for no other.
VerifyData(sig, pkey) == sig = pkey

\* Mutant: coins and votes are taken alike.
TakeInputsOfAnyType(utxos, valueType, need) ==
    LET Take(acc, u) ==
            IF acc.sum < need
            THEN [inputs |-> Append(acc.inputs, Input(u.txHash, u.index)),
                  sum    |-> Add32(acc.sum, u.value)]
            ELSE acc
    IN FoldLeft(Take, [inputs |-> <<>>, sum |-> 0], utxos)

(* CreateTx takes unspent outputs of the right value type, in the order it *)
(* is given them, while their sum is below what the outputs need.          *)
TakeInputs(utxos, valueType, need) ==
    LET Take(acc, u) ==
            IF u.valueType = valueType /\ acc.sum < need
            THEN [inputs |-> Append(acc.inputs, Input(u.txHash, u.index)),
                  sum    |-> Add32(acc.sum, u.value)]
            ELSE acc
    IN FoldLeft(Take, [inputs |-> <<>>, sum |-> 0], utxos)

CanCreateTx(utxos, outputs, valueType) ==
    /\ utxos # <<>> /\ outputs # <<>>
    /\ TakeInputs(utxos, valueType, OutputsSum(outputs)).sum >= OutputsSum(outputs)

\* Mutant: no change is given.
CreateTxWithoutChange(utxos, outputs, valueType, key, voteType, duration) ==
    Sign(TxBody(TakeInputs(utxos, valueType, OutputsSum(outputs)).inputs, outputs, Nil,
                valueType, voteType, duration), key)

(* The change goes to the owner of the first utxo of the list, and carries *)
(* the value type and the vote type of the whole transaction.              *)
CreateTx(utxos, outputs, valueType, key, voteType, duration) ==
    LET need   == OutputsSum(outputs)
        taken  == TakeInputs(utxos, valueType, need)
        change == IF taken.sum > need
                  THEN <<Output(taken.sum - need, utxos[1].spendPkey)>>
                  ELSE <<>>
    IN Sign(TxBody(taken.inputs, outputs \o change, Nil, valueType, voteType, duration),
            key)

CreateMiningReward(key, rewardForBlock) ==
    Sign(TxBody(<<>>, <<Output(RewardCoins, key)>>, rewardForBlock, Nil, 0, 0), key)

-----------------------------------------------------------------------------
(* Blocks.                                                                 *)

MerkleLevel(hashes) ==
    LET even == IF Len(hashes) % 2 = 0 THEN hashes ELSE Append(hashes, Last(hashes))
    IN [i \in 1 .. (Len(even) \div 2) |->
            Hash([left |-> even[2 * i - 1], right |-> even[2 * i]])]

buildMerkleTreeMutable(hashes) ==
    LET levels[n \in 0 .. Len(hashes)] ==
            IF n = 0 THEN hashes
            ELSE IF Len(levels[n - 1]) = 1 THEN levels[n - 1]
            ELSE MerkleLevel(levels[n - 1])
    IN levels[Len(hashes)][1]

BuildMerkleTreeTxs(txs) ==
    IF txs = <<>> THEN ZeroHash
    ELSE buildMerkleTreeMutable([i \in DOMAIN txs |-> txs[i].hash])

CreateBlock(txs, prevHash, timestamp, proposerPkey) ==
    LET header == [prevBlockHash |-> prevHash, merkleTree |-> BuildMerkleTreeTxs(txs),
                   proposerPkey |-> proposerPkey, timestamp |-> timestamp]
    IN [blockHeader |-> header, transactions |-> txs, hash |-> Hash(header)]
=============================================================================
