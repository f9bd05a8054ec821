----------------------------- MODULE TxExecutor -----------------------------
(***************************************************************************)
(* The transaction executor (evote/tx_executor.go): the transactions       *)
(* accepted since the last Reset and the verdict on the next one.  A node  *)
(* keeps two, one for CheckTx and one for DeliverTx; both read the same    *)
(* committed database, and neither sees what the other has accepted.       *)
(***************************************************************************)
EXTENDS Database

CONSTANTS
    Garbage,     \* bytes that do not parse
    TooLarge     \* a body of more than MaxTxSize bytes

\* processedTrans is a nil map until the first Reset: writing to it panics.
NewTxExecutor ==
    [transactions |-> <<>>, timestamp |-> 0, blockProposer |-> Nil,
     processedTrans |-> {}, mapMade |-> FALSE]

\* Mutant: Reset keeps the transactions.
ResetKeepingTransactions(ex) ==
    [ex EXCEPT !.blockProposer = Nil, !.processedTrans = {}, !.mapMade = TRUE]

\* Mutant: Reset makes no new map.
ResetWithoutMap(ex) ==
    [ex EXCEPT !.transactions = <<>>, !.blockProposer = Nil, !.processedTrans = {}]

\* Reset leaves the timestamp alone.
Reset(ex) ==
    [ex EXCEPT !.transactions = <<>>, !.blockProposer = Nil,
               !.processedTrans = {}, !.mapMade = TRUE]

\* Mutant: BeginBlock forgets the timestamp.
BeginBlockWithoutTime(ex, timestamp, blockProposer) ==
    [ex EXCEPT !.blockProposer = blockProposer]

\* BeginBlock leaves the transactions alone.
ExecBeginBlock(ex, timestamp, blockProposer) ==
    [ex EXCEPT !.timestamp = timestamp, !.blockProposer = blockProposer]

-----------------------------------------------------------------------------
(* The verdict on a transaction: the first check that fails, in the order  *)
(* of the code, or CodeOk.  "Panic" stands for a run-time panic.           *)

VerifySig(tx, pkey) ==
    IF tx.sig \notin Keys THEN "CodeInvalidSignatureLen"
    ELSE IF ~ VerifyData(tx.sig, pkey) THEN "CodeInvalidSignature"
    ELSE "CodeOk"

IsCoinbase(body) == body.hashLink # Nil /\ body.inputs = <<>>

\* Mutant: no look for an earlier reward of the block.
CoinbaseVerdictAgain(d, tx) ==
    LET body   == tx.txBody
        reward == body.outputs[1]
    IN IF \/ body.hashLink \notin DOMAIN d.block
          \/ Len(body.outputs) # 1
          \/ body.duration # 0
          \/ body.senderEphemeralPkey # Nil \/ body.votersSumPkey # Nil
          \/ reward.scanPkey # Nil
          \/ reward.value # RewardCoins
       THEN "CodeCoinbaseIncorrectReward"
       ELSE IF d.block[body.hashLink].proposerPkey # reward.spendPkey
       THEN "CodeCoinbaseProposerMismatch"
       ELSE VerifySig(tx, reward.spendPkey)

CoinbaseVerdict(d, tx) ==
    LET body   == tx.txBody
        reward == body.outputs[1]
        block  == GetBlockByHash(d, body.hashLink)
    IN IF body.hashLink = BadBytes THEN "CodeHashLinkInvalidLen"
       ELSE IF Len(body.outputs) # 1 THEN "CodeCoinbaseTxNoOutput"
       ELSE IF body.duration # 0 THEN "CodeCoinbaseUnexpectedDuration"
       ELSE IF body.senderEphemeralPkey # Nil THEN "CodeCoinbaseUnexpectedSenderEphemeralPkey"
       ELSE IF body.votersSumPkey # Nil THEN "CodeCoinbaseUnexpectedVotersSumPkey"
       ELSE IF reward.scanPkey # Nil THEN "CodeUnexpectedScanKey"
       ELSE IF GetTxByHashLink(d, body.hashLink) # {} THEN "CodeDoubleCoinbaseForSameBlock"
       ELSE IF block = {} THEN "CodeCoinbaseNoBlock"
       ELSE IF \E h \in block : d.block[h].proposerPkey # reward.spendPkey
            THEN "CodeCoinbaseProposerMismatch"
       ELSE IF reward.value # RewardCoins THEN "CodeCoinbaseIncorrectReward"
       ELSE VerifySig(tx, reward.spendPkey)

\* The owner of the first input; nobody when there is none.
Sender(d, body) ==
    IF body.inputs = <<>> \/ Outpoint(body.inputs[1]) \notin Unspent(d) THEN Nil
    ELSE d.output[Outpoint(body.inputs[1])].spendPkey

\* Mutant: no look at the owners of the inputs after the first.
InputVerdictOfAnyOwner(d, body, i) ==
    LET o == Outpoint(body.inputs[i])
    IN IF o \notin Unspent(d) THEN "CodeDoubleSpending"
       ELSE IF /\ body.hashLink = Nil /\ body.voteType = 0
               /\ ValueTypeOf(d, o[1]) # body.valueType
            THEN "CodeMixingTypeValue"
       ELSE IF body.voteType # 0 /\ ValueTypeOf(d, o[1]) # Nil
            THEN "CodeVotesUsedAsFunding"
       ELSE "CodeOk"

\* Mutant: no look at the value types of the inputs.
InputVerdictOfAnyType(d, body, i) ==
    LET o == Outpoint(body.inputs[i])
    IN IF o \notin Unspent(d) THEN "CodeDoubleSpending"
       ELSE IF d.output[o].spendPkey # Sender(d, body) THEN "CodeInputNotOwn"
       ELSE "CodeOk"

\* The i-th input against the committed unspent outputs: an output of this
\* block, or one that this block has already spent, looks as it did before it.
InputVerdict(d, body, i) ==
    LET o == Outpoint(body.inputs[i])
    IN IF o \notin Unspent(d) THEN "CodeDoubleSpending"
       ELSE IF d.output[o].spendPkey # Sender(d, body) THEN "CodeInputNotOwn"
       ELSE IF /\ body.hashLink = Nil /\ body.voteType = 0
               /\ ValueTypeOf(d, o[1]) # body.valueType
            THEN "CodeMixingTypeValue"
       ELSE IF body.voteType # 0 /\ ValueTypeOf(d, o[1]) # Nil
            THEN "CodeVotesUsedAsFunding"
       ELSE "CodeOk"

BadInputs(d, body) ==
    {i \in 1 .. Len(body.inputs) : InputVerdict(d, body, i) # "CodeOk"}

FirstBadInput(d, body) ==
    CHOOSE i \in BadInputs(d, body) : \A j \in BadInputs(d, body) : i <= j

InputsSum(d, body) ==
    Sum32([i \in 1 .. Len(body.inputs) |-> d.output[Outpoint(body.inputs[i])].value])

WithScanKey(body) == {i \in DOMAIN body.outputs : body.outputs[i].scanPkey # Nil}

\* valueType must name a stored transaction that creates a voting with as
\* many participants.
InitVoteVerdict(d, body) ==
    LET creating == GetTxByHash(d, body.valueType)
        created  == d.transaction[body.valueType].txBody
    IN IF body.senderEphemeralPkey = BadBytes THEN "CodeInvalidSenderEphemeralPkeyLen"
       ELSE IF body.votersSumPkey = BadBytes THEN "CodeInvalidVotersSumPkeyLen"
       ELSE IF WithScanKey(body) # {} THEN "CodeInitVoteMustHaveNilScanPkeys"
       ELSE IF creating = {} THEN "Panic"
       ELSE IF created.voteType = 0 THEN "CodeValueTypeInvalid"
       ELSE IF Len(created.outputs) # Len(body.outputs) THEN "CodeInvalidVoteParticipantNumber"
       ELSE "CodeOk"

IsInitVote(body) ==
    body.valueType # Nil /\ body.senderEphemeralPkey # Nil /\ body.votersSumPkey # Nil

KindVerdict(d, body) ==
    IF body.voteType # 0
    THEN IF body.senderEphemeralPkey # Nil
         THEN "CodeCreateVoteTxUnexpectedSenderEphemeralPkey"
         ELSE IF body.votersSumPkey # Nil
         THEN "CodeCreateVoteTxUnexpectedVotersSumPkey"
         ELSE "CodeOk"
    ELSE IF body.hashLink # Nil THEN "CodeNotSupported"
    ELSE IF IsInitVote(body) THEN InitVoteVerdict(d, body)
    ELSE "CodeOk"

\* Mutant: outputs may be worth less than the inputs.
TransferVerdictWithFee(d, tx) ==
    LET body == tx.txBody
    IN IF BadInputs(d, body) # {}
       THEN InputVerdict(d, body, FirstBadInput(d, body))
       ELSE IF OutputsSum(body.outputs) > InputsSum(d, body)
       THEN "CodeInputsNotMatchOutputs"
       ELSE IF KindVerdict(d, body) # "CodeOk" THEN KindVerdict(d, body)
       ELSE VerifySig(tx, Sender(d, body))

TransferVerdict(d, tx) ==
    LET body == tx.txBody
    IN IF BadInputs(d, body) # {}
       THEN InputVerdict(d, body, FirstBadInput(d, body))
       ELSE IF WithScanKey(body) \notin {{}, DOMAIN body.outputs}
       THEN "CodeOutputsHaveBothNilAndNotNilScanKeys"
       ELSE IF OutputsSum(body.outputs) # InputsSum(d, body)
       THEN "CodeInputsNotMatchOutputs"
       ELSE IF KindVerdict(d, body) # "CodeOk" THEN KindVerdict(d, body)
       ELSE VerifySig(tx, Sender(d, body))

ParseVerdict(data) ==
    IF data = Garbage THEN "CodeParseErr"
    ELSE IF data.txBody = TooLarge THEN "CodeTxTooLarge"
    ELSE IF data.txBody = Garbage THEN "CodeParseErr"
    ELSE IF data.hash # Hash(data.txBody) THEN "CodeHashesDontMatch"
    ELSE "CodeOk"

BodyVerdict(d, tx) ==
    IF tx.txBody.outputs = <<>> THEN "CodeNoOutputs"
    ELSE IF tx.txBody.hashLink # Nil /\ tx.txBody.voteType # 0
         THEN "CodeHashLinkAndTypeVoteTogether"
    ELSE IF IsCoinbase(tx.txBody) THEN CoinbaseVerdict(d, tx)
    ELSE TransferVerdict(d, tx)

-----------------------------------------------------------------------------
(* AppendTx: the code it answers and the executor it leaves.               *)

AlreadyProcessed(ex, data, ignoreDuplicates) ==
    ignoreDuplicates /\ data.hash \in ex.processedTrans

Accepts(ex, d, data, ignoreDuplicates) ==
    /\ ParseVerdict(data) = "CodeOk"
    /\ ~ AlreadyProcessed(ex, data, ignoreDuplicates)
    /\ BodyVerdict(d, data) = "CodeOk"

AppendCode(ex, d, data, ignoreDuplicates) ==
    IF ParseVerdict(data) # "CodeOk" THEN ParseVerdict(data)
    ELSE IF AlreadyProcessed(ex, data, ignoreDuplicates) THEN "CodeOk"
    ELSE IF BodyVerdict(d, data) = "CodeOk" /\ ~ ex.mapMade THEN "Panic"
    ELSE BodyVerdict(d, data)

\* The transaction is appended before the map is written, so it stays
\* appended when that write panics.
AppendTx(ex, d, data, ignoreDuplicates) ==
    IF ~ Accepts(ex, d, data, ignoreDuplicates) THEN ex
    ELSE [ex EXCEPT !.transactions = Append(ex.transactions, data),
                    !.processedTrans = IF ex.mapMade THEN @ \cup {data.hash} ELSE @]

-----------------------------------------------------------------------------
(* What AppendTx promises of a database that it guards.                    *)

RewardTxs(d) == {h \in DOMAIN d.transaction : IsCoinbase(d.transaction[h].txBody)}

RewardedBlock(d, h) == d.transaction[h].txBody.hashLink

\* A reward is stored in a later block than the one it is for, and is its
\* proposer's.
PaysProposer(d, h) ==
    LET rewarded == RewardedBlock(d, h)
    IN /\ rewarded \in DOMAIN d.block
       /\ d.block[rewarded].height < HeightOf(d, h)
       /\ d.block[rewarded].proposerPkey = d.transaction[h].sig

\* A block is rewarded at most once, to its proposer, and in a later block.
RewardedOnce(d) ==
    \A h \in RewardTxs(d) :
        /\ PaysProposer(d, h)
        /\ \A g \in RewardTxs(d) : RewardedBlock(d, g) = RewardedBlock(d, h) => g = h

\* The rewards of a block are its proposer's and are all in one later block.
RewardsInOneBlock(d) ==
    \A h \in RewardTxs(d) :
        /\ PaysProposer(d, h)
        /\ \A g \in RewardTxs(d) :
            RewardedBlock(d, g) = RewardedBlock(d, h) => BlockOf(d, g) = BlockOf(d, h)
=============================================================================
