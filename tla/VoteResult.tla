----------------------------- MODULE VoteResult -----------------------------
(***************************************************************************)
(* The tally of a voting (OnGetVoteResult in                               *)
(* evote/client_request_handlers.go).  A voting is a stored transaction;   *)
(* its outputs are the votes of its participants, and a vote is cast by a  *)
(* transaction that passes it on under the voting's hash as value type.    *)
(* The handler only reads: the result is a function of the database.       *)
(***************************************************************************)
EXTENDS Database

OneVoteType == 1
PercentVoteType == 2

\* Mutant: the query forgets to ask for isSpentByTx IS NULL.
VotesPassedOnToo(d, valueType) ==
    {o \in DOMAIN d.output :
        LET body == d.transaction[o[1]].txBody
        IN body.voteType = 0 /\ body.valueType = valueType}

\* Mutant: the query takes coins and the votes of any voting.
UTXOsOfAnyType(d, valueType) ==
    {o \in Unspent(d) : d.transaction[o[1]].txBody.voteType = 0}

\* The unspent votes that were cast: the participants' own are not among them.
GetUTXOSByTypeValue(d, valueType) ==
    {o \in Unspent(d) :
        LET body == d.transaction[o[1]].txBody
        IN body.voteType = 0 /\ body.valueType = valueType}

\* A transaction and the time of its block; nothing for a hash that is not
\* stored, which OnGetVoteResult does not expect.
GetTxAndTimeByHash(d, hash) ==
    {[txBody |-> d.transaction[h].txBody,
      timestamp |-> d.block[d.transaction[h].block].timestamp] : h \in GetTxByHash(d, hash)}

getVoteValue(value, typeVote) == IF typeVote = OneVoteType THEN 1 ELSE value

\* Time is measured in seconds here, in nanoseconds there.
EndTime(d, voting) ==
    LET t == CHOOSE t \in GetTxAndTimeByHash(d, voting) : TRUE
    IN t.timestamp + t.txBody.duration

\* Mutant: a vote in a block of the very end is counted.
VotesUntilEnd(d, voting) ==
    {o \in GetUTXOSByTypeValue(d, voting) : Utxo(d, o).timestamp <= EndTime(d, voting)}

VotesInTime(d, voting) ==
    {o \in GetUTXOSByTypeValue(d, voting) : Utxo(d, o).timestamp < EndTime(d, voting)}

\* The keys that the voting gave votes to, its creator's change included.  The
\* loop that follows hashLink ends at once: AppendTx stores none but those of
\* rewards, which name blocks.
Participants(d, voting) ==
    LET outputs == d.transaction[voting].txBody.outputs
    IN {outputs[i].spendPkey : i \in DOMAIN outputs}

\* Participants are deleted from the result, whoever voted for them.
OnGetVoteResult(d, voting) ==
    LET votes == VotesInTime(d, voting)
        voteType == d.transaction[voting].txBody.voteType
        votesFor(pkey) == {o \in votes : d.output[o].spendPkey = pkey}
        worth(o) == getVoteValue(d.output[o].value, voteType)
    IN [pkey \in {d.output[o].spendPkey : o \in votes} \ Participants(d, voting) |->
            MapThenSumSet(worth, votesFor(pkey)) % U32]
=============================================================================
