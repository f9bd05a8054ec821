------------------------------ MODULE Votings -------------------------------
(***************************************************************************)
(* What users read while the ledger grows: the tally of VoteResult, and    *)
(* the blocks and histories of Queries, over the database of BlockchainApp *)
(***************************************************************************)
EXTENDS BlockchainApp, VoteResult, Queries

Stored(d) == DOMAIN d.transaction

CreatedVotings(d) == {h \in Stored(d) : d.transaction[h].txBody.voteType # 0}

\* The result of a key: 0 for one the result does not list.
ResultOf(d, voting, pkey) ==
    LET result == OnGetVoteResult(d, voting)
    IN IF pkey \in DOMAIN result THEN result[pkey] ELSE 0

ResultSum(d, voting) ==
    LET result == OnGetVoteResult(d, voting)
    IN MapThenSumSet(LAMBDA pkey : result[pkey], DOMAIN result)

\* What a voting counts for some votes.
Worth(d, voting, votes) ==
    LET voteType == d.transaction[voting].txBody.voteType
    IN MapThenSumSet(LAMBDA o : getVoteValue(d.output[o].value, voteType), votes)

GivenUp(voting) == {o \in DOMAIN db.output \ Unspent(db) : o[1] = voting}

\* The value that passing the votes of a voting on more than once added.
Repeated(voting) ==
    LET spent == {o \in DOMAIN db.output \ Unspent(db) : ValueTypeOf(db, o[1]) = voting}
        extra(o) == (Cardinality(RowsOn(db, o)) - 1) * db.output[o].value
    IN MapThenSumSet(extra, spent)

-----------------------------------------------------------------------------

\* The candidates of a voting hold no more votes than its participants gave
\* up, however often votes are passed on, apart from those sent more than once
\* in one block: OnGetVoteResult counts a vote at its last owner only.
ResultIsCovered ==
    \A voting \in CreatedVotings(db) :
        ResultSum(db, voting) <= Total(GivenUp(voting)) + Repeated(voting)

\* A result is final at the end of the voting: a block of that time or later
\* gives nobody a vote, and takes from a candidate what he passes on, no more
\* and no less (as uint32: the sum of OnGetVoteResult may wrap).
ResultIsFinal ==
    [][\A voting \in CreatedVotings(db), h \in DOMAIN db'.block \ DOMAIN db.block :
        ~ (db'.block[h].timestamp < EndTime(db, voting)) =>
            \A pkey \in Keys \ Participants(db, voting) :
                LET passedOn == {o \in VotesInTime(db, voting) \ Unspent(db') :
                                    db.output[o].spendPkey = pkey}
                IN (ResultOf(db', voting, pkey) + Worth(db, voting, passedOn)) % U32
                        = ResultOf(db, voting, pkey)]_vars

\* docs/structures.md: with vote type 1 one vote of a participant counts,
\* whatever value the participant holds.  getVoteValue counts one for every
\* transaction the participant sends.
OneVotePerParticipant ==
    \A voting \in CreatedVotings(db) :
        db.transaction[voting].txBody.voteType = OneVoteType =>
            ResultSum(db, voting) <= Cardinality(Participants(db, voting))

-----------------------------------------------------------------------------
(* What is read back.                                                      *)

\* Whoever reads the blocks one after another, from the first to the last,
\* gets every block, and can check it: the block that is put together from the
\* rows of four tables has the hash it is stored under, through the Merkle
\* root of its transactions, and each of these has the hash of its body.
ChainReadsBack ==
    /\ \A hash \in {Nil} \cup DOMAIN db.block : Cardinality(GetBlockAfter(db, hash)) <= 1
    /\ {b.hash : b \in UNION {GetBlockAfter(db, hash) : hash \in {Nil} \cup DOMAIN db.block}}
            = DOMAIN db.block
    /\ {b.hash : b \in GetBlocksByHashes(db, DOMAIN db.block)} = DOMAIN db.block
    /\ \A tx \in GetTxsByHashes(db, DOMAIN db.transaction) : tx.hash = Hash(tx.txBody)

\* The history of a key holds every transaction that spent something of it,
\* except for one whose every output of the key was spent again later in the
\* same block: the mark that the query follows names the last spender only.
HistoryIsComplete ==
    \A h \in DOMAIN db.transaction :
        LET key == db.transaction[h].sig
            spent == {SpentOutput(row) : row \in {r \in db.input : r.tx = h}}
            spentAgain(o) == \E row \in RowsOn(db, o) :
                /\ StoredAfter(db, row.tx, h) /\ BlockOf(db, row.tx) = BlockOf(db, h)
                /\ ReadTx(db, row.tx) \in GetTxsByPubKey(db, key)
        IN ReadTx(db, h) \in GetTxsByPubKey(db, key) \/ \A o \in spent : spentAgain(o)
=============================================================================
