------------------------- MODULE BlockchainAppProofs -------------------------
(***************************************************************************)
(* A validator, for every set of keys and validators, every parameter and  *)
(* every bound: nothing it stores is spent in two blocks, or by any but    *)
(* its owner; its marks name the last spender; its database implements the *)
(* abstract ledger; the transactions of an open block stay valid until the *)
(* commit; a block is rewarded once; what the history of a key leaves out. *)
(*                                                                         *)
(* The books balance: coins are minted by rewards only, and what is        *)
(* unspent exceeds the rewards paid by the value of the outputs spent more *)
(* than once, and by nothing else.  Every stored transaction balances on   *)
(* its own, as uint32; the sum over all transactions is the sum over all   *)
(* outputs on one side and over all input rows on the other; the rows are  *)
(* then counted by the output that they name.                              *)
(*                                                                         *)
(* The same sums, over the transactions of one voting, bound its result:   *)
(* candidates never hold more votes than participants gave up and passing  *)
(* votes on more than once added; and a block of the end of a voting or    *)
(* later only takes from a result what is passed on.                       *)
(***************************************************************************)
EXTENDS Votings, DatabaseProofs

-----------------------------------------------------------------------------
(* The executor.                                                           *)

\* A new executor holds nothing.
LEMMA NewExecutorType == \A S : NewTxExecutor \in Executors(S)
<1> TAKE S
<1>1. <<>> \in Seq(S)
  BY EmptySeq
<1> QED BY <1>1 DEF NewTxExecutor, Executors

\* Reset leaves an executor that holds nothing.
LEMMA ResetType ==
    ASSUME NEW S, NEW ex \in Executors(S)
    PROVE  /\ Reset(ex) \in Executors(S)
           /\ Reset(ex).transactions = <<>>
<1>1. <<>> \in Seq(S)
  BY EmptySeq
<1> QED BY <1>1 DEF Reset, Executors

\* BeginBlock changes the time and the proposer only.
LEMMA BeginBlockType ==
    ASSUME NEW S, NEW ex \in Executors(S), NEW time \in Nat, NEW v \in Validators
    PROVE  /\ ExecBeginBlock(ex, time, v) \in Executors(S)
           /\ ExecBeginBlock(ex, time, v).transactions = ex.transactions
BY DEF ExecBeginBlock, Executors

\* AppendTx leaves the executor alone or appends the transaction it accepts.
LEMMA AppendTxType ==
    ASSUME NEW S, NEW ex \in Executors(S), NEW d, NEW tx \in S, NEW ignore
    PROVE  /\ AppendTx(ex, d, tx, ignore) \in Executors(S)
           /\ \/ AppendTx(ex, d, tx, ignore).transactions = ex.transactions
              \/ /\ Accepts(ex, d, tx, ignore)
                 /\ AppendTx(ex, d, tx, ignore).transactions = Append(ex.transactions, tx)
<1>1. CASE ~ Accepts(ex, d, tx, ignore)
  BY <1>1 DEF AppendTx
<1>2. CASE Accepts(ex, d, tx, ignore)
  <2> DEFINE marked == IF ex.mapMade THEN ex.processedTrans \cup {tx.hash}
                       ELSE ex.processedTrans
  <2>1. ex.transactions \in Seq(S)
    BY DEF Executors
  <2>2. Append(ex.transactions, tx) \in Seq(S)
    BY <2>1, AppendProperties
  <2>3. marked \in SUBSET {t.hash : t \in S}
    BY DEF Executors
  <2>4. AppendTx(ex, d, tx, ignore) =
            [ex EXCEPT !.transactions = Append(ex.transactions, tx), !.processedTrans = marked]
    BY <1>2 DEF AppendTx, Executors
  <2> HIDE DEF marked
  <2> QED BY <1>2, <2>2, <2>3, <2>4 DEF Executors
<1> QED BY <1>1, <1>2

\* A sequence over S is one over every larger set; so are the executors and
\* the decided blocks of more transactions.
LEMMA SeqOfMore == ASSUME NEW S, NEW T, S \subseteq T PROVE Seq(S) \subseteq Seq(T)
BY SeqMonotonic

LEMMA ExecutorsOfMore ==
    ASSUME NEW S, NEW T, S \subseteq T
    PROVE  Executors(S) \subseteq Executors(T)
<1>1. Seq(S) \subseteq Seq(T)
  BY SeqOfMore
<1>2. SUBSET {tx.hash : tx \in S} \subseteq SUBSET {tx.hash : tx \in T}
  OBVIOUS
<1> QED BY <1>1, <1>2 DEF Executors

LEMMA ChainsOfMore ==
    ASSUME NEW S, NEW T, S \subseteq T
    PROVE  Seq(DecidedBlocks(S)) \subseteq Seq(DecidedBlocks(T))
<1>1. Seq(S) \subseteq Seq(T)
  BY SeqOfMore
<1>2. DecidedBlocks(S) \subseteq DecidedBlocks(T)
  BY <1>1 DEF DecidedBlocks
<1> QED BY <1>2, SeqOfMore

-----------------------------------------------------------------------------
(* Type correctness.                                                       *)

\* The initial state has the types.
LEMMA InitTypeOK == Init => TypeOK
<1> SUFFICES ASSUME Init PROVE TypeOK
  OBVIOUS
<1> USE DEF Init
<1>1. ForeignKeys(db)
  BY DEF ForeignKeys, EmptyDb
<1>2. {checkTxState, deliverTxState} \subseteq Executors(sent)
  BY NewExecutorType
<1>3. chain \in Seq(DecidedBlocks(sent)) /\ appHashes \in Seq({appHashes[i] : i \in DOMAIN appHashes})
  BY EmptySeq
<1>4. Len(chain) = 0 /\ Len(appHashes) = 0
  BY EmptySeq
<1>5. /\ restarts \in 0 .. MaxRestarts /\ resets \in 0 .. MaxResets
      /\ tmRestarts \in 0 .. MaxTmRestarts /\ skips \in 0 .. tmRestarts
  BY BoundsAssumption
<1>6. /\ appHeight \in Nat /\ phase \in {"init", "idle", "block", "failed", "halted", "refused"}
      /\ done \in 0 .. Len(chain) /\ next \in Nat \ {0}
      /\ phase = "block" => done < Len(chain)
  BY <1>4
<1>7. live \in BOOLEAN
  OBVIOUS
<1>8. done = 0 => appBlockHash = Nil
  OBVIOUS
<1>9. Len(appHashes) <= Len(chain)
  BY <1>4
<1> HIDE DEF Init
<1> QED BY <1>1, <1>2, <1>3, <1>5, <1>6, <1>7, <1>8, <1>9 DEF TypeOK

\* What is left of the type invariant when only transactions were submitted.
LEMMA SubmittedTypeOK ==
    ASSUME TypeOK, sent \subseteq sent', UNCHANGED <<db, app, tendermint, counters>>
    PROVE  TypeOK'
<1>1. Executors(sent) \subseteq Executors(sent')
  BY ExecutorsOfMore
<1>2. Seq(DecidedBlocks(sent)) \subseteq Seq(DecidedBlocks(sent'))
  BY ChainsOfMore
<1> QED BY <1>1, <1>2 DEF TypeOK, app, tendermint, counters

\* The block that is executed, and its transactions.
LEMMA CurrentBlockType ==
    ASSUME TypeOK, done < Len(chain)
    PROVE  CurrentBlock \in DecidedBlocks(sent)
<1>1. Len(chain) \in Nat
  BY LenProperties DEF TypeOK
<1>2. done + 1 \in 1 .. Len(chain)
  BY <1>1 DEF TypeOK
<1> QED BY <1>2, ElementOfSeq DEF TypeOK, CurrentBlock

\* The transaction that DeliverTx is given was submitted.
LEMMA CurrentTxType ==
    ASSUME TypeOK, done < Len(chain), next <= Len(CurrentBlock.txs)
    PROVE  CurrentBlock.txs[next] \in sent
<1>1. CurrentBlock.txs \in Seq(sent)
  BY CurrentBlockType DEF DecidedBlocks
<1>2. Len(CurrentBlock.txs) \in Nat
  BY <1>1, LenProperties
<1>3. next \in 1 .. Len(CurrentBlock.txs)
  BY <1>2 DEF TypeOK
<1> QED BY <1>1, <1>3, ElementOfSeq

\* The block that Commit creates.
LEMMA NewBlockFields ==
    /\ NewBlock.transactions = deliverTxState.transactions
    /\ NewBlock.hash # Nil
<1>1. \A txs, prev, time, v :
        /\ CreateBlock(txs, prev, time, v).transactions = txs
        /\ CreateBlock(txs, prev, time, v).hash # Nil
  BY HashNotNil DEF CreateBlock
<1> QED BY <1>1 DEF NewBlock

\* Tendermint appends the app hash of a block it executes for the first time.
LEMMA AppHashesType ==
    ASSUME NEW s, s \in Seq({s[i] : i \in DOMAIN s}), NEW h
    PROVE  /\ Append(s, h) \in Seq({Append(s, h)[i] : i \in DOMAIN Append(s, h)})
           /\ Len(Append(s, h)) = Len(s) + 1
<1> DEFINE S == {s[i] : i \in DOMAIN s}
           t == Append(s, h)
           T == S \cup {h}
<1>1. s \in Seq(T)
  BY SeqMonotonic
<1>2. /\ t \in Seq(T) /\ Len(t) = Len(s) + 1
      /\ \A i \in 1 .. Len(s) : t[i] = s[i]
      /\ t[Len(s) + 1] = h
  BY <1>1, AppendProperties
<1>3. /\ DOMAIN s = 1 .. Len(s) /\ Len(s) \in Nat
      /\ DOMAIN t = 1 .. Len(t)
  BY <1>1, <1>2, LenProperties
<1>4. T \subseteq {t[i] : i \in DOMAIN t}
  BY <1>2, <1>3
<1> QED BY <1>2, <1>4, SeqMonotonic

\* Each step in turn keeps the types: Commit, BeginBlock, DeliverTx, CheckTx,
\* Decide and the restarts of the node and of Tendermint.
LEMMA CommitTypeOK ==
    ASSUME TypeOK, Commit
    PROVE  TypeOK'
<1>1. done < Len(chain) /\ Len(chain) \in Nat /\ done \in Nat
  BY LenProperties DEF TypeOK, Commit, BlockDelivered
<1>2. ForeignKeys(db')
  <2>1. NewBlock.transactions \in Seq(sent)
    BY NewBlockFields DEF TypeOK, Executors
  <2> QED BY <2>1, SaveKeepsForeignKeys DEF TypeOK, Commit
<1>3. sent \subseteq sent'
  BY DEF Commit
<1>4. {checkTxState', deliverTxState'} \subseteq Executors(sent')
  BY <1>3, ExecutorsOfMore, ResetType DEF TypeOK, Commit
<1>5. chain' \in Seq(DecidedBlocks(sent'))
  BY <1>3, ChainsOfMore DEF TypeOK, Commit
<1>6. /\ appHashes' \in Seq({appHashes'[i] : i \in DOMAIN appHashes'})
      /\ Len(appHashes') <= Len(chain')
  <2>1. CASE done = Len(appHashes)
    <3>1. appHashes' = Append(appHashes, NewBlock.hash) /\ chain' = chain
      BY <2>1 DEF Commit
    <3>2. appHashes \in Seq({appHashes[i] : i \in DOMAIN appHashes})
      BY DEF TypeOK
    <3>3. /\ Append(appHashes, NewBlock.hash) \in
                Seq({Append(appHashes, NewBlock.hash)[i] :
                        i \in DOMAIN Append(appHashes, NewBlock.hash)})
          /\ Len(Append(appHashes, NewBlock.hash)) = Len(appHashes) + 1
      BY <3>2, AppHashesType
    <3> QED BY <1>1, <2>1, <3>1, <3>3
  <2>2. CASE done # Len(appHashes)
    BY <2>2 DEF TypeOK, Commit
  <2> QED BY <2>1, <2>2
<1>7. done' = done + 1 /\ done' # 0
  BY <1>1 DEF Commit
<1>8. /\ appHeight' \in Nat /\ phase' \in {"idle", "refused"} /\ live' \in BOOLEAN
      /\ next' \in Nat \ {0} /\ done' \in 0 .. Len(chain')
      /\ restarts' \in 0 .. MaxRestarts /\ resets' \in 0 .. MaxResets
      /\ tmRestarts' \in 0 .. MaxTmRestarts /\ skips' \in 0 .. tmRestarts'
  BY <1>1 DEF TypeOK, Commit, counters
<1> QED BY <1>2, <1>4, <1>5, <1>6, <1>7, <1>8 DEF TypeOK

LEMMA BeginBlockTypeOK == ASSUME TypeOK, BeginBlock PROVE TypeOK'
<1>1. CurrentBlock.time \in Nat /\ CurrentBlock.proposer \in Validators
  BY CurrentBlockType DEF BeginBlock, DecidedBlocks
<1>2. deliverTxState' \in Executors(sent)
  BY <1>1, BeginBlockType DEF BeginBlock, TypeOK
<1> QED BY <1>2 DEF BeginBlock, TypeOK, counters

LEMMA DeliverTxTypeOK == ASSUME TypeOK, DeliverTx PROVE TypeOK'
<1>1. CurrentBlock.txs[next] \in sent
  BY CurrentTxType DEF DeliverTx, TypeOK
<1>2. deliverTxState' \in Executors(sent)
  BY <1>1, AppendTxType DEF DeliverTx, TypeOK
<1>3. phase' \in {"block", "halted"} /\ next' \in Nat \ {0}
  BY DEF DeliverTx, TypeOK
<1> QED BY <1>2, <1>3 DEF DeliverTx, TypeOK, counters

LEMMA CheckTxTypeOK == ASSUME TypeOK, CheckTx PROVE TypeOK'
<1>1. checkTxState' \in Executors(sent) /\ phase' \in {phase, "halted"}
  BY AppendTxType DEF CheckTx, TypeOK
<1> QED BY <1>1 DEF CheckTx, TypeOK, counters

LEMMA DecideTypeOK == ASSUME TypeOK, Decide PROVE TypeOK'
<1>1. PICK proposer \in Validators, txs \in Proposals :
        chain' = Append(chain, [proposer |-> proposer, time |-> Len(chain) + 1, txs |-> txs])
  BY DEF Decide
<1>2. Len(chain) \in Nat
  BY LenProperties DEF TypeOK
<1>3. txs \in Seq(sent)
  BY SeqDef, BoundsAssumption DEF Proposals
<1>4. [proposer |-> proposer, time |-> Len(chain) + 1, txs |-> txs] \in DecidedBlocks(sent)
  BY <1>2, <1>3 DEF DecidedBlocks
<1>5. chain' \in Seq(DecidedBlocks(sent)) /\ Len(chain') = Len(chain) + 1
  BY <1>1, <1>4, AppendProperties DEF TypeOK
<1>6. Len(appHashes) \in Nat
  BY LenProperties DEF TypeOK
<1> QED BY <1>2, <1>5, <1>6 DEF Decide, TypeOK, app, counters

LEMMA RestartTypeOK ==
    ASSUME TypeOK, RestartKeepingDb \/ RestartWithEmptyDb
    PROVE  TypeOK'
<1>1. ForeignKeys(db')
  BY DEF TypeOK, RestartKeepingDb, RestartWithEmptyDb, ForeignKeys, EmptyDb
<1>2. {checkTxState', deliverTxState'} \subseteq Executors(sent)
  BY NewExecutorType DEF Restart, RestartKeepingDb, RestartWithEmptyDb
<1>3. /\ restarts' \in 0 .. MaxRestarts /\ resets' \in 0 .. MaxResets
      /\ tmRestarts' \in 0 .. MaxTmRestarts /\ skips' \in 0 .. tmRestarts'
      /\ Len(chain) \in Nat
  <2>1. /\ MaxRestarts \in Nat /\ restarts \in 0 .. MaxRestarts
        /\ MaxResets \in Nat /\ resets \in 0 .. MaxResets
    BY BoundsAssumption DEF TypeOK
  <2>2. restarts' = restarts \/ (restarts < MaxRestarts /\ restarts' = restarts + 1)
    BY DEF RestartKeepingDb, RestartWithEmptyDb
  <2>3. resets' = resets \/ (resets < MaxResets /\ resets' = resets + 1)
    BY DEF RestartKeepingDb, RestartWithEmptyDb
  <2>4. Len(chain) \in Nat
    BY LenProperties DEF TypeOK
  <2>5. tmRestarts' \in 0 .. MaxTmRestarts /\ skips' \in 0 .. tmRestarts'
    BY DEF TypeOK, RestartKeepingDb, RestartWithEmptyDb
  <2> QED BY <2>1, <2>2, <2>3, <2>4, <2>5
<1>4. live' \in BOOLEAN
  BY DEF Restart, RestartKeepingDb, RestartWithEmptyDb
<1>5. /\ appBlockHash' = Nil /\ appHeight' = 0 /\ phase' = "init" /\ done' = 0 /\ next' = 1
      /\ UNCHANGED <<chain, appHashes, sent>>
  BY DEF Restart, RestartKeepingDb, RestartWithEmptyDb
<1> QED BY <1>1, <1>2, <1>3, <1>4, <1>5 DEF TypeOK

LEMMA RestartTendermintTypeOK == ASSUME TypeOK, RestartTendermint PROVE TypeOK'
<1>1. /\ Len(chain) \in Nat /\ Len(appHashes) \in Nat /\ done \in 0 .. Len(chain)
      /\ appHashes \in Seq({appHashes[i] : i \in DOMAIN appHashes})
  BY LenProperties DEF TypeOK
<1>2. /\ tmRestarts' \in 0 .. MaxTmRestarts
      /\ tmRestarts \in Nat /\ tmRestarts' = tmRestarts + 1
      /\ skips \in 0 .. tmRestarts
  BY BoundsAssumption DEF TypeOK, RestartTendermint
<1>3. UNCHANGED <<db, appBlockHash, appHeight, checkTxState, deliverTxState, sent,
                  restarts, resets>>
  BY DEF RestartTendermint, app
<1>4. CASE NothingToReplay
  BY <1>2, <1>3, <1>4 DEF NothingToReplay, TypeOK, tendermint
<1>5. CASE Refuse
  BY <1>2, <1>3, <1>5 DEF Refuse, TypeOK
<1>6. CASE SkipLastBlock
  <2>1. /\ appHashes' \in Seq({appHashes'[i] : i \in DOMAIN appHashes'})
        /\ Len(appHashes') = Len(appHashes) + 1
    <3>1. appHashes' = Append(appHashes, appBlockHash)
      BY <1>6 DEF SkipLastBlock
    <3>2. /\ Append(appHashes, appBlockHash) \in
                Seq({Append(appHashes, appBlockHash)[i] :
                        i \in DOMAIN Append(appHashes, appBlockHash)})
          /\ Len(Append(appHashes, appBlockHash)) = Len(appHashes) + 1
      BY <1>1, AppHashesType
    <3> QED BY <3>1, <3>2
  <2>2. chain # <<>> => Len(chain) # 0
    BY EmptySeq DEF TypeOK
  <2>3. /\ Len(appHashes') <= Len(chain') /\ chain' = chain /\ done' = Len(chain)
        /\ done' # 0 /\ phase' \in {"idle", "refused"} /\ skips' \in 0 .. tmRestarts'
        /\ UNCHANGED <<live, next>>
    <3>1. Len(appHashes) < Len(chain)
      BY <1>6 DEF SkipLastBlock, LastBlockAnswered
    <3>2. /\ chain # <<>> /\ chain' = chain /\ done' = Len(chain)
          /\ phase' \in {"idle", "refused"} /\ skips' = skips + 1
          /\ UNCHANGED <<live, next>>
      BY <1>6 DEF SkipLastBlock
    <3> QED BY <1>1, <1>2, <2>1, <2>2, <3>1, <3>2
  <2> QED BY <1>1, <1>2, <1>3, <2>1, <2>3 DEF TypeOK
<1>7. CASE SkipReplayedBlock
  <2>1. /\ done' \in 0 .. Len(chain) /\ done' # 0 /\ phase' = "idle" /\ live' = FALSE
        /\ skips' \in 0 .. tmRestarts' /\ UNCHANGED <<chain, next, appHashes>>
    BY <1>1, <1>2, <1>7 DEF SkipReplayedBlock
  <2> QED BY <1>2, <1>3, <2>1 DEF TypeOK
<1> QED BY <1>4, <1>5, <1>6, <1>7 DEF RestartTendermint

\* Every step keeps the types.
LEMMA NextTypeOK == ASSUME TypeOK, [Next]_vars PROVE TypeOK'
<1>1. CASE InitChain
  BY <1>1 DEF InitChain, InitialHeight, TypeOK, counters
<1>2. CASE BeginBlock
  BY <1>2, BeginBlockTypeOK
<1>3. CASE DeliverTx
  BY <1>3, DeliverTxTypeOK
<1>4. CASE Commit
  BY <1>4, CommitTypeOK
<1>5. CASE CommitFails
  <2>1. Executors(sent) \subseteq Executors(sent')
    BY <1>5, ExecutorsOfMore DEF CommitFails
  <2>2. Seq(DecidedBlocks(sent)) \subseteq Seq(DecidedBlocks(sent'))
    BY <1>5, ChainsOfMore DEF CommitFails
  <2> QED BY <1>5, <2>1, <2>2 DEF CommitFails, TypeOK, app, counters
<1>6. CASE CheckTx
  BY <1>6, CheckTxTypeOK
<1>7. CASE Decide
  BY <1>7, DecideTypeOK
<1>8. CASE Faucet \/ SendCoins \/ CreateVoting \/ SendVote
  BY <1>8, SubmittedTypeOK DEF Faucet, SendCoins, CreateVoting, SendVote, Submit
<1>9. CASE PeerReward
  BY <1>9, SubmittedTypeOK DEF PeerReward
<1>10. CASE RestartKeepingDb \/ RestartWithEmptyDb
  BY <1>10, RestartTypeOK
<1>11. CASE RestartTendermint
  BY <1>11, RestartTendermintTypeOK
<1>12. CASE UNCHANGED vars
  BY <1>12, SubmittedTypeOK DEF vars
<1> QED
  BY <1>1, <1>2, <1>3, <1>4, <1>5, <1>6, <1>7, <1>8, <1>9, <1>10, <1>11, <1>12 DEF Next

\* The tables refer only to rows that are there, the executors hold only
\* submitted transactions, and Tendermint's position is within its chain.
THEOREM TypeCorrect == Spec => []TypeOK
<1>1. Init => TypeOK
  BY InitTypeOK
<1>2. TypeOK /\ [Next]_vars => TypeOK'
  BY NextTypeOK
<1> QED BY <1>1, <1>2, PTL DEF Spec

-----------------------------------------------------------------------------
(* No output is spent in two blocks.                                       *)
(*                                                                         *)
(* AppendTx compares each input with the outputs unspent in the database,  *)
(* and the database changes only when the accepted transactions are stored *)
(* and forgotten, or when the executor is new: AcceptedAreSpendable.  Saving *)
(* them marks every output they spend: InputsAreMarked.  So a later block  *)
(* finds none of them unspent.                                             *)

\* An executor that has accepted nothing.
LEMMA NothingAccepted ==
    ASSUME deliverTxState'.transactions = <<>>
    PROVE  AcceptedAreSpendable'
<1>1. DOMAIN deliverTxState'.transactions = {}
  OBVIOUS
<1> QED BY <1>1 DEF AcceptedAreSpendable

\* AppendTxType at the value of ignoreDuplicates that DeliverTx passes.
LEMMA AppendTxEffect ==
    ASSUME NEW S, NEW ex \in Executors(S), NEW d, NEW tx \in S
    PROVE  \/ AppendTx(ex, d, tx, FALSE).transactions = ex.transactions
           \/ /\ Accepts(ex, d, tx, FALSE)
              /\ AppendTx(ex, d, tx, FALSE).transactions = Append(ex.transactions, tx)
<1> DEFINE ignore == FALSE
<1> HIDE DEF ignore
<1>1. \/ AppendTx(ex, d, tx, ignore).transactions = ex.transactions
      \/ /\ Accepts(ex, d, tx, ignore)
         /\ AppendTx(ex, d, tx, ignore).transactions = Append(ex.transactions, tx)
  BY AppendTxType
<1> QED BY <1>1 DEF ignore

\* DeliverTx appends a transaction that spends its signer's unspent outputs, or
\* nothing.
LEMMA DeliverTxAccepts ==
    ASSUME TypeOK, AcceptedAreSpendable, DeliverTx
    PROVE  AcceptedAreSpendable'
<1> DEFINE old == deliverTxState.transactions
           tx  == CurrentBlock.txs[next]
<1>1. tx \in sent
  BY CurrentTxType DEF DeliverTx, TypeOK
<1>2. old \in Seq(sent)
  BY DEF TypeOK, Executors
<1>3. deliverTxState' = AppendTx(deliverTxState, db, tx, FALSE) /\ db' = db
  BY DEF DeliverTx
<1> HIDE DEF tx
<1>4. CASE deliverTxState'.transactions = old
  BY <1>3, <1>4 DEF AcceptedAreSpendable
<1>5. CASE /\ Accepts(deliverTxState, db, tx, FALSE)
           /\ deliverTxState'.transactions = Append(old, tx)
  <2> DEFINE new == Append(old, tx)
  <2>1. /\ tx.hash = Hash(tx.txBody)
        /\ \A k \in 1 .. Len(tx.txBody.inputs) :
            /\ Outpoint(tx.txBody.inputs[k]) \in Unspent(db)
            /\ db.output[Outpoint(tx.txBody.inputs[k])].spendPkey = tx.sig
    BY <1>5, AcceptedIsHashed, AcceptedSpendsUnspent, AcceptedSpendsOwn DEF Accepts
  <2>2. DOMAIN old = 1 .. Len(old) /\ Len(old) \in Nat
    BY <1>2, LenProperties
  <2>3. DOMAIN new = 1 .. Len(old) + 1
    BY <1>1, <1>2, AppendProperties, LenProperties
  <2>4. new[Len(old) + 1] = tx /\ \A i \in 1 .. Len(old) : new[i] = old[i]
    BY <1>1, <1>2, AppendProperties
  <2>5. \A i \in DOMAIN new : i \in DOMAIN old \/ i = Len(old) + 1
    BY <2>2, <2>3
  <2>6. ASSUME NEW i \in DOMAIN new
        PROVE  /\ new[i].hash = Hash(new[i].txBody)
               /\ \A k \in 1 .. Len(new[i].txBody.inputs) :
                    /\ Outpoint(new[i].txBody.inputs[k]) \in Unspent(db)
                    /\ db.output[Outpoint(new[i].txBody.inputs[k])].spendPkey = new[i].sig
    BY <2>1, <2>2, <2>4, <2>5 DEF AcceptedAreSpendable
  <2> HIDE DEF new
  <2>7. deliverTxState'.transactions = new
    BY <1>5 DEF new
  <2> QED BY <1>3, <2>6, <2>7 DEF AcceptedAreSpendable
<1>6. deliverTxState \in Executors(sent)
  BY DEF TypeOK
<1>7. \/ deliverTxState'.transactions = old
      \/ /\ Accepts(deliverTxState, db, tx, FALSE)
         /\ deliverTxState'.transactions = Append(old, tx)
  <2>1. \/ AppendTx(deliverTxState, db, tx, FALSE).transactions = old
        \/ /\ Accepts(deliverTxState, db, tx, FALSE)
           /\ AppendTx(deliverTxState, db, tx, FALSE).transactions = Append(old, tx)
    BY <1>1, <1>6, AppendTxEffect
  <2> QED BY <1>3, <2>1
<1> QED BY <1>4, <1>5, <1>7

\* What Commit stores was unspent, under a hash that is not empty.
LEMMA NewBlockSpendsUnspent ==
    ASSUME AcceptedAreSpendable
    PROVE  \A i \in DOMAIN NewBlock.transactions :
                /\ NewBlock.transactions[i].hash # Nil
                /\ \A k \in 1 .. Len(NewBlock.transactions[i].txBody.inputs) :
                    Outpoint(NewBlock.transactions[i].txBody.inputs[k]) \in Unspent(db)
BY NewBlockFields, HashNotNil DEF AcceptedAreSpendable

\* What Commit stores spends outputs of its signers.
LEMMA NewBlockSpendsOwn ==
    ASSUME AcceptedAreSpendable
    PROVE  \A i \in DOMAIN NewBlock.transactions :
                \A k \in 1 .. Len(NewBlock.transactions[i].txBody.inputs) :
                    db.output[Outpoint(NewBlock.transactions[i].txBody.inputs[k])].spendPkey
                        = NewBlock.transactions[i].sig
BY NewBlockFields DEF AcceptedAreSpendable

LEMMA CommitIInv == ASSUME IInv, Commit PROVE IInv'
<1>1. NewBlock.transactions \in Seq(sent)
  BY NewBlockFields DEF IInv, TypeOK, Executors
<1>2. db' = SaveNextBlock(db, NewBlock) /\ CanSave(db, NewBlock)
  BY DEF Commit
<1>3. /\ TypeOK /\ ForeignKeys(db) /\ InputsAreMarked(db) /\ SpentInOneBlock(db)
      /\ AcceptedAreSpendable
  BY DEF IInv, TypeOK, NoCrossBlockDoubleSpend
<1>4. InputsAreMarked(db')
  BY <1>1, <1>2, <1>3, NewBlockSpendsUnspent, SaveMarksInputs
<1>5. SpentInOneBlock(db')
  BY <1>2, <1>3, NewBlockSpendsUnspent, SaveKeepsSpentInOneBlock
<1>6. AcceptedAreSpendable'
  <2>1. deliverTxState'.transactions = <<>>
    BY <1>3, ResetType DEF Commit, TypeOK
  <2> QED BY <2>1, NothingAccepted
<1>7. TypeOK'
  BY <1>3, CommitTypeOK
<1> QED BY <1>4, <1>5, <1>6, <1>7 DEF IInv, NoCrossBlockDoubleSpend

\* A step that leaves the database and the accepted transactions alone.
LEMMA QuietIInv ==
    ASSUME IInv, [Next]_vars, db' = db,
           deliverTxState'.transactions = deliverTxState.transactions
    PROVE  IInv'
BY NextTypeOK DEF IInv, AcceptedAreSpendable, NoCrossBlockDoubleSpend

LEMMA RestartIInv ==
    ASSUME IInv, [Next]_vars, RestartKeepingDb \/ RestartWithEmptyDb
    PROVE  IInv'
<1>1. deliverTxState'.transactions = <<>>
  BY DEF RestartKeepingDb, RestartWithEmptyDb, Restart, NewTxExecutor
<1>2. InputsAreMarked(db') /\ SpentInOneBlock(db')
  BY DEF IInv, NoCrossBlockDoubleSpend, RestartKeepingDb, RestartWithEmptyDb,
         EmptyDb, InputsAreMarked, SpentInOneBlock
<1>3. TypeOK'
  BY NextTypeOK DEF IInv
<1> QED BY <1>1, <1>2, <1>3, NothingAccepted DEF IInv, NoCrossBlockDoubleSpend

LEMMA InitIInv == ASSUME Init PROVE IInv
<1>1. AcceptedAreSpendable
  BY DEF Init, NewTxExecutor, AcceptedAreSpendable
<1>2. InputsAreMarked(db) /\ NoCrossBlockDoubleSpend
  BY DEF Init, EmptyDb, InputsAreMarked, NoCrossBlockDoubleSpend, SpentInOneBlock
<1> QED BY <1>1, <1>2, InitTypeOK DEF IInv

\* Every step keeps the inductive invariant.
LEMMA NextIInv == ASSUME IInv, [Next]_vars PROVE IInv'
<1>1. CASE InitChain
  BY <1>1, QuietIInv DEF InitChain
<1>2. CASE BeginBlock
  <2>1. CurrentBlock.time \in Nat /\ CurrentBlock.proposer \in Validators
    BY <1>2, CurrentBlockType DEF IInv, BeginBlock, DecidedBlocks
  <2>2. deliverTxState'.transactions = deliverTxState.transactions
    BY <1>2, <2>1, BeginBlockType DEF BeginBlock, IInv, TypeOK
  <2> QED BY <1>2, <2>2, QuietIInv DEF BeginBlock
<1>3. CASE DeliverTx
  <2>1. AcceptedAreSpendable'
    BY <1>3, DeliverTxAccepts DEF IInv
  <2>2. TypeOK' /\ db' = db
    BY <1>3, NextTypeOK DEF IInv, DeliverTx
  <2> QED BY <2>1, <2>2 DEF IInv, NoCrossBlockDoubleSpend
<1>4. CASE Commit
  BY <1>4, CommitIInv
<1>5. CASE CommitFails
  BY <1>5, QuietIInv DEF CommitFails, app
<1>6. CASE CheckTx
  BY <1>6, QuietIInv DEF CheckTx
<1>7. CASE Decide
  BY <1>7, QuietIInv DEF Decide, app
<1>8. CASE Faucet \/ SendCoins \/ CreateVoting \/ SendVote
  BY <1>8, QuietIInv DEF Faucet, SendCoins, CreateVoting, SendVote, Submit, app
<1>9. CASE PeerReward
  BY <1>9, QuietIInv DEF PeerReward, app
<1>10. CASE RestartKeepingDb \/ RestartWithEmptyDb
  BY <1>10, RestartIInv
<1>11. CASE RestartTendermint
  BY <1>11, QuietIInv DEF RestartTendermint, app
<1>12. CASE UNCHANGED vars
  BY <1>12, QuietIInv DEF vars, app
<1> QED
  BY <1>1, <1>2, <1>3, <1>4, <1>5, <1>6, <1>7, <1>8, <1>9, <1>10, <1>11, <1>12 DEF Next

LEMMA Inductive == Spec => []IInv
<1>1. Init => IInv
  BY InitIInv
<1>2. IInv /\ [Next]_vars => IInv'
  BY NextIInv
<1> QED BY <1>1, <1>2, PTL DEF Spec

\* Two inputs that name the same output are always in the same block, however
\* blocks are decided and whatever is submitted, across crashes and restarts.
THEOREM NoDoubleSpendAcrossBlocks == Spec => []NoCrossBlockDoubleSpend
<1>1. IInv => NoCrossBlockDoubleSpend
  BY DEF IInv
<1> QED BY <1>1, Inductive, PTL

\* A stored output keeps its value, its owner and, once it is spent, its
\* spender, until the database is replaced by an empty one.
THEOREM SpendingIsFinal == Spec => SpentStaysSpent
<1> DEFINE Kept ==
        resets' = resets =>
            /\ db.input \subseteq db'.input
            /\ \A o \in DOMAIN db.output :
                /\ o \in DOMAIN db'.output
                /\ db'.output[o].value = db.output[o].value
                /\ db'.output[o].spendPkey = db.output[o].spendPkey
                /\ db.output[o].spentBy # Nil =>
                        db'.output[o].spentBy = db.output[o].spentBy
<1>1. ASSUME IInv, [Next]_vars PROVE [Kept]_vars
  <2>1. CASE Commit
    <3>1. db' = SaveNextBlock(db, NewBlock) /\ AcceptedAreSpendable
      BY <1>1, <2>1 DEF Commit, IInv
    <3> QED BY <3>1, NewBlockSpendsUnspent, SaveKeepsOutputs
  <2>2. CASE RestartWithEmptyDb
    <3>1. resets \in Nat /\ resets' = resets + 1
      BY <1>1, <2>2, BoundsAssumption DEF IInv, TypeOK, RestartWithEmptyDb
    <3> QED BY <3>1
  <2>3. CASE db' = db
    BY <2>3
  <2>4. Commit \/ RestartWithEmptyDb \/ db' = db
    BY <1>1 DEF Next, vars, InitChain, BeginBlock, DeliverTx, CommitFails, CheckTx, Decide,
        Faucet, SendCoins, CreateVoting, SendVote, Submit, PeerReward, RestartKeepingDb,
        RestartTendermint
  <2> QED BY <2>1, <2>2, <2>3, <2>4
<1>2. IInv /\ [Next]_vars => [Kept]_vars
  BY <1>1
<1> QED BY <1>2, Inductive, PTL DEF Spec, SpentStaysSpent

-----------------------------------------------------------------------------
(* The validator implements the ledger it promises.                        *)
(*                                                                         *)
(* Only Commit records or spends anything.  An output that it marks had no *)
(* mark before, and the transaction that the mark names was accepted, so   *)
(* it was signed by the owner of the output (AcceptedAreSpendable).        *)

\* Commit is a step of the ledger that appends a block.
LEMMA CommitAppends == ASSUME IInv, Commit PROVE Promised!AppendBlock
<1> DEFINE outputs(d) == [o \in DOMAIN d.output |->
                [value |-> d.output[o].value, spendPkey |-> d.output[o].spendPkey]]
           authority(d) == [o \in {p \in DOMAIN d.output : d.output[p].spentBy # Nil} |->
                d.transaction[d.output[o].spentBy].sig]
<1>1. /\ db' = SaveNextBlock(db, NewBlock) /\ CanSave(db, NewBlock)
      /\ AcceptedAreSpendable /\ ForeignKeys(db)
      /\ NewBlock.transactions \in Seq(sent)
  BY NewBlockFields DEF Commit, IInv, TypeOK, Executors
<1>2. ASSUME NEW o \in DOMAIN db.output
      PROVE  /\ o \in DOMAIN db'.output
             /\ db'.output[o].value = db.output[o].value
             /\ db'.output[o].spendPkey = db.output[o].spendPkey
             /\ db.output[o].spentBy # Nil => db'.output[o].spentBy = db.output[o].spentBy
  BY <1>1, NewBlockSpendsUnspent, SaveKeepsOutputs
<1>3. Promised!Extends(outputs(db), outputs(db'))
  BY <1>2 DEF Promised!Extends
<1>4. ASSUME NEW o \in DOMAIN db.output, db.output[o].spentBy # Nil
      PROVE  /\ o \in DOMAIN db'.output /\ db'.output[o].spentBy # Nil
             /\ db'.transaction[db'.output[o].spentBy] = db.transaction[db.output[o].spentBy]
  <2>1. db.output[o].spentBy \in DOMAIN db.transaction
    BY <1>1, <1>4 DEF ForeignKeys
  <2> QED BY <1>1, <1>2, <1>4, <2>1, SaveKeepsTransactions
<1>5. Promised!Extends(authority(db), authority(db'))
  BY <1>4 DEF Promised!Extends
<1>6. ASSUME NEW o \in DOMAIN authority(db') \ DOMAIN authority(db)
      PROVE  o \in DOMAIN outputs(db) /\ authority(db')[o] = outputs(db)[o].spendPkey
  <2>1. /\ o \in DOMAIN db'.output /\ db'.output[o].spentBy # Nil
        /\ o \notin DOMAIN db.output \ Unspent(db)
    BY DEF Unspent
  <2>2. PICK i \in DOMAIN NewBlock.transactions :
            /\ \E k \in 1 .. Len(NewBlock.transactions[i].txBody.inputs) :
                    Outpoint(NewBlock.transactions[i].txBody.inputs[k]) = o
            /\ MarkedBy(db', o, NewBlock.transactions[i])
    BY <1>1, <2>1, SaveMarksBySpender
  <2>3. o \in Unspent(db) /\ db.output[o].spendPkey = NewBlock.transactions[i].sig
    BY <1>1, <2>2, NewBlockSpendsUnspent, NewBlockSpendsOwn
  <2> QED BY <2>1, <2>2, <2>3 DEF Unspent, MarkedBy
<1> QED BY <1>3, <1>5, <1>6 DEF Promised!AppendBlock

\* What every validator does is what the ledger promises: outputs are never
\* changed, and each is spent at most once, in a later block, by its owner.
THEOREM LedgerImplemented == Spec => ImplementsLedger
<1>1. Init => Promised!Init
  BY DEF Init, EmptyDb, Promised!Init
<1>2. ASSUME IInv, [Next]_vars PROVE [Promised!Next]_(Promised!vars)
  <2>1. CASE Commit
    BY <1>2, <2>1, CommitAppends DEF Promised!Next
  <2>2. CASE RestartWithEmptyDb
    BY <2>2 DEF RestartWithEmptyDb, EmptyDb, Promised!Next, Promised!Forget
  <2>3. CASE db' = db
    BY <2>3 DEF Promised!vars
  <2>4. Commit \/ RestartWithEmptyDb \/ db' = db
    BY <1>2 DEF Next, vars, InitChain, BeginBlock, DeliverTx, CommitFails, CheckTx, Decide,
        Faucet, SendCoins, CreateVoting, SendVote, Submit, PeerReward, RestartKeepingDb,
        RestartTendermint
  <2> QED BY <2>1, <2>2, <2>3, <2>4
<1>3. IInv /\ [Next]_vars => [Promised!Next]_(Promised!vars)
  BY <1>2
<1> QED BY <1>1, <1>3, Inductive, PTL DEF Spec, ImplementsLedger, Promised!Spec

-----------------------------------------------------------------------------
(* What the executors hold stays good.                                     *)
(*                                                                         *)
(* The verdict on a body depends on the database alone, and the database   *)
(* changes only when both executors are emptied or new.                    *)

AllGood(d, ex) == \A i \in DOMAIN ex.transactions : BodyVerdict(d, ex.transactions[i]) = "CodeOk"

LEMMA NothingIsGood == ASSUME NEW d, NEW ex, ex.transactions = <<>> PROVE AllGood(d, ex)
<1>1. DOMAIN ex.transactions = {}
  OBVIOUS
<1> QED BY <1>1 DEF AllGood

\* An executor that holds good transactions holds good ones after AppendTx.
LEMMA AppendTxKeepsGood ==
    ASSUME NEW S, NEW ex \in Executors(S), NEW d, NEW tx \in S, NEW ignore, AllGood(d, ex)
    PROVE  AllGood(d, AppendTx(ex, d, tx, ignore))
<1> DEFINE after == AppendTx(ex, d, tx, ignore)
           old   == ex.transactions
<1>1. old \in Seq(S)
  BY DEF Executors
<1>2. CASE after.transactions = old
  BY <1>2 DEF AllGood
<1>3. CASE Accepts(ex, d, tx, ignore) /\ after.transactions = Append(old, tx)
  <2>1. BodyVerdict(d, tx) = "CodeOk"
    BY <1>3 DEF Accepts
  <2>2. DOMAIN old = 1 .. Len(old) /\ Len(old) \in Nat
    BY <1>1, LenProperties
  <2>3. /\ DOMAIN Append(old, tx) = 1 .. Len(old) + 1
        /\ Append(old, tx)[Len(old) + 1] = tx
        /\ \A i \in 1 .. Len(old) : Append(old, tx)[i] = old[i]
    BY <1>1, AppendProperties, LenProperties
  <2>4. ASSUME NEW i \in DOMAIN Append(old, tx)
        PROVE  BodyVerdict(d, Append(old, tx)[i]) = "CodeOk"
    <3>1. i \in DOMAIN old \/ i = Len(old) + 1
      BY <2>2, <2>3
    <3> QED BY <2>1, <2>2, <2>3, <3>1 DEF AllGood
  <2> DEFINE new == Append(old, tx)
  <2>5. \A i \in DOMAIN new : BodyVerdict(d, new[i]) = "CodeOk"
    BY <2>4
  <2>6. after.transactions = new
    BY <1>3
  <2> HIDE DEF new
  <2> QED BY <2>5, <2>6 DEF AllGood
<1> QED BY <1>2, <1>3, AppendTxType

\* The same at the two values of ignoreDuplicates.
LEMMA AppendTxCalls ==
    ASSUME NEW S, NEW ex \in Executors(S), NEW d, NEW tx \in S, AllGood(d, ex)
    PROVE  AllGood(d, AppendTx(ex, d, tx, TRUE)) /\ AllGood(d, AppendTx(ex, d, tx, FALSE))
<1> DEFINE yes == TRUE
           no  == FALSE
<1> HIDE DEF yes, no
<1>1. AllGood(d, AppendTx(ex, d, tx, yes)) /\ AllGood(d, AppendTx(ex, d, tx, no))
  BY AppendTxKeepsGood
<1> QED BY <1>1 DEF yes, no

BothGood == AllGood(db, checkTxState) /\ AllGood(db, deliverTxState)

LEMMA PendingIsBothGood == PendingIsValid <=> BothGood
BY DEF PendingIsValid, BothGood, AllGood

\* Every step keeps what the executors hold good.
LEMMA NextBothGood == ASSUME TypeOK, BothGood, [Next]_vars PROVE BothGood'
<1> USE DEF BothGood
<1>1. checkTxState \in Executors(sent) /\ deliverTxState \in Executors(sent)
  BY DEF TypeOK
<1>2. CASE BeginBlock
  <2>1. CurrentBlock.time \in Nat /\ CurrentBlock.proposer \in Validators
    BY <1>2, CurrentBlockType DEF BeginBlock, DecidedBlocks
  <2>2. deliverTxState'.transactions = deliverTxState.transactions
    BY <1>1, <1>2, <2>1, BeginBlockType DEF BeginBlock
  <2> QED BY <1>2, <2>2 DEF BeginBlock, AllGood
<1>3. CASE DeliverTx
  <2>1. CurrentBlock.txs[next] \in sent
    BY <1>3, CurrentTxType DEF DeliverTx, TypeOK
  <2>2. AllGood(db, AppendTx(deliverTxState, db, CurrentBlock.txs[next], FALSE))
    BY <1>1, <2>1, AppendTxCalls
  <2> QED BY <1>3, <2>2 DEF DeliverTx
<1>4. CASE CheckTx
  <2>1. PICK tx \in sent : checkTxState' = AppendTx(checkTxState, db, tx, TRUE)
    BY <1>4 DEF CheckTx
  <2>2. AllGood(db, AppendTx(checkTxState, db, tx, TRUE))
    BY <1>1, AppendTxCalls
  <2> QED BY <1>4, <2>1, <2>2 DEF CheckTx
<1>5. CASE Commit
  <2>1. checkTxState'.transactions = <<>> /\ deliverTxState'.transactions = <<>>
    BY <1>1, <1>5, ResetType DEF Commit
  <2> QED BY <2>1, NothingIsGood
<1>6. CASE RestartKeepingDb \/ RestartWithEmptyDb
  <2>1. checkTxState'.transactions = <<>> /\ deliverTxState'.transactions = <<>>
    BY <1>6 DEF RestartKeepingDb, RestartWithEmptyDb, Restart, NewTxExecutor
  <2> QED BY <2>1, NothingIsGood
<1>7. CASE UNCHANGED <<db, checkTxState, deliverTxState>>
  BY <1>7
<1>8. \/ BeginBlock \/ DeliverTx \/ CheckTx \/ Commit \/ RestartKeepingDb \/ RestartWithEmptyDb
      \/ UNCHANGED <<db, checkTxState, deliverTxState>>
  BY DEF Next, vars, app, InitChain, CommitFails, Decide, Faucet, SendCoins, CreateVoting,
      SendVote, Submit, PeerReward, RestartTendermint
<1> QED BY <1>2, <1>3, <1>4, <1>5, <1>6, <1>7, <1>8

\* A transaction that CheckTx or DeliverTx has accepted would be accepted again
\* by the database as it is now: nothing committed since makes it stale.
THEOREM PendingStaysValid == Spec => []PendingIsValid
<1>1. Init => BothGood
  <2> SUFFICES ASSUME Init PROVE BothGood
    OBVIOUS
  <2>1. checkTxState.transactions = <<>> /\ deliverTxState.transactions = <<>>
    BY DEF Init, NewTxExecutor
  <2> QED BY <2>1, NothingIsGood DEF BothGood
<1>2. TypeOK /\ BothGood /\ [Next]_vars => BothGood'
  BY NextBothGood
<1>3. Spec => []BothGood
  BY <1>1, <1>2, TypeCorrect, PTL DEF Spec
<1>4. BothGood => PendingIsValid
  BY PendingIsBothGood
<1> QED BY <1>3, <1>4, PTL

-----------------------------------------------------------------------------
(* Marks and inputs agree.                                                 *)

\* Only a commit and a start over an empty database change the database.
LEMMA DbSteps ==
    ASSUME [Next]_vars
    PROVE  Commit \/ RestartWithEmptyDb \/ db' = db
BY DEF Next, vars, InitChain, BeginBlock, DeliverTx, CommitFails, CheckTx, Decide,
    Faucet, SendCoins, CreateVoting, SendVote, Submit, PeerReward, RestartKeepingDb,
    RestartTendermint

\* No output is marked without an input that names it, and a marked output names
\* the last of the transactions that spend it, after any crash and any restart.
THEOREM MarksAgree == Spec => []MarksMatchInputs
<1>1. Init => MarksMatchInputs
  BY DEF Init, EmptyDb, MarksMatchInputs, MarkedByLast
<1>2. ASSUME IInv, MarksMatchInputs, [Next]_vars PROVE MarksMatchInputs'
  <2>1. CASE Commit
    <3>1. NewBlock.transactions \in Seq(sent)
      BY <1>2, NewBlockFields DEF IInv, TypeOK, Executors
    <3>2. /\ db' = SaveNextBlock(db, NewBlock) /\ CanSave(db, NewBlock)
          /\ ForeignKeys(db) /\ InputsAreMarked(db) /\ AcceptedAreSpendable
      BY <1>2, <2>1 DEF Commit, IInv, TypeOK
    <3>3. MarkedByLast(db')
      BY <1>2, <3>1, <3>2, NewBlockSpendsUnspent, SaveMarksByLast DEF MarksMatchInputs
    <3> QED BY <3>3 DEF MarksMatchInputs
  <2>2. CASE RestartWithEmptyDb
    BY <2>2 DEF RestartWithEmptyDb, EmptyDb, MarksMatchInputs, MarkedByLast
  <2>3. CASE db' = db
    BY <1>2, <2>3 DEF MarksMatchInputs
  <2> QED BY <1>2, <2>1, <2>2, <2>3, DbSteps
<1>3. IInv /\ MarksMatchInputs /\ [Next]_vars => MarksMatchInputs'
  BY <1>2
<1> QED BY <1>1, <1>3, Inductive, PTL DEF Spec

-----------------------------------------------------------------------------
(* Every input is its signer's to spend, for what it was spent on.         *)
(*                                                                         *)
(* What is stored is what the executor holds, which the database still     *)
(* accepts (PendingIsValid), and it is stored in a block above all others: *)
(* the blocks form one chain.                                              *)

\* What Commit stores is what the database accepts.
LEMMA NewBlockIsGood ==
    ASSUME BothGood
    PROVE  \A i \in DOMAIN NewBlock.transactions :
                BodyVerdict(db, NewBlock.transactions[i]) = "CodeOk"
BY NewBlockFields DEF BothGood, AllGood

ChainInv == IInv /\ BothGood /\ OneChain(db)

LEMMA ChainInductive == Spec => []ChainInv
<1>1. Init => BothGood /\ OneChain(db)
  <2> SUFFICES ASSUME Init PROVE BothGood /\ OneChain(db)
    OBVIOUS
  <2>1. checkTxState.transactions = <<>> /\ deliverTxState.transactions = <<>>
    BY DEF Init, NewTxExecutor
  <2>2. OneChain(db)
    BY DEF Init, EmptyDb, OneChain
  <2> QED BY <2>1, <2>2, NothingIsGood DEF BothGood
<1>2. ASSUME IInv, BothGood, OneChain(db), [Next]_vars PROVE BothGood' /\ OneChain(db')
  <2>1. BothGood'
    BY <1>2, NextBothGood DEF IInv
  <2>2. CASE Commit
    <3>1. ForeignKeys(db) /\ CanSave(db, NewBlock) /\ db' = SaveNextBlock(db, NewBlock)
      BY <1>2, <2>2 DEF IInv, TypeOK, Commit
    <3> QED BY <1>2, <2>1, <3>1, SaveKeepsOneChain
  <2>3. CASE RestartWithEmptyDb
    BY <2>1, <2>3 DEF RestartWithEmptyDb, EmptyDb, OneChain
  <2>4. CASE db' = db
    BY <1>2, <2>1, <2>4
  <2> QED BY <1>2, <2>2, <2>3, <2>4, DbSteps
<1>3. IInv /\ BothGood /\ OneChain(db) /\ [Next]_vars => BothGood' /\ OneChain(db)'
  BY <1>2
<1> QED BY <1>1, <1>3, Inductive, PTL DEF Spec, ChainInv

\* A stored input names an output of an earlier block that belongs to the key
\* that signed, and keeps its value type: votes stay votes of their voting, and
\* a voting is paid for with coins.
THEOREM InputsBelongToSigners == Spec => []InputsAreLegitimate
<1>1. Init => InputsAreLegitimate
  BY DEF Init, EmptyDb, InputsAreLegitimate, SpentByOwners
<1>2. ASSUME ChainInv, InputsAreLegitimate, [Next]_vars PROVE InputsAreLegitimate'
  <2>1. CASE Commit
    <3> DEFINE txs == NewBlock.transactions
    <3>1. /\ db' = SaveNextBlock(db, NewBlock) /\ CanSave(db, NewBlock)
          /\ ForeignKeys(db) /\ OneChain(db) /\ SpentByOwners(db) /\ BothGood
      BY <1>2, <2>1 DEF ChainInv, Commit, IInv, TypeOK, InputsAreLegitimate
    <3>2. ASSUME NEW i \in DOMAIN txs, NEW k \in 1 .. Len(txs[i].txBody.inputs)
          PROVE  /\ Outpoint(txs[i].txBody.inputs[k]) \in Unspent(db)
                 /\ db.output[Outpoint(txs[i].txBody.inputs[k])].spendPkey = txs[i].sig
                 /\ ValueTypeOf(db, Outpoint(txs[i].txBody.inputs[k])[1]) =
                        IF txs[i].txBody.voteType = 0 THEN txs[i].txBody.valueType ELSE Nil
      <4>1. BodyVerdict(db, txs[i]) = "CodeOk"
        BY <3>1, NewBlockIsGood
      <4> QED BY <4>1, AcceptedSpendsUnspent, AcceptedSpendsOwn, AcceptedKeepsType
    <3>3. SpentByOwners(db')
      BY <3>1, <3>2, SaveKeepsSpentByOwners
    <3> QED BY <3>3 DEF InputsAreLegitimate
  <2>2. CASE RestartWithEmptyDb
    BY <2>2 DEF RestartWithEmptyDb, EmptyDb, InputsAreLegitimate, SpentByOwners
  <2>3. CASE db' = db
    BY <1>2, <2>3 DEF InputsAreLegitimate
  <2> QED BY <1>2, <2>1, <2>2, <2>3, DbSteps
<1>3. ChainInv /\ InputsAreLegitimate /\ [Next]_vars => InputsAreLegitimate'
  BY <1>2
<1> QED BY <1>1, <1>3, ChainInductive, PTL DEF Spec

-----------------------------------------------------------------------------
(* A block is rewarded once.                                               *)
(*                                                                         *)
(* AppendTx looks for an earlier reward among the stored transactions      *)
(* only.  Two rewards of one block that it accepts for the same new block  *)
(* have the same signature, the proposer's; submitted rewards are made by  *)
(* CreateMiningReward, so they are the same transaction, and the unique    *)
(* hash of the table refuses to store it twice.                            *)

\* The rewards submitted are those that CreateMiningReward makes.
HonestRewards(S) ==
    \A tx \in S : IsCoinbase(tx.txBody) =>
        tx = CreateMiningReward(tx.sig, tx.txBody.hashLink)

\* So those that the database accepts for one block are one transaction.
LEMMA HonestRewardsDiffer ==
    ASSUME NEW d, NEW S, HonestRewards(S), NEW txs \in Seq(S),
           \A i \in DOMAIN txs : BodyVerdict(d, txs[i]) = "CodeOk"
    PROVE  RewardsDiffer(txs)
<1>1. ASSUME NEW i \in DOMAIN txs, IsCoinbase(txs[i].txBody)
      PROVE  /\ txs[i] = CreateMiningReward(txs[i].sig, txs[i].txBody.hashLink)
             /\ txs[i].sig = d.block[txs[i].txBody.hashLink].proposerPkey
  <2>1. txs[i] \in S
    BY LenProperties, ElementOfSeq
  <2> QED BY <1>1, <2>1, AcceptedReward DEF HonestRewards, FirstReward
<1> QED BY <1>1 DEF RewardsDiffer

\* Transactions that CreateTx makes are no rewards: their hashLink is empty.
LEMMA CreatedHasNoLink ==
    ASSUME NEW utxos, NEW outputs, NEW valueType, NEW key, NEW voteType, NEW duration
    PROVE  ~ IsCoinbase(CreateTx(utxos, outputs, valueType, key, voteType, duration).txBody)
BY DEF CreateTx, Sign, TxBody, IsCoinbase

LEMMA WalletTxsAreNoRewards ==
    \A d, v, voteType :
        \A tx \in FaucetTxs(d, v) \cup SendTxs(d) \cup CreateVoteTxs(d, voteType) \cup SendVoteTxs(d) :
            ~ IsCoinbase(tx.txBody)
<1> TAKE d, v, voteType
<1>1. \A key, outputs, valueType, vote, duration :
        \A tx \in Created(d, key, outputs, valueType, vote, duration) : ~ IsCoinbase(tx.txBody)
  BY CreatedHasNoLink DEF Created
<1>2. ASSUME NEW tx \in FaucetTxs(d, v) PROVE ~ IsCoinbase(tx.txBody)
  <2>1. PICK amount \in Amounts \ {0}, payee \in Payees :
            tx \in Created(d, v, <<Output(amount, payee)>>, Nil, 0, 0)
    BY DEF FaucetTxs
  <2> QED BY <1>1, <2>1
<1>3. ASSUME NEW tx \in SendTxs(d) PROVE ~ IsCoinbase(tx.txBody)
  <2>1. PICK user \in Users, amount \in Amounts, payee \in Payees :
            tx \in Created(d, user, <<Output(amount, payee)>>, Nil, 0, 0)
    BY DEF SendTxs
  <2> QED BY <1>1, <2>1
<1>4. ASSUME NEW tx \in CreateVoteTxs(d, voteType) PROVE ~ IsCoinbase(tx.txBody)
  BY <1>1 DEF CreateVoteTxs
<1>5. ASSUME NEW tx \in SendVoteTxs(d) PROVE ~ IsCoinbase(tx.txBody)
  <2>1. PICK user \in Users, amount \in Amounts, payee \in Payees :
            \E utxo \in GetUTXOSByPkey(d, user) :
                tx \in Created(d, user, <<Output(amount, payee)>>, utxo.valueType, 0, 0)
    BY DEF SendVoteTxs
  <2> QED BY <1>1, <2>1
<1> QED BY <1>2, <1>3, <1>4, <1>5

LEMMA RewardIsHonest ==
    ASSUME NEW v, NEW h
    PROVE  CreateMiningReward(v, h) =
                CreateMiningReward(CreateMiningReward(v, h).sig,
                                   CreateMiningReward(v, h).txBody.hashLink)
BY DEF CreateMiningReward, Sign, TxBody

\* Every step submits honest rewards.
LEMMA NextHonestRewards == ASSUME HonestRewards(sent), [Next]_vars PROVE HonestRewards(sent')
<1>1. CASE Commit \/ CommitFails
  <2>1. sent' = sent \cup RewardForMe(NewBlock)
    BY <1>1 DEF Commit, CommitFails
  <2> QED BY <2>1, RewardIsHonest DEF RewardForMe, HonestRewards
<1>2. CASE Faucet \/ SendCoins \/ CreateVoting \/ SendVote
  <2>1. PICK tx : ~ IsCoinbase(tx.txBody) /\ sent' = sent \cup {tx}
    BY <1>2, WalletTxsAreNoRewards DEF Faucet, SendCoins, CreateVoting, SendVote, Submit
  <2> QED BY <2>1 DEF HonestRewards
<1>3. CASE PeerReward
  BY <1>3, RewardIsHonest DEF PeerReward, HonestRewards
<1>4. CASE sent' = sent
  BY <1>4
<1> QED BY <1>1, <1>2, <1>3, <1>4 DEF Next, vars, InitChain, BeginBlock, DeliverTx, CheckTx,
    Decide, RestartKeepingDb, RestartWithEmptyDb, Restart, RestartTendermint

\* A block has at most one reward in the database, its proposer's and in a later
\* block, although every execution of the chain and every validator broadcasts
\* its rewards again.
THEOREM BlockIsRewardedOnce == Spec => []OneRewardPerBlock
<1>1. Init => HonestRewards(sent) /\ OneRewardPerBlock
  BY DEF Init, EmptyDb, OneRewardPerBlock, RewardedOnce, RewardTxs, HonestRewards
<1>2. ASSUME ChainInv, HonestRewards(sent), OneRewardPerBlock, [Next]_vars
      PROVE  HonestRewards(sent') /\ OneRewardPerBlock'
  <2>1. HonestRewards(sent')
    BY <1>2, NextHonestRewards
  <2>2. CASE Commit
    <3>1. NewBlock.transactions \in Seq(sent)
      BY <1>2, NewBlockFields DEF ChainInv, IInv, TypeOK, Executors
    <3>2. /\ db' = SaveNextBlock(db, NewBlock) /\ CanSave(db, NewBlock)
          /\ ForeignKeys(db) /\ OneChain(db) /\ RewardedOnce(db) /\ BothGood
      BY <1>2, <2>2 DEF ChainInv, Commit, IInv, TypeOK, OneRewardPerBlock
    <3>3. RewardedOnce(db')
      <4>1. RewardsDiffer(NewBlock.transactions)
        BY <1>2, <3>1, <3>2, NewBlockIsGood, HonestRewardsDiffer
      <4> QED BY <3>2, <4>1, NewBlockIsGood, AcceptedReward, SaveKeepsRewardedOnce
    <3> QED BY <2>1, <3>3 DEF OneRewardPerBlock
  <2>3. CASE RestartWithEmptyDb
    BY <2>1, <2>3 DEF RestartWithEmptyDb, EmptyDb, OneRewardPerBlock, RewardedOnce,
       RewardTxs
  <2>4. CASE db' = db
    BY <1>2, <2>1, <2>4 DEF OneRewardPerBlock
  <2> QED BY <1>2, <2>2, <2>3, <2>4, DbSteps
<1>3. ChainInv /\ HonestRewards(sent) /\ OneRewardPerBlock /\ [Next]_vars
            => HonestRewards(sent)' /\ OneRewardPerBlock'
  BY <1>2
<1> QED BY <1>1, <1>3, ChainInductive, PTL DEF Spec

-----------------------------------------------------------------------------
(* What a key's history leaves out.                                        *)

\* A marked output of a key leads the query of its history to the spender that
\* the mark names.
LEMMA MarkIsInHistory ==
    ASSUME NEW d, NEW o \in DOMAIN d.output, d.output[o].spentBy # Nil,
           d.output[o].spentBy \in DOMAIN d.transaction
    PROVE  ReadTx(d, d.output[o].spentBy) \in GetTxsByPubKey(d, d.output[o].spendPkey)
<1>1. d.output[o].spentBy \in TxsOfPubKey(d, d.output[o].spendPkey)
  BY DEF TxsOfPubKey
<1> QED BY <1>1 DEF GetTxsByPubKey, GetTxsByHashes

\* The history of a key holds every transaction that spent something of it, or
\* else one that spent each of these outputs again, later in the same block: the
\* last spender of an output has its mark (MarksMatchInputs), all its spenders
\* are in one block (NoCrossBlockDoubleSpend), and the output belongs to their
\* signer (InputsAreLegitimate).
THEOREM HistoryMissesOnlyOvertaken == Spec => []HistoryIsComplete
<1>1. ASSUME IInv, MarksMatchInputs, InputsAreLegitimate
      PROVE  HistoryIsComplete
  <2> SUFFICES ASSUME NEW h \in DOMAIN db.transaction,
                      ReadTx(db, h) \notin GetTxsByPubKey(db, db.transaction[h].sig),
                      NEW r \in db.input, r.tx = h
               PROVE  \E row \in RowsOn(db, SpentOutput(r)) :
                        /\ StoredAfter(db, row.tx, h) /\ BlockOf(db, row.tx) = BlockOf(db, h)
                        /\ ReadTx(db, row.tx) \in GetTxsByPubKey(db, db.transaction[h].sig)
    BY DEF HistoryIsComplete
  <2> DEFINE o == SpentOutput(r)
             mark == db.output[o].spentBy
  <2>1. o \in DOMAIN db.output /\ mark # Nil
    BY <1>1 DEF IInv, InputsAreMarked, Unspent
  <2>2. r \in RowsOn(db, o)
    BY DEF RowsOn
  <2>3. /\ mark \in {row.tx : row \in RowsOn(db, o)}
        /\ h = mark \/ StoredAfter(db, mark, h)
    BY <1>1, <2>1, <2>2 DEF MarksMatchInputs, MarkedByLast
  <2>4. PICK row \in RowsOn(db, o) : row.tx = mark
    BY <2>3
  <2>5. db.output[o].spendPkey = db.transaction[h].sig
    BY <1>1 DEF InputsAreLegitimate, SpentByOwners
  <2>6. mark \in DOMAIN db.transaction
    BY <1>1, <2>1 DEF IInv, TypeOK, ForeignKeys
  <2>7. ReadTx(db, mark) \in GetTxsByPubKey(db, db.transaction[h].sig)
    BY <2>1, <2>5, <2>6, MarkIsInHistory
  <2>8. BlockOf(db, mark) = BlockOf(db, h)
    BY <1>1, <2>4 DEF IInv, NoCrossBlockDoubleSpend, SpentInOneBlock, RowsOn, BlockOf
  <2> QED BY <2>3, <2>4, <2>7, <2>8
<1>2. IInv /\ MarksMatchInputs /\ InputsAreLegitimate => HistoryIsComplete
  BY <1>1
<1> QED BY <1>2, Inductive, MarksAgree, InputsBelongToSigners, PTL

-----------------------------------------------------------------------------
(* Every stored transaction balances.                                      *)

RowValue(d) == [row \in d.input |-> d.output[SpentOutput(row)].value]

RowsOf(d, h) == {row \in d.input : row.tx = h}

Balanced(d) ==
    \A h \in DOMAIN d.transaction :
        SumOf(ValuesOf(d), OutputsOf(d, h)) % U32
            = (MintedBy(d.transaction[h].txBody) + SumOf(RowValue(d), RowsOf(d, h))) % U32

BooksInv(d) == FiniteTables(d) /\ ValuesAreInts(d) /\ Balanced(d)

\* The input rows of a new transaction are worth what it takes.
LEMMA NewInputsSum ==
    ASSUME NEW d, NEW b, ForeignKeys(d), ValuesAreInts(d), GoodBlock(d, b),
           NEW i \in DOMAIN b.transactions
    PROVE  LET e == SaveNextBlock(d, b)
               tx == b.transactions[i]
           IN SumOf(RowValue(e), RowsOf(e, tx.hash))
                = SumOf(InValues(d, tx.txBody), 1 .. Len(tx.txBody.inputs))
<1> DEFINE txs == b.transactions
           tx == txs[i]
           h == tx.hash
           n == Len(tx.txBody.inputs)
           e == SaveNextBlock(d, b)
           A == 1 .. n
           B == RowsOf(e, h)
           f == InRow(tx)
           g == InValues(d, tx.txBody)
<1>1. n \in Nat /\ IsFiniteSet(A) /\ IntOn(g, A)
  BY AcceptedBalances, FiniteIndexes DEF GoodBlock, ProperTx, IsList
<1>2. \A j \in DOMAIN txs : \A k \in 1 .. Len(txs[j].txBody.inputs) :
            Outpoint(txs[j].txBody.inputs[k]) \in Unspent(d)
  BY AcceptedSpendsUnspent DEF GoodBlock
<1>3. e.input = d.input \cup
        UNION {{InRow(txs[j])[k] : k \in 1 .. Len(txs[j].txBody.inputs)} : j \in DOMAIN txs}
  <2>1. InputRows(d, txs) =
        UNION {{InRow(txs[j])[k] : k \in 1 .. Len(txs[j].txBody.inputs)} : j \in DOMAIN txs}
    BY <1>2, RowsAre
  <2>2. e.input = d.input \cup InputRows(d, txs)
    BY DEF SaveNextBlock
  <2> QED BY <2>1, <2>2
<1>4. ASSUME NEW k \in A
      PROVE  /\ f[k].tx = h /\ f[k].index = k - 1
             /\ f[k] \in B /\ g[k] = RowValue(e)[f[k]]
  <2>1. /\ f[k].tx = h /\ f[k].index = k - 1
        /\ SpentOutput(f[k]) = Outpoint(tx.txBody.inputs[k])
    BY DEF InRow, SpentOutput, Outpoint
  <2>2. f[k] \in e.input
    BY <1>3
  <2>3. /\ Outpoint(tx.txBody.inputs[k]) \in DOMAIN d.output
        /\ e.output[Outpoint(tx.txBody.inputs[k])].value
                = d.output[Outpoint(tx.txBody.inputs[k])].value
    BY <1>2, SaveKeepsOutputs DEF Unspent
  <2> HIDE DEF f, e
  <2> QED BY <2>1, <2>2, <2>3 DEF RowsOf, RowValue, InValues
<1>5. ASSUME NEW row \in B PROVE \E k \in A : f[k] = row
  <2>1. row \in e.input /\ row.tx = h /\ h \notin DOMAIN d.transaction
    BY DEF RowsOf, GoodBlock, TxsAreNew
  <2>2. row \notin d.input
    BY <2>1 DEF ForeignKeys
  <2>3. PICK j \in DOMAIN txs : \E k \in 1 .. Len(txs[j].txBody.inputs) : row = InRow(txs[j])[k]
    BY <1>3, <2>1, <2>2
  <2>4. txs[j].hash = h
    <3>1. PICK k \in 1 .. Len(txs[j].txBody.inputs) : row = InRow(txs[j])[k]
      BY <2>3
    <3>2. InRow(txs[j])[k].tx = txs[j].hash
      BY DEF InRow
    <3> QED BY <2>1, <3>1, <3>2
  <2>5. j = i
    BY <2>4 DEF GoodBlock, TxsAreNew
  <2> QED BY <2>3, <2>5
<1>6. ASSUME NEW k \in A, NEW l \in A, f[k] = f[l] PROVE k = l
  <2>1. k - 1 = l - 1 /\ k \in Nat /\ l \in Nat
    BY <1>1, <1>4, <1>6
  <2> QED BY <2>1
<1>7. IntOn(RowValue(e), B) /\ IsFiniteSet(B)
  <2>1. B = {f[k] : k \in A}
    BY <1>4, <1>5
  <2>2. IsFiniteSet({f[k] : k \in A})
    BY <1>1, FiniteImage
  <2>3. \A row \in B : RowValue(e)[row] \in Int
    <3> SUFFICES ASSUME NEW row \in B PROVE RowValue(e)[row] \in Int
      OBVIOUS
    <3>1. PICK k \in A : f[k] = row
      BY <1>5
    <3>2. g[k] \in Int
      BY <1>1 DEF IntOn
    <3> QED BY <1>4, <3>1, <3>2
  <2> QED BY <2>1, <2>2, <2>3 DEF IntOn
<1> HIDE DEF A, B, f, g, e
<1>8. SumOf(g, A) = SumOf(RowValue(e), B)
  <2>1. \A k \in A : f[k] \in B /\ g[k] = RowValue(e)[f[k]]
    BY <1>4
  <2>2. \A row \in B : \E k \in A : f[k] = row
    BY <1>5
  <2>3. \A k \in A : \A l \in A : f[k] = f[l] => k = l
    BY <1>6
  <2> QED BY <1>1, <1>7, <2>1, <2>2, <2>3, SumOfImages
<1> QED BY <1>8 DEF A, B, g, e

\* The sums of an old transaction are what they were.
LEMMA OldSums ==
    ASSUME NEW d, NEW b, ForeignKeys(d), InputsAreMarked(d), FiniteTables(d), ValuesAreInts(d),
           GoodBlock(d, b), NEW h \in DOMAIN d.transaction
    PROVE  LET e == SaveNextBlock(d, b)
           IN /\ SumOf(ValuesOf(e), OutputsOf(e, h)) = SumOf(ValuesOf(d), OutputsOf(d, h))
              /\ SumOf(RowValue(e), RowsOf(e, h)) = SumOf(RowValue(d), RowsOf(d, h))
<1> DEFINE txs == b.transactions
           e == SaveNextBlock(d, b)
<1>1. \A i \in DOMAIN txs :
        /\ txs[i].hash # h
        /\ \A k \in 1 .. Len(txs[i].txBody.inputs) :
                Outpoint(txs[i].txBody.inputs[k]) \in Unspent(d)
  BY AcceptedSpendsUnspent DEF GoodBlock, TxsAreNew
<1>2. /\ d.input \subseteq e.input
      /\ \A o \in DOMAIN d.output : o \in DOMAIN e.output /\ e.output[o].value = d.output[o].value
  BY <1>1, SaveKeepsOutputs
<1>3. OutputsOf(e, h) = OutputsOf(d, h)
  <2>1. ASSUME NEW o \in DOMAIN e.output, o[1] = h PROVE o \in DOMAIN d.output
    <3>1. o \in DOMAIN d.output \/ \E i \in DOMAIN txs : o \in OutpointsOf(txs[i])
      BY DEF SaveNextBlock, SavedOutputs
    <3>2. \A i \in DOMAIN txs : o \in OutpointsOf(txs[i]) => o[1] = txs[i].hash
      BY DEF OutpointsOf
    <3> QED BY <1>1, <2>1, <3>1, <3>2
  <2> QED BY <1>2, <2>1 DEF OutputsOf
<1>4. RowsOf(e, h) = RowsOf(d, h)
  <2>1. ASSUME NEW row \in e.input, row.tx = h PROVE row \in d.input
    <3>1. row \in d.input \/ row \in InputRows(d, txs)
      BY DEF SaveNextBlock
    <3>2. row \in InputRows(d, txs) => \E i \in DOMAIN txs : row.tx = txs[i].hash
      BY NewRow
    <3> QED BY <1>1, <2>1, <3>1, <3>2
  <2> QED BY <1>2, <2>1 DEF RowsOf
<1>5. SumOf(ValuesOf(d), OutputsOf(d, h)) = SumOf(ValuesOf(e), OutputsOf(d, h))
  <2>1. OutputsOf(d, h) \in SUBSET DOMAIN d.output /\ IsFiniteSet(OutputsOf(d, h))
    BY FS_Subset DEF OutputsOf, FiniteTables
  <2>2. IntOn(ValuesOf(d), OutputsOf(d, h))
    BY <2>1 DEF IntOn, ValuesOf, ValuesAreInts
  <2>3. \A o \in OutputsOf(d, h) : ValuesOf(d)[o] = ValuesOf(e)[o]
    BY <1>2, <2>1 DEF ValuesOf
  <2> QED BY <2>1, <2>2, <2>3, SumCongruence
<1>6. SumOf(RowValue(d), RowsOf(d, h)) = SumOf(RowValue(e), RowsOf(d, h))
  <2>1. RowsOf(d, h) \in SUBSET d.input /\ IsFiniteSet(RowsOf(d, h))
    BY FS_Subset DEF RowsOf, FiniteTables
  <2>2. \A row \in RowsOf(d, h) : SpentOutput(row) \in DOMAIN d.output
    BY <2>1 DEF InputsAreMarked, Unspent
  <2>3. IntOn(RowValue(d), RowsOf(d, h))
    BY <2>1, <2>2 DEF IntOn, RowValue, ValuesAreInts
  <2>4. \A row \in RowsOf(d, h) : RowValue(d)[row] = RowValue(e)[row]
    BY <1>2, <2>1, <2>2 DEF RowValue
  <2> QED BY <2>1, <2>3, <2>4, SumCongruence
<1> QED BY <1>3, <1>4, <1>5, <1>6

\* SaveNextBlock keeps the books in order: a block of accepted transactions
\* stores transactions that balance, and leaves the others as they are.
THEOREM SaveKeepsBooks ==
    ASSUME NEW d, NEW b, NEW T, b.transactions \in Seq(T), ForeignKeys(d), InputsAreMarked(d),
           BooksInv(d), CanSave(d, b),
           \A i \in DOMAIN b.transactions :
                ProperTx(b.transactions[i]) /\ BodyVerdict(d, b.transactions[i]) = "CodeOk"
    PROVE  BooksInv(SaveNextBlock(d, b))
<1> DEFINE txs == b.transactions
           e == SaveNextBlock(d, b)
<1>1. GoodBlock(d, b)
  BY LenProperties DEF GoodBlock, CanSave
<1>2. FiniteTables(d) /\ ValuesAreInts(d) /\ Balanced(d)
  BY DEF BooksInv
<1>3. FiniteTables(e) /\ ValuesAreInts(e)
  <2>1. \A i \in DOMAIN txs :
            /\ ProperTx(txs[i])
            /\ \A k \in 1 .. Len(txs[i].txBody.inputs) :
                    Outpoint(txs[i].txBody.inputs[k]) \in Unspent(d)
    BY AcceptedSpendsUnspent
  <2> QED BY <1>1, <1>2, <2>1, SaveKeepsFinite, SaveKeepsInts
<1>4. ASSUME NEW h \in DOMAIN e.transaction
      PROVE  SumOf(ValuesOf(e), OutputsOf(e, h)) % U32
                = (MintedBy(e.transaction[h].txBody) + SumOf(RowValue(e), RowsOf(e, h))) % U32
  <2>1. CASE h \in DOMAIN d.transaction
    <3>1. e.transaction[h] = d.transaction[h]
      BY <2>1, SaveKeepsTransactions
    <3>2. /\ SumOf(ValuesOf(e), OutputsOf(e, h)) = SumOf(ValuesOf(d), OutputsOf(d, h))
          /\ SumOf(RowValue(e), RowsOf(e, h)) = SumOf(RowValue(d), RowsOf(d, h))
      BY <1>1, <1>2, <2>1, OldSums
    <3> QED BY <1>2, <2>1, <3>1, <3>2 DEF Balanced
  <2>2. CASE h \notin DOMAIN d.transaction
    <3>1. PICK i \in DOMAIN txs : h = txs[i].hash
      BY <2>2 DEF SaveNextBlock, SavedTransactions
    <3>2. e.transaction[h] = [block |-> b.hash, index |-> i - 1,
                              txBody |-> txs[i].txBody, sig |-> txs[i].sig]
      BY <3>1, StoredAtIndex DEF CanSave
    <3>3. e.transaction[h].txBody = txs[i].txBody
      BY <3>2
    <3>4. /\ SumOf(ValuesOf(e), OutputsOf(e, h))
                = SumOf(OutValues(txs[i].txBody), 1 .. Len(txs[i].txBody.outputs))
          /\ SumOf(RowValue(e), RowsOf(e, h))
                = SumOf(InValues(d, txs[i].txBody), 1 .. Len(txs[i].txBody.inputs))
      BY <1>1, <1>2, <3>1, NewOutputsSum, NewInputsSum
    <3>5. SumOf(OutValues(txs[i].txBody), 1 .. Len(txs[i].txBody.outputs)) % U32
            = (MintedBy(txs[i].txBody)
                + SumOf(InValues(d, txs[i].txBody), 1 .. Len(txs[i].txBody.inputs))) % U32
      BY <1>2, AcceptedBalances
    <3> QED BY <3>3, <3>4, <3>5
  <2> QED BY <2>1, <2>2
<1> QED BY <1>3, <1>4 DEF BooksInv, Balanced

-----------------------------------------------------------------------------
(* The sum over all transactions.                                          *)

GivenBy(d) == [h \in DOMAIN d.transaction |-> SumOf(ValuesOf(d), OutputsOf(d, h))]

TakenBy(d) == [h \in DOMAIN d.transaction |-> SumOf(RowValue(d), RowsOf(d, h))]

MintedIn(d) == [h \in DOMAIN d.transaction |-> MintedBy(d.transaction[h].txBody)]

Rewards(d) == {h \in DOMAIN d.transaction : IsCoinbase(d.transaction[h].txBody)}

\* Tables that are finite, refer to rows that are there and hold integers.
GoodTables(d) ==
    FiniteTables(d) /\ ValuesAreInts(d) /\ ForeignKeys(d) /\ InputsAreMarked(d)

LEMMA TableValues ==
    ASSUME NEW d, GoodTables(d)
    PROVE  /\ IntOn(ValuesOf(d), DOMAIN d.output)
           /\ \A row \in d.input : SpentOutput(row) \in DOMAIN d.output
           /\ IntOn(RowValue(d), d.input)
<1>1. \A row \in d.input : SpentOutput(row) \in DOMAIN d.output
  BY DEF GoodTables, InputsAreMarked, Unspent
<1> QED BY <1>1 DEF GoodTables, IntOn, ValuesOf, RowValue, ValuesAreInts

\* The outputs, by the transaction that has them.
LEMMA OutputsByTransaction ==
    ASSUME NEW d, GoodTables(d)
    PROVE  /\ SumOf(ValuesOf(d), DOMAIN d.output) = SumOf(GivenBy(d), DOMAIN d.transaction)
           /\ IntOn(GivenBy(d), DOMAIN d.transaction)
           /\ \A T \in SUBSET DOMAIN d.transaction :
                SumOf(ValuesOf(d), {o \in DOMAIN d.output : o[1] \in T}) = SumOf(GivenBy(d), T)
<1> DEFINE A == DOMAIN d.output
           B == DOMAIN d.transaction
           f == [o \in A |-> o[1]]
<1>1. IsFiniteSet(A) /\ IsFiniteSet(B) /\ IntOn(ValuesOf(d), A) /\ \A o \in A : f[o] \in B
  BY TableValues DEF GoodTables, FiniteTables, ForeignKeys
<1>2. \A h \in B : OutputsOf(d, h) = Fiber(f, A, h)
  BY DEF OutputsOf, Fiber
<1>3. \A h \in B : GivenBy(d)[h] = SumOf(ValuesOf(d), Fiber(f, A, h))
  BY <1>2 DEF GivenBy
<1>4. IntOn(GivenBy(d), B)
  <2> SUFFICES ASSUME NEW h \in B PROVE GivenBy(d)[h] \in Int
    BY DEF IntOn
  <2>1. Fiber(f, A, h) \in SUBSET A
    BY DEF Fiber
  <2>2. IsFiniteSet(Fiber(f, A, h)) /\ IntOn(ValuesOf(d), Fiber(f, A, h))
    BY <1>1, <2>1, FS_Subset DEF IntOn
  <2> QED BY <1>3, <2>2, SumInt
<1>5. \A T \in SUBSET B : {o \in A : f[o] \in T} = {o \in A : o[1] \in T}
  OBVIOUS
<1> HIDE DEF A, B, f
<1>6. /\ SumOf(ValuesOf(d), A) = SumOf(GivenBy(d), B)
      /\ \A T \in SUBSET B : SumOf(ValuesOf(d), {o \in A : f[o] \in T}) = SumOf(GivenBy(d), T)
  BY <1>1, <1>3, SumByFibers
<1> QED BY <1>4, <1>5, <1>6 DEF A, B

\* The input rows, by the transaction that has them.
LEMMA InputsByTransaction ==
    ASSUME NEW d, GoodTables(d)
    PROVE  /\ SumOf(RowValue(d), d.input) = SumOf(TakenBy(d), DOMAIN d.transaction)
           /\ IntOn(TakenBy(d), DOMAIN d.transaction)
           /\ \A T \in SUBSET DOMAIN d.transaction :
                SumOf(RowValue(d), {row \in d.input : row.tx \in T}) = SumOf(TakenBy(d), T)
<1> DEFINE A == d.input
           B == DOMAIN d.transaction
           f == [row \in A |-> row.tx]
<1>1. IsFiniteSet(A) /\ IsFiniteSet(B) /\ IntOn(RowValue(d), A) /\ \A row \in A : f[row] \in B
  BY TableValues DEF GoodTables, FiniteTables, ForeignKeys
<1>2. \A h \in B : RowsOf(d, h) = Fiber(f, A, h)
  BY DEF RowsOf, Fiber
<1>3. \A h \in B : TakenBy(d)[h] = SumOf(RowValue(d), Fiber(f, A, h))
  BY <1>2 DEF TakenBy
<1>4. IntOn(TakenBy(d), B)
  <2> SUFFICES ASSUME NEW h \in B PROVE TakenBy(d)[h] \in Int
    BY DEF IntOn
  <2>1. Fiber(f, A, h) \in SUBSET A
    BY DEF Fiber
  <2>2. IsFiniteSet(Fiber(f, A, h)) /\ IntOn(RowValue(d), Fiber(f, A, h))
    BY <1>1, <2>1, FS_Subset DEF IntOn
  <2> QED BY <1>3, <2>2, SumInt
<1>5. \A T \in SUBSET B : {row \in A : f[row] \in T} = {row \in A : row.tx \in T}
  OBVIOUS
<1> HIDE DEF A, B, f
<1>6. /\ SumOf(RowValue(d), A) = SumOf(TakenBy(d), B)
      /\ \A T \in SUBSET B : SumOf(RowValue(d), {row \in A : f[row] \in T}) = SumOf(TakenBy(d), T)
  BY <1>1, <1>3, SumByFibers
<1> QED BY <1>4, <1>5, <1>6 DEF A, B

\* The rewards mint RewardCoins each, and nothing else does.
LEMMA MintedByRewards ==
    ASSUME NEW d, IsFiniteSet(DOMAIN d.transaction)
    PROVE  /\ SumOf(MintedIn(d), DOMAIN d.transaction) = RewardCoins * Cardinality(Rewards(d))
           /\ IntOn(MintedIn(d), DOMAIN d.transaction)
           /\ Cardinality(Rewards(d)) \in Nat
<1> DEFINE A == Rewards(d)
           B == DOMAIN d.transaction \ A
           g == MintedIn(d)
<1>1. A \in SUBSET DOMAIN d.transaction /\ B \in SUBSET DOMAIN d.transaction
      /\ A \cap B = {} /\ A \cup B = DOMAIN d.transaction
  BY DEF Rewards
<1>2. IsFiniteSet(A) /\ IsFiniteSet(B)
  BY <1>1, FS_Subset
<1>3. RewardCoins \in Int /\ 0 \in Int
  BY RewardAssumption
<1>4. (\A h \in A : g[h] = RewardCoins) /\ (\A h \in B : g[h] = 0)
  BY DEF Rewards, MintedIn, MintedBy
<1>5. IntOn(g, A \cup B)
  BY <1>3, <1>4 DEF IntOn
<1>6. Cardinality(A) \in Nat /\ Cardinality(B) \in Nat
  BY <1>2, FS_CardinalityType
<1> HIDE DEF A, B, g
<1>7. SumOf(g, A) = RewardCoins * Cardinality(A)
  BY <1>2, <1>3, <1>4, SumConstant
<1>8. SumOf(g, B) = 0
  <2>1. SumOf(g, B) = 0 * Cardinality(B)
    BY <1>2, <1>3, <1>4, SumConstant
  <2> QED BY <1>6, <2>1
<1>9. SumOf(g, A \cup B) = SumOf(g, A) + SumOf(g, B)
  BY <1>1, <1>2, <1>5, SumUnion
<1>10. RewardCoins * Cardinality(A) \in Int
  BY <1>3, <1>6
<1>11. SumOf(g, A \cup B) = RewardCoins * Cardinality(A)
  BY <1>7, <1>8, <1>9, <1>10
<1> QED BY <1>1, <1>5, <1>6, <1>11 DEF A, g

\* What all outputs are worth is what rewards mint and what the inputs take.
LEMMA OutputsAreMintedOrTaken ==
    ASSUME NEW d, GoodTables(d), Balanced(d)
    PROVE  SumOf(ValuesOf(d), DOMAIN d.output) % U32
            = (RewardCoins * Cardinality(Rewards(d)) + SumOf(RowValue(d), d.input)) % U32
<1> DEFINE H == DOMAIN d.transaction
           both == [h \in H |-> MintedIn(d)[h] + TakenBy(d)[h]]
<1>1. IsFiniteSet(H)
  BY DEF GoodTables, FiniteTables
<1>2. /\ IntOn(GivenBy(d), H) /\ SumOf(ValuesOf(d), DOMAIN d.output) = SumOf(GivenBy(d), H)
      /\ IntOn(TakenBy(d), H) /\ SumOf(RowValue(d), d.input) = SumOf(TakenBy(d), H)
  BY OutputsByTransaction, InputsByTransaction
<1>3. /\ IntOn(MintedIn(d), H)
      /\ SumOf(MintedIn(d), H) = RewardCoins * Cardinality(Rewards(d))
  BY <1>1, MintedByRewards
<1>4. \A h \in H : both[h] = MintedIn(d)[h] + TakenBy(d)[h]
  OBVIOUS
<1>5. IntOn(both, H)
  BY <1>2, <1>3 DEF IntOn
<1>6. \A h \in H : GivenBy(d)[h] % U32 = both[h] % U32
  BY DEF Balanced, GivenBy, TakenBy, MintedIn
<1> HIDE DEF H, both
<1>7. SumOf(GivenBy(d), H) % U32 = SumOf(both, H) % U32
  BY <1>1, <1>2, <1>5, <1>6, U32Assumption, SumModulo
<1>8. SumOf(both, H) = SumOf(MintedIn(d), H) + SumOf(TakenBy(d), H)
  BY <1>1, <1>2, <1>3, <1>4, SumPlus
<1> QED BY <1>2, <1>3, <1>7, <1>8

-----------------------------------------------------------------------------
(* The sum over all inputs, by the output that they name.                  *)

\* What the inputs that name an output take, and what they take beyond once.
TakenFrom(d) == [o \in DOMAIN d.output |-> d.output[o].value * Cardinality(RowsOn(d, o))]

TakenAgain(d) ==
    [o \in DOMAIN d.output |-> (Cardinality(RowsOn(d, o)) - 1) * d.output[o].value]

LEMMA InputsByOutput ==
    ASSUME NEW d, GoodTables(d)
    PROVE  /\ SumOf(RowValue(d), d.input) = SumOf(TakenFrom(d), DOMAIN d.output)
           /\ \A S \in SUBSET DOMAIN d.output :
                SumOf(RowValue(d), {row \in d.input : SpentOutput(row) \in S})
                    = SumOf(TakenFrom(d), S)
           /\ IntOn(TakenFrom(d), DOMAIN d.output)
           /\ IntOn(TakenAgain(d), DOMAIN d.output)
           /\ \A o \in DOMAIN d.output :
                    TakenFrom(d)[o] = TakenAgain(d)[o] + ValuesOf(d)[o]
<1> DEFINE A == d.input
           B == DOMAIN d.output
           f == [row \in A |-> SpentOutput(row)]
<1>1. IsFiniteSet(A) /\ IsFiniteSet(B) /\ IntOn(RowValue(d), A) /\ \A row \in A : f[row] \in B
  BY TableValues DEF GoodTables, FiniteTables
<1>2. ASSUME NEW o \in B
      PROVE  /\ RowsOn(d, o) = Fiber(f, A, o) /\ IsFiniteSet(RowsOn(d, o))
             /\ Cardinality(RowsOn(d, o)) \in Nat /\ d.output[o].value \in Int
  <2>1. RowsOn(d, o) = Fiber(f, A, o) /\ RowsOn(d, o) \in SUBSET A
    BY DEF RowsOn, Fiber
  <2>2. IsFiniteSet(RowsOn(d, o))
    BY <1>1, <2>1, FS_Subset
  <2> QED BY <2>1, <2>2, FS_CardinalityType DEF GoodTables, ValuesAreInts
<1>3. ASSUME NEW o \in B PROVE TakenFrom(d)[o] = SumOf(RowValue(d), Fiber(f, A, o))
  <2>1. \A row \in RowsOn(d, o) : RowValue(d)[row] = d.output[o].value
    BY DEF RowsOn, RowValue
  <2>2. SumOf(RowValue(d), RowsOn(d, o)) = d.output[o].value * Cardinality(RowsOn(d, o))
    BY <1>2, <2>1, SumConstant
  <2> QED BY <1>2, <2>2 DEF TakenFrom
<1>4. ASSUME NEW o \in B
      PROVE  /\ TakenFrom(d)[o] \in Int /\ TakenAgain(d)[o] \in Int
             /\ TakenFrom(d)[o] = TakenAgain(d)[o] + ValuesOf(d)[o]
  <2>1. PICK c \in Nat : c = Cardinality(RowsOn(d, o))
    BY <1>2
  <2>2. PICK v \in Int : v = d.output[o].value
    BY <1>2
  <2>3. v * c = (c - 1) * v + v /\ v * c \in Int /\ (c - 1) * v \in Int
    OBVIOUS
  <2> QED BY <2>1, <2>2, <2>3 DEF TakenFrom, TakenAgain, ValuesOf
<1>5. \A S \in SUBSET B : {row \in A : f[row] \in S} = {row \in A : SpentOutput(row) \in S}
  OBVIOUS
<1> HIDE DEF A, B, f
<1>6. /\ SumOf(RowValue(d), A) = SumOf(TakenFrom(d), B)
      /\ \A S \in SUBSET B : SumOf(RowValue(d), {row \in A : f[row] \in S}) = SumOf(TakenFrom(d), S)
  BY <1>1, <1>3, SumByFibers
<1> QED BY <1>4, <1>5, <1>6 DEF A, B, IntOn

\* What is added on both sides of uint32 sums may be left out.
LEMMA CancelAdded ==
    \A a, b, c \in Int : (a + c) % U32 = (b + c) % U32 => a % U32 = b % U32
BY U32Assumption, CancelRemainder, ZenonT(30)

\* What is unspent is worth what was minted and what was taken again.
LEMMA UnspentSum ==
    ASSUME NEW d, GoodTables(d), Balanced(d), MarkedByLast(d)
    PROVE  LET spent == DOMAIN d.output \ Unspent(d)
           IN SumOf(ValuesOf(d), Unspent(d)) % U32
                = (RewardCoins * Cardinality(Rewards(d)) + SumOf(TakenAgain(d), spent)) % U32
<1> DEFINE O == DOMAIN d.output
           left == Unspent(d)
           spent == O \ left
<1>1. /\ left \in SUBSET O /\ spent \in SUBSET O
      /\ left \cap spent = {} /\ left \cup spent = O
  BY DEF Unspent
<1>2. IsFiniteSet(O) /\ IsFiniteSet(left) /\ IsFiniteSet(spent)
  BY <1>1, FS_Subset DEF GoodTables, FiniteTables
<1>3. /\ IntOn(ValuesOf(d), O) /\ IntOn(TakenFrom(d), O) /\ IntOn(TakenAgain(d), O)
      /\ \A o \in O : TakenFrom(d)[o] = TakenAgain(d)[o] + ValuesOf(d)[o]
      /\ SumOf(RowValue(d), d.input) = SumOf(TakenFrom(d), O)
  BY TableValues, InputsByOutput
<1>4. ASSUME NEW o \in left PROVE TakenFrom(d)[o] = 0
  <2>1. o \in O /\ RowsOn(d, o) = {}
    BY DEF Unspent, MarkedByLast
  <2>2. Cardinality(RowsOn(d, o)) = 0 /\ d.output[o].value \in Int
    BY <2>1, FS_EmptySet DEF GoodTables, ValuesAreInts
  <2>3. \A v \in Int : v * 0 = 0
    OBVIOUS
  <2>4. TakenFrom(d)[o] = d.output[o].value * 0
    BY <2>1, <2>2 DEF TakenFrom
  <2> QED BY <2>2, <2>3, <2>4
<1> HIDE DEF O, left, spent
<1>5. /\ IntOn(ValuesOf(d), left \cup spent) /\ IntOn(ValuesOf(d), left)
      /\ IntOn(ValuesOf(d), spent) /\ IntOn(TakenFrom(d), left \cup spent)
      /\ IntOn(TakenAgain(d), spent)
      /\ \A o \in spent : TakenFrom(d)[o] = TakenAgain(d)[o] + ValuesOf(d)[o]
  BY <1>1, <1>3 DEF IntOn
<1>6. PICK u \in Int, s \in Int, a \in Int :
        /\ u = SumOf(ValuesOf(d), left) /\ s = SumOf(ValuesOf(d), spent)
        /\ a = SumOf(TakenAgain(d), spent)
  BY <1>2, <1>5, SumInt
<1>7. SumOf(ValuesOf(d), O) = u + s
  BY <1>1, <1>2, <1>5, <1>6, SumUnion
<1>8. SumOf(TakenFrom(d), left) = 0
  <2>1. Cardinality(left) \in Nat /\ 0 \in Int
    BY <1>2, FS_CardinalityType
  <2>2. SumOf(TakenFrom(d), left) = 0 * Cardinality(left)
    BY <1>2, <1>4, <2>1, SumConstant
  <2> QED BY <2>1, <2>2
<1>9. SumOf(TakenFrom(d), spent) = a + s
  BY <1>2, <1>5, <1>6, SumPlus
<1>10. SumOf(RowValue(d), d.input) = a + s
  <2>1. SumOf(TakenFrom(d), O) = SumOf(TakenFrom(d), left) + SumOf(TakenFrom(d), spent)
    BY <1>1, <1>2, <1>5, SumUnion
  <2>2. 0 + (a + s) = a + s
    OBVIOUS
  <2> QED BY <1>3, <1>8, <1>9, <2>1, <2>2
<1>11. PICK m \in Int : m = RewardCoins * Cardinality(Rewards(d))
  <2>1. Cardinality(Rewards(d)) \in Nat /\ RewardCoins \in Int
    BY RewardAssumption, MintedByRewards DEF GoodTables, FiniteTables
  <2> QED BY <2>1
<1>12. (u + s) % U32 = (m + (a + s)) % U32
  <2>1. SumOf(ValuesOf(d), O) % U32 = (m + SumOf(RowValue(d), d.input)) % U32
    BY <1>11, OutputsAreMintedOrTaken DEF O
  <2> QED BY <1>7, <1>10, <2>1
<1>13. u % U32 = (m + a) % U32
  <2>1. PICK w \in Int : w = m + a
    OBVIOUS
  <2>2. m + (a + s) = w + s
    BY <2>1
  <2>3. (u + s) % U32 = (w + s) % U32
    BY <1>12, <2>2
  <2>4. u % U32 = w % U32
    BY <2>3, CancelAdded
  <2> QED BY <2>1, <2>4
<1> QED BY <1>6, <1>11, <1>13 DEF O, left, spent

-----------------------------------------------------------------------------
(* The sums of BooksBalance are these sums.                                *)

LEMMA TotalIs ==
    ASSUME ValuesAreInts(db), NEW S \in SUBSET DOMAIN db.output, IsFiniteSet(S)
    PROVE  Total(S) = SumOf(ValuesOf(db), S)
<1>1. Total(S) = ValueSum(db, S)
  BY DEF Total, ValueSum, MapThenSumSet, MapThenFoldSet
<1> QED BY <1>1, ValueSumIs

ExtraTable(it, d, S) ==
    it = [s \in SUBSET S |->
            IF s = {} THEN 0
            ELSE LET o == CHOOSE o \in s : TRUE
                 IN (Cardinality(RowsOn(d, o)) - 1) * d.output[o].value + it[s \ {o}]]

LEMMA ExtraIs ==
    ASSUME NEW d, GoodTables(d), NEW S \in SUBSET DOMAIN d.output, IsFiniteSet(S)
    PROVE  (CHOOSE t : ExtraTable(t, d, S))[S] = SumOf(TakenAgain(d), S)
<1> DEFINE g == TakenAgain(d)
           it == CHOOSE t : ExtraTable(t, d, S)
<1>1. \A o \in S : g[o] = (Cardinality(RowsOn(d, o)) - 1) * d.output[o].value
  BY DEF TakenAgain
<1>2. IntOn(g, S)
  BY InputsByOutput DEF IntOn
<1>3. PICK F : AreSums(F, g, S)
  BY <1>2, SumsExist
<1>4. ASSUME NEW s \in SUBSET S, s # {}
      PROVE  LET o == CHOOSE o \in s : TRUE
             IN g[o] = (Cardinality(RowsOn(d, o)) - 1) * d.output[o].value
  BY <1>1, <1>4
<1> HIDE DEF g
<1>5. SumTable(F, g, S)
  BY <1>3, SumsAreTable
<1>6. ExtraTable(F, d, S)
  BY <1>4, <1>5 DEF SumTable, ExtraTable
<1>7. ExtraTable(it, d, S)
  BY <1>6
<1> HIDE DEF it
<1>8. SumTable(it, g, S)
  BY <1>4, <1>7 DEF SumTable, ExtraTable
<1>9. it[S] = F[S]
  BY <1>3, <1>8, TableIsSums
<1>10. SumOf(g, S) = F[S]
  BY <1>3, SumIs
<1> QED BY <1>9, <1>10 DEF g, it

\* Balanced transactions and agreeing marks make the books balance.
LEMMA BalancedBooks ==
    ASSUME GoodTables(db), Balanced(db), MarkedByLast(db)
    PROVE  BooksBalance
<1> DEFINE left == Unspent(db)
           spent == DOMAIN db.output \ left
<1>1. /\ left \in SUBSET DOMAIN db.output /\ spent \in SUBSET DOMAIN db.output
      /\ IsFiniteSet(left) /\ IsFiniteSet(spent) /\ ValuesAreInts(db)
  BY FS_Subset DEF Unspent, GoodTables, FiniteTables
<1>2. Total(left) = SumOf(ValuesOf(db), left)
  BY <1>1, TotalIs
<1>3. (CHOOSE t : ExtraTable(t, db, spent))[spent] = SumOf(TakenAgain(db), spent)
  BY <1>1, ExtraIs
<1>4. SumOf(ValuesOf(db), left) % U32
        = (RewardCoins * Cardinality(Rewards(db)) + SumOf(TakenAgain(db), spent)) % U32
  BY UnspentSum
<1>5. Rewards(db) = {h \in DOMAIN db.transaction : IsReward(h)}
  BY DEF Rewards, IsReward
<1>6. Total(left) % U32
        = (RewardCoins * Cardinality({h \in DOMAIN db.transaction : IsReward(h)})
            + (CHOOSE t : ExtraTable(t, db, spent))[spent]) % U32
  BY <1>2, <1>3, <1>4, <1>5
<1> QED BY <1>6 DEF BooksBalance, MapThenSumSet, MapThenFoldSet, ExtraTable

-----------------------------------------------------------------------------
(* What is submitted is well formed.                                       *)

\* Inputs taken so far, with their sum.
SomeTaken(X) == [inputs : Seq(X), sum : 0 .. (U32 - 1)]

\* A list of n outputs that X names.
Utxos(utxos, n, X) ==
    /\ n \in Nat /\ DOMAIN utxos = 1 .. n
    /\ \A i \in 1 .. n : /\ utxos[i].value \in Int
                         /\ Input(utxos[i].txHash, utxos[i].index) \in X

\* TakeInputs makes a list of inputs, and a sum that wraps.
LEMMA TakeInputsType ==
    ASSUME NEW n, NEW utxos, NEW X, Utxos(utxos, n, X), NEW valueType, NEW need
    PROVE  TakeInputs(utxos, valueType, need) \in SomeTaken(X)
<1> DEFINE P == SomeTaken(X)
<1>1. ASSUME NEW a \in P, NEW i \in 1 .. n PROVE Taken(a, utxos[i], valueType, need) \in P
  <2>1. a.inputs \in Seq(X) /\ a.sum \in 0 .. (U32 - 1)
    BY DEF SomeTaken
  <2>2. Append(a.inputs, Input(utxos[i].txHash, utxos[i].index)) \in Seq(X)
    BY <2>1, AppendProperties DEF Utxos
  <2>3. Add32(a.sum, utxos[i].value) \in 0 .. (U32 - 1)
    <3>1. a.sum + utxos[i].value \in Int
      BY <2>1, U32Assumption DEF Utxos
    <3> QED BY <3>1, U32Assumption, DivMod DEF Add32
  <2> QED BY <2>2, <2>3 DEF Taken, SomeTaken
<1>2. NothingTaken \in P
  <2>1. <<>> \in Seq(X) /\ 0 \in 0 .. (U32 - 1)
    BY EmptySeq, U32Assumption
  <2> QED BY <2>1 DEF NothingTaken, SomeTaken
<1> HIDE DEF P
<1>3. TakeInputs(utxos, valueType, need) \in P
  BY <1>1, <1>2, TakeInputsIn DEF Utxos
<1> QED BY <1>3 DEF P

\* Nothing is taken for nothing.
LEMMA NothingIsTaken ==
    ASSUME NEW n \in Nat, NEW utxos, DOMAIN utxos = 1 .. n, NEW valueType
    PROVE  TakeInputs(utxos, valueType, 0).inputs = <<>>
<1>1. TakeInputs(utxos, valueType, 0) \in {NothingTaken}
  <2>1. \A a \in {NothingTaken} : \A i \in 1 .. n :
            Taken(a, utxos[i], valueType, 0) \in {NothingTaken}
    BY DEF Taken, NothingTaken
  <2> QED BY <2>1, TakeInputsIn
<1> QED BY <1>1 DEF NothingTaken

\* A list of outputs of integer values.
ValuedList(outputs) == \E X : outputs \in Seq(X) /\ \A x \in X : x.value \in Int

LEMMA ValuedIsList ==
    ASSUME NEW outputs, ValuedList(outputs)
    PROVE  /\ Len(outputs) \in Nat /\ DOMAIN outputs = 1 .. Len(outputs)
           /\ IsList([i \in DOMAIN outputs |-> outputs[i].value], Len(outputs))
<1>1. PICK X : outputs \in Seq(X) /\ \A x \in X : x.value \in Int
  BY DEF ValuedList
<1>2. Len(outputs) \in Nat /\ DOMAIN outputs = 1 .. Len(outputs)
  BY <1>1, LenProperties
<1>3. \A i \in 1 .. Len(outputs) : outputs[i].value \in Int
  BY <1>1, ElementOfSeq
<1> QED BY <1>2, <1>3 DEF IsList, IntOn

LEMMA OutputsSumInt ==
    ASSUME NEW outputs, ValuedList(outputs)
    PROVE  OutputsSum(outputs) \in Int
<1> DEFINE v == [i \in DOMAIN outputs |-> outputs[i].value]
<1>1. IsList(v, Len(outputs))
  BY ValuedIsList
<1>2. OutputsSum(outputs) = Sum32(v)
  BY DEF OutputsSum
<1> HIDE DEF v
<1>3. SumOf(v, 1 .. Len(outputs)) \in Int
  BY <1>1, ListSumInt
<1>4. Sum32(v) = SumOf(v, 1 .. Len(outputs)) % U32
  BY <1>1, Sum32Is
<1>5. SumOf(v, 1 .. Len(outputs)) % U32 \in 0 .. (U32 - 1)
  BY <1>3, U32Assumption, DivMod
<1> QED BY <1>2, <1>4, <1>5, U32Assumption

\* The change makes the list of outputs one longer, or leaves it as it is.
LEMMA ValuedWithChange ==
    ASSUME NEW outputs, ValuedList(outputs), NEW value \in Int, NEW key
    PROVE  /\ ValuedList(outputs \o <<Output(value, key)>>)
           /\ ValuedList(outputs \o <<>>)
<1>1. PICK X : outputs \in Seq(X) /\ \A x \in X : x.value \in Int
  BY DEF ValuedList
<1> DEFINE Y == X \cup {Output(value, key)}
<1>2. \A y \in Y : y.value \in Int
  BY <1>1 DEF Output
<1>3. outputs \in Seq(Y)
  BY <1>1, SeqMonotonic
<1>4. <<Output(value, key)>> \in Seq(Y)
  <2>1. Output(value, key) \in Y
    OBVIOUS
  <2> HIDE DEF Y
  <2> QED BY <2>1
<1>5. <<>> \in Seq(Y)
  BY EmptySeq
<1> HIDE DEF Y
<1>6. /\ outputs \o <<Output(value, key)>> \in Seq(Y)
      /\ outputs \o <<>> \in Seq(Y)
  BY <1>3, <1>4, <1>5, ConcatProperties
<1> QED BY <1>2, <1>6 DEF ValuedList

\* What CreateTx is handed: unspent outputs, in some order.
LEMMA UtxosAreListed ==
    ASSUME NEW d, FiniteTables(d), ValuesAreInts(d), NEW key,
           NEW utxos \in SetToSeqs(GetUTXOSByPkey(d, key))
    PROVE  \E n \in Nat : /\ DOMAIN utxos = 1 .. n
                          /\ \A i \in 1 .. n : utxos[i].value \in Int
<1> DEFINE own == {p \in Unspent(d) : d.output[p].spendPkey = key \/ d.output[p].scanPkey = key}
           f == [o \in own |-> Utxo(d, o)]
           S == GetUTXOSByPkey(d, key)
<1>1. own \subseteq DOMAIN d.output
  BY DEF Unspent
<1>2. IsFiniteSet(own)
  BY <1>1, FS_Subset DEF FiniteTables
<1>3. S = {f[o] : o \in own}
  BY DEF GetUTXOSByPkey
<1>4. \A u \in S : u.value \in Int
  <2>1. \A o \in own : Utxo(d, o).value \in Int
    BY <1>1 DEF Utxo, ValuesAreInts
  <2> QED BY <2>1 DEF GetUTXOSByPkey
<1> HIDE DEF own, f, S
<1>5. IsFiniteSet(S)
  BY <1>2, <1>3, FiniteImage
<1>6. Cardinality(S) \in Nat
  BY <1>5, FS_CardinalityType
<1>7. utxos \in [1 .. Cardinality(S) -> S]
  BY DEF SetToSeqs, S
<1> QED BY <1>4, <1>6, <1>7

\* So its inputs can be counted, and its sum compared.
LEMMA TakenIsListed ==
    ASSUME NEW n \in Nat, NEW utxos, DOMAIN utxos = 1 .. n,
           \A i \in 1 .. n : utxos[i].value \in Int, NEW valueType, NEW need
    PROVE  /\ Len(TakeInputs(utxos, valueType, need).inputs) \in Nat
           /\ DOMAIN TakeInputs(utxos, valueType, need).inputs
                = 1 .. Len(TakeInputs(utxos, valueType, need).inputs)
           /\ TakeInputs(utxos, valueType, need).inputs # <<>> =>
                1 \in DOMAIN TakeInputs(utxos, valueType, need).inputs
           /\ TakeInputs(utxos, valueType, need).sum \in 0 .. (U32 - 1)
<1> DEFINE X == {Input(utxos[i].txHash, utxos[i].index) : i \in 1 .. n}
           taken == TakeInputs(utxos, valueType, need)
<1>1. Utxos(utxos, n, X)
  BY DEF Utxos
<1> HIDE DEF X
<1>2. taken \in SomeTaken(X)
  BY <1>1, TakeInputsType
<1> HIDE DEF taken
<1>3. taken.inputs \in Seq(X) /\ taken.sum \in 0 .. (U32 - 1)
  BY <1>2 DEF SomeTaken
<1>4. Len(taken.inputs) \in Nat /\ DOMAIN taken.inputs = 1 .. Len(taken.inputs)
  BY <1>3, LenProperties
<1>5. taken.inputs # <<>> => 1 \in DOMAIN taken.inputs
  BY <1>3, <1>4, EmptySeq
<1> QED BY <1>3, <1>4, <1>5 DEF taken

\* A transaction that CreateTx makes for an honest user is well formed.
LEMMA CreatedIsProper ==
    ASSUME NEW d, FiniteTables(d), ValuesAreInts(d), NEW key, NEW outputs, ValuedList(outputs),
           NEW valueType, NEW voteType, NEW duration,
           NEW tx \in Created(d, key, outputs, valueType, voteType, duration)
    PROVE  ProperTx(tx)
<1>1. PICK utxos \in SetToSeqs(GetUTXOSByPkey(d, key)) :
            tx = CreateTx(utxos, outputs, valueType, key, voteType, duration)
  BY DEF Created
<1>2. PICK n \in Nat : /\ DOMAIN utxos = 1 .. n
                       /\ \A i \in 1 .. n : utxos[i].value \in Int
  BY UtxosAreListed
<1> DEFINE need == OutputsSum(outputs)
           taken == TakeInputs(utxos, valueType, need)
           change == IF taken.sum > need
                     THEN <<Output(taken.sum - need, utxos[1].spendPkey)>> ELSE <<>>
           given == outputs \o change
<1>3. need \in Int
  BY OutputsSumInt
<1>4. /\ Len(taken.inputs) \in Nat /\ DOMAIN taken.inputs = 1 .. Len(taken.inputs)
      /\ taken.inputs # <<>> => 1 \in DOMAIN taken.inputs
      /\ taken.sum \in Int
  BY <1>2, TakenIsListed, U32Assumption
<1>5. tx.txBody.inputs = taken.inputs /\ tx.txBody.outputs = given
  BY <1>1 DEF CreateTx, Sign, TxBody
<1> HIDE DEF need, taken
<1>6. ValuedList(given)
  <2>1. taken.sum - need \in Int
    BY <1>3, <1>4
  <2>2. given \in {outputs \o <<Output(taken.sum - need, utxos[1].spendPkey)>>, outputs \o <<>>}
    OBVIOUS
  <2> HIDE DEF given
  <2> QED BY <2>1, <2>2, ValuedWithChange
<1> HIDE DEF given
<1>7. /\ DOMAIN given = 1 .. Len(given)
      /\ IsList([i \in DOMAIN given |-> given[i].value], Len(given))
  BY <1>6, ValuedIsList
<1> QED BY <1>4, <1>5, <1>7 DEF ProperTx, OutValues

LEMMA RewardIsProper == \A v, h : ProperTx(CreateMiningReward(v, h))
<1> TAKE v, h
<1> DEFINE out == <<Output(RewardCoins, v)>>
<1>1. ValuedList(out)
  <2> DEFINE X == {Output(RewardCoins, v)}
  <2>1. out \in Seq(X)
    OBVIOUS
  <2>2. \A x \in X : x.value \in Int
    BY RewardAssumption, U32Assumption DEF Output
  <2> HIDE DEF out, X
  <2> QED BY <2>1, <2>2 DEF ValuedList
<1>2. /\ CreateMiningReward(v, h).txBody.outputs = out
      /\ CreateMiningReward(v, h).txBody.inputs = <<>>
  BY DEF CreateMiningReward, Sign, TxBody
<1>3. Len(<<>>) = 0 /\ DOMAIN <<>> = 1 .. 0
  OBVIOUS
<1> HIDE DEF out
<1>4. DOMAIN out = 1 .. Len(out) /\ IsList([i \in DOMAIN out |-> out[i].value], Len(out))
  BY <1>1, ValuedIsList
<1> QED BY <1>2, <1>3, <1>4 DEF ProperTx, OutValues

\* The outputs that a user enters.
LEMMA EnteredIsValued ==
    ASSUME NEW amount \in Amounts, NEW payee
    PROVE  ValuedList(<<Output(amount, payee)>>)
<1> DEFINE X == {Output(amount, payee)}
<1>1. <<Output(amount, payee)>> \in Seq(X)
  OBVIOUS
<1>2. \A x \in X : x.value \in Int
  BY WalletsAssumption, U32Assumption DEF Output
<1> HIDE DEF X
<1> QED BY <1>1, <1>2 DEF ValuedList

LEMMA BallotsAreValued ==
    ASSUME NEW amount \in Amounts, NEW electorate \in Electorates,
           NEW ballots \in Ballots(electorate, amount)
    PROVE  ValuedList(ballots)
<1>1. PICK order \in SetToSeqs(electorate) :
            ballots = [i \in DOMAIN order |-> Output(amount, order[i])]
  BY DEF Ballots
<1>2. Cardinality(electorate) \in Nat
  BY WalletsAssumption, FS_CardinalityType
<1> DEFINE n == Cardinality(electorate)
           X == {Output(amount, payee) : payee \in electorate}
<1>3. DOMAIN order = 1 .. n /\ \A i \in 1 .. n : order[i] \in electorate
  BY DEF SetToSeqs
<1>4. ballots \in [1 .. n -> X]
  BY <1>1, <1>3
<1>5. \A x \in X : x.value \in Int
  BY WalletsAssumption, U32Assumption DEF Output
<1> HIDE DEF n, X
<1>6. ballots \in Seq(X)
  BY <1>2, <1>4, SeqDef DEF n
<1> QED BY <1>5, <1>6 DEF ValuedList

\* Every transaction of a wallet or a faucet is well formed.
LEMMA WalletTxsAreProper ==
    ASSUME NEW d, FiniteTables(d), ValuesAreInts(d), NEW v, NEW voteType,
           NEW tx \in FaucetTxs(d, v) \cup SendTxs(d) \cup CreateVoteTxs(d, voteType)
                        \cup SendVoteTxs(d)
    PROVE  ProperTx(tx)
<1>1. \A key, outputs, valueType, vote, duration :
        ValuedList(outputs) =>
            \A t \in Created(d, key, outputs, valueType, vote, duration) : ProperTx(t)
  BY CreatedIsProper
<1>2. CASE tx \in FaucetTxs(d, v)
  <2>1. PICK amount \in Amounts, payee \in Payees :
            tx \in Created(d, v, <<Output(amount, payee)>>, Nil, 0, 0)
    BY <1>2 DEF FaucetTxs
  <2> QED BY <1>1, <2>1, EnteredIsValued
<1>3. CASE tx \in SendTxs(d)
  <2>1. PICK user \in Users, amount \in Amounts, payee \in Payees :
            tx \in Created(d, user, <<Output(amount, payee)>>, Nil, 0, 0)
    BY <1>3 DEF SendTxs
  <2> QED BY <1>1, <2>1, EnteredIsValued
<1>4. CASE tx \in CreateVoteTxs(d, voteType)
  <2>1. PICK user \in Users, electorate \in Electorates, amount \in Amounts,
             duration \in Durations :
            \E ballots \in Ballots(electorate, amount) :
                tx \in Created(d, user, ballots, Nil, voteType, duration)
    BY <1>4 DEF CreateVoteTxs
  <2> QED BY <1>1, <2>1, BallotsAreValued
<1>5. CASE tx \in SendVoteTxs(d)
  <2>1. PICK user \in Users, amount \in Amounts, payee \in Payees :
            \E utxo \in GetUTXOSByPkey(d, user) :
                tx \in Created(d, user, <<Output(amount, payee)>>, utxo.valueType, 0, 0)
    BY <1>5 DEF SendVoteTxs
  <2> QED BY <1>1, <2>1, EnteredIsValued
<1> QED BY <1>2, <1>3, <1>4, <1>5

-----------------------------------------------------------------------------
(* The books balance in every reachable state.                             *)

ProperTxs(S) == \A tx \in S : ProperTx(tx)

\* Whatever is submitted is well formed, as long as the database is.
LEMMA NextProperTxs ==
    ASSUME ProperTxs(sent), FiniteTables(db), ValuesAreInts(db), [Next]_vars
    PROVE  ProperTxs(sent')
<1>1. CASE Commit \/ CommitFails
  <2>1. sent' = sent \cup RewardForMe(NewBlock)
    BY <1>1 DEF Commit, CommitFails
  <2> QED BY <2>1, RewardIsProper DEF RewardForMe, ProperTxs
<1>2. CASE Faucet \/ SendCoins \/ CreateVoting \/ SendVote
  <2>1. PICK tx : ProperTx(tx) /\ sent' = sent \cup {tx}
    BY <1>2, WalletTxsAreProper DEF Faucet, SendCoins, CreateVoting, SendVote, Submit
  <2> QED BY <2>1 DEF ProperTxs
<1>3. CASE PeerReward
  BY <1>3, RewardIsProper DEF PeerReward, ProperTxs
<1>4. CASE sent' = sent
  BY <1>4
<1> QED BY <1>1, <1>2, <1>3, <1>4 DEF Next, vars, InitChain, BeginBlock, DeliverTx, CheckTx,
    Decide, RestartKeepingDb, RestartWithEmptyDb, Restart, RestartTendermint

LEMMA EmptyBooks == BooksInv(EmptyDb)
<1>1. FiniteTables(EmptyDb)
  BY FS_EmptySet DEF FiniteTables, EmptyDb
<1> QED BY <1>1 DEF BooksInv, ValuesAreInts, Balanced, EmptyDb

\* Every step keeps the books in order.
LEMMA NextBooks ==
    ASSUME ChainInv, ProperTxs(sent), BooksInv(db), [Next]_vars
    PROVE  BooksInv(db')
<1>1. CASE Commit
  <2>1. NewBlock.transactions \in Seq(sent)
    BY NewBlockFields DEF ChainInv, IInv, TypeOK, Executors
  <2>2. /\ db' = SaveNextBlock(db, NewBlock) /\ CanSave(db, NewBlock)
        /\ ForeignKeys(db) /\ InputsAreMarked(db) /\ BothGood
    BY <1>1 DEF ChainInv, Commit, IInv, TypeOK
  <2>3. \A i \in DOMAIN NewBlock.transactions :
            /\ ProperTx(NewBlock.transactions[i])
            /\ BodyVerdict(db, NewBlock.transactions[i]) = "CodeOk"
    <3>1. \A i \in DOMAIN NewBlock.transactions : NewBlock.transactions[i] \in sent
      BY <2>1, LenProperties, ElementOfSeq
    <3> QED BY <2>2, <3>1, NewBlockIsGood DEF ProperTxs
  <2> QED BY <2>1, <2>2, <2>3, SaveKeepsBooks
<1>2. CASE RestartWithEmptyDb
  BY <1>2, EmptyBooks DEF RestartWithEmptyDb
<1>3. CASE db' = db
  BY <1>3
<1> QED BY <1>1, <1>2, <1>3, DbSteps

LEMMA BooksInductive == Spec => [](ProperTxs(sent) /\ BooksInv(db))
<1>1. Init => ProperTxs(sent) /\ BooksInv(db)
  BY EmptyBooks DEF Init, ProperTxs
<1>2. ASSUME ChainInv, ProperTxs(sent), BooksInv(db), [Next]_vars
      PROVE  ProperTxs(sent') /\ BooksInv(db')
  BY <1>2, NextProperTxs, NextBooks DEF BooksInv
<1>3. ChainInv /\ ProperTxs(sent) /\ BooksInv(db) /\ [Next]_vars
            => ProperTxs(sent)' /\ BooksInv(db)'
  BY <1>2
<1> QED BY <1>1, <1>3, ChainInductive, PTL DEF Spec

\* Coins are minted by rewards only: the value unspent exceeds the rewards paid
\* by exactly the value of the outputs spent more than once, as uint32, whatever
\* is submitted and in every interleaving of blocks, crashes and restarts.
THEOREM BooksAlwaysBalance == Spec => []BooksBalance
<1>1. ChainInv /\ MarksMatchInputs /\ BooksInv(db) => BooksBalance
  BY BalancedBooks DEF ChainInv, IInv, TypeOK, MarksMatchInputs, BooksInv, GoodTables
<1> QED BY <1>1, ChainInductive, MarksAgree, BooksInductive, PTL

-----------------------------------------------------------------------------
(* The result of a voting.                                                 *)

\* What each output counts in a voting.
WorthOf(d, voting) ==
    [o \in DOMAIN d.output |->
        getVoteValue(d.output[o].value, d.transaction[voting].txBody.voteType)]

VotesFor(d, voting, pkey) == {o \in VotesInTime(d, voting) : d.output[o].spendPkey = pkey}

WorthTable(it, d, type, S) ==
    it = [s \in SUBSET S |->
            IF s = {} THEN 0
            ELSE LET o == CHOOSE o \in s : TRUE
                 IN getVoteValue(d.output[o].value, type) + it[s \ {o}]]

LEMMA WorthIs ==
    ASSUME NEW d, ValuesAreInts(d), NEW voting, NEW S \in SUBSET DOMAIN d.output, IsFiniteSet(S)
    PROVE  /\ Worth(d, voting, S) = SumOf(WorthOf(d, voting), S)
           /\ IntOn(WorthOf(d, voting), S)
<1> DEFINE g == WorthOf(d, voting)
           type == d.transaction[voting].txBody.voteType
           it == CHOOSE t : WorthTable(t, d, type, S)
<1>1. \A o \in S : g[o] = getVoteValue(d.output[o].value, type)
  BY DEF WorthOf
<1>2. IntOn(g, S)
  BY <1>1 DEF IntOn, ValuesAreInts, getVoteValue
<1>3. PICK F : AreSums(F, g, S)
  BY <1>2, SumsExist
<1>4. ASSUME NEW s \in SUBSET S, s # {}
      PROVE  LET o == CHOOSE o \in s : TRUE IN g[o] = getVoteValue(d.output[o].value, type)
  BY <1>1, <1>4
<1>8. Worth(d, voting, S) = it[S]
  BY DEF Worth, MapThenSumSet, MapThenFoldSet, WorthTable
<1> HIDE DEF g, type
<1>5. SumTable(F, g, S)
  BY <1>3, SumsAreTable
<1>6. WorthTable(F, d, type, S)
  BY <1>4, <1>5 DEF SumTable, WorthTable
<1>7. WorthTable(it, d, type, S)
  BY <1>6
<1> HIDE DEF it
<1>9. SumTable(it, g, S)
  BY <1>4, <1>7 DEF SumTable, WorthTable
<1>10. it[S] = F[S]
  BY <1>3, <1>9, TableIsSums
<1>11. SumOf(g, S) = F[S]
  BY <1>3, SumIs
<1> QED BY <1>2, <1>8, <1>10, <1>11 DEF g

\* What OnGetVoteResult answers for a key that it lists.
LEMMA ResultIs ==
    ASSUME NEW d, ValuesAreInts(d), FiniteTables(d), NEW voting, NEW pkey
    PROVE  /\ DOMAIN OnGetVoteResult(d, voting)
                = {d.output[o].spendPkey : o \in VotesInTime(d, voting)} \ Participants(d, voting)
           /\ pkey \in DOMAIN OnGetVoteResult(d, voting) =>
                OnGetVoteResult(d, voting)[pkey]
                    = SumOf(WorthOf(d, voting), VotesFor(d, voting, pkey)) % U32
<1>1. /\ DOMAIN OnGetVoteResult(d, voting)
            = {d.output[o].spendPkey : o \in VotesInTime(d, voting)} \ Participants(d, voting)
      /\ pkey \in DOMAIN OnGetVoteResult(d, voting) =>
            OnGetVoteResult(d, voting)[pkey] = Worth(d, voting, VotesFor(d, voting, pkey)) % U32
  BY DEF OnGetVoteResult, Worth, VotesFor
<1>2. VotesFor(d, voting, pkey) \in SUBSET DOMAIN d.output
  BY DEF VotesFor, VotesInTime, GetUTXOSByTypeValue, Unspent
<1>3. IsFiniteSet(VotesFor(d, voting, pkey))
  BY <1>2, FS_Subset DEF FiniteTables
<1> QED BY <1>1, <1>2, <1>3, WorthIs

\* A candidate that is not listed has no votes.
LEMMA ResultOfIs ==
    ASSUME NEW d, ValuesAreInts(d), FiniteTables(d), NEW voting,
           NEW pkey, pkey \notin Participants(d, voting)
    PROVE  ResultOf(d, voting, pkey)
                = SumOf(WorthOf(d, voting), VotesFor(d, voting, pkey)) % U32
<1>1. CASE pkey \in DOMAIN OnGetVoteResult(d, voting)
  BY <1>1, ResultIs DEF ResultOf
<1>2. CASE pkey \notin DOMAIN OnGetVoteResult(d, voting)
  <2>1. VotesFor(d, voting, pkey) = {}
    <3>1. pkey \notin {d.output[o].spendPkey : o \in VotesInTime(d, voting)}
      BY <1>2, ResultIs
    <3> QED BY <3>1 DEF VotesFor
  <2>2. 0 % U32 = 0
    BY U32Assumption, SmallRemainder
  <2> QED BY <1>2, <2>1, <2>2, SumEmpty DEF ResultOf
<1> QED BY <1>1, <1>2

\* An output that SaveNextBlock adds belongs to the new block.
LEMMA NewOutputIsInBlock ==
    ASSUME NEW d, NEW b, GoodBlock(d, b),
           NEW o \in DOMAIN SaveNextBlock(d, b).output \ DOMAIN d.output
    PROVE  \E i \in DOMAIN b.transactions :
                \E k \in 1 .. Len(b.transactions[i].txBody.outputs) :
                    /\ o = <<b.transactions[i].hash, k - 1>>
                    /\ o[1] \in DOMAIN SaveNextBlock(d, b).transaction
                    /\ SaveNextBlock(d, b).transaction[o[1]]
                        = [block |-> b.hash, index |-> i - 1,
                           txBody |-> b.transactions[i].txBody, sig |-> b.transactions[i].sig]
<1> DEFINE txs == b.transactions
<1>1. PICK i \in DOMAIN txs : o \in OutpointsOf(txs[i])
  BY DEF SaveNextBlock, SavedOutputs
<1>2. PICK k \in DOMAIN txs[i].txBody.outputs : o = <<txs[i].hash, k - 1>>
  BY <1>1 DEF OutpointsOf
<1>3. k \in 1 .. Len(txs[i].txBody.outputs) /\ o[1] = txs[i].hash
  BY <1>2 DEF GoodBlock, ProperTx
<1>4. TxsAreNew(d, txs)
  BY DEF GoodBlock
<1> QED BY <1>2, <1>3, <1>4, StoredAtIndex

\* A block of the end of the voting or later leaves the votes in time that it
\* does not spend, and adds none.
LEMMA SaveKeepsVotes ==
    ASSUME NEW d, NEW b, ForeignKeys(d), GoodBlock(d, b), ChainAllows(d, b),
           NEW voting \in DOMAIN d.transaction,
           ~ (b.blockHeader.timestamp < EndTime(d, voting))
    PROVE  LET e == SaveNextBlock(d, b)
           IN /\ VotesInTime(e, voting) = VotesInTime(d, voting) \cap Unspent(e)
              /\ Participants(e, voting) = Participants(d, voting)
              /\ \A o \in VotesInTime(d, voting) :
                    /\ o \in DOMAIN e.output /\ e.output[o].spendPkey = d.output[o].spendPkey
                    /\ WorthOf(e, voting)[o] = WorthOf(d, voting)[o]
<1> DEFINE e == SaveNextBlock(d, b)
<1>1. \A i \in DOMAIN b.transactions :
        \A k \in 1 .. Len(b.transactions[i].txBody.inputs) :
            Outpoint(b.transactions[i].txBody.inputs[k]) \in Unspent(d)
  BY AcceptedSpendsUnspent DEF GoodBlock
<1>2. \A o \in DOMAIN d.output :
        /\ o \in DOMAIN e.output
        /\ e.output[o].value = d.output[o].value
        /\ e.output[o].spendPkey = d.output[o].spendPkey
        /\ d.output[o].spentBy # Nil => e.output[o].spentBy = d.output[o].spentBy
  BY <1>1, SaveKeepsOutputs
<1>3. \A h \in DOMAIN d.transaction :
        /\ h \in DOMAIN e.transaction /\ e.transaction[h] = d.transaction[h]
        /\ d.transaction[h].block \in DOMAIN d.block
  BY SaveKeepsTransactions DEF ForeignKeys
<1>4. \A h \in DOMAIN d.block : e.block[h] = d.block[h]
  BY DEF SaveNextBlock, SavedBlocks, ChainAllows
<1>5. e.block[b.hash].timestamp = b.blockHeader.timestamp
  BY DEF SaveNextBlock, SavedBlocks
<1>6. \A o \in DOMAIN e.output \ DOMAIN d.output :
        o[1] \in DOMAIN e.transaction /\ e.transaction[o[1]].block = b.hash
  <2> TAKE o \in DOMAIN e.output \ DOMAIN d.output
  <2>1. PICK i \in DOMAIN b.transactions :
            /\ o[1] \in DOMAIN e.transaction
            /\ e.transaction[o[1]] = [block |-> b.hash, index |-> i - 1,
                    txBody |-> b.transactions[i].txBody, sig |-> b.transactions[i].sig]
    BY NewOutputIsInBlock
  <2> QED BY <2>1
<1>7. \A o \in DOMAIN d.output : o[1] \in DOMAIN d.transaction
  BY DEF ForeignKeys
<1>8. EndTime(e, voting) = EndTime(d, voting)
  <2>1. GetTxByHash(e, voting) = {voting} /\ GetTxByHash(d, voting) = {voting}
    BY <1>3 DEF GetTxByHash
  <2>2. /\ e.transaction[voting] = d.transaction[voting]
        /\ e.block[d.transaction[voting].block] = d.block[d.transaction[voting].block]
    BY <1>3, <1>4
  <2> HIDE DEF e
  <2>3. GetTxAndTimeByHash(e, voting) = GetTxAndTimeByHash(d, voting)
    BY <2>1, <2>2 DEF GetTxAndTimeByHash
  <2> QED BY <2>3 DEF EndTime
<1> HIDE DEF e
<1>9. \A o \in DOMAIN d.output : o \in VotesInTime(e, voting) <=>
            o \in VotesInTime(d, voting) /\ o \in Unspent(e)
  BY <1>2, <1>3, <1>4, <1>7, <1>8 DEF VotesInTime, GetUTXOSByTypeValue, Unspent, Utxo
<1>10. \A o \in VotesInTime(e, voting) : o \in DOMAIN d.output
  BY <1>5, <1>6, <1>8 DEF VotesInTime, GetUTXOSByTypeValue, Unspent, Utxo
<1>11. VotesInTime(d, voting) \subseteq DOMAIN d.output
  BY DEF VotesInTime, GetUTXOSByTypeValue, Unspent
<1>12. VotesInTime(e, voting) = VotesInTime(d, voting) \cap Unspent(e)
  BY <1>9, <1>10, <1>11
<1>13. Participants(e, voting) = Participants(d, voting)
  BY <1>3 DEF Participants
<1>14. \A o \in VotesInTime(d, voting) : WorthOf(e, voting)[o] = WorthOf(d, voting)[o]
  BY <1>2, <1>3, <1>11 DEF WorthOf
<1> QED BY <1>2, <1>11, <1>12, <1>13, <1>14 DEF e

\* Commit saves a good block.
LEMMA CommitIsGood ==
    ASSUME ChainInv, ProperTxs(sent), Commit
    PROVE  /\ db' = SaveNextBlock(db, NewBlock) /\ CanSave(db, NewBlock)
           /\ NewBlock.transactions \in Seq(sent) /\ GoodBlock(db, NewBlock)
<1>1. NewBlock.transactions \in Seq(sent)
  BY NewBlockFields DEF ChainInv, IInv, TypeOK, Executors
<1>2. db' = SaveNextBlock(db, NewBlock) /\ CanSave(db, NewBlock) /\ BothGood
  BY DEF ChainInv, Commit
<1>3. \A i \in DOMAIN NewBlock.transactions :
        /\ ProperTx(NewBlock.transactions[i])
        /\ BodyVerdict(db, NewBlock.transactions[i]) = "CodeOk"
  <2>1. \A i \in DOMAIN NewBlock.transactions : NewBlock.transactions[i] \in sent
    BY <1>1, LenProperties, ElementOfSeq
  <2> QED BY <1>2, <2>1, NewBlockIsGood DEF ProperTxs
<1> QED BY <1>1, <1>2, <1>3, LenProperties DEF GoodBlock, CanSave

\* The votes a candidate passes on are what the result loses.
LEMMA ResultLoses ==
    ASSUME NEW d, NEW e, ValuesAreInts(d), FiniteTables(d), ValuesAreInts(e), FiniteTables(e),
           NEW voting, VotesInTime(e, voting) = VotesInTime(d, voting) \cap Unspent(e),
           Participants(e, voting) = Participants(d, voting),
           \A o \in VotesInTime(d, voting) :
                /\ o \in DOMAIN e.output /\ e.output[o].spendPkey = d.output[o].spendPkey
                /\ WorthOf(e, voting)[o] = WorthOf(d, voting)[o],
           NEW pkey, pkey \notin Participants(d, voting)
    PROVE  (ResultOf(e, voting, pkey)
                + Worth(d, voting, {o \in VotesInTime(d, voting) \ Unspent(e) :
                                        d.output[o].spendPkey = pkey})) % U32
                = ResultOf(d, voting, pkey)
<1> DEFINE all == VotesFor(d, voting, pkey)
           kept == VotesFor(e, voting, pkey)
           passedOn == {o \in VotesInTime(d, voting) \ Unspent(e) : d.output[o].spendPkey = pkey}
           g == WorthOf(d, voting)
           h == WorthOf(e, voting)
<1>1. all = kept \cup passedOn /\ kept \cap passedOn = {}
  BY DEF VotesFor
<1>2. all \in SUBSET DOMAIN d.output /\ passedOn \in SUBSET DOMAIN d.output
  BY DEF VotesFor, VotesInTime, GetUTXOSByTypeValue, Unspent
<1>3. \A o \in kept : g[o] = h[o]
  BY <1>1 DEF VotesFor
<1>4. IsFiniteSet(all) /\ IsFiniteSet(kept) /\ IsFiniteSet(passedOn)
  BY <1>1, <1>2, FS_Subset DEF FiniteTables
<1>5. /\ Worth(d, voting, passedOn) = SumOf(g, passedOn) /\ IntOn(g, all)
  BY <1>2, <1>4, WorthIs
<1>6. /\ ResultOf(d, voting, pkey) = SumOf(g, all) % U32
      /\ ResultOf(e, voting, pkey) = SumOf(h, kept) % U32
  BY ResultOfIs
<1> HIDE DEF all, kept, passedOn, g, h
<1>7. IntOn(g, kept) /\ IntOn(g, kept \cup passedOn) /\ IntOn(g, passedOn)
  BY <1>1, <1>5 DEF IntOn
<1>8. SumOf(g, kept) = SumOf(h, kept)
  BY <1>3, <1>4, <1>7, SumCongruence
<1>9. SumOf(g, all) = SumOf(g, kept) + SumOf(g, passedOn)
  BY <1>1, <1>4, <1>7, SumUnion
<1>10. SumOf(g, kept) \in Int /\ SumOf(g, passedOn) \in Int
  BY <1>4, <1>7, SumInt
<1>11. ((SumOf(g, kept) % U32) + SumOf(g, passedOn)) % U32 = (SumOf(g, kept) + SumOf(g, passedOn)) % U32
  BY <1>10, U32Assumption, RemainderOfSum
<1>12. (ResultOf(e, voting, pkey) + Worth(d, voting, passedOn)) % U32 = ResultOf(d, voting, pkey)
  BY <1>5, <1>6, <1>8, <1>9, <1>11
<1> QED BY <1>12 DEF passedOn

\* What a block of the end of the voting, or later, does to the result.
FinalStep ==
    \A voting \in CreatedVotings(db), h \in DOMAIN db'.block \ DOMAIN db.block :
        ~ (db'.block[h].timestamp < EndTime(db, voting)) =>
            \A pkey \in Keys \ Participants(db, voting) :
                LET passedOn == {o \in VotesInTime(db, voting) \ Unspent(db') :
                                    db.output[o].spendPkey = pkey}
                IN (ResultOf(db', voting, pkey) + Worth(db, voting, passedOn)) % U32
                        = ResultOf(db, voting, pkey)

LEMMA NextIsFinal ==
    ASSUME ChainInv, ProperTxs(sent), BooksInv(db), [Next]_vars
    PROVE  FinalStep
<1>1. CASE Commit
  <2> SUFFICES ASSUME NEW voting \in CreatedVotings(db),
                      NEW h \in DOMAIN db'.block \ DOMAIN db.block,
                      ~ (db'.block[h].timestamp < EndTime(db, voting)),
                      NEW pkey \in Keys \ Participants(db, voting)
               PROVE  (ResultOf(db', voting, pkey)
                        + Worth(db, voting, {o \in VotesInTime(db, voting) \ Unspent(db') :
                                    db.output[o].spendPkey = pkey})) % U32
                            = ResultOf(db, voting, pkey)
    BY DEF FinalStep
  <2>1. /\ db' = SaveNextBlock(db, NewBlock) /\ ChainAllows(db, NewBlock)
        /\ GoodBlock(db, NewBlock) /\ ForeignKeys(db)
    BY <1>1, CommitIsGood DEF CanSave, ChainInv, IInv, TypeOK
  <2>2. h = NewBlock.hash /\ db'.block[h].timestamp = NewBlock.blockHeader.timestamp
    BY <2>1 DEF SaveNextBlock, SavedBlocks
  <2>3. voting \in DOMAIN db.transaction
    BY DEF CreatedVotings, Stored
  <2>4. ~ (NewBlock.blockHeader.timestamp < EndTime(db, voting))
    BY <2>2
  <2>5. BooksInv(db')
    BY NextBooks
  <2> QED BY <2>1, <2>3, <2>4, <2>5, SaveKeepsVotes, ResultLoses DEF BooksInv
<1>2. CASE RestartWithEmptyDb
  BY <1>2 DEF RestartWithEmptyDb, EmptyDb, FinalStep
<1>3. CASE db' = db
  BY <1>3 DEF FinalStep
<1> QED BY <1>1, <1>2, <1>3, DbSteps

\* A result is final at the end of the voting: a later block takes from a
\* candidate what he passes on, as uint32, and gives nobody anything.
THEOREM ResultStays == Spec => ResultIsFinal
<1>1. ChainInv /\ ProperTxs(sent) /\ BooksInv(db) /\ [Next]_vars => [FinalStep]_vars
  BY NextIsFinal
<1>2. ChainInv /\ (ProperTxs(sent) /\ BooksInv(db)) /\ [Next]_vars => [FinalStep]_vars
  BY <1>1
<1>3. Spec => [][FinalStep]_vars
  BY <1>2, ChainInductive, BooksInductive, PTL DEF Spec
<1> QED BY <1>3 DEF ResultIsFinal, FinalStep

-----------------------------------------------------------------------------
(* Votes are neither made nor multiplied but by repeated spending.         *)
(*                                                                         *)
(* A vote that is cast has a value, and the outputs of one transaction do  *)
(* not wrap, unlike those of a voting: a wallet builds them of one payee   *)
(* and the change.  So what is cast is worth no more than the inputs, and  *)
(* these are votes of the same voting.                                     *)

\* A transaction that passes votes on.
PassesOn(body) == body.voteType = 0 /\ body.valueType # Nil

\* What a wallet, a faucet or a proposer submits.
WellValued(tx) ==
    LET body == tx.txBody
    IN /\ \A k \in DOMAIN body.outputs : body.outputs[k].value \in Nat
       /\ PassesOn(body) =>
            /\ body.hashLink = Nil
            /\ body.inputs # <<>> =>
                /\ \A k \in DOMAIN body.outputs : body.outputs[k].value # 0
                /\ SumOf(OutValues(body), 1 .. Len(body.outputs)) < U32

\* The change that CreateTx adds, when it took some sum.
Change(sum, need, owner) == IF sum > need THEN <<Output(sum - need, owner)>> ELSE <<>>

MadeOf(body, outputs, valueType) ==
    /\ body.valueType = valueType /\ body.hashLink = Nil
    /\ OutputsSum(outputs) = 0 => body.inputs = <<>>
    /\ \E owner : \E sum \in 0 .. (U32 - 1) :
            body.outputs = outputs \o Change(sum, OutputsSum(outputs), owner)

\* The outputs that CreateTx is handed, and the change it adds.
LEMMA CreatedIs ==
    ASSUME NEW d, FiniteTables(d), ValuesAreInts(d), NEW key, NEW outputs, ValuedList(outputs),
           NEW valueType, NEW voteType, NEW duration,
           NEW tx \in Created(d, key, outputs, valueType, voteType, duration)
    PROVE  MadeOf(tx.txBody, outputs, valueType)
<1>1. PICK utxos \in SetToSeqs(GetUTXOSByPkey(d, key)) :
            tx = CreateTx(utxos, outputs, valueType, key, voteType, duration)
  BY DEF Created
<1>2. PICK n \in Nat : /\ DOMAIN utxos = 1 .. n
                       /\ \A i \in 1 .. n : utxos[i].value \in Int
  BY UtxosAreListed
<1> DEFINE need == OutputsSum(outputs)
           taken == TakeInputs(utxos, valueType, need)
           change == Change(taken.sum, need, utxos[1].spendPkey)
<1>3. taken.sum \in 0 .. (U32 - 1)
  BY <1>2, TakenIsListed
<1>4. need = 0 => taken.inputs = <<>>
  BY <1>2, NothingIsTaken
<1>5. /\ tx.txBody.inputs = taken.inputs /\ tx.txBody.outputs = outputs \o change
      /\ tx.txBody.valueType = valueType /\ tx.txBody.hashLink = Nil
  BY <1>1 DEF CreateTx, Sign, TxBody, Change
<1> QED BY <1>3, <1>4, <1>5 DEF MadeOf

\* A payment to one payee, of coins or of votes.
LEMMA PaymentIsWellValued ==
    ASSUME NEW d, FiniteTables(d), ValuesAreInts(d), NEW key, NEW amount \in Amounts, NEW payee,
           NEW valueType, NEW voteType, NEW duration,
           NEW tx \in Created(d, key, <<Output(amount, payee)>>, valueType, voteType, duration)
    PROVE  WellValued(tx)
<1> DEFINE outs == <<Output(amount, payee)>>
           body == tx.txBody
<1>1. amount \in 0 .. (U32 - 1) /\ OutputsSum(outs) = amount
  BY WalletsAssumption, OneOutputSum
<1>2. ValuedList(outs)
  BY EnteredIsValued
<1>3. /\ body.hashLink = Nil /\ (OutputsSum(outs) = 0 => body.inputs = <<>>)
      /\ \E owner : \E sum \in 0 .. (U32 - 1) :
            body.outputs = outs \o Change(sum, OutputsSum(outs), owner)
  <2>1. MadeOf(body, outs, valueType)
    BY <1>2, CreatedIs
  <2> HIDE DEF outs, body
  <2> QED BY <2>1 DEF MadeOf
<1>3a. PICK owner : \E sum \in 0 .. (U32 - 1) : body.outputs = outs \o Change(sum, amount, owner)
  BY <1>1, <1>3
<1>4. PICK sum \in 0 .. (U32 - 1) : body.outputs = outs \o Change(sum, amount, owner)
  BY <1>3a
<1>5. CASE sum > amount
  <2>1. body.outputs = outs \o <<Output(sum - amount, owner)>>
    BY <1>4, <1>5 DEF Change
  <2>2. /\ DOMAIN body.outputs = {1, 2} /\ Len(body.outputs) = 2
        /\ body.outputs[1].value = amount /\ body.outputs[2].value = sum - amount
    <3>1. DOMAIN body.outputs = 1 .. 2 /\ Len(body.outputs) = 2
          /\ body.outputs[1] = Output(amount, payee)
          /\ body.outputs[2] = Output(sum - amount, owner)
      BY <2>1, PairOfOnes
    <3> QED BY <3>1 DEF Output
  <2>3. sum - amount \in Nat \ {0} /\ amount \in Nat /\ amount + (sum - amount) = sum /\ sum < U32
    BY <1>1, <1>5, U32Assumption
  <2>4. OutValues(body)[1] = amount /\ OutValues(body)[2] = sum - amount
    BY <2>2 DEF OutValues
  <2>5. SumOf(OutValues(body), 1 .. 2) = amount + (sum - amount)
    BY <2>3, <2>4, SumOfTwo
  <2> QED BY <1>1, <1>3, <2>2, <2>3, <2>5 DEF WellValued
<1>6. CASE ~ (sum > amount)
  <2>1. body.outputs = <<Output(amount, payee)>>
    BY <1>4, <1>6 DEF Change
  <2>2. /\ DOMAIN body.outputs = {1} /\ Len(body.outputs) = 1 /\ body.outputs[1].value = amount
    BY <2>1 DEF Output
  <2>3. amount \in Nat /\ amount < U32
    BY <1>1, U32Assumption
  <2>4. OutValues(body)[1] = amount
    BY <2>2 DEF OutValues
  <2>5. SumOf(OutValues(body), 1 .. 1) = amount
    BY <2>3, <2>4, SumOfOne
  <2> QED BY <1>1, <1>3, <2>2, <2>3, <2>5 DEF WellValued
<1> QED BY <1>5, <1>6

\* A voting is paid for with coins, and has any number of participants.
LEMMA BallotsAreWellValued ==
    ASSUME NEW d, FiniteTables(d), ValuesAreInts(d), NEW key,
           NEW amount \in Amounts, NEW electorate \in Electorates,
           NEW ballots \in Ballots(electorate, amount), NEW voteType, NEW duration,
           NEW tx \in Created(d, key, ballots, Nil, voteType, duration)
    PROVE  WellValued(tx)
<1> DEFINE body == tx.txBody
           need == OutputsSum(ballots)
<1>1. ValuedList(ballots)
  BY BallotsAreValued
<1>2. Len(ballots) \in Nat /\ DOMAIN ballots = 1 .. Len(ballots)
  BY <1>1, ValuedIsList
<1>3. \A k \in DOMAIN ballots : ballots[k].value \in Nat
  <2>1. amount \in Nat
    BY WalletsAssumption, U32Assumption
  <2>2. PICK order \in SetToSeqs(electorate) :
            ballots = [i \in DOMAIN order |-> Output(amount, order[i])]
    BY DEF Ballots
  <2> QED BY <2>1, <2>2 DEF Output
<1>4. need \in Int
  BY <1>1, OutputsSumInt
<1>0. MadeOf(body, ballots, Nil)
  BY <1>1, CreatedIs
<1>5. body.valueType = Nil
  BY <1>0 DEF MadeOf
<1>5a. PICK owner :
            \E sum \in 0 .. (U32 - 1) : body.outputs = ballots \o Change(sum, need, owner)
  BY <1>0 DEF MadeOf
<1>6. PICK sum \in 0 .. (U32 - 1) : body.outputs = ballots \o Change(sum, need, owner)
  BY <1>5a
<1>7. PICK X : ballots \in Seq(X)
  BY <1>1 DEF ValuedList
<1> DEFINE change == Change(sum, need, owner)
<1>8. /\ change \in Seq({Output(sum - need, owner)})
      /\ \A k \in DOMAIN change : change[k].value \in Nat
  <2>1. CASE sum > need
    <3>1. sum - need \in Nat
      BY <1>4, <2>1, U32Assumption
    <3>2. change = <<Output(sum - need, owner)>>
      BY <2>1 DEF Change
    <3>3. change[1] = Output(sum - need, owner) /\ DOMAIN change = {1}
      BY <3>2
    <3>4. Output(sum - need, owner).value \in Nat
      BY <3>1 DEF Output
    <3>5. change \in Seq({Output(sum - need, owner)})
      BY <3>2
    <3> HIDE DEF change
    <3> QED BY <3>3, <3>4, <3>5
  <2>2. CASE ~ (sum > need)
    BY <2>2 DEF Change
  <2> QED BY <2>1, <2>2
<1> HIDE DEF change, need
<1>9. \A k \in DOMAIN (ballots \o change) : (ballots \o change)[k].value \in Nat
  <2> DEFINE Y == X \cup {Output(sum - need, owner)}
  <2>1. ballots \in Seq(Y) /\ change \in Seq(Y)
    BY <1>7, <1>8, SeqMonotonic
  <2> HIDE DEF Y
  <2> SUFFICES ASSUME NEW k \in DOMAIN (ballots \o change)
               PROVE  (ballots \o change)[k].value \in Nat
    OBVIOUS
  <2>2. /\ Len(change) \in Nat /\ DOMAIN change = 1 .. Len(change)
        /\ Len(ballots \o change) = Len(ballots) + Len(change)
        /\ DOMAIN (ballots \o change) = 1 .. Len(ballots) + Len(change)
        /\ \A i \in 1 .. Len(ballots) + Len(change) :
            (ballots \o change)[i] = IF i <= Len(ballots) THEN ballots[i]
                                     ELSE change[i - Len(ballots)]
    BY <2>1, ConcatProperties, LenProperties
  <2>3. CASE k <= Len(ballots)
    BY <1>2, <1>3, <2>2, <2>3
  <2>4. CASE ~ (k <= Len(ballots))
    BY <1>2, <1>8, <2>2, <2>4
  <2> QED BY <2>3, <2>4
<1>10. \A k \in DOMAIN body.outputs : body.outputs[k].value \in Nat
  BY <1>6, <1>9 DEF change
<1> QED BY <1>5, <1>10 DEF WellValued, PassesOn

LEMMA WalletTxsAreWellValued ==
    ASSUME NEW d, FiniteTables(d), ValuesAreInts(d), NEW v, NEW voteType,
           NEW tx \in FaucetTxs(d, v) \cup SendTxs(d) \cup CreateVoteTxs(d, voteType)
                        \cup SendVoteTxs(d)
    PROVE  WellValued(tx)
<1>1. CASE tx \in FaucetTxs(d, v)
  <2>1. PICK amount \in Amounts, payee \in Payees :
            tx \in Created(d, v, <<Output(amount, payee)>>, Nil, 0, 0)
    BY <1>1 DEF FaucetTxs
  <2> QED BY <2>1, PaymentIsWellValued
<1>2. CASE tx \in SendTxs(d)
  <2>1. PICK user \in Users, amount \in Amounts, payee \in Payees :
            tx \in Created(d, user, <<Output(amount, payee)>>, Nil, 0, 0)
    BY <1>2 DEF SendTxs
  <2> QED BY <2>1, PaymentIsWellValued
<1>3. CASE tx \in CreateVoteTxs(d, voteType)
  <2>1. PICK user \in Users, electorate \in Electorates, amount \in Amounts,
             duration \in Durations :
            \E ballots \in Ballots(electorate, amount) :
                tx \in Created(d, user, ballots, Nil, voteType, duration)
    BY <1>3 DEF CreateVoteTxs
  <2> QED BY <2>1, BallotsAreWellValued
<1>4. CASE tx \in SendVoteTxs(d)
  <2>1. PICK user \in Users, amount \in Amounts, payee \in Payees :
            \E utxo \in GetUTXOSByPkey(d, user) :
                tx \in Created(d, user, <<Output(amount, payee)>>, utxo.valueType, 0, 0)
    BY <1>4 DEF SendVoteTxs
  <2> QED BY <2>1, PaymentIsWellValued
<1> QED BY <1>1, <1>2, <1>3, <1>4

LEMMA RewardIsWellValued == \A v, h : WellValued(CreateMiningReward(v, h))
<1> TAKE v, h
<1> DEFINE body == CreateMiningReward(v, h).txBody
<1>1. body.outputs = <<Output(RewardCoins, v)>> /\ body.valueType = Nil
  BY DEF CreateMiningReward, Sign, TxBody
<1>2. DOMAIN body.outputs = {1} /\ body.outputs[1].value = RewardCoins
  BY <1>1 DEF Output
<1>3. RewardCoins \in Nat
  BY RewardAssumption, U32Assumption
<1> QED BY <1>1, <1>2, <1>3 DEF WellValued, PassesOn

WellValuedTxs(S) == \A tx \in S : WellValued(tx)

LEMMA NextWellValuedTxs ==
    ASSUME WellValuedTxs(sent), FiniteTables(db), ValuesAreInts(db), [Next]_vars
    PROVE  WellValuedTxs(sent')
<1>1. CASE Commit \/ CommitFails
  <2>1. sent' = sent \cup RewardForMe(NewBlock)
    BY <1>1 DEF Commit, CommitFails
  <2> QED BY <2>1, RewardIsWellValued DEF RewardForMe, WellValuedTxs
<1>2. CASE Faucet \/ SendCoins \/ CreateVoting \/ SendVote
  <2>1. PICK tx : WellValued(tx) /\ sent' = sent \cup {tx}
    BY <1>2, WalletTxsAreWellValued DEF Faucet, SendCoins, CreateVoting, SendVote, Submit
  <2> QED BY <2>1 DEF WellValuedTxs
<1>3. CASE PeerReward
  BY <1>3, RewardIsWellValued DEF PeerReward, WellValuedTxs
<1>4. CASE sent' = sent
  BY <1>4
<1> QED BY <1>1, <1>2, <1>3, <1>4 DEF Next, vars, InitChain, BeginBlock, DeliverTx, CheckTx,
    Decide, RestartKeepingDb, RestartWithEmptyDb, Restart, RestartTendermint

\* The same of what is stored.
VotesAreValued(d) ==
    /\ Nil \notin DOMAIN d.transaction
    /\ \A o \in DOMAIN d.output : d.output[o].value \in Nat
    /\ \A h \in DOMAIN d.transaction :
        PassesOn(d.transaction[h].txBody) =>
            /\ d.transaction[h].txBody.hashLink = Nil
            /\ \A o \in OutputsOf(d, h) : d.output[o].value # 0
            /\ SumOf(ValuesOf(d), OutputsOf(d, h)) < U32

\* Whoever signs has an input.
LEMMA AcceptedHasInputs ==
    ASSUME NEW d, NEW tx, BodyVerdict(d, tx) = "CodeOk", tx.txBody.hashLink = Nil
    PROVE  tx.txBody.inputs # <<>>
<1> SUFFICES ASSUME tx.txBody.inputs = <<>> PROVE FALSE
  OBVIOUS
<1>1. TransferVerdict(d, tx) = "CodeOk"
  BY DEF BodyVerdict, IsCoinbase
<1>2. VerifySig(tx, Sender(d, tx.txBody)) = "CodeOk"
  BY <1>1, NoBadInputs DEF TransferVerdict
<1>3. Sender(d, tx.txBody) = Nil
  BY DEF Sender
<1>4. tx.sig \in Keys /\ tx.sig = Nil
  BY <1>2, <1>3 DEF VerifySig, VerifyData
<1> QED BY <1>4, KeysAssumption

LEMMA SaveKeepsValued ==
    ASSUME NEW d, NEW b, ForeignKeys(d), InputsAreMarked(d), BooksInv(d), GoodBlock(d, b),
           VotesAreValued(d),
           \A i \in DOMAIN b.transactions :
                b.transactions[i].hash # Nil /\ WellValued(b.transactions[i])
    PROVE  VotesAreValued(SaveNextBlock(d, b))
<1> DEFINE e == SaveNextBlock(d, b)
           txs == b.transactions
<1>1. \A i \in DOMAIN txs : \A k \in 1 .. Len(txs[i].txBody.inputs) :
            Outpoint(txs[i].txBody.inputs[k]) \in Unspent(d)
  BY AcceptedSpendsUnspent DEF GoodBlock
<1>2. \A o \in DOMAIN d.output : o \in DOMAIN e.output /\ e.output[o].value = d.output[o].value
  BY <1>1, SaveKeepsOutputs
<1>3. ASSUME NEW o \in DOMAIN e.output \ DOMAIN d.output
      PROVE  \E i \in DOMAIN txs : \E k \in DOMAIN txs[i].txBody.outputs :
                /\ o = <<txs[i].hash, k - 1>>
                /\ e.output[o].value = txs[i].txBody.outputs[k].value
  <2>1. PICK i \in DOMAIN txs : \E k \in 1 .. Len(txs[i].txBody.outputs) :
                /\ o = <<txs[i].hash, k - 1>>
                /\ o[1] \in DOMAIN e.transaction
                /\ e.transaction[o[1]] = [block |-> b.hash, index |-> i - 1,
                                         txBody |-> txs[i].txBody, sig |-> txs[i].sig]
    BY NewOutputIsInBlock
  <2>2. PICK k \in 1 .. Len(txs[i].txBody.outputs) : o = <<txs[i].hash, k - 1>>
    BY <2>1
  <2>3. e.output[o].value = txs[i].txBody.outputs[k].value
    <3>1. LET tx == txs[i]
              p == <<tx.hash, k - 1>>
          IN /\ p \in DOMAIN e.output /\ p \notin DOMAIN d.output
             /\ e.output[p].value = tx.txBody.outputs[k].value
      BY SavedNewOutput
    <3> QED BY <2>2, <3>1
  <2>4. k \in DOMAIN txs[i].txBody.outputs
    BY DEF GoodBlock, ProperTx
  <2> QED BY <2>2, <2>3, <2>4
<1>4. ASSUME NEW o \in DOMAIN e.output PROVE e.output[o].value \in Nat
  <2>1. CASE o \in DOMAIN d.output
    BY <1>2, <2>1 DEF VotesAreValued
  <2>2. CASE o \notin DOMAIN d.output
    BY <1>3, <2>2 DEF WellValued
  <2> QED BY <2>1, <2>2
<1>5. ASSUME NEW h \in DOMAIN e.transaction, PassesOn(e.transaction[h].txBody)
      PROVE  /\ e.transaction[h].txBody.hashLink = Nil
             /\ \A o \in OutputsOf(e, h) : e.output[o].value # 0
             /\ SumOf(ValuesOf(e), OutputsOf(e, h)) < U32
  <2>1. CASE h \in DOMAIN d.transaction
    <3>1. e.transaction[h] = d.transaction[h]
      BY <2>1, SaveKeepsTransactions
    <3>2. SumOf(ValuesOf(e), OutputsOf(e, h)) = SumOf(ValuesOf(d), OutputsOf(d, h))
      BY <2>1, OldSums DEF BooksInv
    <3>3. \A o \in OutputsOf(e, h) : o \in OutputsOf(d, h)
      <4> SUFFICES ASSUME NEW o \in OutputsOf(e, h), o \notin DOMAIN d.output PROVE FALSE
        BY DEF OutputsOf
      <4>1. o \in DOMAIN e.output /\ o[1] = h
        BY DEF OutputsOf
      <4>2. PICK i \in DOMAIN txs : \E k \in DOMAIN txs[i].txBody.outputs : o = <<txs[i].hash, k - 1>>
        BY <1>3, <4>1
      <4> QED BY <2>1, <4>1, <4>2 DEF GoodBlock, TxsAreNew
    <3>4. \A o \in OutputsOf(e, h) : e.output[o].value = d.output[o].value
      BY <1>2, <3>3 DEF OutputsOf
    <3> QED BY <1>5, <2>1, <3>1, <3>2, <3>3, <3>4 DEF VotesAreValued
  <2>2. CASE h \notin DOMAIN d.transaction
    <3>1. PICK i \in DOMAIN txs : h = txs[i].hash
      BY <2>2 DEF SaveNextBlock, SavedTransactions
    <3>2. e.transaction[h].txBody = txs[i].txBody
      <4>1. TxsAreNew(d, txs)
        BY DEF GoodBlock
      <4>2. e.transaction[txs[i].hash] = [block |-> b.hash, index |-> i - 1,
                                          txBody |-> txs[i].txBody, sig |-> txs[i].sig]
        BY <4>1, StoredAtIndex
      <4> QED BY <3>1, <4>2
    <3>3. txs[i].txBody.hashLink = Nil /\ WellValued(txs[i]) /\ PassesOn(txs[i].txBody)
      BY <1>5, <3>2 DEF WellValued
    <3>4. txs[i].txBody.inputs # <<>>
      BY <3>3, AcceptedHasInputs DEF GoodBlock
    <3>5. /\ \A k \in DOMAIN txs[i].txBody.outputs : txs[i].txBody.outputs[k].value # 0
          /\ SumOf(OutValues(txs[i].txBody), 1 .. Len(txs[i].txBody.outputs)) < U32
      BY <3>3, <3>4 DEF WellValued
    <3>6. SumOf(ValuesOf(e), OutputsOf(e, h))
            = SumOf(OutValues(txs[i].txBody), 1 .. Len(txs[i].txBody.outputs))
      BY <3>1, NewOutputsSum
    <3>7. ASSUME NEW o \in OutputsOf(e, h) PROVE e.output[o].value # 0
      <4>1. o \in DOMAIN e.output /\ o[1] = txs[i].hash /\ o \notin DOMAIN d.output
        BY <2>2, <3>1 DEF OutputsOf, ForeignKeys
      <4>2. PICK j \in DOMAIN txs : \E k \in DOMAIN txs[j].txBody.outputs :
                /\ o = <<txs[j].hash, k - 1>>
                /\ e.output[o].value = txs[j].txBody.outputs[k].value
        BY <1>3, <4>1
      <4>3. j = i
        BY <4>1, <4>2 DEF GoodBlock, TxsAreNew
      <4> QED BY <3>5, <4>2, <4>3
    <3> QED BY <3>2, <3>3, <3>5, <3>6, <3>7
  <2> QED BY <2>1, <2>2
<1>6. Nil \notin DOMAIN e.transaction
  BY DEF VotesAreValued, SaveNextBlock, SavedTransactions
<1> QED BY <1>4, <1>5, <1>6 DEF VotesAreValued

LEMMA NextValued ==
    ASSUME ChainInv, ProperTxs(sent), BooksInv(db), WellValuedTxs(sent), VotesAreValued(db),
           [Next]_vars
    PROVE  VotesAreValued(db')
<1>1. CASE Commit
  <2>1. /\ db' = SaveNextBlock(db, NewBlock) /\ NewBlock.transactions \in Seq(sent)
        /\ GoodBlock(db, NewBlock) /\ ForeignKeys(db) /\ InputsAreMarked(db)
    BY <1>1, CommitIsGood DEF ChainInv, IInv, TypeOK
  <2>2. \A i \in DOMAIN NewBlock.transactions : WellValued(NewBlock.transactions[i])
    BY <2>1, LenProperties, ElementOfSeq DEF WellValuedTxs
  <2>3. \A i \in DOMAIN NewBlock.transactions : NewBlock.transactions[i].hash # Nil
    BY NewBlockSpendsUnspent DEF ChainInv, IInv
  <2> QED BY <2>1, <2>2, <2>3, SaveKeepsValued
<1>2. CASE RestartWithEmptyDb
  BY <1>2 DEF RestartWithEmptyDb, EmptyDb, VotesAreValued
<1>3. CASE db' = db
  BY <1>3
<1> QED BY <1>1, <1>2, <1>3, DbSteps

LEMMA ValuedInductive == Spec => [](WellValuedTxs(sent) /\ VotesAreValued(db))
<1>1. Init => WellValuedTxs(sent) /\ VotesAreValued(db)
  BY DEF Init, WellValuedTxs, VotesAreValued, EmptyDb
<1>2. ASSUME ChainInv, ProperTxs(sent) /\ BooksInv(db), WellValuedTxs(sent) /\ VotesAreValued(db),
             [Next]_vars
      PROVE  WellValuedTxs(sent') /\ VotesAreValued(db')
  BY <1>2, NextWellValuedTxs, NextValued DEF BooksInv
<1>3. ChainInv /\ (ProperTxs(sent) /\ BooksInv(db)) /\ (WellValuedTxs(sent) /\ VotesAreValued(db))
            /\ [Next]_vars => (WellValuedTxs(sent) /\ VotesAreValued(db))'
  BY <1>2
<1> QED BY <1>1, <1>3, ChainInductive, BooksInductive, PTL DEF Spec

\* The transactions that passed on votes of a voting, the votes they cast, and
\* all votes of the voting: those that its participants were given, too.
CastTxs(d, voting) ==
    {h \in DOMAIN d.transaction :
        LET body == d.transaction[h].txBody
        IN body.voteType = 0 /\ body.valueType = voting}

CastVotes(d, voting) == {o \in DOMAIN d.output : o[1] \in CastTxs(d, voting)}

SpentVotes(d, voting) == {o \in DOMAIN d.output \ Unspent(d) : ValueTypeOf(d, o[1]) = voting}

GivenUpIn(d, voting) == {o \in DOMAIN d.output \ Unspent(d) : o[1] = voting}

\* What a voting needs of the database.
VotingBooks(d) ==
    /\ GoodTables(d) /\ Balanced(d) /\ MarkedByLast(d)
    /\ SpentByOwners(d) /\ VotesAreValued(d)

LEMMA NaturalSums ==
    ASSUME NEW d, VotingBooks(d)
    PROVE  /\ \A o \in DOMAIN d.output : ValuesOf(d)[o] \in Nat
           /\ \A row \in d.input : SpentOutput(row) \in DOMAIN d.output /\ RowValue(d)[row] \in Nat
<1>1. \A o \in DOMAIN d.output : ValuesOf(d)[o] \in Nat
  BY DEF ValuesOf, VotingBooks, VotesAreValued
<1>2. \A row \in d.input : SpentOutput(row) \in DOMAIN d.output
  BY DEF VotingBooks, GoodTables, InputsAreMarked
<1>3. \A row \in d.input : RowValue(d)[row] \in Nat
  BY <1>1, <1>2 DEF RowValue, ValuesOf
<1> QED BY <1>1, <1>2, <1>3

LEMMA RemainderIsLess == \A n \in Nat : n % U32 \in Nat /\ n % U32 <= n
<1> TAKE n \in Nat
<1> DEFINE q == n \div U32
<1>1. n % U32 \in 0 .. (U32 - 1) /\ q \in Int /\ n = U32 * q + (n % U32)
  BY U32Assumption, DivMod
<1> HIDE DEF q
<1>2. CASE q < 0
  <2>1. U32 * q <= 0 - U32
    BY <1>1, <1>2, U32Assumption
  <2> QED BY <1>1, <2>1, U32Assumption
<1>3. CASE q >= 0
  <2>1. U32 * q >= 0
    BY <1>1, <1>3, U32Assumption
  <2> QED BY <1>1, <2>1, U32Assumption
<1> QED BY <1>1, <1>2, <1>3

\* Whoever passes votes on takes at least as many: his outputs do not wrap.
LEMMA PasserTakes ==
    ASSUME NEW d, VotingBooks(d), NEW h \in DOMAIN d.transaction,
           PassesOn(d.transaction[h].txBody)
    PROVE  GivenBy(d)[h] <= TakenBy(d)[h]
<1>1. IsFiniteSet(OutputsOf(d, h)) /\ IsFiniteSet(RowsOf(d, h))
  <2>1. OutputsOf(d, h) \subseteq DOMAIN d.output /\ RowsOf(d, h) \subseteq d.input
    BY DEF OutputsOf, RowsOf
  <2> QED BY <2>1, FS_Subset DEF VotingBooks, GoodTables, FiniteTables
<1>2. PICK given \in Nat : given = SumOf(ValuesOf(d), OutputsOf(d, h))
  <2>1. \A o \in OutputsOf(d, h) : ValuesOf(d)[o] \in Nat
    BY NaturalSums DEF OutputsOf
  <2> QED BY <1>1, <2>1, SumNat
<1>3. PICK taken \in Nat : taken = SumOf(RowValue(d), RowsOf(d, h))
  <2>1. \A row \in RowsOf(d, h) : RowValue(d)[row] \in Nat
    BY NaturalSums DEF RowsOf
  <2> QED BY <1>1, <2>1, SumNat
<1>4. given < U32
  BY <1>2 DEF VotingBooks, VotesAreValued
<1>5. MintedBy(d.transaction[h].txBody) = 0
  BY DEF VotingBooks, VotesAreValued, MintedBy, IsCoinbase
<1>6. given % U32 = taken % U32
  <2>1. given % U32 = (0 + taken) % U32
    BY <1>2, <1>3, <1>5 DEF VotingBooks, Balanced
  <2> QED BY <2>1
<1>7. given % U32 = given
  BY <1>4, U32Assumption, SmallRemainder
<1>8. taken % U32 <= taken
  BY RemainderIsLess
<1> QED BY <1>2, <1>3, <1>6, <1>7, <1>8 DEF GivenBy, TakenBy

\* The votes cast in a voting are no more than the inputs that name its votes.
LEMMA CastIsTaken ==
    ASSUME NEW d, VotingBooks(d), NEW voting, voting # Nil
    PROVE  SumOf(ValuesOf(d), CastVotes(d, voting)) <= SumOf(TakenFrom(d), SpentVotes(d, voting))
<1> DEFINE T == CastTxs(d, voting)
           spent == SpentVotes(d, voting)
           rows == {row \in d.input : row.tx \in T}
           named == {row \in d.input : SpentOutput(row) \in spent}
<1>1. /\ T \in SUBSET DOMAIN d.transaction /\ IsFiniteSet(T)
      /\ IntOn(GivenBy(d), T) /\ IntOn(TakenBy(d), T)
  <2>1. T \in SUBSET DOMAIN d.transaction
    BY DEF CastTxs
  <2>2. IsFiniteSet(T) /\ GoodTables(d)
    BY <2>1, FS_Subset DEF VotingBooks, GoodTables, FiniteTables
  <2>3. IntOn(GivenBy(d), DOMAIN d.transaction) /\ IntOn(TakenBy(d), DOMAIN d.transaction)
    BY <2>2, OutputsByTransaction, InputsByTransaction
  <2> QED BY <2>1, <2>2, <2>3 DEF IntOn
<1>2. \A h \in T : GivenBy(d)[h] <= TakenBy(d)[h]
  BY PasserTakes DEF CastTxs, PassesOn
<1>3. SumOf(GivenBy(d), T) <= SumOf(TakenBy(d), T)
  BY <1>1, <1>2, SumMonotone
<1>4. GoodTables(d)
  BY DEF VotingBooks
<1>5. SumOf(ValuesOf(d), CastVotes(d, voting)) = SumOf(GivenBy(d), T)
  BY <1>1, <1>4, OutputsByTransaction DEF CastVotes
<1>6. SumOf(RowValue(d), rows) = SumOf(TakenBy(d), T)
  BY <1>1, <1>4, InputsByTransaction
<1>7. rows \in SUBSET named
  <2> SUFFICES ASSUME NEW row \in d.input, row.tx \in T PROVE SpentOutput(row) \in spent
    OBVIOUS
  <2>1. SpentOutput(row) \in DOMAIN d.output \ Unspent(d)
    BY <1>4 DEF GoodTables, InputsAreMarked
  <2>2. ValueTypeOf(d, row.prevTx) = voting
    BY DEF VotingBooks, SpentByOwners, CastTxs
  <2> QED BY <2>1, <2>2 DEF SpentVotes, SpentOutput
<1>8. /\ IsFiniteSet(named) /\ \A row \in named : RowValue(d)[row] \in Nat
      /\ IsFiniteSet(rows) /\ \A row \in rows : RowValue(d)[row] \in Nat
  <2>1. named \subseteq d.input /\ rows \subseteq d.input
    OBVIOUS
  <2> QED BY <1>4, <2>1, NaturalSums, FS_Subset DEF GoodTables, FiniteTables
<1>9. SumOf(RowValue(d), named) = SumOf(TakenFrom(d), spent)
  <2>1. spent \in SUBSET DOMAIN d.output
    BY DEF SpentVotes
  <2> QED BY <1>4, <2>1, InputsByOutput
<1> HIDE DEF T, spent, rows, named
<1>10. SumOf(RowValue(d), rows) <= SumOf(RowValue(d), named)
  BY <1>7, <1>8, SumPart
<1>11. /\ SumOf(GivenBy(d), T) \in Int /\ SumOf(RowValue(d), rows) \in Nat
       /\ SumOf(RowValue(d), named) \in Nat
  BY <1>1, <1>8, SumInt, SumNat
<1> QED BY <1>3, <1>5, <1>6, <1>9, <1>10, <1>11 DEF spent

\* The votes that a voting counts are no more than its participants gave up and
\* what was added by passing votes on more than once.
LEMMA CastLeft ==
    ASSUME NEW d, VotingBooks(d), NEW voting \in DOMAIN d.transaction,
           d.transaction[voting].txBody.voteType # 0
    PROVE  SumOf(ValuesOf(d), CastVotes(d, voting) \cap Unspent(d))
                <= SumOf(ValuesOf(d), GivenUpIn(d, voting))
                    + SumOf(TakenAgain(d), SpentVotes(d, voting))
<1> DEFINE cast == CastVotes(d, voting)
           left == cast \cap Unspent(d)
           gone == cast \ Unspent(d)
           spent == SpentVotes(d, voting)
           given == GivenUpIn(d, voting)
<1>1. /\ cast = left \cup gone /\ left \cap gone = {}
      /\ spent = given \cup gone /\ given \cap gone = {}
  <2>1. \A o \in DOMAIN d.output :
            ValueTypeOf(d, o[1]) = voting <=> (o[1] = voting \/ o \in cast)
    <3>1. \A o \in DOMAIN d.output : o[1] \in DOMAIN d.transaction
      BY DEF VotingBooks, GoodTables, ForeignKeys
    <3> QED BY <3>1 DEF ValueTypeOf, CastVotes, CastTxs
  <2>2. \A o \in cast : o \in DOMAIN d.output /\ o[1] # voting
    BY DEF CastVotes, CastTxs
  <2> QED BY <2>1, <2>2 DEF SpentVotes, GivenUpIn
<1>2. /\ spent \subseteq DOMAIN d.output /\ left \subseteq DOMAIN d.output
      /\ gone \subseteq DOMAIN d.output /\ given \subseteq DOMAIN d.output
  BY DEF SpentVotes, GivenUpIn, CastVotes
<1>3. /\ IsFiniteSet(spent) /\ IsFiniteSet(left) /\ IsFiniteSet(gone) /\ IsFiniteSet(given)
  BY <1>2, FS_Subset DEF VotingBooks, GoodTables, FiniteTables
<1>4. voting # Nil
  BY DEF VotingBooks, VotesAreValued
<1>5. SumOf(ValuesOf(d), cast) <= SumOf(TakenFrom(d), spent)
  BY <1>4, CastIsTaken
<1>6. /\ IntOn(ValuesOf(d), DOMAIN d.output) /\ IntOn(TakenAgain(d), DOMAIN d.output)
      /\ \A o \in DOMAIN d.output : TakenFrom(d)[o] = TakenAgain(d)[o] + ValuesOf(d)[o]
  BY TableValues, InputsByOutput DEF VotingBooks
<1> HIDE DEF cast, left, gone, spent, given
<1>7. /\ IntOn(ValuesOf(d), left \cup gone) /\ IntOn(ValuesOf(d), given \cup gone)
      /\ IntOn(ValuesOf(d), left) /\ IntOn(ValuesOf(d), gone) /\ IntOn(ValuesOf(d), given)
      /\ IntOn(ValuesOf(d), spent) /\ IntOn(TakenAgain(d), spent)
      /\ \A o \in spent : TakenFrom(d)[o] = TakenAgain(d)[o] + ValuesOf(d)[o]
  BY <1>2, <1>6 DEF IntOn
<1>8. PICK l \in Int, g \in Int, n \in Int, a \in Int :
        /\ l = SumOf(ValuesOf(d), left) /\ g = SumOf(ValuesOf(d), gone)
        /\ n = SumOf(ValuesOf(d), given) /\ a = SumOf(TakenAgain(d), spent)
  BY <1>3, <1>7, SumInt
<1>9. SumOf(ValuesOf(d), cast) = l + g
  BY <1>1, <1>3, <1>7, <1>8, SumUnion
<1>10. SumOf(ValuesOf(d), spent) = n + g
  BY <1>1, <1>3, <1>7, <1>8, SumUnion
<1>11. SumOf(TakenFrom(d), spent) = a + (n + g)
  BY <1>3, <1>7, <1>8, <1>10, SumPlus
<1>12. l <= n + a
  BY <1>5, <1>9, <1>11
<1> QED BY <1>8, <1>12 DEF left, cast, given, spent

\* The result counts the votes that were cast and not passed on, each at most once.
LEMMA ResultIsOfCast ==
    ASSUME NEW d, VotingBooks(d), NEW voting \in DOMAIN d.transaction,
           d.transaction[voting].txBody.voteType # 0
    PROVE  /\ ResultSum(d, voting) \in Int
           /\ ResultSum(d, voting) <= SumOf(ValuesOf(d), CastVotes(d, voting) \cap Unspent(d))
<1> DEFINE result == OnGetVoteResult(d, voting)
           P == DOMAIN result
           left == CastVotes(d, voting) \cap Unspent(d)
           votes == {o \in VotesInTime(d, voting) : d.output[o].spendPkey \in P}
           owner == [o \in votes |-> d.output[o].spendPkey]
           g == WorthOf(d, voting)
           h == [p \in P |-> SumOf(g, VotesFor(d, voting, p))]
<1>1. ResultSum(d, voting) = SumOf(result, P)
  BY DEF ResultSum, SumOf
<1>2. /\ ValuesAreInts(d) /\ FiniteTables(d) /\ IsFiniteSet(DOMAIN d.output)
  BY DEF VotingBooks, GoodTables, FiniteTables
<1>3. VotesInTime(d, voting) \subseteq left
  <2>1. \A o \in DOMAIN d.output : o[1] \in DOMAIN d.transaction
    BY DEF VotingBooks, GoodTables, ForeignKeys
  <2> QED BY <2>1 DEF VotesInTime, GetUTXOSByTypeValue, Unspent, CastVotes, CastTxs
<1>4. /\ left \subseteq DOMAIN d.output /\ IsFiniteSet(left)
      /\ votes \in SUBSET left /\ IsFiniteSet(votes)
      /\ IsFiniteSet(VotesInTime(d, voting))
  <2>1. left \subseteq DOMAIN d.output
    BY DEF CastVotes
  <2> QED BY <1>2, <1>3, <2>1, FS_Subset
<1>5. \A o \in left : ValuesOf(d)[o] \in Nat /\ g[o] \in Nat /\ g[o] <= ValuesOf(d)[o]
  <2> SUFFICES ASSUME NEW o \in left
               PROVE  ValuesOf(d)[o] \in Nat /\ g[o] \in Nat /\ g[o] <= ValuesOf(d)[o]
    OBVIOUS
  <2>1. ValuesOf(d)[o] \in Nat /\ ValuesOf(d)[o] = d.output[o].value
    BY <1>4, NaturalSums DEF ValuesOf
  <2>2. d.output[o].value # 0
    <3>1. voting # Nil
      BY DEF VotingBooks, VotesAreValued
    <3>2. /\ o[1] \in DOMAIN d.transaction /\ PassesOn(d.transaction[o[1]].txBody)
          /\ o \in OutputsOf(d, o[1])
      BY <3>1 DEF CastVotes, CastTxs, PassesOn, OutputsOf
    <3> QED BY <3>2 DEF VotingBooks, VotesAreValued
  <2>3. g[o] = 1 \/ g[o] = d.output[o].value
    BY <1>4 DEF WorthOf, getVoteValue
  <2> QED BY <2>1, <2>2, <2>3
<1>6. IsFiniteSet(P)
  <2> DEFINE all == VotesInTime(d, voting)
             key == [o \in all |-> d.output[o].spendPkey]
  <2>1. P \subseteq {key[o] : o \in all}
    <3>1. P = {d.output[o].spendPkey : o \in all} \ Participants(d, voting)
      BY <1>2, ResultIs
    <3> HIDE DEF P, all
    <3> QED BY <3>1
  <2>2. IsFiniteSet({key[o] : o \in all})
    BY <1>4, FiniteImage
  <2> QED BY <2>1, <2>2, FS_Subset
<1>7. ASSUME NEW p \in P
      PROVE  /\ VotesFor(d, voting, p) = Fiber(owner, votes, p)
             /\ result[p] = h[p] % U32 /\ h[p] \in Nat
  <2>1. VotesFor(d, voting, p) = Fiber(owner, votes, p)
    BY DEF VotesFor, Fiber
  <2>2. result[p] = h[p] % U32
    BY <1>2, ResultIs
  <2>3. VotesFor(d, voting, p) \subseteq left
    BY <1>3 DEF VotesFor
  <2>4. IsFiniteSet(VotesFor(d, voting, p)) /\ \A o \in VotesFor(d, voting, p) : g[o] \in Nat
    BY <1>4, <1>5, <2>3, FS_Subset
  <2>5. SumOf(g, VotesFor(d, voting, p)) \in Nat
    BY <2>4, SumNat
  <2> QED BY <2>1, <2>2, <2>5
<1>8. \A o \in votes : owner[o] \in P
  OBVIOUS
<1>9. \A p \in P : h[p] = SumOf(g, Fiber(owner, votes, p))
  BY <1>7
<1> HIDE DEF result, P, left, votes, owner, g, h
<1>10. \A p \in P : result[p] \in Int /\ h[p] \in Int /\ result[p] <= h[p]
  BY <1>7, RemainderIsLess
<1>11. SumOf(result, P) <= SumOf(h, P)
  BY <1>6, <1>10, SumMonotone DEF IntOn
<1>12. SumOf(g, votes) = SumOf(h, P)
  BY <1>4, <1>5, <1>6, <1>8, <1>9, SumByFibers DEF IntOn
<1>13. SumOf(g, votes) <= SumOf(ValuesOf(d), votes)
  BY <1>4, <1>5, SumMonotone DEF IntOn
<1>14. SumOf(ValuesOf(d), votes) <= SumOf(ValuesOf(d), left)
  BY <1>4, <1>5, SumPart
<1>15. /\ SumOf(result, P) \in Int /\ SumOf(g, votes) \in Int
       /\ SumOf(ValuesOf(d), votes) \in Int /\ SumOf(ValuesOf(d), left) \in Int
  BY <1>4, <1>5, <1>6, <1>10, SumInt DEF IntOn
<1> QED BY <1>1, <1>11, <1>12, <1>13, <1>14, <1>15 DEF result, P, left

\* The sums of ResultIsCovered are these sums.
LEMMA CoveredIs ==
    ASSUME VotingBooks(db)
    PROVE  ResultIsCovered
<1> SUFFICES ASSUME NEW voting \in CreatedVotings(db)
             PROVE  ResultSum(db, voting) <= Total(GivenUp(voting)) + Repeated(voting)
  BY DEF ResultIsCovered
<1> DEFINE given == GivenUpIn(db, voting)
           spent == SpentVotes(db, voting)
           left == CastVotes(db, voting) \cap Unspent(db)
<1>1. voting \in DOMAIN db.transaction /\ db.transaction[voting].txBody.voteType # 0
  BY DEF CreatedVotings, Stored
<1>2. /\ GoodTables(db) /\ ValuesAreInts(db)
      /\ given \in SUBSET DOMAIN db.output /\ spent \in SUBSET DOMAIN db.output
      /\ left \in SUBSET DOMAIN db.output
      /\ IsFiniteSet(given) /\ IsFiniteSet(spent) /\ IsFiniteSet(left)
  <2>1. /\ given \in SUBSET DOMAIN db.output /\ spent \in SUBSET DOMAIN db.output
        /\ left \in SUBSET DOMAIN db.output
    BY DEF GivenUpIn, SpentVotes, CastVotes
  <2> QED BY <2>1, FS_Subset DEF VotingBooks, GoodTables, FiniteTables
<1>3. Total(GivenUp(voting)) = SumOf(ValuesOf(db), given)
  <2>1. GivenUp(voting) = given
    BY DEF GivenUp, GivenUpIn
  <2> QED BY <1>2, <2>1, TotalIs
<1>4. Repeated(voting) = (CHOOSE t : ExtraTable(t, db, spent))[spent]
  BY DEF Repeated, SpentVotes, MapThenSumSet, MapThenFoldSet, ExtraTable
<1>5. Repeated(voting) = SumOf(TakenAgain(db), spent)
  BY <1>2, <1>4, ExtraIs
<1>6. /\ ResultSum(db, voting) <= SumOf(ValuesOf(db), left)
      /\ SumOf(ValuesOf(db), left) <= SumOf(ValuesOf(db), given) + SumOf(TakenAgain(db), spent)
  BY <1>1, ResultIsOfCast, CastLeft
<1>7. /\ SumOf(ValuesOf(db), left) \in Int /\ SumOf(ValuesOf(db), given) \in Int
      /\ SumOf(TakenAgain(db), spent) \in Int /\ ResultSum(db, voting) \in Int
  <2>1. /\ IntOn(ValuesOf(db), left) /\ IntOn(ValuesOf(db), given)
        /\ IntOn(TakenAgain(db), spent)
    BY <1>2, TableValues, InputsByOutput DEF IntOn
  <2> QED BY <1>1, <1>2, <2>1, SumInt, ResultIsOfCast
<1> QED BY <1>3, <1>5, <1>6, <1>7

\* The candidates of a voting never hold more votes than its participants gave
\* up and what was added by passing votes on more than once, for every set of
\* users, amounts and votings, in every interleaving of blocks and restarts.
THEOREM ResultNeverExceeds == Spec => []ResultIsCovered
<1>1. ASSUME ChainInv, MarksMatchInputs, BooksInv(db), InputsAreLegitimate, VotesAreValued(db)
      PROVE  ResultIsCovered
  <2>1. ForeignKeys(db) /\ InputsAreMarked(db)
    BY <1>1 DEF ChainInv, IInv, TypeOK
  <2>2. MarkedByLast(db) /\ SpentByOwners(db)
    BY <1>1 DEF MarksMatchInputs, InputsAreLegitimate
  <2>3. FiniteTables(db) /\ ValuesAreInts(db) /\ Balanced(db)
    BY <1>1 DEF BooksInv
  <2>4. VotingBooks(db)
    BY <1>1, <2>1, <2>2, <2>3 DEF VotingBooks, GoodTables
  <2> QED BY <2>4, CoveredIs
<1>2. ChainInv /\ MarksMatchInputs /\ BooksInv(db) /\ InputsAreLegitimate /\ VotesAreValued(db)
            => ResultIsCovered
  BY <1>1
<1> QED BY <1>2, ChainInductive, MarksAgree, BooksInductive, InputsBelongToSigners,
    ValuedInductive, PTL
=============================================================================
