--------------------------- MODULE RewardsProofs -----------------------------
(***************************************************************************)
(* The rewards of a network, for any number of hosts, blocks, crashes,     *)
(* restarts and lost answers: a block is rewarded once, a reward is not    *)
(* lost by a proposer that asks itself first, and outages of other hosts   *)
(* stop no validator before there were as many as there are hosts.         *)
(***************************************************************************)
EXTENDS Rewards, NetworkProofs

\* What AppendTx accepts was not paid before.
LEMMA AcceptedIsNew ==
    ASSUME NEW blocks, NEW paid, NEW rs, NEW r \in Accepted(blocks, paid, rs)
    PROVE  r \notin {p[1] : p \in paid}
BY DEF Accepted, RewardVerdict

PaysOnce(paid) == \A p, q \in paid : p[1] = q[1] => p = q

\* A block that is executed pays rewards that were not paid, each of them once.
LEMMA BlockPaysOnce ==
    ASSUME NEW paid, PaysOnce(paid), NEW new, NEW h,
           \A r \in new : r \notin {p[1] : p \in paid}
    PROVE  PaysOnce(paid \cup (new \X {h}))
<1> SUFFICES ASSUME NEW p \in paid \cup (new \X {h}), NEW q \in paid \cup (new \X {h}),
                    p[1] = q[1]
             PROVE  p = q
  BY DEF PaysOnce
<1>1. CASE p \in paid /\ q \in paid
  BY <1>1 DEF PaysOnce
<1>2. CASE p \in new \X {h} /\ q \in new \X {h}
  BY <1>2
<1>3. CASE (p \in paid /\ q \in new \X {h}) \/ (p \in new \X {h} /\ q \in paid)
  BY <1>3
<1> QED BY <1>1, <1>2, <1>3

\* The rewards that the databases pay: one database a validator.
Books == /\ rewards = [n \in Validators |-> rewards[n]]
         /\ \A n \in Validators : PaysOnce(rewards[n])

LEMMA ExecuteKeepsBooks ==
    ASSUME Books, NEW n \in Validators, Execute(n)
    PROVE  Books'
<1> DEFINE paid == Accepted(done[n], rewards[n], chain[done[n] + 1].rewards)
           after == rewards[n] \cup (paid \X {done[n] + 1})
<1>1. rewards' = [rewards EXCEPT ![n] = after]
  BY DEF Execute
<1>2. PaysOnce(after)
  BY AcceptedIsNew, BlockPaysOnce DEF Books
<1> HIDE DEF after
<1> QED BY <1>1, <1>2 DEF Books

\* A validator that goes down loses its database.
LEMMA DownKeepsBooks ==
    ASSUME Books, NEW n \in Validators, Down(n)
    PROVE  Books'
<1>1. rewards' = [rewards EXCEPT ![n] = {}]
  BY DEF Down
<1>2. PaysOnce({})
  BY DEF PaysOnce
<1> QED BY <1>1, <1>2 DEF Books

\* The goroutine ends its process or leaves the databases alone.
LEMMA RetryKeepsBooks ==
    ASSUME Books, NEW n \in Validators, NEW r, Retry(n, r)
    PROVE  Books'
<1>1. Down(n) \/ UNCHANGED rewards
  BY DEF Retry
<1>2. CASE UNCHANGED rewards
  BY <1>2 DEF Books
<1> QED BY <1>1, <1>2, DownKeepsBooks

LEMMA NextBooks == ASSUME Books, [Next]_vars PROVE Books'
<1>1. CASE UNCHANGED rewards
  BY <1>1 DEF Books
<1>2. ASSUME NEW n \in Validators, CommitOthers(n) \/ CommitOwn(n) \/ CommitOwnEarly(n)
      PROVE  Books'
  BY <1>2, ExecuteKeepsBooks DEF CommitOthers, CommitOwn, CommitOwnEarly
<1>3. ASSUME NEW n \in Validators, CommitOwnTooEarly(n) \/ Crash(n)
      PROVE  Books'
  BY <1>3, DownKeepsBooks DEF CommitOwnTooEarly, Crash
<1>4. ASSUME NEW n \in Validators, NEW r \in 1 .. MaxBlocks, AnswerLost(n, r) \/ Fails(n, r)
      PROVE  Books'
  BY <1>4, RetryKeepsBooks DEF AnswerLost, Fails
<1>5. ASSUME NEW n \in Validators,
             \/ MakeNetwork(n) \/ FillNetwork(n) \/ Decide(n) \/ Start(n)
             \/ \E r \in 1 .. MaxBlocks : Answered(n, r) \/ \E m \in Validators : Gossip(m, n, r)
      PROVE  UNCHANGED rewards
  BY <1>5 DEF MakeNetwork, FillNetwork, Decide, Start, Answered, Gossip, node
<1>6. CASE Next
  BY <1>1, <1>2, <1>3, <1>4, <1>5, <1>6 DEF Next
<1>7. CASE UNCHANGED vars
  BY <1>1, <1>7 DEF vars, node
<1> QED BY <1>6, <1>7

\* Although every replay broadcasts the reward of a block again, to hosts that
\* may have forgotten it, no validator's ledger pays it in two blocks.
THEOREM RewardedOnce == Spec => []PaidOnce
<1>1. Init => Books
  BY DEF Init, Books, PaysOnce
<1>2. Books /\ [Next]_vars => Books'
  BY NextBooks
<1>3. Books => PaidOnce
  BY DEF Books, PaysOnce, PaidOnce
<1> QED BY <1>1, <1>2, <1>3, PTL DEF Spec

-----------------------------------------------------------------------------
(* What a validator knows of its own rewards.                              *)

\* The blocks and rewards of a validator are heights.
RewardTypes ==
    /\ chain \in Seq([proposer : Validators, rewards : SUBSET Int])
    /\ status \in [Validators -> {"up", "down", "replaying"}]
    /\ done \in [Validators -> Nat] /\ \A n \in Validators : done[n] <= Len(chain)
    /\ mempool \in [Validators -> SUBSET Int] /\ cache \in [Validators -> SUBSET Int]
    /\ rewards = [n \in Validators |-> rewards[n]] /\ nw = [n \in Validators |-> nw[n]]
    /\ jobs = [n \in Validators |-> jobs[n]]
    /\ \A n \in Validators : jobs[n] = [r \in DOMAIN jobs[n] |-> jobs[n][r]]
    /\ trouble = [n \in Followed |-> trouble[n]]

\* A reward that the validator's own host has, or that its database pays.
Held(n, r) == r \in mempool[n] \/ r \in {p[1] : p \in rewards[n]}

\* A validator that was never in trouble has not been down.  Its cache has only
\* what it holds; it broadcasts rewards of blocks it has executed, and none
\* before its network is ready; a broadcast leaves the own host only when that
\* host holds the reward.
Careful(n) ==
    /\ status[n] = "up"
    /\ \A r \in cache[n] : Held(n, r)
    /\ DOMAIN jobs[n] \subseteq 1 .. done[n]
    /\ nw[n] \in {Nil, BlankNetwork} =>
        DOMAIN jobs[n] = {} /\ \A r \in 1 .. done[n] : chain[r].proposer # n
    /\ nw[n] \notin {Nil, BlankNetwork} /\ nw[n].curHost = n =>
        /\ \A r \in DOMAIN jobs[n] : Host(n, r) = n \/ Held(n, r)
        /\ \A r \in 1 .. done[n] : chain[r].proposer = n => r \in DOMAIN jobs[n] \/ Held(n, r)

RewardsInv ==
    /\ RewardTypes
    /\ \A n \in Validators \cap Followed :
        trouble[n] = {} /\ status[n] # "down" => Careful(n)

-----------------------------------------------------------------------------
(* Types.                                                                  *)

LEMMA DownTypes ==
    ASSUME RewardTypes, NEW n \in Validators, Down(n), UNCHANGED chain,
           trouble' = [m \in Followed |-> trouble'[m]],
           mempool' \in [Validators -> SUBSET Int], cache' \in [Validators -> SUBSET Int]
    PROVE  RewardTypes'
<1>1. /\ status' \in [Validators -> {"up", "down", "replaying"}]
      /\ done' \in [Validators -> Nat] /\ \A m \in Validators : done'[m] <= Len(chain)
  BY LenProperties DEF RewardTypes, Down
<1>2. /\ rewards' = [m \in Validators |-> rewards'[m]] /\ nw' = [m \in Validators |-> nw'[m]]
      /\ jobs' = [m \in Validators |-> jobs'[m]]
  BY DEF RewardTypes, Down
<1>3. \A m \in Validators : jobs'[m] = [r \in DOMAIN jobs'[m] |-> jobs'[m][r]]
  BY DEF RewardTypes, Down, NoJobs
<1> QED BY <1>1, <1>2, <1>3 DEF RewardTypes

LEMMA CheckTxTypes ==
    ASSUME RewardTypes, NEW m \in Validators, NEW r \in Int, CheckTx(m, r)
    PROVE  /\ mempool' \in [Validators -> SUBSET Int] /\ cache' \in [Validators -> SUBSET Int]
           /\ \A k \in Validators : mempool[k] \subseteq mempool'[k]
           /\ \A k \in Validators : \A q \in cache'[k] : q \in cache[k] \/ q \in mempool'[k]
           /\ \A q \in {r} : q \in 1 .. done[m] => q \in mempool'[m] \/ q \in {p[1] : p \in rewards[m]}
<1> DEFINE new == Accepted(done[m], rewards[m], {r})
<1>1. new \subseteq {r}
  BY DEF Accepted
<1>2. r \in 1 .. done[m] => r \in new \/ r \in {p[1] : p \in rewards[m]}
  BY DEF Accepted, RewardVerdict
<1> HIDE DEF new
<1>3. /\ mempool' = [mempool EXCEPT ![m] = @ \cup new]
      /\ cache' = [cache EXCEPT ![m] = @ \cup new]
  BY DEF CheckTx, new
<1> QED BY <1>1, <1>2, <1>3 DEF RewardTypes

LEMMA ExecuteTypes ==
    ASSUME RewardTypes, NEW n \in Validators, CanCommit(n), Execute(n), Replayed(n),
           UNCHANGED chain, nw' = nw, trouble' = [m \in Followed |-> trouble'[m]],
           jobs' = [m \in Validators |-> jobs'[m]],
           \A m \in Validators : jobs'[m] = [r \in DOMAIN jobs'[m] |-> jobs'[m][r]]
    PROVE  RewardTypes'
<1>1. done[n] \in Nat /\ done[n] < Len(chain) /\ Len(chain) \in Nat
  BY LenProperties DEF RewardTypes, CanCommit
<1>2. done[n] + 1 \in 1 .. Len(chain)
  BY <1>1
<1>3. chain[done[n] + 1].rewards \subseteq Int
  <2>1. chain \in Seq([proposer : Validators, rewards : SUBSET Int])
    BY DEF RewardTypes
  <2>2. chain[done[n] + 1] \in [proposer : Validators, rewards : SUBSET Int]
    BY <1>2, <2>1, ElementOfSeq
  <2> QED BY <2>2
<1>4. /\ done' \in [Validators -> Nat] /\ \A m \in Validators : done'[m] <= Len(chain)
  BY <1>1 DEF RewardTypes, Execute
<1>5. status' \in [Validators -> {"up", "down", "replaying"}]
  BY DEF RewardTypes, Replayed
<1> DEFINE paid == Accepted(done[n], rewards[n], chain[done[n] + 1].rewards)
           after == rewards[n] \cup (paid \X {done[n] + 1})
           refused == mempool[n] \ Accepted(done[n] + 1, after, mempool[n])
<1>6. paid \subseteq Int
  BY <1>3 DEF Accepted
<1>7. rewards' = [rewards EXCEPT ![n] = after]
  BY DEF Execute
<1>8. /\ mempool' = IF status[n] = "up"
                    THEN [mempool EXCEPT ![n] = @ \ (chain[done[n] + 1].rewards \cup refused)]
                    ELSE mempool
      /\ cache' = IF status[n] = "up"
                  THEN [cache EXCEPT ![n] =
                           (@ \cup paid) \ ((chain[done[n] + 1].rewards \ paid) \cup refused)]
                  ELSE cache
  BY DEF Execute
<1> HIDE DEF paid, after, refused
<1>9. rewards' = [m \in Validators |-> rewards'[m]] /\ nw' = [m \in Validators |-> nw'[m]]
  BY <1>7 DEF RewardTypes
<1>10. mempool' \in [Validators -> SUBSET Int]
  BY <1>8 DEF RewardTypes
<1>11. cache' \in [Validators -> SUBSET Int]
  BY <1>6, <1>8 DEF RewardTypes
<1> QED BY <1>4, <1>5, <1>9, <1>10, <1>11 DEF RewardTypes

LEMMA MeetsTypes ==
    ASSUME NEW n, NEW what, Meets(n, what)
    PROVE  /\ trouble' = [m \in Followed |-> trouble'[m]]
           /\ \A m \in Followed : trouble'[m] = {} => trouble[m] = {} /\ m # n
BY DEF Meets

LEMMA StartJobTypes ==
    ASSUME RewardTypes, NEW n \in Validators, NEW net, StartJob(n, net)
    PROVE  /\ jobs' = [m \in Validators |-> jobs'[m]]
           /\ \A m \in Validators : jobs'[m] = [r \in DOMAIN jobs'[m] |-> jobs'[m][r]]
           /\ \A m \in Validators \ {n} : jobs'[m] = jobs[m]
           /\ DOMAIN jobs'[n] = DOMAIN jobs[n] \cup {done[n] + 1}
           /\ \A r \in DOMAIN jobs[n] : jobs'[n][r] = jobs[n][r]
           /\ done[n] + 1 \notin DOMAIN jobs[n] =>
                jobs'[n][done[n] + 1] = [net |-> net, errors |-> 0]
<1> DEFINE new == [r \in DOMAIN jobs[n] \cup {done[n] + 1} |->
                      IF r \in DOMAIN jobs[n] THEN jobs[n][r] ELSE [net |-> net, errors |-> 0]]
<1>1. jobs' = [jobs EXCEPT ![n] = new]
  BY DEF StartJob
<1>2. new = [r \in DOMAIN new |-> new[r]]
  OBVIOUS
<1>3. /\ DOMAIN new = DOMAIN jobs[n] \cup {done[n] + 1}
      /\ \A r \in DOMAIN jobs[n] : new[r] = jobs[n][r]
      /\ done[n] + 1 \notin DOMAIN jobs[n] => new[done[n] + 1] = [net |-> net, errors |-> 0]
  OBVIOUS
<1> HIDE DEF new
<1>4. jobs'[n] = new /\ \A m \in Validators \ {n} : jobs'[m] = jobs[m]
  BY <1>1 DEF RewardTypes
<1>5. jobs' = [m \in Validators |-> jobs'[m]]
  BY <1>1 DEF RewardTypes
<1> QED BY <1>2, <1>3, <1>4, <1>5 DEF RewardTypes

\* A retry changes the job it is about, or ends the process.
LEMMA RetryTypes ==
    ASSUME RewardTypes, NEW n \in Validators, NEW r \in DOMAIN jobs[n], Retry(n, r)
    PROVE  \/ Down(n)
           \/ /\ UNCHANGED <<status, nw, done, rewards>>
              /\ jobs' = [m \in Validators |-> jobs'[m]]
              /\ \A m \in Validators : jobs'[m] = [q \in DOMAIN jobs'[m] |-> jobs'[m][q]]
              /\ \A m \in Validators \ {n} : jobs'[m] = jobs[m]
              /\ DOMAIN jobs'[n] = DOMAIN jobs[n]
              /\ \A q \in DOMAIN jobs[n] \ {r} : jobs'[n][q] = jobs[n][q]
<1> SUFFICES ASSUME ~ Down(n) PROVE
              /\ UNCHANGED <<status, nw, done, rewards>>
              /\ jobs' = [m \in Validators |-> jobs'[m]]
              /\ \A m \in Validators : jobs'[m] = [q \in DOMAIN jobs'[m] |-> jobs'[m][q]]
              /\ \A m \in Validators \ {n} : jobs'[m] = jobs[m]
              /\ DOMAIN jobs'[n] = DOMAIN jobs[n]
              /\ \A q \in DOMAIN jobs[n] \ {r} : jobs'[n][q] = jobs[n][q]
  OBVIOUS
<1>1. UNCHANGED <<status, nw, done, rewards>>
  BY DEF Retry
<1>2. PICK job : jobs' = [jobs EXCEPT ![n][r] = job]
  BY DEF Retry
<1>3. jobs' = [jobs EXCEPT ![n] = [jobs[n] EXCEPT ![r] = job]]
  BY <1>2
<1> DEFINE new == [jobs[n] EXCEPT ![r] = job]
<1>4. /\ new = [q \in DOMAIN new |-> new[q]] /\ DOMAIN new = DOMAIN jobs[n]
      /\ \A q \in DOMAIN jobs[n] \ {r} : new[q] = jobs[n][q]
  OBVIOUS
<1>5. jobs' = [jobs EXCEPT ![n] = new]
  BY <1>3
<1> HIDE DEF new
<1>6. jobs'[n] = new /\ \A m \in Validators \ {n} : jobs'[m] = jobs[m]
  BY <1>5 DEF RewardTypes
<1>7. jobs' = [m \in Validators |-> jobs'[m]]
  BY <1>5 DEF RewardTypes
<1> QED BY <1>1, <1>4, <1>6, <1>7 DEF RewardTypes

LEMMA NextTypes == ASSUME RewardTypes, [Next]_vars PROVE RewardTypes'
<1>1. CASE UNCHANGED vars
  BY <1>1 DEF RewardTypes, vars, node, tendermint
<1>2. ASSUME NEW n \in Validators, MakeNetwork(n) \/ FillNetwork(n) PROVE RewardTypes'
  <2>1. PICK net : nw' = [nw EXCEPT ![n] = net]
    BY <1>2 DEF MakeNetwork, FillNetwork
  <2>2. nw' = [m \in Validators |-> nw'[m]]
    BY <2>1 DEF RewardTypes
  <2>3. UNCHANGED <<status, done, rewards, jobs, tendermint, chain, trouble>>
    BY <1>2 DEF MakeNetwork, FillNetwork
  <2> QED BY <2>2, <2>3 DEF RewardTypes, tendermint
<1>3. ASSUME NEW n \in Validators, Decide(n) PROVE RewardTypes'
  <2>1. /\ chain' = Append(chain, [proposer |-> n, rewards |-> mempool[n]])
        /\ UNCHANGED <<node, tendermint, trouble>>
    BY <1>3 DEF Decide
  <2>2. [proposer |-> n, rewards |-> mempool[n]] \in [proposer : Validators, rewards : SUBSET Int]
    BY DEF RewardTypes
  <2>3. /\ chain' \in Seq([proposer : Validators, rewards : SUBSET Int])
        /\ Len(chain') = Len(chain) + 1 /\ Len(chain) \in Nat
    BY <2>1, <2>2, AppendProperties, LenProperties DEF RewardTypes
  <2>4. \A m \in Validators : done[m] <= Len(chain')
    BY <2>3 DEF RewardTypes
  <2> QED BY <2>1, <2>3, <2>4 DEF RewardTypes, node, tendermint
<1>4. ASSUME NEW n \in Validators, CommitOthers(n) PROVE RewardTypes'
  <2>1. /\ CanCommit(n) /\ Execute(n) /\ Replayed(n)
        /\ UNCHANGED <<nw, jobs, chain, trouble>>
    BY <1>4 DEF CommitOthers
  <2> QED BY <2>1, ExecuteTypes DEF RewardTypes
<1>5. ASSUME NEW n \in Validators, CommitOwn(n) \/ CommitOwnEarly(n) PROVE RewardTypes'
  <2>1. /\ CanCommit(n) /\ Execute(n) /\ Replayed(n)
        /\ \E net : StartJob(n, net)
        /\ UNCHANGED <<nw, chain>>
        /\ trouble' = trouble \/ Meets(n, "unready")
    BY <1>5 DEF CommitOwn, CommitOwnEarly
  <2>2. trouble' = [m \in Followed |-> trouble'[m]]
    BY <2>1, MeetsTypes DEF RewardTypes
  <2> QED BY <2>1, <2>2, StartJobTypes, ExecuteTypes
<1>6. ASSUME NEW n \in Validators, CommitOwnTooEarly(n) PROVE RewardTypes'
  <2>1. Down(n) /\ Meets(n, "unready") /\ UNCHANGED <<mempool, cache, chain>>
    BY <1>6 DEF CommitOwnTooEarly
  <2> QED BY <2>1, MeetsTypes, DownTypes DEF RewardTypes
<1>7. ASSUME NEW n \in Validators, Crash(n) PROVE RewardTypes'
  <2>1. /\ Down(n) /\ UNCHANGED <<chain, trouble>>
        /\ mempool' = [mempool EXCEPT ![n] = {}] /\ cache' = [cache EXCEPT ![n] = {}]
    BY <1>7 DEF Crash
  <2> QED BY <2>1, DownTypes DEF RewardTypes
<1>8. ASSUME NEW n \in Validators, Start(n) PROVE RewardTypes'
  <2>1. /\ mempool' = [mempool EXCEPT ![n] = {}] /\ cache' = [cache EXCEPT ![n] = {}]
        /\ status' \in [Validators -> {"up", "down", "replaying"}]
        /\ Meets(n, "restarted")
        /\ UNCHANGED <<nw, done, rewards, jobs, chain>>
    BY <1>8 DEF Start, RewardTypes
  <2> QED BY <2>1, MeetsTypes DEF RewardTypes
<1>9. ASSUME NEW m \in Validators, NEW n \in Validators, NEW r \in 1 .. MaxBlocks, Gossip(m, n, r)
      PROVE  RewardTypes'
  <2>1. CheckTx(n, r) /\ UNCHANGED <<node, chain, trouble>>
    BY <1>9 DEF Gossip
  <2> QED BY <2>1, CheckTxTypes DEF RewardTypes, node
<1>10. ASSUME NEW n \in Validators, NEW r \in 1 .. MaxBlocks, Answered(n, r) PROVE RewardTypes'
  <2>1. /\ CheckTx(Host(n, r), r) /\ Host(n, r) \in Validators
        /\ UNCHANGED <<status, nw, done, rewards, chain, trouble>>
        /\ jobs' = [jobs EXCEPT ![n] = [q \in DOMAIN @ \ {r} |-> @[q]]]
    BY <1>10 DEF Answered, Takes, Alive
  <2> DEFINE new == [q \in DOMAIN jobs[n] \ {r} |-> jobs[n][q]]
  <2>2. jobs' = [jobs EXCEPT ![n] = new] /\ new = [q \in DOMAIN new |-> new[q]]
    BY <2>1
  <2> HIDE DEF new
  <2>3. /\ jobs' = [m \in Validators |-> jobs'[m]]
        /\ \A m \in Validators : jobs'[m] = [q \in DOMAIN jobs'[m] |-> jobs'[m][q]]
    BY <2>2 DEF RewardTypes
  <2>4. mempool' \in [Validators -> SUBSET Int] /\ cache' \in [Validators -> SUBSET Int]
    BY <2>1, CheckTxTypes
  <2> QED BY <2>1, <2>3, <2>4 DEF RewardTypes
<1>11. ASSUME NEW n \in Validators, NEW r \in 1 .. MaxBlocks, AnswerLost(n, r) \/ Fails(n, r)
       PROVE  RewardTypes'
  <2>1. /\ Retry(n, r) /\ r \in DOMAIN jobs[n] /\ UNCHANGED chain
        /\ \/ CheckTx(Host(n, r), r) /\ Host(n, r) \in Validators
           \/ UNCHANGED tendermint
        /\ trouble' = trouble \/ Meets(n, "answerLost")
    BY <1>11 DEF AnswerLost, Fails, Broadcasting, Takes, Alive
  <2>2. trouble' = [m \in Followed |-> trouble'[m]]
    BY <2>1, MeetsTypes DEF RewardTypes
  <2>3. mempool' \in [Validators -> SUBSET Int] /\ cache' \in [Validators -> SUBSET Int]
    BY <2>1, CheckTxTypes DEF RewardTypes, tendermint
  <2>4. CASE Down(n)
    BY <2>1, <2>2, <2>3, <2>4, DownTypes
  <2>5. CASE ~ Down(n)
    <3>1. /\ UNCHANGED <<status, nw, done, rewards>>
          /\ jobs' = [m \in Validators |-> jobs'[m]]
          /\ \A m \in Validators : jobs'[m] = [q \in DOMAIN jobs'[m] |-> jobs'[m][q]]
      BY <2>1, <2>5, RetryTypes
    <3> QED BY <2>1, <2>2, <2>3, <3>1 DEF RewardTypes
  <2> QED BY <2>4, <2>5
<1> QED BY <1>1, <1>2, <1>3, <1>4, <1>5, <1>6, <1>7, <1>8, <1>9, <1>10, <1>11 DEF Next

-----------------------------------------------------------------------------
(* The rewards of a careful validator.                                     *)

\* What it and its host know stays, and the mempool may grow.
LEMMA CarefulGrows ==
    ASSUME RewardTypes, NEW n \in Validators, Careful(n),
           status'[n] = status[n], nw'[n] = nw[n], done'[n] = done[n],
           rewards'[n] = rewards[n], jobs'[n] = jobs[n],
           mempool[n] \subseteq mempool'[n],
           \A r \in cache'[n] : r \in cache[n] \/ r \in mempool'[n],
           \A r \in 1 .. done[n] : chain'[r] = chain[r]
    PROVE  Careful(n)'
<1>1. \A r : Held(n, r) => Held(n, r)'
  BY DEF Held
<1>2. \A r \in cache'[n] : Held(n, r)'
  BY <1>1 DEF Careful, Held
<1>3. \A r : Host(n, r)' = Host(n, r)
  BY DEF Host
<1> QED BY <1>1, <1>2, <1>3 DEF Careful

\* What is not its own does not touch a validator.
LEMMA OthersLeave ==
    ASSUME RewardTypes, NEW n \in Validators, Careful(n), NEW m \in Validators \ {n}, UNCHANGED chain,
           Execute(m) \/ Down(m) \/ UNCHANGED <<done, rewards>>,
           Replayed(m) \/ Down(m) \/ UNCHANGED status \/ status'[n] = status[n],
           Down(m) \/ nw'[n] = nw[n],
           Down(m) \/ jobs'[n] = jobs[n],
           \/ Execute(m)
           \/ mempool[n] \subseteq mempool'[n] /\ \A r \in cache'[n] : r \in cache[n] \/ r \in mempool'[n]
    PROVE  Careful(n)'
<1>1. status'[n] = status[n]
  BY DEF RewardTypes, Replayed, Down
<1>2. done'[n] = done[n] /\ rewards'[n] = rewards[n]
  BY DEF RewardTypes, Execute, Down
<1>3. nw'[n] = nw[n] /\ jobs'[n] = jobs[n]
  BY DEF RewardTypes, Down
<1>4. mempool[n] \subseteq mempool'[n] /\ \A r \in cache'[n] : r \in cache[n] \/ r \in mempool'[n]
  BY DEF RewardTypes, Execute
<1> QED BY <1>1, <1>2, <1>3, <1>4, CarefulGrows

\* A block is executed: what the host drops from its mempool is paid, and what
\* it drops from its cache it may take again.
LEMMA ExecuteKeepsHeld ==
    ASSUME RewardTypes, NEW n \in Validators, Careful(n), CanCommit(n), Execute(n)
    PROVE  /\ done'[n] = done[n] + 1
           /\ \A r \in 1 .. done[n] : Held(n, r) => Held(n, r)'
           /\ \A r \in cache'[n] : Held(n, r)'
<1> DEFINE block == chain[done[n] + 1].rewards
           paid == Accepted(done[n], rewards[n], block)
           after == rewards[n] \cup (paid \X {done[n] + 1})
           refused == mempool[n] \ Accepted(done[n] + 1, after, mempool[n])
<1>1. status[n] = "up" /\ done[n] \in Nat
  BY DEF Careful, RewardTypes
<1>2. /\ done'[n] = done[n] + 1 /\ rewards'[n] = after
      /\ mempool'[n] = mempool[n] \ (block \cup refused)
      /\ cache'[n] = (cache[n] \cup paid) \ ((block \ paid) \cup refused)
  BY <1>1 DEF Execute, RewardTypes
<1>3. \A r : r \in {p[1] : p \in after} <=> r \in {p[1] : p \in rewards[n]} \/ r \in paid
  <2> HIDE DEF paid
  <2>1. \A r \in paid : <<r, done[n] + 1>> \in after
    OBVIOUS
  <2>2. ASSUME NEW p \in after PROVE p \in rewards[n] \/ p[1] \in paid
    OBVIOUS
  <2>3. rewards[n] \subseteq after
    OBVIOUS
  <2> HIDE DEF after
  <2>4. ASSUME NEW r \in paid PROVE r \in {p[1] : p \in after}
    <3>1. <<r, done[n] + 1>>[1] = r
      OBVIOUS
    <3> QED BY <2>1, <3>1
  <2>5. ASSUME NEW r \in {p[1] : p \in after} PROVE r \in {p[1] : p \in rewards[n]} \/ r \in paid
    <3>1. PICK p \in after : r = p[1]
      OBVIOUS
    <3> QED BY <2>2, <3>1
  <2>6. ASSUME NEW r \in {p[1] : p \in rewards[n]} PROVE r \in {p[1] : p \in after}
    BY <2>3
  <2> QED BY <2>4, <2>5, <2>6
<1>4. \A r \in block : r \in 1 .. done[n] => r \in paid \/ r \in {p[1] : p \in rewards[n]}
  BY DEF Accepted, RewardVerdict
<1>5. \A r \in mempool[n] : r \in 1 .. done[n] /\ r \in refused => r \in {p[1] : p \in after}
  <2>1. \A r \in 1 .. done[n] : r \in 1 .. (done[n] + 1)
    BY <1>1
  <2> HIDE DEF after
  <2> QED BY <2>1 DEF Accepted, RewardVerdict
<1> HIDE DEF paid, block, after, refused
<1>6. ASSUME NEW r \in 1 .. done[n], Held(n, r) PROVE Held(n, r)'
  BY <1>2, <1>3, <1>4, <1>5, <1>6 DEF Held
<1>7. ASSUME NEW r \in cache'[n] PROVE Held(n, r)'
  <2>1. CASE r \in paid
    BY <1>2, <1>3, <2>1 DEF Held
  <2>2. CASE r \notin paid
    <3>1. r \in cache[n] /\ r \notin block /\ r \notin refused
      BY <1>2, <1>7, <2>2
    <3>2. r \in mempool[n] \/ r \in {p[1] : p \in rewards[n]}
      BY <3>1 DEF Careful, Held
    <3> QED BY <1>2, <1>3, <3>1, <3>2 DEF Held
  <2> QED BY <2>1, <2>2
<1> QED BY <1>2, <1>6, <1>7

\* A commit of a block that is not its own, or of its own while its network is
\* ready: then the goroutine starts with its own host.
LEMMA CommitKeepsCareful ==
    ASSUME RewardTypes, NEW n \in Validators, Careful(n), CanCommit(n), Execute(n), Replayed(n),
           UNCHANGED <<nw, chain>>,
           \/ chain[done[n] + 1].proposer # n /\ UNCHANGED jobs
           \/ nw[n] \notin {Nil, BlankNetwork} /\ StartJob(n, nw[n])
    PROVE  Careful(n)'
<1>1. /\ done'[n] = done[n] + 1 /\ done[n] \in Nat
      /\ \A r \in 1 .. done[n] : Held(n, r) => Held(n, r)'
      /\ \A r \in cache'[n] : Held(n, r)'
  BY ExecuteKeepsHeld DEF RewardTypes
<1>2. status'[n] = "up"
  BY DEF RewardTypes, Replayed, Careful
<1>3. \A r \in 1 .. done'[n] : r \in 1 .. done[n] \/ r = done[n] + 1
  BY <1>1
<1>4. DOMAIN jobs[n] \subseteq 1 .. done[n]
  BY DEF Careful
<1>5. /\ DOMAIN jobs[n] \subseteq DOMAIN jobs'[n]
      /\ \A r \in DOMAIN jobs[n] : jobs'[n][r] = jobs[n][r]
      /\ \A r \in DOMAIN jobs'[n] : r \in DOMAIN jobs[n] \/ r = done[n] + 1
  <2>1. CASE UNCHANGED jobs
    BY <2>1
  <2>2. CASE StartJob(n, nw[n])
    <3>1. /\ DOMAIN jobs'[n] = DOMAIN jobs[n] \cup {done[n] + 1}
          /\ \A r \in DOMAIN jobs[n] : jobs'[n][r] = jobs[n][r]
      BY <2>2, StartJobTypes
    <3> QED BY <3>1
  <2> QED BY <2>1, <2>2
<1>6. DOMAIN jobs'[n] \subseteq 1 .. done'[n]
  BY <1>1, <1>4, <1>5
<1>7. \A r \in DOMAIN jobs[n] : Host(n, r)' = Host(n, r)
  BY <1>5 DEF Host
<1>8. CASE chain[done[n] + 1].proposer # n /\ UNCHANGED jobs
  BY <1>1, <1>2, <1>3, <1>4, <1>6, <1>7, <1>8 DEF Careful
<1>9. CASE nw[n] \notin {Nil, BlankNetwork} /\ StartJob(n, nw[n])
  <2>1. done[n] + 1 \notin DOMAIN jobs[n]
    BY <1>1, <1>4
  <2>2. done[n] + 1 \in DOMAIN jobs'[n] /\ jobs'[n][done[n] + 1].net = nw[n]
    <3>1. /\ DOMAIN jobs'[n] = DOMAIN jobs[n] \cup {done[n] + 1}
          /\ jobs'[n][done[n] + 1] = [net |-> nw[n], errors |-> 0]
      BY <1>9, <2>1, StartJobTypes
    <3> QED BY <3>1
  <2>3. \A r : r = done[n] + 1 => Host(n, r)' = nw[n].curHost
    BY <2>2 DEF Host
  <2>4. ASSUME nw[n].curHost = n, NEW r \in DOMAIN jobs'[n] PROVE Host(n, r)' = n \/ Held(n, r)'
    <3>1. CASE r \in DOMAIN jobs[n]
      <4>1. r \in 1 .. done[n] /\ (Host(n, r) = n \/ Held(n, r))
        BY <1>4, <1>9, <2>4, <3>1 DEF Careful
      <4> QED BY <1>1, <1>7, <3>1, <4>1
    <3>2. CASE r = done[n] + 1
      BY <2>3, <2>4, <3>2
    <3> QED BY <1>5, <2>4, <3>1, <3>2
  <2>5. ASSUME nw[n].curHost = n, NEW r \in 1 .. done'[n], chain[r].proposer = n
        PROVE  r \in DOMAIN jobs'[n] \/ Held(n, r)'
    BY <1>1, <1>3, <1>5, <1>9, <2>2, <2>5 DEF Careful
  <2> QED BY <1>1, <1>2, <1>6, <1>9, <2>4, <2>5 DEF Careful
<1> QED BY <1>8, <1>9

\* The host that a broadcast asks answers: its own holds the reward from now on.
LEMMA AnsweredKeepsCareful ==
    ASSUME RewardTypes, NEW n \in Validators, Careful(n), NEW r \in 1 .. MaxBlocks, Answered(n, r)
    PROVE  Careful(n)'
<1> DEFINE host == Host(n, r)
<1>1. /\ CheckTx(host, r) /\ host \in Validators /\ r \in DOMAIN jobs[n]
      /\ UNCHANGED <<status, nw, done, rewards, chain>>
      /\ jobs' = [jobs EXCEPT ![n] = [q \in DOMAIN @ \ {r} |-> @[q]]]
  BY DEF Answered, Takes, Alive, Broadcasting
<1>2. /\ DOMAIN jobs'[n] = DOMAIN jobs[n] \ {r}
      /\ \A q \in DOMAIN jobs[n] \ {r} : jobs'[n][q] = jobs[n][q]
  BY <1>1 DEF RewardTypes
<1>3. \A q \in DOMAIN jobs[n] \ {r} : Host(n, q)' = Host(n, q)
  BY <1>2 DEF Host
<1>4. /\ mempool[n] \subseteq mempool'[n]
      /\ \A q \in cache'[n] : q \in cache[n] \/ q \in mempool'[n]
  BY <1>1, CheckTxTypes
<1>5. \A q : Held(n, q) => Held(n, q)'
  BY <1>1, <1>4 DEF Held
<1>6. host = n /\ r \in 1 .. done[n] => Held(n, r)'
  BY <1>1, CheckTxTypes DEF Held
<1>7. nw[n] \notin {Nil, BlankNetwork} /\ nw[n].curHost = n => Held(n, r)'
  BY <1>1, <1>5, <1>6 DEF Careful
<1>8. \A q \in cache'[n] : Held(n, q)'
  BY <1>4, <1>5 DEF Careful, Held
<1> QED BY <1>1, <1>2, <1>3, <1>5, <1>7, <1>8 DEF Careful

\* No host, or the cache of the host, takes the reward: the own host refuses
\* only what it holds.
LEMMA FailsKeepsCareful ==
    ASSUME RewardTypes, NEW n \in Validators, Careful(n), NEW r \in 1 .. MaxBlocks, Fails(n, r),
           status'[n] # "down"
    PROVE  Careful(n)'
<1>1. /\ r \in DOMAIN jobs[n] /\ ~ Takes(n, r) /\ Retry(n, r)
      /\ UNCHANGED <<tendermint, chain>>
  BY DEF Fails, Broadcasting
<1>2. ~ Down(n)
  BY DEF Down, RewardTypes
<1>3. /\ UNCHANGED <<status, nw, done, rewards>>
      /\ DOMAIN jobs'[n] = DOMAIN jobs[n]
      /\ \A q \in DOMAIN jobs[n] \ {r} : jobs'[n][q] = jobs[n][q]
  BY <1>1, <1>2, RetryTypes
<1>4. Host(n, r) = n => Held(n, r)
  BY <1>1 DEF Takes, Alive, Careful
<1>5. \A q \in DOMAIN jobs[n] \ {r} : Host(n, q)' = Host(n, q)
  BY <1>3 DEF Host
<1>6. \A q : Held(n, q)' <=> Held(n, q)
  BY <1>1, <1>3 DEF Held, tendermint
<1>7. nw[n] \notin {Nil, BlankNetwork} /\ nw[n].curHost = n => Held(n, r)'
  BY <1>1, <1>4, <1>6 DEF Careful
<1> QED BY <1>1, <1>3, <1>5, <1>6, <1>7 DEF Careful, tendermint

LEMMA NextKeepsCareful ==
    ASSUME RewardsInv, [Next]_vars, NEW n \in Validators \cap Followed,
           trouble'[n] = {}, status'[n] # "down"
    PROVE  Careful(n)'
<1> USE DEF RewardsInv
<1>1. CASE UNCHANGED vars
  <2>1. Careful(n)
    BY <1>1 DEF vars, node
  <2> QED BY <1>1, <2>1, CarefulGrows DEF vars, node, tendermint
<1>2. ASSUME NEW m \in Validators, MakeNetwork(m) \/ FillNetwork(m) PROVE Careful(n)'
  <2>1. UNCHANGED <<status, done, rewards, jobs, tendermint, chain, trouble>>
    BY <1>2 DEF MakeNetwork, FillNetwork
  <2>2. Careful(n)
    BY <2>1
  <2>3. CASE m = n
    <3>1. nw[n] \in {Nil, BlankNetwork}
      BY <1>2, <2>3 DEF MakeNetwork, FillNetwork
    <3>2. DOMAIN jobs[n] = {} /\ \A r \in 1 .. done[n] : chain[r].proposer # n
      BY <2>2, <3>1 DEF Careful
    <3> QED BY <2>1, <2>2, <3>2 DEF Careful, Held, tendermint
  <2>4. CASE m # n
    <3>1. nw'[n] = nw[n]
      BY <1>2, <2>4 DEF MakeNetwork, FillNetwork, RewardTypes
    <3> QED BY <2>1, <2>2, <3>1, CarefulGrows DEF tendermint
  <2> QED BY <2>3, <2>4
<1>3. ASSUME NEW p \in Validators, Decide(p) PROVE Careful(n)'
  <2>1. /\ chain' = Append(chain, [proposer |-> p, rewards |-> mempool[p]])
        /\ UNCHANGED <<node, tendermint, trouble>>
    BY <1>3 DEF Decide
  <2>2. Careful(n)
    BY <2>1 DEF node
  <2>3. \A r \in 1 .. done[n] : r \in 1 .. Len(chain)
    <3>1. done[n] <= Len(chain) /\ done[n] \in Nat /\ Len(chain) \in Nat
      BY LenProperties DEF RewardTypes
    <3> QED BY <3>1
  <2>4. \A r \in 1 .. done[n] : chain'[r] = chain[r]
    BY <2>1, <2>3, AppendProperties DEF RewardTypes
  <2> QED BY <2>1, <2>2, <2>4, CarefulGrows DEF node, tendermint
<1>4. ASSUME NEW m \in Validators, CommitOthers(m) PROVE Careful(n)'
  <2>1. /\ CanCommit(m) /\ ~ Own(m) /\ Execute(m) /\ Replayed(m)
        /\ UNCHANGED <<nw, jobs, chain, trouble>>
    BY <1>4 DEF CommitOthers
  <2>2. Careful(n)
    BY <2>1 DEF Replayed, RewardTypes, CanCommit
  <2>3. CASE m = n
    BY <2>1, <2>2, <2>3, CommitKeepsCareful DEF Own
  <2>4. CASE m # n
    BY <2>1, <2>2, <2>4, OthersLeave
  <2> QED BY <2>3, <2>4
<1>5. ASSUME NEW m \in Validators, CommitOwn(m) \/ CommitOwnEarly(m) PROVE Careful(n)'
  <2>1. /\ CanCommit(m) /\ Execute(m) /\ Replayed(m) /\ UNCHANGED <<nw, chain>>
        /\ \/ nw[m] \notin {Nil, BlankNetwork} /\ StartJob(m, nw[m]) /\ trouble' = trouble
           \/ Meets(m, "unready") /\ \E net : StartJob(m, net)
    BY <1>5 DEF CommitOwn, CommitOwnEarly
  <2>2. trouble[n] = {}
    BY <2>1, MeetsTypes
  <2>3. Careful(n)
    BY <2>1, <2>2 DEF Replayed, RewardTypes, CanCommit
  <2>4. CASE m = n
    BY <2>1, <2>3, <2>4, MeetsTypes, CommitKeepsCareful
  <2>5. CASE m # n
    <3>1. jobs'[n] = jobs[n]
      BY <2>1, <2>5, StartJobTypes
    <3> QED BY <2>1, <2>3, <2>5, <3>1, OthersLeave
  <2> QED BY <2>4, <2>5
<1>6. ASSUME NEW m \in Validators, CommitOwnTooEarly(m) \/ Crash(m) PROVE Careful(n)'
  <2>1. /\ Down(m) /\ UNCHANGED chain
        /\ trouble' = trouble \/ Meets(m, "unready")
        /\ \/ UNCHANGED <<mempool, cache>>
           \/ mempool' = [mempool EXCEPT ![m] = {}] /\ cache' = [cache EXCEPT ![m] = {}]
    BY <1>6 DEF CommitOwnTooEarly, Crash
  <2>2. m # n
    BY <2>1 DEF Down, RewardTypes
  <2>3. trouble[n] = {} /\ status'[n] = status[n]
    BY <2>1, <2>2, MeetsTypes DEF Down, RewardTypes
  <2>4. mempool'[n] = mempool[n] /\ cache'[n] = cache[n]
    BY <2>1, <2>2 DEF RewardTypes
  <2> QED BY <2>1, <2>2, <2>3, <2>4, OthersLeave
<1>7. ASSUME NEW m \in Validators, Start(m) PROVE Careful(n)'
  <2>1. /\ Meets(m, "restarted") /\ UNCHANGED <<nw, done, rewards, jobs, chain>>
        /\ mempool' = [mempool EXCEPT ![m] = {}] /\ cache' = [cache EXCEPT ![m] = {}]
        /\ \A k \in Validators \ {m} : status'[k] = status[k]
    BY <1>7 DEF Start, RewardTypes
  <2>2. m # n /\ trouble[n] = {}
    BY <2>1, MeetsTypes
  <2>3. mempool'[n] = mempool[n] /\ cache'[n] = cache[n] /\ status'[n] = status[n]
    BY <2>1, <2>2 DEF RewardTypes
  <2> QED BY <2>1, <2>2, <2>3, CarefulGrows
<1>8. ASSUME NEW k \in Validators, NEW m \in Validators, NEW r \in 1 .. MaxBlocks, Gossip(k, m, r)
      PROVE  Careful(n)'
  <2>1. CheckTx(m, r) /\ UNCHANGED <<node, chain, trouble>>
    BY <1>8 DEF Gossip
  <2>2. Careful(n)
    BY <2>1 DEF node
  <2>3. /\ mempool[n] \subseteq mempool'[n]
        /\ \A q \in cache'[n] : q \in cache[n] \/ q \in mempool'[n]
    BY <2>1, CheckTxTypes
  <2> QED BY <2>1, <2>2, <2>3, CarefulGrows DEF node
<1>9. ASSUME NEW m \in Validators, NEW r \in 1 .. MaxBlocks, Answered(m, r) PROVE Careful(n)'
  <2>1. /\ CheckTx(Host(m, r), r) /\ Host(m, r) \in Validators
        /\ UNCHANGED <<status, nw, done, rewards, chain, trouble>>
        /\ \A k \in Validators \ {m} : jobs'[k] = jobs[k]
    BY <1>9 DEF Answered, Takes, Alive, RewardTypes
  <2>2. Careful(n)
    BY <2>1
  <2>3. CASE m = n
    BY <1>9, <2>2, <2>3, AnsweredKeepsCareful
  <2>4. CASE m # n
    <3>1. /\ mempool[n] \subseteq mempool'[n]
          /\ \A q \in cache'[n] : q \in cache[n] \/ q \in mempool'[n]
      BY <2>1, CheckTxTypes
    <3> QED BY <2>1, <2>2, <2>4, <3>1, CarefulGrows
  <2> QED BY <2>3, <2>4
<1>10. ASSUME NEW m \in Validators, NEW r \in 1 .. MaxBlocks, AnswerLost(m, r) \/ Fails(m, r)
       PROVE  Careful(n)'
  <2>1. /\ Retry(m, r) /\ r \in DOMAIN jobs[m] /\ UNCHANGED chain
        /\ \/ CheckTx(Host(m, r), r) /\ Host(m, r) \in Validators
           \/ UNCHANGED tendermint
        /\ trouble' = trouble \/ Meets(m, "answerLost")
    BY <1>10 DEF AnswerLost, Fails, Broadcasting, Takes, Alive
  <2>2. trouble[n] = {}
    BY <2>1, MeetsTypes
  <2>3. status'[n] = status[n] /\ Careful(n)
    BY <2>1, <2>2, RetryTypes DEF Down, RewardTypes
  <2>4. CASE m = n
    <3>1. Fails(n, r)
      BY <1>10, <2>4, MeetsTypes DEF AnswerLost
    <3> QED BY <2>3, <3>1, FailsKeepsCareful
  <2>5. CASE m # n
    <3>1. /\ mempool[n] \subseteq mempool'[n]
          /\ \A q \in cache'[n] : q \in cache[n] \/ q \in mempool'[n]
      BY <2>1, CheckTxTypes DEF tendermint
    <3>2. Down(m) \/ (UNCHANGED <<status, nw, done, rewards>> /\ jobs'[n] = jobs[n])
      BY <2>1, <2>5, RetryTypes
    <3> QED BY <2>1, <2>3, <2>5, <3>1, <3>2, OthersLeave
  <2> QED BY <2>4, <2>5
<1> QED BY <1>1, <1>2, <1>3, <1>4, <1>5, <1>6, <1>7, <1>8, <1>9, <1>10 DEF Next

LEMMA FirstIsCareful == Init => RewardsInv
<1> SUFFICES ASSUME Init PROVE RewardsInv
  OBVIOUS
<1>1. RewardTypes
  <2>1. chain = <<>> /\ Len(<<>>) = 0 /\ <<>> \in Seq([proposer : Validators, rewards : SUBSET Int])
    BY DEF Init
  <2>2. \A n \in Validators : jobs[n] = [r \in DOMAIN jobs[n] |-> jobs[n][r]]
    BY DEF Init, NoJobs
  <2> QED BY <2>1, <2>2 DEF Init, RewardTypes
<1>2. ASSUME NEW n \in Validators PROVE Careful(n)
  <2>1. /\ status[n] = "up" /\ cache[n] = {} /\ done[n] = 0 /\ jobs[n] = NoJobs
    BY DEF Init
  <2>2. DOMAIN jobs[n] = {} /\ 1 .. done[n] = {}
    BY <2>1 DEF NoJobs
  <2> QED BY <2>1, <2>2 DEF Careful
<1> QED BY <1>1, <1>2 DEF RewardsInv

\* A validator that was never restarted, lost no answer and proposed no block
\* before its network was ready, and that asks itself first, does not lose the
\* reward of a block it has committed.
THEOREM RewardIsKept == Spec => []OwnHostKeepsReward
<1>1. RewardsInv /\ [Next]_vars => RewardsInv'
  BY NextTypes, NextKeepsCareful DEF RewardsInv
<1>2. RewardsInv => OwnHostKeepsReward
  <2> SUFFICES ASSUME RewardsInv, NEW n \in Alive \cap Followed, NEW r \in 1 .. done[n],
                      trouble[n] = {}, chain[r].proposer = n, nw[n].curHost = n
               PROVE  r \in DOMAIN jobs[n] \/ Held(n, r)
    BY DEF OwnHostKeepsReward, Held
  <2> QED BY DEF RewardsInv, Careful, Alive
<1> QED BY FirstIsCareful, <1>1, <1>2, PTL DEF Spec

-----------------------------------------------------------------------------
(* What stops a validator.                                                 *)

\* A reward that Tendermint has somewhere.
Posted(r) ==
    \/ \E n \in Validators : r \in mempool[n] \/ r \in cache[n]
    \/ \E h \in DOMAIN chain : r \in chain[h].rewards

JobsAreOwn ==
    \A n \in Validators : \A r \in DOMAIN jobs[n] :
        n \in Followed /\ r \in 1 .. Len(chain) /\ chain[r].proposer = n

PostedIsDecided == \A r : Posted(r) => r \in 1 .. Len(chain)

NetsAreFirst == \A n \in Validators : nw[n] \in {Nil, BlankNetwork} \cup InitNetwork(Hosts)

OutagesAreCounted == outages \in Nat /\ Cardinality(Validators \ Alive) <= outages

\* Each error of a broadcast, and each host on its list that is down, is an
\* outage of its own: no host has the reward while it is broadcast.
Resilient(n) ==
    /\ \A r \in DOMAIN jobs[n] :
        /\ GoodNet(jobs[n][r].net) /\ jobs[n][r].errors \in Nat
        /\ jobs[n][r].errors + Downs(jobs[n][r].net, Alive) <= outages
    /\ \A r \in 1 .. Len(chain) :
        Posted(r) /\ chain[r].proposer = n => r <= done[n] /\ r \notin DOMAIN jobs[n]

SurvivalInv ==
    /\ RewardsInv /\ JobsAreOwn /\ PostedIsDecided /\ NetsAreFirst /\ OutagesAreCounted
    /\ stopped \subseteq Followed /\ SurvivesOutages
    /\ \A n \in Validators \cap Followed :
        trouble[n] = {} /\ status[n] # "down" => Resilient(n)

\* The chain only grows.
LEMMA ChainGrows ==
    ASSUME RewardTypes, [Next]_vars
    PROVE  \A r \in 1 .. Len(chain) : r \in 1 .. Len(chain') /\ chain'[r] = chain[r]
<1>1. CASE UNCHANGED chain
  BY <1>1
<1>2. ASSUME NEW p \in Validators, Decide(p)
      PROVE  \A r \in 1 .. Len(chain) : r \in 1 .. Len(chain') /\ chain'[r] = chain[r]
  <2> DEFINE block == [proposer |-> p, rewards |-> mempool[p]]
  <2>1. /\ chain' = Append(chain, block) /\ Len(chain) \in Nat
        /\ block \in [proposer : Validators, rewards : SUBSET Int]
    BY <1>2, LenProperties DEF Decide, RewardTypes
  <2>2. Len(chain') = Len(chain) + 1 /\ \A r \in 1 .. Len(chain) : chain'[r] = chain[r]
    BY <2>1, AppendProperties DEF RewardTypes
  <2> QED BY <2>1, <2>2
<1>3. ASSUME NEW n \in Validators,
             \/ MakeNetwork(n) \/ FillNetwork(n) \/ CommitOthers(n) \/ CommitOwn(n)
             \/ CommitOwnEarly(n) \/ CommitOwnTooEarly(n) \/ Crash(n) \/ Start(n)
      PROVE  UNCHANGED chain
  BY <1>3 DEF MakeNetwork, FillNetwork, CommitOthers, CommitOwn, CommitOwnEarly,
        CommitOwnTooEarly, Crash, Start
<1>4. ASSUME NEW n \in Validators, NEW r \in 1 .. MaxBlocks,
             \/ Answered(n, r) \/ AnswerLost(n, r) \/ Fails(n, r)
             \/ \E m \in Validators : Gossip(m, n, r)
      PROVE  UNCHANGED chain
  BY <1>4 DEF Answered, AnswerLost, Fails, Gossip
<1>5. CASE UNCHANGED vars
  BY <1>1, <1>5 DEF vars
<1> QED BY <1>1, <1>2, <1>3, <1>4, <1>5 DEF Next

\* A block that is executed, and a mempool that is lost, post nothing.
LEMMA ExecutePostsNothing ==
    ASSUME RewardTypes, NEW n \in Validators, CanCommit(n), Execute(n), UNCHANGED chain,
           NEW r, Posted(r)'
    PROVE  Posted(r)
<1> DEFINE block == chain[done[n] + 1]
           paid == Accepted(done[n], rewards[n], block.rewards)
           after == rewards[n] \cup (paid \X {done[n] + 1})
           refused == mempool[n] \ Accepted(done[n] + 1, after, mempool[n])
<1>1. done[n] + 1 \in DOMAIN chain
  <2>1. done[n] \in Nat /\ Len(chain) \in Nat /\ done[n] < Len(chain) /\ DOMAIN chain = 1 .. Len(chain)
    BY LenProperties DEF RewardTypes, CanCommit
  <2> QED BY <2>1
<1>2. paid \subseteq block.rewards
  BY DEF Accepted
<1>3. /\ mempool' = IF status[n] = "up"
                    THEN [mempool EXCEPT ![n] = @ \ (block.rewards \cup refused)]
                    ELSE mempool
      /\ cache' = IF status[n] = "up"
                  THEN [cache EXCEPT ![n] = (@ \cup paid) \ ((block.rewards \ paid) \cup refused)]
                  ELSE cache
  BY DEF Execute
<1> HIDE DEF paid, after, refused, block
<1>4. \A m \in Validators : mempool'[m] \subseteq mempool[m]
  BY <1>3 DEF RewardTypes
<1>5. \A m \in Validators : cache'[m] \subseteq cache[m] \cup paid
  BY <1>3 DEF RewardTypes
<1>6. r \in paid => Posted(r)
  BY <1>1, <1>2 DEF Posted, block
<1> QED BY <1>4, <1>5, <1>6 DEF Posted

\* What CheckTx takes is posted.
LEMMA CheckTxPosts ==
    ASSUME RewardTypes, NEW m \in Validators, NEW q \in Int, CheckTx(m, q), UNCHANGED chain,
           NEW r, Posted(r)'
    PROVE  Posted(r) \/ r = q
<1> DEFINE new == Accepted(done[m], rewards[m], {q})
<1>1. new \subseteq {q}
  BY DEF Accepted
<1> HIDE DEF new
<1>2. /\ mempool' = [mempool EXCEPT ![m] = @ \cup new]
      /\ cache' = [cache EXCEPT ![m] = @ \cup new]
  BY DEF CheckTx, new
<1>3. \A k \in Validators : mempool'[k] \subseteq mempool[k] \cup {q}
                           /\ cache'[k] \subseteq cache[k] \cup {q}
  BY <1>1, <1>2 DEF RewardTypes
<1> QED BY <1>3 DEF Posted

\* Only the host that a broadcast asks gets a reward that none had.
LEMMA PostedByBroadcast ==
    ASSUME RewardTypes, [Next]_vars, NEW r, Posted(r)'
    PROVE  \/ Posted(r)
           \/ \E n \in Validators : r \in DOMAIN jobs[n] /\ (Answered(n, r) \/ AnswerLost(n, r))
<1>1. CASE UNCHANGED <<mempool, cache, chain>>
  BY <1>1 DEF Posted
<1>2. ASSUME NEW n \in Validators, CommitOthers(n) \/ CommitOwn(n) \/ CommitOwnEarly(n)
      PROVE  Posted(r)
  BY <1>2, ExecutePostsNothing DEF CommitOthers, CommitOwn, CommitOwnEarly
<1>3. ASSUME NEW p \in Validators, Decide(p) PROVE Posted(r)
  <2> DEFINE block == [proposer |-> p, rewards |-> mempool[p]]
  <2>1. /\ chain' = Append(chain, block) /\ UNCHANGED <<mempool, cache>> /\ Len(chain) \in Nat
        /\ block \in [proposer : Validators, rewards : SUBSET Int]
    BY <1>3, LenProperties DEF Decide, RewardTypes, tendermint
  <2>2. /\ DOMAIN chain' = 1 .. Len(chain) + 1 /\ chain'[Len(chain) + 1] = block
        /\ DOMAIN chain = 1 .. Len(chain) /\ \A h \in 1 .. Len(chain) : chain'[h] = chain[h]
    <3>1. chain' \in Seq([proposer : Validators, rewards : SUBSET Int]) /\ Len(chain') = Len(chain) + 1
      BY <2>1, AppendProperties DEF RewardTypes
    <3> QED BY <2>1, <3>1, AppendProperties, LenProperties DEF RewardTypes
  <2>3. \A h \in 1 .. Len(chain) + 1 : h \in 1 .. Len(chain) \/ h = Len(chain) + 1
    BY <2>1
  <2> QED BY <2>1, <2>2, <2>3 DEF Posted
<1>4. ASSUME NEW n \in Validators, CommitOwnTooEarly(n) PROVE UNCHANGED <<mempool, cache, chain>>
  BY <1>4 DEF CommitOwnTooEarly
<1>5. ASSUME NEW n \in Validators, Crash(n) \/ Start(n) PROVE Posted(r)
  <2>1. /\ mempool' = [mempool EXCEPT ![n] = {}] /\ cache' = [cache EXCEPT ![n] = {}]
        /\ UNCHANGED chain
    BY <1>5 DEF Crash, Start
  <2>2. \A m \in Validators : mempool'[m] \subseteq mempool[m] /\ cache'[m] \subseteq cache[m]
    BY <2>1 DEF RewardTypes
  <2> QED BY <2>1, <2>2 DEF Posted
<1>6. ASSUME NEW m \in Validators, NEW n \in Validators, NEW q \in 1 .. MaxBlocks, Gossip(m, n, q)
      PROVE  Posted(r)
  <2>1. CheckTx(n, q) /\ UNCHANGED chain /\ q \in mempool[m]
    BY <1>6 DEF Gossip
  <2>2. Posted(q)
    BY <2>1 DEF Posted
  <2>3. Posted(r) \/ r = q
    BY <2>1, CheckTxPosts
  <2> QED BY <2>2, <2>3
<1>7. ASSUME NEW n \in Validators, NEW q \in 1 .. MaxBlocks, Answered(n, q) \/ AnswerLost(n, q)
      PROVE  Posted(r) \/ (r = q /\ r \in DOMAIN jobs[n])
  <2>1. /\ CheckTx(Host(n, q), q) /\ Host(n, q) \in Validators /\ UNCHANGED chain
        /\ q \in DOMAIN jobs[n]
    BY <1>7 DEF Answered, AnswerLost, Takes, Alive, Broadcasting
  <2> QED BY <2>1, CheckTxPosts
<1>8. ASSUME NEW n \in Validators,
             \/ MakeNetwork(n) \/ FillNetwork(n)
             \/ \E q \in 1 .. MaxBlocks : Fails(n, q)
      PROVE  UNCHANGED <<mempool, cache, chain>>
  BY <1>8 DEF MakeNetwork, FillNetwork, Fails, tendermint
<1>9. CASE UNCHANGED vars
  BY <1>1, <1>9 DEF vars, tendermint
<1> QED BY <1>1, <1>2, <1>3, <1>4, <1>5, <1>6, <1>7, <1>8, <1>9 DEF Next

\* Hosts go down one at a time, and each time is counted.
LEMMA OutageSteps ==
    ASSUME RewardTypes, [Next]_vars
    PROVE  \/ outages' = outages /\ Alive \subseteq Alive'
           \/ \E n \in Validators : Down(n) /\ outages' = outages + 1 /\ Alive \ {n} \subseteq Alive'
<1>1. CASE UNCHANGED <<status, outages>>
  BY <1>1 DEF Alive
<1>2. ASSUME NEW n \in Validators, Down(n)
      PROVE  outages' = outages + 1 /\ Alive \ {n} \subseteq Alive'
  BY <1>2 DEF Down, Alive, RewardTypes
<1>3. ASSUME NEW n \in Validators, CommitOthers(n) \/ CommitOwn(n) \/ CommitOwnEarly(n)
      PROVE  outages' = outages /\ Alive \subseteq Alive'
  <2>1. Replayed(n) /\ outages' = outages
    BY <1>3 DEF CommitOthers, CommitOwn, CommitOwnEarly, counters
  <2>2. \A m \in Validators : status[m] = "up" => status'[m] = "up"
    BY <2>1 DEF Replayed, RewardTypes
  <2> QED BY <2>1, <2>2 DEF Alive
<1>4. ASSUME NEW n \in Validators, CommitOwnTooEarly(n) \/ Crash(n) PROVE Down(n)
  BY <1>4 DEF CommitOwnTooEarly, Crash
<1>5. ASSUME NEW n \in Validators, Start(n) PROVE outages' = outages /\ Alive \subseteq Alive'
  <2>1. outages' = outages /\ status[n] = "down"
        /\ \A m \in Validators \ {n} : status'[m] = status[m]
    BY <1>5 DEF Start, RewardTypes
  <2> QED BY <2>1 DEF Alive
<1>6. ASSUME NEW n \in Validators, NEW r \in 1 .. MaxBlocks, AnswerLost(n, r) \/ Fails(n, r)
      PROVE  Down(n) \/ UNCHANGED <<status, outages>>
  BY <1>6 DEF AnswerLost, Fails, Retry
<1>7. ASSUME NEW n \in Validators,
             \/ MakeNetwork(n) \/ FillNetwork(n) \/ Decide(n)
             \/ \E r \in 1 .. MaxBlocks : Answered(n, r) \/ \E m \in Validators : Gossip(n, m, r)
      PROVE  UNCHANGED <<status, outages>>
  BY <1>7 DEF MakeNetwork, FillNetwork, Decide, Answered, Gossip, node, counters
<1>8. CASE UNCHANGED vars
  BY <1>1, <1>8 DEF vars, node, counters
<1>9. CASE Next
  BY <1>1, <1>2, <1>3, <1>4, <1>5, <1>6, <1>7, <1>9 DEF Next
<1> QED BY <1>8, <1>9

\* A reward goroutine is started by the commit of an own block.
LEMMA JobsGrow ==
    ASSUME RewardTypes, [Next]_vars, NEW n \in Validators, NEW r \in DOMAIN jobs'[n]
    PROVE  \/ r \in DOMAIN jobs[n]
           \/ CanCommit(n) /\ Own(n) /\ r = done[n] + 1 /\ UNCHANGED chain
<1>1. CASE UNCHANGED jobs
  BY <1>1
<1>2. ASSUME NEW m \in Validators, Down(m) PROVE r \in DOMAIN jobs[n]
  BY <1>2 DEF Down, NoJobs, RewardTypes
<1>3. ASSUME NEW m \in Validators, CommitOwn(m) \/ CommitOwnEarly(m)
      PROVE  r \in DOMAIN jobs[n] \/ (CanCommit(n) /\ Own(n) /\ r = done[n] + 1 /\ UNCHANGED chain)
  <2>1. CanCommit(m) /\ Own(m) /\ UNCHANGED chain /\ \E net : StartJob(m, net)
    BY <1>3 DEF CommitOwn, CommitOwnEarly
  <2>2. CASE m = n
    <3>1. DOMAIN jobs'[n] = DOMAIN jobs[n] \cup {done[n] + 1}
      BY <2>1, <2>2, StartJobTypes
    <3> QED BY <2>1, <2>2, <3>1
  <2>3. CASE m # n
    <3>1. jobs'[n] = jobs[n]
      BY <2>1, <2>3, StartJobTypes
    <3> QED BY <3>1
  <2> QED BY <2>2, <2>3
<1>4. ASSUME NEW m \in Validators, CommitOwnTooEarly(m) \/ Crash(m) PROVE Down(m)
  BY <1>4 DEF CommitOwnTooEarly, Crash
<1>5. ASSUME NEW m \in Validators, NEW q \in 1 .. MaxBlocks, Answered(m, q)
      PROVE  r \in DOMAIN jobs[n]
  BY <1>5 DEF Answered, RewardTypes
<1>6. ASSUME NEW m \in Validators, NEW q \in 1 .. MaxBlocks, AnswerLost(m, q) \/ Fails(m, q)
      PROVE  r \in DOMAIN jobs[n]
  <2>1. Retry(m, q) /\ q \in DOMAIN jobs[m]
    BY <1>6 DEF AnswerLost, Fails, Broadcasting
  <2> QED BY <1>2, <2>1, RetryTypes
<1>7. ASSUME NEW m \in Validators,
             \/ MakeNetwork(m) \/ FillNetwork(m) \/ Decide(m) \/ CommitOthers(m) \/ Start(m)
             \/ \E q \in 1 .. MaxBlocks : \E k \in Validators : Gossip(m, k, q)
      PROVE  UNCHANGED jobs
  BY <1>7 DEF MakeNetwork, FillNetwork, Decide, CommitOthers, Start, Gossip, node
<1>8. CASE UNCHANGED vars
  BY <1>1, <1>8 DEF vars, node
<1>9. CASE Next
  BY <1>1, <1>2, <1>3, <1>4, <1>5, <1>6, <1>7, <1>9 DEF Next
<1> QED BY <1>8, <1>9

\* What a step does to a broadcast of a validator that has met no trouble.
LEMMA JobSteps ==
    ASSUME RewardTypes, [Next]_vars, NEW n \in Validators \cap Followed,
           trouble'[n] = {}, NEW r \in DOMAIN jobs'[n]
    PROVE  \/ r \in DOMAIN jobs[n] /\ jobs'[n][r] = jobs[n][r]
           \/ /\ CommitOwn(n) /\ r = done[n] + 1
              /\ jobs'[n][r] = [net |-> nw[n], errors |-> 0]
           \/ /\ Fails(n, r) /\ r \in DOMAIN jobs[n] /\ UNCHANGED <<status, outages>>
              /\ \E net \in SelectNextHost(jobs[n][r].net, Alive) :
                   jobs'[n][r] = [net |-> net, errors |-> jobs[n][r].errors + 1]
<1> DEFINE Same == r \in DOMAIN jobs[n] /\ jobs'[n][r] = jobs[n][r]
<1>1. CASE UNCHANGED jobs
  BY <1>1
<1>2. ASSUME NEW m \in Validators, Down(m) PROVE Same
  BY <1>2 DEF Down, NoJobs, RewardTypes
<1>3. ASSUME NEW m \in Validators, CommitOwn(m) \/ CommitOwnEarly(m)
      PROVE  \/ Same
             \/ /\ CommitOwn(n) /\ r = done[n] + 1
                /\ jobs'[n][r] = [net |-> nw[n], errors |-> 0]
  <2>1. CASE m # n
    <3>1. \E net : StartJob(m, net)
      BY <1>3 DEF CommitOwn, CommitOwnEarly
    <3> QED BY <2>1, <3>1, StartJobTypes
  <2>2. CASE m = n
    <3>1. CommitOwn(n) /\ StartJob(n, nw[n])
      BY <1>3, <2>2, MeetsTypes DEF CommitOwn, CommitOwnEarly
    <3> QED BY <3>1, StartJobTypes
  <2> QED BY <2>1, <2>2
<1>4. ASSUME NEW m \in Validators, CommitOwnTooEarly(m) \/ Crash(m) PROVE Down(m)
  BY <1>4 DEF CommitOwnTooEarly, Crash
<1>5. ASSUME NEW m \in Validators, NEW q \in 1 .. MaxBlocks, Answered(m, q) PROVE Same
  BY <1>5 DEF Answered, RewardTypes
<1>6. ASSUME NEW m \in Validators, NEW q \in 1 .. MaxBlocks, AnswerLost(m, q) \/ Fails(m, q)
      PROVE  \/ Same
             \/ /\ Fails(n, r) /\ r \in DOMAIN jobs[n] /\ UNCHANGED <<status, outages>>
                /\ \E net \in SelectNextHost(jobs[n][r].net, Alive) :
                     jobs'[n][r] = [net |-> net, errors |-> jobs[n][r].errors + 1]
  <2>1. Retry(m, q) /\ q \in DOMAIN jobs[m]
    BY <1>6 DEF AnswerLost, Fails, Broadcasting
  <2>2. CASE Down(m)
    BY <1>2, <2>2
  <2>3. CASE ~ Down(m) /\ (m # n \/ q # r)
    BY <2>1, <2>3, RetryTypes
  <2>4. CASE ~ Down(m) /\ m = n /\ q = r
    <3>1. Fails(n, r)
      BY <1>6, <2>4, MeetsTypes DEF AnswerLost
    <3>2. PICK net \in SelectNextHost(jobs[n][r].net, Alive) :
                jobs' = [jobs EXCEPT ![n][r] = [net |-> net, errors |-> jobs[n][r].errors + 1]]
      BY <2>1, <2>4 DEF Retry
    <3>3. UNCHANGED <<status, outages>>
      BY <2>1, <2>4 DEF Retry
    <3> DEFINE job == [net |-> net, errors |-> jobs[n][r].errors + 1]
               new == [jobs[n] EXCEPT ![r] = job]
    <3>4. new[r] = job
      BY <2>1, <2>4
    <3>5. jobs' = [jobs EXCEPT ![n] = new]
      BY <3>2
    <3> HIDE DEF new, job
    <3>6. jobs'[n][r] = job
      BY <3>4, <3>5 DEF RewardTypes
    <3> QED BY <2>1, <2>4, <3>1, <3>3, <3>6 DEF job
  <2> QED BY <2>2, <2>3, <2>4
<1>7. ASSUME NEW m \in Validators,
             \/ MakeNetwork(m) \/ FillNetwork(m) \/ Decide(m) \/ CommitOthers(m) \/ Start(m)
             \/ \E q \in 1 .. MaxBlocks : \E k \in Validators : Gossip(m, k, q)
      PROVE  UNCHANGED jobs
  BY <1>7 DEF MakeNetwork, FillNetwork, Decide, CommitOthers, Start, Gossip, node
<1>8. CASE UNCHANGED vars
  BY <1>1, <1>8 DEF vars, node
<1> HIDE DEF Same
<1>9. CASE Next
  BY <1>1, <1>2, <1>3, <1>4, <1>5, <1>6, <1>7, <1>9 DEF Next, Same
<1> QED BY <1>1, <1>8, <1>9 DEF vars, node

\* A validator that stays up forgets no block.
LEMMA DoneGrows ==
    ASSUME RewardTypes, [Next]_vars, NEW n \in Validators
    PROVE  Down(n) \/ done'[n] = done[n] \/ done'[n] = done[n] + 1
<1>1. CASE UNCHANGED done
  BY <1>1
<1>2. ASSUME NEW m \in Validators, Down(m) PROVE Down(n) \/ done'[n] = done[n]
  BY <1>2 DEF Down, RewardTypes
<1>3. ASSUME NEW m \in Validators, CommitOthers(m) \/ CommitOwn(m) \/ CommitOwnEarly(m)
      PROVE  done'[n] = done[n] \/ done'[n] = done[n] + 1
  BY <1>3 DEF CommitOthers, CommitOwn, CommitOwnEarly, Execute, RewardTypes
<1>4. ASSUME NEW m \in Validators, CommitOwnTooEarly(m) \/ Crash(m) PROVE Down(m)
  BY <1>4 DEF CommitOwnTooEarly, Crash
<1>5. ASSUME NEW m \in Validators, NEW q \in 1 .. MaxBlocks, AnswerLost(m, q) \/ Fails(m, q)
      PROVE  Down(m) \/ UNCHANGED done
  BY <1>5 DEF AnswerLost, Fails, Retry
<1>6. ASSUME NEW m \in Validators,
             \/ MakeNetwork(m) \/ FillNetwork(m) \/ Decide(m) \/ Start(m)
             \/ \E q \in 1 .. MaxBlocks : Answered(m, q) \/ \E k \in Validators : Gossip(m, k, q)
      PROVE  UNCHANGED done
  BY <1>6 DEF MakeNetwork, FillNetwork, Decide, Start, Answered, Gossip, node
<1>7. CASE UNCHANGED vars
  BY <1>1, <1>7 DEF vars, node
<1>8. CASE Next
  BY <1>1, <1>2, <1>3, <1>4, <1>5, <1>6, <1>8 DEF Next
<1> QED BY <1>7, <1>8

\* Trouble is not forgotten, and a start is one.
LEMMA TroubleGrows ==
    ASSUME RewardTypes, [Next]_vars, NEW n \in Validators \cap Followed, trouble'[n] = {}
    PROVE  trouble[n] = {} /\ (status'[n] # "down" => status[n] # "down")
<1>1. CASE UNCHANGED <<status, trouble>>
  BY <1>1
<1>2. ASSUME NEW m \in Validators, CommitOthers(m) \/ CommitOwn(m) \/ CommitOwnEarly(m)
      PROVE  trouble[n] = {} /\ (status'[n] # "down" => status[n] # "down")
  <2>1. CanCommit(m) /\ Replayed(m) /\ (trouble' = trouble \/ Meets(m, "unready"))
    BY <1>2 DEF CommitOthers, CommitOwn, CommitOwnEarly
  <2>2. trouble[n] = {}
    BY <2>1, MeetsTypes
  <2>3. CASE m = n
    BY <2>1, <2>2, <2>3 DEF CanCommit
  <2>4. CASE m # n
    <3>1. status'[n] = status[n]
      BY <2>1, <2>4 DEF Replayed, RewardTypes
    <3> QED BY <2>2, <3>1
  <2> QED BY <2>3, <2>4
<1>3. ASSUME NEW m \in Validators, CommitOwnTooEarly(m) \/ Crash(m)
      PROVE  trouble[n] = {} /\ (status'[n] # "down" => status[n] # "down")
  <2>1. Down(m) /\ (trouble' = trouble \/ Meets(m, "unready"))
    BY <1>3 DEF CommitOwnTooEarly, Crash
  <2> QED BY <2>1, MeetsTypes DEF Down, RewardTypes
<1>4. ASSUME NEW m \in Validators, Start(m)
      PROVE  trouble[n] = {} /\ status'[n] = status[n]
  <2>1. Meets(m, "restarted") /\ \A k \in Validators \ {m} : status'[k] = status[k]
    BY <1>4 DEF Start, RewardTypes
  <2> QED BY <2>1, MeetsTypes
<1>5. ASSUME NEW m \in Validators, NEW q \in 1 .. MaxBlocks, AnswerLost(m, q) \/ Fails(m, q)
      PROVE  trouble[n] = {} /\ (status'[n] # "down" => status[n] # "down")
  <2>1. /\ Down(m) \/ UNCHANGED status
        /\ trouble' = trouble \/ Meets(m, "answerLost")
    BY <1>5 DEF AnswerLost, Fails, Retry
  <2> QED BY <2>1, MeetsTypes DEF Down, RewardTypes
<1>6. ASSUME NEW m \in Validators,
             \/ MakeNetwork(m) \/ FillNetwork(m) \/ Decide(m)
             \/ \E q \in 1 .. MaxBlocks : Answered(m, q) \/ \E k \in Validators : Gossip(m, k, q)
      PROVE  UNCHANGED <<status, trouble>>
  BY <1>6 DEF MakeNetwork, FillNetwork, Decide, Answered, Gossip, node
<1>7. CASE UNCHANGED vars
  BY <1>1, <1>7 DEF vars, node
<1>8. CASE Next
  BY <1>1, <1>2, <1>3, <1>4, <1>5, <1>6, <1>8 DEF Next
<1> QED BY <1>7, <1>8

LEMMA TroubleStays ==
    ASSUME RewardTypes, [Next]_vars, NEW n \in Followed, trouble[n] # {}
    PROVE  trouble'[n] # {}
<1>1. CASE UNCHANGED trouble
  BY <1>1
<1>2. ASSUME NEW m, NEW what, Meets(m, what) PROVE trouble'[n] # {}
  BY <1>2 DEF Meets
<1>3. ASSUME NEW m \in Validators,
             \/ CommitOwnEarly(m) \/ CommitOwnTooEarly(m) \/ Start(m)
             \/ \E q \in 1 .. MaxBlocks : AnswerLost(m, q)
      PROVE  \E what : Meets(m, what)
  BY <1>3 DEF CommitOwnEarly, CommitOwnTooEarly, Start, AnswerLost
<1>4. ASSUME NEW m \in Validators,
             \/ MakeNetwork(m) \/ FillNetwork(m) \/ Decide(m) \/ CommitOthers(m) \/ CommitOwn(m)
             \/ Crash(m)
             \/ \E q \in 1 .. MaxBlocks :
                    Answered(m, q) \/ Fails(m, q) \/ \E k \in Validators : Gossip(m, k, q)
      PROVE  UNCHANGED trouble
  BY <1>4 DEF MakeNetwork, FillNetwork, Decide, CommitOthers, CommitOwn, Crash, Answered, Fails,
        Gossip
<1>5. CASE UNCHANGED vars
  BY <1>1, <1>5 DEF vars
<1>6. CASE Next
  BY <1>1, <1>2, <1>3, <1>4, <1>6 DEF Next
<1> QED BY <1>5, <1>6

LEMMA OwnJobsKept == ASSUME SurvivalInv, [Next]_vars PROVE JobsAreOwn'
<1> SUFFICES ASSUME NEW n \in Validators, NEW r \in DOMAIN jobs'[n]
             PROVE  n \in Followed /\ r \in 1 .. Len(chain') /\ chain'[r].proposer = n
  BY DEF JobsAreOwn
<1>1. RewardTypes
  BY DEF SurvivalInv, RewardsInv
<1>2. CASE r \in DOMAIN jobs[n]
  <2>1. n \in Followed /\ r \in 1 .. Len(chain) /\ chain[r].proposer = n
    BY <1>2 DEF SurvivalInv, JobsAreOwn
  <2> QED BY <1>1, <2>1, ChainGrows
<1>3. CASE CanCommit(n) /\ Own(n) /\ r = done[n] + 1 /\ UNCHANGED chain
  <2>1. done[n] \in Nat /\ Len(chain) \in Nat /\ done[n] < Len(chain)
    BY <1>1, <1>3, LenProperties DEF RewardTypes, CanCommit
  <2>2. r \in 1 .. Len(chain)
    BY <1>3, <2>1
  <2> QED BY <1>3, <2>2 DEF Own
<1> QED BY <1>1, <1>2, <1>3, JobsGrow

LEMMA PostedKept == ASSUME SurvivalInv, [Next]_vars PROVE PostedIsDecided'
<1> SUFFICES ASSUME NEW r, Posted(r)' PROVE r \in 1 .. Len(chain')
  BY DEF PostedIsDecided
<1>1. RewardTypes
  BY DEF SurvivalInv, RewardsInv
<1>2. r \in 1 .. Len(chain)
  BY <1>1, PostedByBroadcast DEF SurvivalInv, PostedIsDecided, JobsAreOwn
<1> QED BY <1>1, <1>2, ChainGrows

LEMMA NetsKept == ASSUME SurvivalInv, [Next]_vars PROVE NetsAreFirst'
<1>0. RewardTypes /\ NetsAreFirst
  BY DEF SurvivalInv, RewardsInv
<1>1. CASE UNCHANGED nw
  BY <1>0, <1>1 DEF NetsAreFirst
<1>2. ASSUME NEW m \in Validators, NEW net \in {Nil, BlankNetwork} \cup InitNetwork(Hosts),
             nw' = [nw EXCEPT ![m] = net]
      PROVE  NetsAreFirst'
  BY <1>0, <1>2 DEF NetsAreFirst, RewardTypes
<1>3. ASSUME NEW m \in Validators, MakeNetwork(m) \/ FillNetwork(m) PROVE NetsAreFirst'
  BY <1>2, <1>3 DEF MakeNetwork, FillNetwork
<1>4. ASSUME NEW m \in Validators, Down(m) PROVE NetsAreFirst'
  BY <1>2, <1>4 DEF Down
<1>5. ASSUME NEW m \in Validators, CommitOwnTooEarly(m) \/ Crash(m) PROVE Down(m)
  BY <1>5 DEF CommitOwnTooEarly, Crash
<1>6. ASSUME NEW m \in Validators, NEW q \in 1 .. MaxBlocks, AnswerLost(m, q) \/ Fails(m, q)
      PROVE  Down(m) \/ UNCHANGED nw
  BY <1>6 DEF AnswerLost, Fails, Retry
<1>7. ASSUME NEW m \in Validators,
             \/ Decide(m) \/ CommitOthers(m) \/ CommitOwn(m) \/ CommitOwnEarly(m) \/ Start(m)
             \/ \E q \in 1 .. MaxBlocks : Answered(m, q) \/ \E k \in Validators : Gossip(m, k, q)
      PROVE  UNCHANGED nw
  BY <1>7 DEF Decide, CommitOthers, CommitOwn, CommitOwnEarly, Start, Answered, Gossip, node
<1>8. CASE UNCHANGED vars
  BY <1>1, <1>8 DEF vars, node
<1>9. CASE Next
  BY <1>1, <1>3, <1>4, <1>5, <1>6, <1>7, <1>9 DEF Next
<1> QED BY <1>8, <1>9

LEMMA ValidatorsFinite ==
    ASSUME NEW S, S \subseteq Validators
    PROVE  IsFiniteSet(S) /\ Cardinality(S) \in Nat
BY HostsFinite, FS_Subset, FS_CardinalityType DEF Validators

LEMMA OutagesKept == ASSUME SurvivalInv, [Next]_vars PROVE OutagesAreCounted'
<1> DEFINE D == Validators \ Alive
           E == Validators \ Alive'
<1>1. RewardTypes /\ outages \in Nat /\ Cardinality(D) <= outages
  BY DEF SurvivalInv, RewardsInv, OutagesAreCounted
<1>2. /\ IsFiniteSet(D) /\ Cardinality(D) \in Nat
      /\ IsFiniteSet(E) /\ Cardinality(E) \in Nat
  BY ValidatorsFinite
<1>3. CASE outages' = outages /\ Alive \subseteq Alive'
  <2>1. E \subseteq D
    BY <1>3
  <2>2. Cardinality(E) <= Cardinality(D)
    BY <1>2, <2>1, FS_Subset
  <2> HIDE DEF D, E
  <2>3. Cardinality(E) <= outages
    BY <1>1, <1>2, <2>2
  <2> QED BY <1>1, <1>3, <2>3 DEF OutagesAreCounted, E
<1>4. ASSUME NEW n \in Validators, outages' = outages + 1, Alive \ {n} \subseteq Alive'
      PROVE  OutagesAreCounted'
  <2>1. E \subseteq D \cup {n}
    BY <1>4
  <2>2. IsFiniteSet(D \cup {n}) /\ Cardinality(D \cup {n}) <= Cardinality(D) + 1
    BY <1>2, FS_AddElement
  <2>3. Cardinality(E) <= Cardinality(D \cup {n}) /\ Cardinality(D \cup {n}) \in Nat
    BY <2>1, <2>2, FS_Subset, FS_CardinalityType
  <2> HIDE DEF D, E
  <2>4. Cardinality(E) <= outages + 1
    BY <1>1, <1>2, <2>2, <2>3
  <2> QED BY <1>1, <1>4, <2>4 DEF OutagesAreCounted, E
<1> QED BY <1>1, <1>3, <1>4, OutageSteps

\* An outage of a host is one more outage, for the network of each broadcast.
LEMMA DownsStep ==
    ASSUME RewardTypes, outages \in Nat, [Next]_vars, NEW net, GoodNet(net)
    PROVE  /\ outages' \in Nat /\ Downs(net, Alive) \in Nat /\ Downs(net, Alive') \in Nat
           /\ \A errors \in Nat :
                errors + Downs(net, Alive) <= outages => errors + Downs(net, Alive') <= outages'
<1>1. Downs(net, Alive) \in Nat /\ Downs(net, Alive') \in Nat
  BY DownsCount
<1>2. CASE outages' = outages /\ Alive \subseteq Alive'
  <2>1. Downs(net, Alive') <= Downs(net, Alive)
    BY <1>2, DownsFewer DEF DownHosts
  <2> QED BY <1>1, <1>2, <2>1
<1>3. ASSUME NEW n \in Validators, outages' = outages + 1, Alive \ {n} \subseteq Alive'
      PROVE  /\ outages' \in Nat
             /\ \A errors \in Nat :
                  errors + Downs(net, Alive) <= outages => errors + Downs(net, Alive') <= outages'
  <2>1. Downs(net, Alive') <= Downs(net, Alive) + 1
    BY <1>3, DownsMore
  <2> QED BY <1>1, <1>3, <2>1
<1> QED BY <1>1, <1>2, <1>3, OutageSteps

\* The broadcasts of a validator pay for their errors with outages.
LEMMA ErrorsKept ==
    ASSUME SurvivalInv, [Next]_vars, OutagesAreCounted', NEW n \in Validators \cap Followed,
           trouble'[n] = {}, status'[n] # "down", NEW r \in DOMAIN jobs'[n]
    PROVE  /\ GoodNet(jobs'[n][r].net) /\ jobs'[n][r].errors \in Nat
           /\ jobs'[n][r].errors + Downs(jobs'[n][r].net, Alive') <= outages'
<1>1. /\ RewardTypes /\ outages \in Nat /\ NetsAreFirst
      /\ trouble[n] = {} /\ status[n] # "down"
  BY TroubleGrows DEF SurvivalInv, RewardsInv, OutagesAreCounted
<1>2. Resilient(n) /\ Careful(n)
  BY <1>1 DEF SurvivalInv, RewardsInv
<1>3. CASE r \in DOMAIN jobs[n] /\ jobs'[n][r] = jobs[n][r]
  <2>1. /\ GoodNet(jobs[n][r].net) /\ jobs[n][r].errors \in Nat
        /\ jobs[n][r].errors + Downs(jobs[n][r].net, Alive) <= outages
    BY <1>2, <1>3 DEF Resilient
  <2> QED BY <1>1, <1>3, <2>1, DownsStep
<1>4. CASE CommitOwn(n) /\ r = done[n] + 1 /\ jobs'[n][r] = [net |-> nw[n], errors |-> 0]
  <2>1. nw[n] \in InitNetwork(Hosts)
    BY <1>1, <1>4 DEF CommitOwn, NetsAreFirst
  <2>2. GoodNet(nw[n]) /\ nw[n].workingHosts = Hosts
    BY <2>1, FirstIsGood DEF InitNetwork
  <2>3. DownHosts(nw[n], Alive') \subseteq Validators \ Alive'
    BY <2>2 DEF DownHosts, GoodNet, Validators
  <2>4. /\ IsFiniteSet(Validators \ Alive') /\ Cardinality(Validators \ Alive') \in Nat
        /\ Cardinality(Validators \ Alive') <= outages' /\ outages' \in Nat
    BY ValidatorsFinite DEF OutagesAreCounted
  <2>5. Downs(nw[n], Alive') <= Cardinality(Validators \ Alive')
    BY <2>3, <2>4, FS_Subset DEF Downs
  <2>6. Downs(nw[n], Alive') \in Nat
    BY <2>2, DownsCount
  <2>7. 0 + Downs(nw[n], Alive') <= outages'
    BY <2>4, <2>5, <2>6
  <2>8. jobs'[n][r].net = nw[n] /\ jobs'[n][r].errors = 0
    BY <1>4
  <2> QED BY <2>2, <2>7, <2>8
<1>5. ASSUME Fails(n, r), r \in DOMAIN jobs[n], UNCHANGED <<status, outages>>,
             NEW net \in SelectNextHost(jobs[n][r].net, Alive),
             jobs'[n][r] = [net |-> net, errors |-> jobs[n][r].errors + 1]
      PROVE  /\ GoodNet(jobs'[n][r].net) /\ jobs'[n][r].errors \in Nat
             /\ jobs'[n][r].errors + Downs(jobs'[n][r].net, Alive') <= outages'
  <2> DEFINE old == jobs[n][r].net
             errors == jobs[n][r].errors
  <2>1. /\ GoodNet(old) /\ errors \in Nat /\ errors + Downs(old, Alive) <= outages
    BY <1>2, <1>5 DEF Resilient
  <2>2. old.curHost \notin Alive
    <3>1. r \in 1 .. Len(chain) /\ chain[r].proposer = n
      BY <1>5 DEF SurvivalInv, JobsAreOwn
    <3>2. ~ Posted(r)
      BY <1>2, <1>5, <3>1 DEF Resilient
    <3>3. Host(n, r) \in Alive => r \notin cache[Host(n, r)]
      BY <3>2 DEF Posted, Alive
    <3> QED BY <1>5, <3>3 DEF Fails, Takes, Host
  <2>3. GoodNet(net)
    BY <1>5, <2>1, NextIsGood
  <2>4. Downs(net, Alive) + 1 <= Downs(old, Alive)
    BY <1>5, <2>1, <2>2, OutageIsPaid
  <2>5. Downs(net, Alive) \in Nat /\ Downs(old, Alive) \in Nat
    BY <2>1, <2>3, DownsCount
  <2> HIDE DEF old, errors
  <2>6. errors + 1 \in Nat /\ (errors + 1) + Downs(net, Alive) <= outages
    BY <1>1, <2>1, <2>4, <2>5
  <2>7. Alive' = Alive /\ outages' = outages
    BY <1>5 DEF Alive
  <2>8. jobs'[n][r].net = net /\ jobs'[n][r].errors = errors + 1
    BY <1>5 DEF errors
  <2> QED BY <2>3, <2>6, <2>7, <2>8
<1> QED BY <1>1, <1>3, <1>4, <1>5, JobSteps

\* A reward that was posted is one that its validator has executed and does not
\* broadcast any more.
LEMMA PostedIsNotBroadcast ==
    ASSUME SurvivalInv, [Next]_vars, NEW n \in Validators \cap Followed,
           trouble'[n] = {}, status'[n] # "down",
           NEW r \in 1 .. Len(chain'), Posted(r)', chain'[r].proposer = n
    PROVE  r <= done'[n] /\ r \notin DOMAIN jobs'[n]
<1>1. /\ RewardTypes /\ trouble[n] = {} /\ status[n] # "down"
  BY TroubleGrows DEF SurvivalInv, RewardsInv
<1>2. Resilient(n) /\ Careful(n)
  BY <1>1 DEF SurvivalInv, RewardsInv
<1>3. done[n] \in Nat /\ done'[n] \in Nat /\ done[n] <= done'[n]
  <2>1. ~ Down(n)
    BY <1>1 DEF Down, RewardTypes
  <2>2. done[n] \in Nat
    BY <1>1 DEF RewardTypes
  <2> QED BY <1>1, <2>1, <2>2, DoneGrows
<1>4. CASE Posted(r)
  <2>1. r \in 1 .. Len(chain)
    BY <1>4 DEF SurvivalInv, PostedIsDecided
  <2>2. chain[r].proposer = n
    BY <1>1, <2>1, ChainGrows
  <2>3. r <= done[n] /\ r \notin DOMAIN jobs[n]
    BY <1>2, <1>4, <2>1, <2>2 DEF Resilient
  <2>4. r # done[n] + 1 /\ r <= done'[n]
    BY <1>3, <2>1, <2>3
  <2> QED BY <1>1, <2>3, <2>4, JobSteps
<1>5. ASSUME NEW m \in Validators, r \in DOMAIN jobs[m], Answered(m, r) \/ AnswerLost(m, r)
      PROVE  r <= done'[n] /\ r \notin DOMAIN jobs'[n]
  <2>1. r \in 1 .. Len(chain) /\ chain[r].proposer = m
    BY <1>5 DEF SurvivalInv, JobsAreOwn
  <2>2. m = n
    BY <1>1, <2>1, ChainGrows
  <2>3. Answered(n, r)
    BY <1>5, <2>2, MeetsTypes DEF AnswerLost
  <2>4. r \notin DOMAIN jobs'[n]
    BY <1>1, <2>3 DEF Answered, RewardTypes
  <2>5. r \in 1 .. done[n]
    BY <1>2, <1>5, <2>2 DEF Careful
  <2>6. r <= done'[n]
    BY <1>3, <2>5
  <2> QED BY <2>4, <2>6
<1> QED BY <1>1, <1>4, <1>5, PostedByBroadcast

\* A reward goroutine stops a validator that has met no trouble only when its
\* errors are as many as the hosts, and one more host goes down: its own.
LEMMA StopIsPaid ==
    ASSUME SurvivalInv, NEW n \in Validators \cap Followed, trouble[n] = {},
           NEW r, Fails(n, r), Down(n)
    PROVE  outages' > Len(Hosts)
<1> DEFINE net == jobs[n][r].net
           errors == jobs[n][r].errors
<1>1. /\ RewardTypes /\ outages \in Nat /\ status[n] # "down" /\ r \in DOMAIN jobs[n]
  BY DEF SurvivalInv, RewardsInv, OutagesAreCounted, Fails, Broadcasting
<1>2. Resilient(n) /\ status[n] = "up"
  BY <1>1 DEF SurvivalInv, RewardsInv, Careful
<1>3. /\ GoodNet(net) /\ errors \in Nat /\ errors + Downs(net, Alive) <= outages
  BY <1>1, <1>2 DEF Resilient
<1>4. net.curHost \notin Alive
  <2>1. r \in 1 .. Len(chain) /\ chain[r].proposer = n
    BY <1>1 DEF SurvivalInv, JobsAreOwn
  <2>2. ~ Posted(r)
    BY <1>1, <1>2, <2>1 DEF Resilient
  <2>3. Host(n, r) \in Alive => r \notin cache[Host(n, r)]
    BY <2>2 DEF Posted, Alive
  <2> QED BY <2>3 DEF Fails, Takes, Host
<1>5. SelectNextHost(net, Alive) # {}
  <2>1. n \in Range(Hosts) \cap Alive
    BY <1>2 DEF Alive, Validators
  <2> QED BY <1>3, <2>1, HostIsFound
<1>6. status' # status
  BY <1>1 DEF Down, RewardTypes
<1>7. errors + 1 >= Len(net.allHosts) /\ net.allHosts = Hosts
  <2>1. net.allHosts = Hosts
    BY <1>3 DEF GoodNet
  <2> QED BY <1>5, <1>6, <2>1 DEF Fails, Retry
<1>8. Downs(net, Alive) \in Nat /\ Downs(net, Alive) >= 1
  BY <1>3, <1>4, DownsCount
<1>9. outages' = outages + 1 /\ Len(Hosts) \in Nat
  BY HostsAssumption, LenProperties DEF Down
<1> HIDE DEF errors
<1> QED BY <1>1, <1>3, <1>7, <1>8, <1>9

\* Whom a step stops.
LEMMA StopSteps ==
    ASSUME SurvivalInv, [Next]_vars, NEW n \in stopped', n \notin stopped
    PROVE  /\ n \in Validators \cap Followed
           /\ trouble'[n] # {} \/ \E r \in 1 .. MaxBlocks : Fails(n, r) /\ Down(n) /\ UNCHANGED trouble
<1>1. ASSUME NEW m \in Validators, CommitOwnTooEarly(m)
      PROVE  n \in Validators \cap Followed /\ trouble'[n] # {}
  BY <1>1, MeetsTypes DEF CommitOwnTooEarly, Own
<1>2. ASSUME NEW m \in Validators, NEW q \in 1 .. MaxBlocks, AnswerLost(m, q)
      PROVE  n \in Validators \cap Followed /\ trouble'[n] # {}
  <2>1. m \in Followed
    BY <1>2 DEF AnswerLost, Broadcasting, SurvivalInv, JobsAreOwn
  <2>2. n = m
    BY <1>2 DEF AnswerLost, Retry
  <2> QED BY <1>2, <2>1, <2>2, MeetsTypes DEF AnswerLost
<1>3. ASSUME NEW m \in Validators, NEW q \in 1 .. MaxBlocks, Fails(m, q)
      PROVE  n \in Validators \cap Followed /\ Fails(n, q) /\ Down(n) /\ UNCHANGED trouble
  <2>1. m \in Followed
    BY <1>3 DEF Fails, Broadcasting, SurvivalInv, JobsAreOwn
  <2>2. n = m /\ Down(m)
    BY <1>3 DEF Fails, Retry
  <2> QED BY <1>3, <2>1, <2>2 DEF Fails
<1>4. ASSUME NEW m \in Validators,
             \/ MakeNetwork(m) \/ FillNetwork(m) \/ Decide(m) \/ CommitOthers(m) \/ CommitOwn(m)
             \/ CommitOwnEarly(m) \/ Crash(m) \/ Start(m)
             \/ \E q \in 1 .. MaxBlocks : Answered(m, q) \/ \E k \in Validators : Gossip(m, k, q)
      PROVE  UNCHANGED stopped
  BY <1>4 DEF MakeNetwork, FillNetwork, Decide, CommitOthers, CommitOwn, CommitOwnEarly, Crash,
        Start, Answered, Gossip
<1>5. CASE UNCHANGED vars
  BY <1>5 DEF vars
<1>6. CASE Next
  BY <1>1, <1>2, <1>3, <1>4, <1>6 DEF Next
<1> QED BY <1>5, <1>6

LEMMA NextSurvives ==
    ASSUME SurvivalInv, [Next]_vars
    PROVE  stopped' \subseteq Followed /\ SurvivesOutages'
<1>1. RewardTypes /\ outages \in Nat
  BY DEF SurvivalInv, RewardsInv, OutagesAreCounted
<1>2. outages' \in Nat /\ outages <= outages'
  BY <1>1, OutageSteps
<1>3. Len(Hosts) \in Nat
  BY HostsAssumption, LenProperties
<1>4. ASSUME NEW n \in stopped', n \notin stopped
      PROVE  n \in Followed /\ (trouble'[n] # {} \/ outages' > Len(Hosts))
  <2>1. n \in Validators \cap Followed
    BY <1>4, StopSteps
  <2>2. ASSUME NEW r \in 1 .. MaxBlocks, Fails(n, r), Down(n), UNCHANGED trouble, trouble'[n] = {}
        PROVE  outages' > Len(Hosts)
    BY <2>1, <2>2, StopIsPaid
  <2> QED BY <1>4, <2>1, <2>2, StopSteps
<1>5. ASSUME NEW n \in stopped
      PROVE  n \in Followed /\ (trouble'[n] # {} \/ outages' > Len(Hosts))
  <2>1. n \in Followed /\ (trouble[n] # {} \/ outages > Len(Hosts))
    BY <1>5 DEF SurvivalInv, SurvivesOutages
  <2>2. trouble[n] # {} => trouble'[n] # {}
    BY <1>1, <2>1, TroubleStays
  <2> QED BY <1>1, <1>2, <1>3, <2>1, <2>2
<1> QED BY <1>4, <1>5 DEF SurvivesOutages

LEMMA FirstRewards == Init => SurvivalInv
<1> SUFFICES ASSUME Init PROVE SurvivalInv
  OBVIOUS
<1>1. RewardsInv
  BY FirstIsCareful
<1>2. /\ chain = <<>> /\ DOMAIN chain = {} /\ stopped = {} /\ outages = 0
      /\ \A n \in Validators :
           /\ status[n] = "up" /\ nw[n] = Nil /\ jobs[n] = NoJobs
           /\ mempool[n] = {} /\ cache[n] = {}
  BY DEF Init
<1>3. \A n \in Validators : DOMAIN jobs[n] = {}
  BY <1>2 DEF NoJobs
<1>4. \A r : ~ Posted(r)
  BY <1>2 DEF Posted
<1>5. OutagesAreCounted
  <2>1. Validators \ Alive = {}
    BY <1>2 DEF Alive
  <2> QED BY <1>2, <2>1, FS_EmptySet DEF OutagesAreCounted
<1>6. JobsAreOwn /\ PostedIsDecided /\ NetsAreFirst /\ SurvivesOutages
  BY <1>2, <1>3, <1>4 DEF JobsAreOwn, PostedIsDecided, NetsAreFirst, SurvivesOutages
<1>7. \A n \in Validators : Resilient(n)
  BY <1>3, <1>4 DEF Resilient
<1> QED BY <1>1, <1>2, <1>5, <1>6, <1>7 DEF SurvivalInv

LEMMA NextSurvival == ASSUME SurvivalInv, [Next]_vars PROVE SurvivalInv'
<1>1. RewardsInv'
  BY NextTypes, NextKeepsCareful DEF SurvivalInv, RewardsInv
<1>2. OutagesAreCounted'
  BY OutagesKept
<1>3. ASSUME NEW n \in Validators \cap Followed, trouble'[n] = {}, status'[n] # "down"
      PROVE  Resilient(n)'
  <2>1. \A r \in DOMAIN jobs'[n] :
            /\ GoodNet(jobs'[n][r].net) /\ jobs'[n][r].errors \in Nat
            /\ jobs'[n][r].errors + Downs(jobs'[n][r].net, Alive') <= outages'
    BY <1>2, <1>3, ErrorsKept
  <2>2. \A r \in 1 .. Len(chain') :
            Posted(r)' /\ chain'[r].proposer = n => r <= done'[n] /\ r \notin DOMAIN jobs'[n]
    BY <1>3, PostedIsNotBroadcast
  <2> QED BY <2>1, <2>2 DEF Resilient, GoodNet, Downs, DownHosts
<1> QED BY <1>1, <1>2, <1>3, OwnJobsKept, PostedKept, NetsKept, NextSurvives DEF SurvivalInv

\* Outages of other hosts alone stop no validator before there were as many of
\* them as there are validators: each error of a broadcast is an outage of its
\* own.
THEOREM OutagesAreSurvived == Spec => []SurvivesOutages
<1>1. SurvivalInv => SurvivesOutages
  BY DEF SurvivalInv
<1>2. SurvivalInv /\ [Next]_vars => SurvivalInv'
  BY NextSurvival
<1> QED BY <1>1, <1>2, FirstRewards, PTL DEF Spec
=============================================================================
