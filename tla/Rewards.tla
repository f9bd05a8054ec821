------------------------------ MODULE Rewards -------------------------------
(***************************************************************************)
(* The rewards of a network of validators: from the goroutine that Commit  *)
(* starts on the proposer of a block (abci_app.go), through the hosts it   *)
(* tries (Network) and their mempools, to the block that pays.  Validators *)
(* crash, are started again over an empty database, and answers get lost.  *)
(*                                                                         *)
(* A validator and its host are one; a block is its height, and a reward   *)
(* the height of the block it is for.  The blocks are executed in a single *)
(* step (BlockchainApp has its calls).  Tendermint, its mempool and the    *)
(* cache of transactions it does not take twice are external.              *)
(***************************************************************************)
EXTENDS Network, FiniteSets

CONSTANTS
    MaxBlocks,      \* bound on the blocks decided
    Followed,       \* bound: the validators whose rewards are followed
    MaxFollowed,    \* bound on the blocks they propose
    MaxOutages,     \* bound on the outages before a crash
    MaxRestarts,    \* bound on the starts after a crash
    MaxLost         \* bound on the answers lost

VARIABLES
    status,     \* of each validator: "up", "down", or "replaying" its chain
    nw,         \* its Network: Nil until initNetwork has run
    done,       \* the blocks it has executed since it was started
    rewards,    \* its database: <<reward, height of the block that pays it>>
    jobs,       \* its reward goroutines: [reward -> [net, errors]]
    stored,     \* Tendermint: the blocks it keeps
    mempool,    \* Tendermint: the rewards CheckTx has accepted
    cache,      \* Tendermint: the rewards it does not take again
    chain,      \* the decided blocks
    outages,    \* how often a validator went down
    restarts, lost,
    stopped,    \* the validators that a reward goroutine has stopped
    trouble     \* what each followed validator has met so far

node == <<status, nw, done, rewards, jobs>>
tendermint == <<stored, mempool, cache>>
counters == <<outages, restarts, lost>>
vars == <<node, tendermint, chain, counters, stopped, trouble>>

Validators == Range(Hosts)

NoJobs == [r \in {} |-> BlankNetwork]

Init ==
    /\ status = [n \in Validators |-> "up"]
    /\ nw = [n \in Validators |-> Nil]
    /\ done = [n \in Validators |-> 0]
    /\ rewards = [n \in Validators |-> {}]
    /\ jobs = [n \in Validators |-> NoJobs]
    /\ stored = [n \in Validators |-> 0]
    /\ mempool = [n \in Validators |-> {}]
    /\ cache = [n \in Validators |-> {}]
    /\ chain = <<>>
    /\ outages = 0 /\ restarts = 0 /\ lost = 0
    /\ stopped = {}
    /\ trouble = [n \in Followed |-> {}]

\* The hosts whose RPC answers.  It is not served while the chain is replayed.
Alive == {n \in Validators : status[n] = "up"}

\* The process ends, and what it keeps in memory and in its database is gone.
Down(n) ==
    /\ status' = [status EXCEPT ![n] = "down"]
    /\ nw' = [nw EXCEPT ![n] = Nil]
    /\ done' = [done EXCEPT ![n] = 0]
    /\ rewards' = [rewards EXCEPT ![n] = {}]
    /\ jobs' = [jobs EXCEPT ![n] = NoJobs]
    /\ outages' = outages + 1

Meets(n, what) ==
    trouble' = [m \in Followed |-> IF m = n THEN trouble[m] \cup {what} ELSE trouble[m]]

-----------------------------------------------------------------------------
(* A reward in AppendTx, over a database of the first blocks of the chain  *)
(* and the rewards these pay.                                              *)

\* Mutant: an earlier reward is not looked for.
RewardVerdictAgain(blocks, paid, r) ==
    IF r \notin 1 .. blocks THEN "CodeCoinbaseNoBlock" ELSE "CodeOk"

\* Mutant: the block committed last is not found.
RewardVerdictLate(blocks, paid, r) ==
    IF r \in {p[1] : p \in paid} THEN "CodeDoubleCoinbaseForSameBlock"
    ELSE IF r \notin 1 .. (blocks - 1) THEN "CodeCoinbaseNoBlock"
    ELSE "CodeOk"

RewardVerdict(blocks, paid, r) ==
    IF r \in {p[1] : p \in paid} THEN "CodeDoubleCoinbaseForSameBlock"
    ELSE IF r \notin 1 .. blocks THEN "CodeCoinbaseNoBlock"
    ELSE "CodeOk"

Accepted(blocks, paid, rs) == {r \in rs : RewardVerdict(blocks, paid, r) = "CodeOk"}

\* Tendermint keeps in its mempool, and in its cache, what CheckTx accepts.
CheckTx(m, r) ==
    LET new == Accepted(done[m], rewards[m], {r})
    IN /\ mempool' = [mempool EXCEPT ![m] = @ \cup new]
       /\ cache' = [cache EXCEPT ![m] = @ \cup new]
       /\ UNCHANGED stored

Gossip(m, n, r) ==
    /\ {m, n} \subseteq Alive
    /\ r \in mempool[m] \ cache[n]
    /\ CheckTx(n, r)
    /\ UNCHANGED <<node, chain, counters, stopped, trouble>>

-----------------------------------------------------------------------------
(* A block is decided when a validator that is up to date proposes what is *)
(* in its mempool.                                                         *)

Decide(p) ==
    /\ p \in Alive /\ done[p] = Len(chain) /\ Len(chain) < MaxBlocks
    /\ p \in Followed =>
        Cardinality({h \in DOMAIN chain : chain[h].proposer \in Followed}) < MaxFollowed
    /\ chain' = Append(chain, [proposer |-> p, rewards |-> mempool[p]])
    /\ UNCHANGED <<node, tendermint, counters, stopped, trouble>>

\* Tendermint holds its mempool while a block is committed, takes out what the
\* block has, and asks CheckTx again, after Reset, about the rest.
Execute(n) ==
    LET h == done[n] + 1
        block == chain[h]
        paid == Accepted(done[n], rewards[n], block.rewards)
        after == rewards[n] \cup (paid \X {h})
        refused == mempool[n] \ Accepted(h, after, mempool[n])
    IN /\ done' = [done EXCEPT ![n] = h]
       /\ rewards' = [rewards EXCEPT ![n] = after]
       /\ IF status[n] = "up"
          THEN /\ mempool' = [mempool EXCEPT ![n] = @ \ (block.rewards \cup refused)]
               /\ cache' = [cache EXCEPT ![n] =
                                (@ \cup paid) \ ((block.rewards \ paid) \cup refused)]
          ELSE UNCHANGED <<mempool, cache>>
       /\ stored' = [stored EXCEPT ![n] = IF h > @ THEN h ELSE @]

CanCommit(n) == status[n] # "down" /\ done[n] < Len(chain)
Own(n) == n \in Followed /\ chain[done[n] + 1].proposer = n

(* initNetwork, in a goroutine that InitChain starts.  Only the Commit of   *)
(* an own block sees how far it is, so it runs no earlier than before one. *)

MakeNetwork(n) ==
    /\ CanCommit(n) /\ Own(n) /\ nw[n] = Nil
    /\ nw' = [nw EXCEPT ![n] = BlankNetwork]
    /\ UNCHANGED <<status, done, rewards, jobs, tendermint, chain, counters, stopped, trouble>>

FillNetwork(n) ==
    /\ CanCommit(n) /\ Own(n) /\ nw[n] = BlankNetwork
    /\ \E net \in InitNetwork(Hosts) : nw' = [nw EXCEPT ![n] = net]
    /\ UNCHANGED <<status, done, rewards, jobs, tendermint, chain, counters, stopped, trouble>>

\* The replay ends with the last block that Tendermint keeps.
Replayed(n) ==
    status' = [status EXCEPT ![n] = IF done[n] + 1 >= stored[n] THEN "up" ELSE @]

CommitOthers(n) ==
    /\ CanCommit(n) /\ ~ Own(n)
    /\ Execute(n) /\ Replayed(n)
    /\ UNCHANGED <<nw, jobs, chain, counters, stopped, trouble>>

StartJob(n, net) ==
    jobs' = [jobs EXCEPT ![n] =
                [r \in DOMAIN @ \cup {done[n] + 1} |->
                    IF r \in DOMAIN @ THEN @[r] ELSE [net |-> net, errors |-> 0]]]

\* broadcastRewardForMe copies bc.nw.
CommitOwn(n) ==
    /\ CanCommit(n) /\ Own(n) /\ nw[n] \notin {Nil, BlankNetwork}
    /\ Execute(n) /\ Replayed(n) /\ StartJob(n, nw[n])
    /\ UNCHANGED <<nw, chain, counters, stopped, trouble>>

\* ... while initNetwork still runs: it may see any part of what Init assigns,
CommitOwnEarly(n) ==
    /\ CanCommit(n) /\ Own(n) /\ nw[n] = BlankNetwork
    /\ Execute(n) /\ Replayed(n)
    /\ \E net \in HalfInit(Hosts) : StartJob(n, net)
    /\ Meets(n, "unready")
    /\ UNCHANGED <<nw, chain, counters, stopped>>

\* ... or a nil pointer, which ends the process.
CommitOwnTooEarly(n) ==
    /\ CanCommit(n) /\ Own(n) /\ nw[n] = Nil
    /\ stored' = [stored EXCEPT ![n] = IF done[n] + 1 > @ THEN done[n] + 1 ELSE @]
    /\ Down(n)
    /\ stopped' = stopped \cup {n} /\ Meets(n, "unready")
    /\ UNCHANGED <<mempool, cache, chain, restarts, lost>>

-----------------------------------------------------------------------------
(* BroadcastTxUntilSuccess.                                                *)

Broadcasting(n, r) == status[n] # "down" /\ r \in DOMAIN jobs[n]
Host(n, r) == jobs[n][r].net.curHost
Takes(n, r) == Host(n, r) \in Alive /\ r \notin cache[Host(n, r)]

\* An answer with any code is a success.
Answered(n, r) ==
    /\ Broadcasting(n, r) /\ Takes(n, r)
    /\ CheckTx(Host(n, r), r)
    /\ jobs' = [jobs EXCEPT ![n] = [q \in DOMAIN @ \ {r} |-> @[q]]]
    /\ UNCHANGED <<status, nw, done, rewards, chain, counters, stopped, trouble>>

\* Mutant: the errors are not counted.
RetryForever(n, r) ==
    LET nets == SelectNextHost(jobs[n][r].net, Alive)
    IN IF nets = {}
       THEN Down(n) /\ stopped' = stopped \cup {n}
       ELSE /\ \E net \in nets : jobs' = [jobs EXCEPT ![n][r].net = net]
            /\ UNCHANGED <<status, nw, done, rewards, outages, stopped>>

\* The next attempt, or the panic that ends the process: SelectNextHost finds
\* no host, or there were as many errors as there are hosts.
Retry(n, r) ==
    LET job == jobs[n][r]
        nets == SelectNextHost(job.net, Alive)
    IN IF nets = {} \/ job.errors + 1 >= Len(job.net.allHosts)
       THEN Down(n) /\ stopped' = stopped \cup {n}
       ELSE /\ \E net \in nets :
                jobs' = [jobs EXCEPT ![n][r] = [net |-> net, errors |-> job.errors + 1]]
            /\ UNCHANGED <<status, nw, done, rewards, outages, stopped>>

\* The host took the reward, and the answer is lost.
AnswerLost(n, r) ==
    /\ Broadcasting(n, r) /\ Takes(n, r)
    /\ lost < MaxLost /\ lost' = lost + 1
    /\ CheckTx(Host(n, r), r)
    /\ Retry(n, r) /\ Meets(n, "answerLost")
    /\ UNCHANGED <<chain, restarts>>

\* No host answers, or Tendermint answers that the transaction is in its cache.
Fails(n, r) ==
    /\ Broadcasting(n, r) /\ ~ Takes(n, r)
    /\ Retry(n, r)
    /\ UNCHANGED <<tendermint, chain, restarts, lost, trouble>>

Broadcast(n, r) == Answered(n, r) \/ AnswerLost(n, r) \/ Fails(n, r)

-----------------------------------------------------------------------------

Crash(n) ==
    /\ status[n] # "down" /\ outages < MaxOutages
    /\ Down(n)
    /\ mempool' = [mempool EXCEPT ![n] = {}]
    /\ cache' = [cache EXCEPT ![n] = {}]
    /\ UNCHANGED <<stored, chain, restarts, lost, stopped, trouble>>

\* A start over an empty database: Info reports 0, and Tendermint replays.
Start(n) ==
    /\ status[n] = "down" /\ restarts < MaxRestarts
    /\ restarts' = restarts + 1
    /\ status' = [status EXCEPT ![n] = IF stored[n] = 0 THEN "up" ELSE "replaying"]
    /\ mempool' = [mempool EXCEPT ![n] = {}]
    /\ cache' = [cache EXCEPT ![n] = {}]
    /\ Meets(n, "restarted")
    /\ UNCHANGED <<nw, done, rewards, jobs, stored, chain, outages, lost, stopped>>

-----------------------------------------------------------------------------

Next ==
    \E n \in Validators :
        \/ MakeNetwork(n)
        \/ FillNetwork(n)
        \/ Decide(n)
        \/ CommitOthers(n)
        \/ CommitOwn(n)
        \/ CommitOwnEarly(n)
        \/ CommitOwnTooEarly(n)
        \/ Crash(n)
        \/ Start(n)
        \/ \E r \in 1 .. MaxBlocks :
            \/ Answered(n, r)
            \/ AnswerLost(n, r)
            \/ Fails(n, r)
            \/ \E m \in Validators : Gossip(m, n, r)

Spec == Init /\ [][Next]_vars

\* A request ends, and the goroutine goes on.
FairSpec ==
    Spec /\ \A n \in Followed, r \in 1 .. MaxBlocks : WF_vars(Broadcast(n, r))

-----------------------------------------------------------------------------

\* A block is rewarded once, although every replay broadcasts its reward again
\* to hosts that may have forgotten it.
PaidOnce ==
    \A n \in Validators : \A p, q \in rewards[n] : p[1] = q[1] => p = q

\* A validator that stays up and asks itself first does not lose the reward of
\* a block it has committed: it is on its way, in the mempool, or paid.
OwnHostKeepsReward ==
    \A n \in Alive \cap Followed : \A r \in 1 .. done[n] :
        trouble[n] = {} /\ chain[r].proposer = n /\ nw[n].curHost = n
        => \/ r \in DOMAIN jobs[n]
           \/ r \in mempool[n]
           \/ r \in {p[1] : p \in rewards[n]}

\* A reward stops its validator (README.md claims no single point of failure)
\* only after as many outages of others as there are validators, or when it was
\* restarted, lost an answer, or proposed a block before its network was ready.
SurvivesOutages ==
    \A n \in stopped : trouble[n] # {} \/ outages > Len(Hosts)

\* A broadcast ends, with success or with the process.
BroadcastEnds ==
    \A n \in Followed, r \in 1 .. MaxBlocks :
        Broadcasting(n, r) ~> ~ Broadcasting(n, r)
=============================================================================
