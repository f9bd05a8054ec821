------------------------------- MODULE Client -------------------------------
(***************************************************************************)
(* The client program (client/*.go): the commands a user types, the        *)
(* requests each makes, and the question after a request that failed.      *)
(* "Yes" selects the next host and calls the function that asked once      *)
(* more; when that call returns, the first one goes on with nothing, from  *)
(* the line after its request.  createVoting alone repeats its request.    *)
(*                                                                         *)
(* A host is a validator and its Tendermint.  What is in a transaction     *)
(* beyond its kind and its voting is in Wallets; the values entered are    *)
(* positive.                                                               *)
(***************************************************************************)
EXTENDS Network, FiniteSets

CONSTANTS
    Votings,        \* the voting ids a user enters
    Stored,         \* those whose transaction is in a block
    MaxCommands,    \* bound on the commands typed
    MaxForms,       \* bound on the forms filled in
    MaxRetries,     \* bound on the answers "Yes"
    MaxOutages,     \* bound on the outages of hosts
    MaxLost         \* bound on the answers lost

ASSUME VotingsAssumption == Stored \subseteq Votings /\ Nil \notin Votings

\* No panic is none of the panics.
ASSUME NilAssumption == Nil \notin {"noHost", "noTx"}

VARIABLES
    up,         \* the hosts that answer
    net,        \* the client's Network
    stack,      \* the calls that have not returned, the current one last
    question,   \* the user is asked whether to retry
    chosen,     \* what the user chose last, in the prompt or in the menu of votings
    sent,       \* the transactions that reached a host
    payments,   \* how often a host made a payment of the faucet
    stopped,    \* Nil, or why the client panicked
    commands, forms, retries, outages, lost,
    vain        \* how often a retry was caused by a host that was down

env == <<up, outages>>
counters == <<commands, forms, retries, lost, vain>>
vars == <<env, net, stack, question, chosen, sent, payments, stopped, counters>>

-----------------------------------------------------------------------------
(* The functions of the client, as the steps they take.                    *)

balance      == <<"utxos", "txs">>
transactions == <<"txs">>
send         == <<"form", "utxos", "create">>
sendTx       == <<"submit">>
createVoting == <<"form", "utxos", "create">>
sendVote     == <<"form", "utxos", "create">>
faucet       == <<"form", "faucet">>
sendFaucet   == <<"faucet">>
vote         == <<"utxos", "txs", "menu">>
voteInfo     == <<"info", "show">>
voteResults  == <<"results">>

Program ==
    [balance      |-> balance,
     transactions |-> transactions,
     send         |-> send,
     sendTx       |-> sendTx,
     createVoting |-> createVoting,
     sendVote     |-> sendVote,
     faucet       |-> faucet,
     sendFaucet   |-> sendFaucet,
     vote         |-> vote,
     voteInfo     |-> voteInfo,
     voteResults  |-> voteResults]

Commands == {"balance", "transactions", "send", "faucet", "vote"}
Requests == {"utxos", "txs", "info", "results", "faucet", "submit"}

\* A call: the voting or the transaction it is about, and the answer it has.
Call(f, voting, tx) ==
    [f |-> f, voting |-> voting, tx |-> tx, todo |-> Program[f], answer |-> FALSE]

Top == stack[Len(stack)]
Step == Head(Top.todo)
At(step) == stack # <<>> /\ ~ question /\ stopped = Nil /\ Step = step

\* The current call has made its step; it returns after its last one.
Proceed(answer) ==
    LET call == [Top EXCEPT !.todo = Tail(@), !.answer = answer]
    IN IF call.todo = <<>> THEN Front(stack) ELSE Append(Front(stack), call)

Return == Front(stack)

Init ==
    /\ up \in SUBSET Range(Hosts) \ {{}}
    /\ outages = Cardinality(Range(Hosts) \ up)
    /\ net \in UNION {PingAll(n, up) : n \in InitNetwork(Hosts)}
    /\ stack = <<>> /\ question = FALSE
    /\ chosen = [n |-> 0, what |-> Nil, voting |-> Nil, failed |-> FALSE]
    /\ sent = {} /\ payments = 0 /\ stopped = Nil
    /\ commands = 0 /\ forms = 0 /\ retries = 0 /\ lost = 0 /\ vain = 0

-----------------------------------------------------------------------------
(* The user.                                                               *)

Choose(what, voting) ==
    chosen' = [n |-> chosen.n + 1, what |-> what, voting |-> voting, failed |-> FALSE]

TypeCommand ==
    /\ stack = <<>> /\ stopped = Nil /\ commands < MaxCommands
    /\ commands' = commands + 1
    /\ \E f \in Commands : Choose(f, Nil) /\ stack' = <<Call(f, Nil, Nil)>>
    /\ UNCHANGED <<env, net, question, sent, payments, stopped, forms, retries, lost, vain>>

FillForm ==
    /\ At("form") /\ forms < MaxForms
    /\ forms' = forms + 1
    /\ stack' = Proceed(FALSE)
    /\ UNCHANGED <<env, net, question, chosen, sent, payments, stopped, commands, retries, lost, vain>>

\* A prompt that is interrupted returns from its function.
Cancel ==
    /\ At("form") \/ At("menu")
    /\ stack' = Return
    /\ UNCHANGED <<env, net, question, chosen, sent, payments, stopped, counters>>

\* The menu of votings is the last thing vote does.
CreateVotingMenu ==
    /\ At("menu")
    /\ Choose("createVoting", Nil)
    /\ stack' = Append(Return, Call("createVoting", Nil, Nil))
    /\ UNCHANGED <<env, net, question, sent, payments, stopped, counters>>

VoteMenu ==
    /\ At("menu")
    /\ \E f \in {"voteInfo", "voteResults", "sendVote"}, v \in Votings :
        Choose(f, v) /\ stack' = Append(Return, Call(f, v, Nil))
    /\ UNCHANGED <<env, net, question, sent, payments, stopped, counters>>

-----------------------------------------------------------------------------
(* The transaction that a filled form makes.                               *)

Kind(f) == CASE f = "send" -> "coins" [] f = "sendVote" -> "vote" [] f = "createVoting" -> "voting"

\* Mutant: a call that was retried has what the retry fetched.
CanCreateAlways(call) == call.answer \/ chosen.failed

\* CreateTx fails without outputs to spend.
CanCreate(call) == call.answer

CreateTx ==
    /\ At("create") /\ CanCreate(Top)
    /\ stack' = Append(Return, Call("sendTx", Nil,
                    [kind |-> Kind(Top.f), voting |-> Top.voting, form |-> forms,
                     chosen |-> chosen]))
    /\ UNCHANGED <<env, net, question, chosen, sent, payments, stopped, counters>>

\* Too few coins or votes, or nothing at all.
CreateTxFails ==
    /\ At("create")
    /\ stack' = Return
    /\ UNCHANGED <<env, net, question, chosen, sent, payments, stopped, counters>>

-----------------------------------------------------------------------------
(* Requests to the current host.                                           *)

Asking == \E r \in Requests : At(r)
CurUp == net.curHost \in up

\* The host has the transaction, or pays: OnFaucet makes a new one each time.
Take ==
    /\ sent' = IF Step = "submit" THEN sent \cup {Top.tx} ELSE sent
    /\ payments' = IF Step = "faucet" THEN payments + 1 ELSE payments

\* A host that is asked for the result of a voting that is not stored stops.
Fatal == Step = "results" /\ Top.voting \notin Stored

\* GetTxsByHashes of a transaction that is not stored is an empty list.
Found == Step = "info" => Top.voting \in Stored

Answered ==
    /\ Asking /\ CurUp /\ ~ Fatal
    /\ Take
    /\ stack' = Proceed(Found)
    /\ UNCHANGED <<env, net, question, chosen, stopped, counters>>

Fail == question' = TRUE /\ chosen' = [chosen EXCEPT !.failed = TRUE]

Unreachable ==
    /\ Asking /\ ~ CurUp
    /\ Fail
    /\ UNCHANGED <<env, net, stack, sent, payments, stopped, counters>>

AnswerLost ==
    /\ Asking /\ CurUp /\ ~ Fatal
    /\ lost < MaxLost /\ lost' = lost + 1
    /\ Take
    /\ Fail
    /\ UNCHANGED <<env, net, stack, stopped, commands, forms, retries, vain>>

\* The faucet has too few coins; Tendermint has the transaction already.
Refused ==
    /\ Asking /\ CurUp
    /\ Step = "faucet" \/ (Step = "submit" /\ Top.tx \in sent)
    /\ Fail
    /\ UNCHANGED <<env, net, stack, sent, payments, stopped, counters>>

HostStops ==
    /\ Asking /\ CurUp /\ Fatal
    /\ up' = up \ {net.curHost} /\ outages' = outages + 1
    /\ Fail
    /\ UNCHANGED <<net, stack, sent, payments, stopped, counters>>

-----------------------------------------------------------------------------
(* retryQuestion.                                                          *)

AnswerNo ==
    /\ question /\ stopped = Nil
    /\ question' = FALSE
    /\ stack' = Proceed(FALSE)
    /\ UNCHANGED <<env, net, chosen, sent, payments, stopped, counters>>

\* Mutant: the voting is not passed on.
AgainWithoutVoting(call) ==
    CASE call.f = "faucet" -> Call("sendFaucet", Nil, Nil)
      [] OTHER -> Call(call.f, Nil, call.tx)

\* What is called in place of the call that failed.
Again(call) ==
    CASE call.f = "sendVote" -> Call("send", Nil, Nil)
      [] call.f = "faucet" -> Call("sendFaucet", Nil, Nil)
      [] OTHER -> Call(call.f, call.voting, call.tx)

\* Mutant: the call that failed repeats its request after the retry.
RetriedTwice == Append(stack, Again(Top))

Retried == IF Top.f = "createVoting" THEN stack ELSE Append(Proceed(FALSE), Again(Top))

AnswerYes ==
    /\ question /\ stopped = Nil /\ retries < MaxRetries
    /\ retries' = retries + 1
    /\ vain' = vain + (IF CurUp THEN 0 ELSE 1)
    /\ LET nets == SelectNextHost(net, up)
       IN IF nets = {}
          THEN stopped' = "noHost" /\ UNCHANGED <<net, stack, question>>
          ELSE /\ net' \in nets
               /\ question' = FALSE
               /\ stack' = Retried
               /\ UNCHANGED stopped
    /\ UNCHANGED <<env, chosen, sent, payments, commands, forms, lost>>

\* voteInfo reads the first transaction of the answer, which may be empty.
ShowInfo ==
    /\ At("show")
    /\ IF Top.answer
       THEN stack' = Return /\ UNCHANGED stopped
       ELSE stopped' = "noTx" /\ UNCHANGED stack
    /\ UNCHANGED <<env, net, question, chosen, sent, payments, counters>>

-----------------------------------------------------------------------------
(* Hosts go down and come back.                                            *)

HostDown ==
    /\ stopped = Nil /\ outages < MaxOutages /\ outages' = outages + 1
    /\ \E h \in up : up' = up \ {h}
    /\ UNCHANGED <<net, stack, question, chosen, sent, payments, stopped, counters>>

HostUp ==
    /\ stopped = Nil
    /\ \E h \in Range(Hosts) \ up : up' = up \cup {h}
    /\ UNCHANGED <<outages, net, stack, question, chosen, sent, payments, stopped, counters>>

-----------------------------------------------------------------------------

Next ==
    \/ TypeCommand
    \/ FillForm
    \/ Cancel
    \/ CreateVotingMenu
    \/ VoteMenu
    \/ CreateTx
    \/ CreateTxFails
    \/ Answered
    \/ Unreachable
    \/ AnswerLost
    \/ Refused
    \/ HostStops
    \/ AnswerNo
    \/ AnswerYes
    \/ ShowInfo
    \/ HostDown
    \/ HostUp

Spec == Init /\ [][Next]_vars

-----------------------------------------------------------------------------

\* What the user chose is done at most once: whatever is retried, and whatever
\* goes on after it, no choice submits two different transactions.
OneTxPerChoice == \A t, u \in sent : t.chosen.n = u.chosen.n => t = u

\* The faucet pays once for a request, and once more for each answer lost: a
\* retried request is a new one to the host.
FaucetPaysOnce == payments <= commands + lost

\* A transaction is what the user chose; only a vote whose request failed may
\* become a payment of coins (sendVote calls send), never votes of another
\* voting.
TxIsAsChosen ==
    \A t \in sent :
        \/ t.kind = Kind(t.chosen.what) /\ t.voting = t.chosen.voting
        \/ t.chosen.what = "sendVote" /\ t.chosen.failed /\ t.kind = "coins"

\* The client ends by itself only when no host is left, and when it shows a
\* voting that is not stored or whose request failed.
StopsForAReason ==
    /\ stopped = "noHost" => up = {}
    /\ stopped = "noTx" =>
        /\ chosen.what = "voteInfo"
        /\ chosen.failed \/ chosen.voting \notin Stored

\* A retry leaves a host that is down for good: an outage costs the user one
\* retry, although SelectNextHost drops more hosts than the one that failed.
OutageCostsOneRetry == vain <= outages
=============================================================================
