------------------------------ MODULE Wallets -------------------------------
(***************************************************************************)
(* The transactions that honest users submit: the client program           *)
(* (client/send.go, createVote.go, sendVote.go) and the faucet of a node   *)
(* (OnFaucet in evote/client_request_handlers.go).  Each asks a node for   *)
(* the unspent outputs of its own key, in the order the database returned  *)
(* them (none is asked for), and hands them to CreateTx.                   *)
(***************************************************************************)
EXTENDS Database

CONSTANTS
    Users,          \* the keys that run the client program
    Payees,         \* the keys that users and the faucet pay or vote for
    Electorates,    \* the sets of participants a voting is created for
    Amounts,        \* the values a user enters
    Durations       \* the durations a user enters

ASSUME WalletsAssumption ==
    /\ Users \subseteq Keys /\ Payees \subseteq Keys
    /\ \A e \in Electorates : e \subseteq Keys /\ IsFiniteSet(e)
    /\ Amounts \subseteq 0 .. (U32 - 1) /\ Durations \subseteq Nat

\* The transactions CreateTx makes of the utxos of key, in any order.
Created(d, key, outputs, valueType, voteType, duration) ==
    {CreateTx(utxos, outputs, valueType, key, voteType, duration) :
        utxos \in {u \in SetToSeqs(GetUTXOSByPkey(d, key)) :
                        CanCreateTx(u, outputs, valueType)}}

\* OnFaucet: a node pays out of its own coins; a request of 0 is refused.
FaucetTxs(d, nodeKey) ==
    UNION {Created(d, nodeKey, <<Output(amount, payee)>>, Nil, 0, 0) :
            amount \in Amounts \ {0}, payee \in Payees}

SendTxs(d) ==
    UNION {Created(d, user, <<Output(amount, payee)>>, Nil, 0, 0) :
            user \in Users, amount \in Amounts, payee \in Payees}

\* createVote: the outputs are a map, whose order CreateTx leaves to chance.
Ballots(electorate, amount) ==
    {[i \in DOMAIN order |-> Output(amount, order[i])] : order \in SetToSeqs(electorate)}

CreateVoteTxs(d, voteType) ==
    UNION {UNION {Created(d, user, ballots, Nil, voteType, duration) :
                    ballots \in Ballots(electorate, amount)} :
            user \in Users, electorate \in Electorates, amount \in Amounts,
            duration \in Durations}

\* sendVote: the voting is one the user holds votes of.
SendVoteTxs(d) ==
    UNION {UNION {Created(d, user, <<Output(amount, payee)>>, utxo.valueType, 0, 0) :
                    utxo \in {u \in GetUTXOSByPkey(d, user) : u.valueType # Nil}} :
            user \in Users, amount \in Amounts, payee \in Payees}
=============================================================================
