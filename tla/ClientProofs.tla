---------------------------- MODULE ClientProofs ----------------------------
(***************************************************************************)
(* The client program, for every set of hosts and votings and every bound: *)
(* a choice makes one transaction, the one that was chosen; the faucet     *)
(* pays once for each request and each answer lost; an outage costs one    *)
(* retry; and the client panics for two reasons only.                      *)
(***************************************************************************)
EXTENDS Client, NetworkProofs

-----------------------------------------------------------------------------
(* Calls.                                                                  *)

\* What is left to do of each function, between its steps.
Rests ==
    [balance      |-> {<<"utxos", "txs">>, <<"txs">>},
     transactions |-> {<<"txs">>},
     send         |-> {<<"form", "utxos", "create">>, <<"utxos", "create">>, <<"create">>},
     sendTx       |-> {<<"submit">>},
     createVoting |-> {<<"form", "utxos", "create">>, <<"utxos", "create">>, <<"create">>},
     sendVote     |-> {<<"form", "utxos", "create">>, <<"utxos", "create">>, <<"create">>},
     faucet       |-> {<<"form", "faucet">>, <<"faucet">>},
     sendFaucet   |-> {<<"faucet">>},
     vote         |-> {<<"utxos", "txs", "menu">>, <<"txs", "menu">>, <<"menu">>},
     voteInfo     |-> {<<"info", "show">>, <<"show">>},
     voteResults  |-> {<<"results">>}]

UserChoices == [n : Nat, what : {Nil} \cup DOMAIN Program, voting : {Nil} \cup Votings,
                failed : BOOLEAN]

Txs == [kind : {"coins", "vote", "voting"}, voting : {Nil} \cup Votings, form : Nat,
        chosen : UserChoices]

Calls == {c \in [f : DOMAIN Program, voting : {Nil} \cup Votings, tx : {Nil} \cup Txs,
                 todo : UNION {Rests[f] : f \in DOMAIN Program}, answer : BOOLEAN] :
            c.todo \in Rests[c.f] /\ (c.f = "sendTx" => c.tx \in Txs)}

LEMMA Functions ==
    /\ DOMAIN Program = {"balance", "transactions", "send", "sendTx", "createVoting", "sendVote",
                         "faucet", "sendFaucet", "vote", "voteInfo", "voteResults"}
    /\ DOMAIN Rests = DOMAIN Program
BY DEF Program, Rests

LEMMA Starts == \A f \in DOMAIN Program : Program[f] \in Rests[f]
BY DEF Program, Rests, balance, transactions, send, sendTx, createVoting, sendVote, faucet,
    sendFaucet, vote, voteInfo, voteResults

LEMMA Tails ==
    ASSUME NEW a, NEW b, NEW c
    PROVE  /\ Tail(<<a>>) = <<>> /\ Tail(<<a, b>>) = <<b>> /\ Tail(<<a, b, c>>) = <<b, c>>
           /\ Head(<<a>>) = a /\ Head(<<a, b>>) = a /\ Head(<<a, b, c>>) = a
<1>1. Tail(<<a>>) = <<>>
  OBVIOUS
<1>2. Tail(<<a, b>>) = <<b>>
  OBVIOUS
<1>3. Tail(<<a, b, c>>) = <<b, c>>
  OBVIOUS
<1> QED BY <1>1, <1>2, <1>3

\* What the current step of a function tells about the function.
LEMMA Steps ==
    ASSUME NEW f \in DOMAIN Program, NEW todo \in Rests[f]
    PROVE  /\ todo # <<>>
           /\ Tail(todo) = <<>> \/ Tail(todo) \in Rests[f]
           /\ Head(todo) = "form" => f \in {"send", "createVoting", "sendVote", "faucet"}
           /\ Head(todo) = "menu" => f = "vote" /\ Tail(todo) = <<>>
           /\ Head(todo) = "create" =>
                f \in {"send", "createVoting", "sendVote"} /\ todo = <<"create">>
           /\ Head(todo) = "submit" <=> f = "sendTx"
           /\ Head(todo) = "submit" => Tail(todo) = <<>>
           /\ Head(todo) = "faucet" => f \in {"faucet", "sendFaucet"} /\ Tail(todo) = <<>>
           /\ f \in {"send", "createVoting", "sendVote"} /\ Head(todo) \in Requests =>
                Head(todo) = "utxos" /\ Tail(todo) = <<"create">>
           /\ Head(todo) = "form" => Tail(todo) # <<>> /\ Tail(todo) # <<"create">>
           /\ todo # <<"create">> /\ f \in {"send", "createVoting", "sendVote"} =>
                Head(todo) \in {"form", "utxos"}
           /\ f \in {"sendFaucet", "transactions", "voteResults"} => Tail(todo) = <<>>
           /\ f = "faucet" /\ Head(todo) \in Requests => Tail(todo) = <<>>
<1> USE DEF Requests
<1>1. CASE f = "balance"
  <2>1. Rests[f] = {<<"utxos", "txs">>, <<"txs">>}
    BY <1>1 DEF Rests
  <2>2. CASE todo = <<"utxos", "txs">>
    <3>1. Head(todo) = "utxos" /\ Tail(todo) = <<"txs">>
      BY <2>2, Tails
    <3> QED BY <1>1, <2>1, <2>2, <3>1
  <2>3. CASE todo = <<"txs">>
    <3>1. Head(todo) = "txs" /\ Tail(todo) = <<>>
      BY <2>3, Tails
    <3> QED BY <1>1, <2>1, <2>3, <3>1
  <2> QED BY <2>1, <2>2, <2>3
<1>2. CASE f \in {"transactions", "sendTx", "sendFaucet", "voteResults"}
  <2>1. CASE f = "transactions"
    <3>1. todo = <<"txs">>
      BY <2>1 DEF Rests
    <3>2. Head(todo) = "txs" /\ Tail(todo) = <<>> /\ todo # <<>>
      BY <3>1, Tails
    <3> QED BY <2>1, <3>1, <3>2
  <2>2. CASE f = "sendTx"
    <3>1. todo = <<"submit">>
      BY <2>2 DEF Rests
    <3>2. Head(todo) = "submit" /\ Tail(todo) = <<>> /\ todo # <<>>
      BY <3>1, Tails
    <3> QED BY <2>2, <3>1, <3>2
  <2>3. CASE f = "sendFaucet"
    <3>1. todo = <<"faucet">>
      BY <2>3 DEF Rests
    <3>2. Head(todo) = "faucet" /\ Tail(todo) = <<>> /\ todo # <<>>
      BY <3>1, Tails
    <3> QED BY <2>3, <3>1, <3>2
  <2>4. CASE f = "voteResults"
    <3>1. todo = <<"results">>
      BY <2>4 DEF Rests
    <3>2. Head(todo) = "results" /\ Tail(todo) = <<>> /\ todo # <<>>
      BY <3>1, Tails
    <3> QED BY <2>4, <3>1, <3>2
  <2> QED BY <1>2, <2>1, <2>2, <2>3, <2>4
<1>3. CASE f \in {"send", "createVoting", "sendVote"}
  <2>1. Rests[f] = {<<"form", "utxos", "create">>, <<"utxos", "create">>, <<"create">>}
    BY <1>3 DEF Rests
  <2>2. CASE todo = <<"form", "utxos", "create">>
    <3>1. Head(todo) = "form" /\ Tail(todo) = <<"utxos", "create">>
      BY <2>2, Tails
    <3> QED BY <1>3, <2>1, <2>2, <3>1
  <2>3. CASE todo = <<"utxos", "create">>
    <3>1. Head(todo) = "utxos" /\ Tail(todo) = <<"create">>
      BY <2>3, Tails
    <3> QED BY <1>3, <2>1, <2>3, <3>1
  <2>4. CASE todo = <<"create">>
    <3>1. Head(todo) = "create" /\ Tail(todo) = <<>>
      BY <2>4, Tails
    <3> QED BY <1>3, <2>1, <2>4, <3>1
  <2> QED BY <2>1, <2>2, <2>3, <2>4
<1>4. CASE f = "faucet"
  <2>1. Rests[f] = {<<"form", "faucet">>, <<"faucet">>}
    BY <1>4 DEF Rests
  <2>2. CASE todo = <<"form", "faucet">>
    <3>1. Head(todo) = "form" /\ Tail(todo) = <<"faucet">>
      BY <2>2, Tails
    <3> QED BY <1>4, <2>1, <2>2, <3>1
  <2>3. CASE todo = <<"faucet">>
    <3>1. Head(todo) = "faucet" /\ Tail(todo) = <<>>
      BY <2>3, Tails
    <3> QED BY <1>4, <2>1, <2>3, <3>1
  <2> QED BY <2>1, <2>2, <2>3
<1>5. CASE f = "vote"
  <2>1. Rests[f] = {<<"utxos", "txs", "menu">>, <<"txs", "menu">>, <<"menu">>}
    BY <1>5 DEF Rests
  <2>2. CASE todo = <<"utxos", "txs", "menu">>
    <3>1. Head(todo) = "utxos" /\ Tail(todo) = <<"txs", "menu">>
      BY <2>2, Tails
    <3> QED BY <1>5, <2>1, <2>2, <3>1
  <2>3. CASE todo = <<"txs", "menu">>
    <3>1. Head(todo) = "txs" /\ Tail(todo) = <<"menu">>
      BY <2>3, Tails
    <3> QED BY <1>5, <2>1, <2>3, <3>1
  <2>4. CASE todo = <<"menu">>
    <3>1. Head(todo) = "menu" /\ Tail(todo) = <<>>
      BY <2>4, Tails
    <3> QED BY <1>5, <2>1, <2>4, <3>1
  <2> QED BY <2>1, <2>2, <2>3, <2>4
<1>6. CASE f = "voteInfo"
  <2>1. Rests[f] = {<<"info", "show">>, <<"show">>}
    BY <1>6 DEF Rests
  <2>2. CASE todo = <<"info", "show">>
    <3>1. Head(todo) = "info" /\ Tail(todo) = <<"show">>
      BY <2>2, Tails
    <3> QED BY <1>6, <2>1, <2>2, <3>1
  <2>3. CASE todo = <<"show">>
    <3>1. Head(todo) = "show" /\ Tail(todo) = <<>>
      BY <2>3, Tails
    <3> QED BY <1>6, <2>1, <2>3, <3>1
  <2> QED BY <2>1, <2>2, <2>3
<1> QED BY <1>1, <1>2, <1>3, <1>4, <1>5, <1>6, Functions

-----------------------------------------------------------------------------
(* The stack.                                                              *)

Creators == {"send", "createVoting", "sendVote"}

\* A call that may still make a transaction.
Live(c) == c.f \in Creators /\ (c.todo # <<"create">> \/ c.answer)

\* A call that waits for another to return cannot make a transaction any more,
\* nor submit one, nor ask for a payment.
Dormant(c) == ~ Live(c) /\ c.f \notin {"sendTx", "faucet", "sendFaucet"}

StackOK(s) == s \in Seq(Calls) /\ \A i \in 1 .. Len(s) - 1 : Dormant(s[i])

LEMMA StackLen == ASSUME NEW s \in Seq(Calls) PROVE Len(s) \in Nat /\ (s # <<>> => Len(s) > 0)
<1>1. Len(s) \in Nat /\ (s # <<>> => Len(s) \in Nat \ {0})
  BY EmptySeq, LenProperties
<1> QED BY <1>1

LEMMA TopIsCall == ASSUME NEW s \in Seq(Calls), s # <<>> PROVE s[Len(s)] \in Calls
<1>1. Len(s) \in 1 .. Len(s)
  BY StackLen
<1> QED BY <1>1, ElementOfSeq

\* What is left when the current call returns waited for it.
LEMMA Popped ==
    ASSUME NEW s, StackOK(s), s # <<>>
    PROVE  /\ StackOK(Front(s))
           /\ \A i \in 1 .. Len(Front(s)) : Dormant(Front(s)[i])
           /\ Front(s) # <<>> => Dormant(Front(s)[Len(Front(s))])
<1>1. s \in Seq(Calls) /\ Len(s) \in Nat /\ Len(s) > 0
  BY StackLen DEF StackOK
<1>2. \A i \in 1 .. Len(s) - 1 : s[i] \in Calls
  BY <1>1, ElementOfSeq
<1>3. /\ Front(s) \in Seq(Calls) /\ Len(Front(s)) = Len(s) - 1
      /\ \A i \in 1 .. Len(s) - 1 : Front(s)[i] = s[i]
  <2>1. Front(s) = SubSeq(s, 1, Len(s) - 1)
    BY DEF Front
  <2>2. 1 \in Nat \ {0} /\ Len(s) - 1 \in 0 .. Len(s) /\ Len(s) - 1 - 1 + 1 = Len(s) - 1
    BY <1>1
  <2> QED BY <1>1, <2>1, <2>2, SubSeqProperties
<1>4. \A i \in 1 .. Len(Front(s)) : Dormant(Front(s)[i])
  BY <1>3 DEF StackOK
<1>5. StackOK(Front(s))
  BY <1>1, <1>3, <1>4 DEF StackOK
<1>6. Front(s) # <<>> => Len(Front(s)) \in 1 .. Len(Front(s))
  BY <1>3, StackLen
<1> QED BY <1>4, <1>5, <1>6

\* A call is put on top of calls that wait for it.
LEMMA Pushed ==
    ASSUME NEW s \in Seq(Calls), \A i \in 1 .. Len(s) : Dormant(s[i]), NEW c \in Calls
    PROVE  /\ StackOK(Append(s, c)) /\ Append(s, c) # <<>>
           /\ Append(s, c)[Len(Append(s, c))] = c
           /\ Dormant(c) => \A i \in 1 .. Len(Append(s, c)) : Dormant(Append(s, c)[i])
<1>1. Len(s) \in Nat
  BY StackLen
<1>2. /\ Append(s, c) \in Seq(Calls) /\ Append(s, c) # <<>> /\ Len(Append(s, c)) = Len(s) + 1
      /\ \A i \in 1 .. Len(s) : Append(s, c)[i] = s[i]
      /\ Append(s, c)[Len(s) + 1] = c
  BY AppendProperties
<1>3. \A i \in 1 .. Len(s) + 1 : i \in 1 .. Len(s) \/ i = Len(s) + 1
  BY <1>1
<1> QED BY <1>1, <1>2, <1>3 DEF StackOK

-----------------------------------------------------------------------------
(* What the user chose, and what the calls do about it.                    *)

\* A transaction as TxIsAsChosen wants it.
AsChosen(t) ==
    \/ t.kind = Kind(t.chosen.what) /\ t.voting = t.chosen.voting
    \/ t.chosen.what = "sendVote" /\ t.chosen.failed /\ t.kind = "coins"

\* A call that may make a transaction does so for the choice ch.
ActsFor(c, ch) ==
    \/ c.f = ch.what /\ c.voting = ch.voting
    \/ ch.what = "sendVote" /\ ch.failed /\ c.f = "send"

\* The call c, which runs, may do what it has left: its transaction is the only
\* one of its choice, and the host has a command, or a lost answer, that it has
\* not paid for.
Justified(c, ch, S, paid, due) ==
    /\ c.f = "sendTx" =>
        /\ c.tx.chosen.n <= ch.n /\ AsChosen(c.tx)
        /\ \A t \in S : t.chosen.n = c.tx.chosen.n => t = c.tx
    /\ Live(c) => ActsFor(c, ch) /\ \A t \in S : t.chosen.n # ch.n
    /\ c.f \in {"faucet", "sendFaucet"} => paid + 1 <= due

StackInv(s, ch, S, paid, due) ==
    StackOK(s) /\ (s # <<>> => Justified(s[Len(s)], ch, S, paid, due))

\* Only the call on top acts: those below are dormant (StackOK).
ClientInv ==
    /\ StackInv(stack, chosen, sent, payments, commands + lost)
    /\ sent \subseteq Txs /\ chosen \in UserChoices /\ question \in BOOLEAN
    /\ payments \in Nat /\ commands \in Nat /\ lost \in Nat /\ forms \in Nat
    /\ question => stack # <<>> /\ chosen.failed /\ Step \in Requests
    /\ \A t \in sent : t.chosen.n <= chosen.n /\ AsChosen(t)
    /\ OneTxPerChoice /\ FaucetPaysOnce

LEMMA DormantIsJustified ==
    ASSUME NEW c, Dormant(c), NEW ch, NEW S, NEW paid, NEW due
    PROVE  Justified(c, ch, S, paid, due)
BY DEF Dormant, Justified

\* The current call returns.
LEMMA PopKeeps ==
    ASSUME NEW s, StackOK(s), s # <<>>, NEW ch, NEW S, NEW paid, NEW due
    PROVE  StackInv(Front(s), ch, S, paid, due)
BY Popped, DormantIsJustified DEF StackInv

\* A call is put on top.
LEMMA PushKeeps ==
    ASSUME NEW s \in Seq(Calls), \A i \in 1 .. Len(s) : Dormant(s[i]), NEW c \in Calls,
           NEW ch, NEW S, NEW paid, NEW due, Justified(c, ch, S, paid, due)
    PROVE  StackInv(Append(s, c), ch, S, paid, due)
BY Pushed DEF StackInv

LEMMA CallIsCall ==
    ASSUME NEW f \in DOMAIN Program, NEW v \in {Nil} \cup Votings, NEW tx \in {Nil} \cup Txs,
           f = "sendTx" => tx \in Txs
    PROVE  /\ Call(f, v, tx) \in Calls
           /\ Call(f, v, tx).f = f /\ Call(f, v, tx).voting = v /\ Call(f, v, tx).tx = tx
           /\ Call(f, v, tx).todo = Program[f]
<1>1. Program[f] \in Rests[f] /\ f \in DOMAIN Rests
  BY Starts, Functions
<1> QED BY <1>1, Functions DEF Call, Calls

\* The current call, and what is left of it after its step.
LEMMA TopCall ==
    ASSUME StackOK(stack), stack # <<>>
    PROVE  /\ Top \in Calls /\ Top.f \in DOMAIN Program /\ Top.todo \in Rests[Top.f]
           /\ Top.voting \in {Nil} \cup Votings /\ Top.tx \in {Nil} \cup Txs
           /\ Top.f = "sendTx" => Top.tx \in Txs
<1>1. Top \in Calls
  BY TopIsCall DEF StackOK, Top
<1> QED BY <1>1 DEF Calls

After(answer) == [Top EXCEPT !.todo = Tail(@), !.answer = answer]

LEMMA Proceeds ==
    ASSUME StackOK(stack), stack # <<>>, NEW answer \in BOOLEAN
    PROVE  /\ Tail(Top.todo) = <<>> => Proceed(answer) = Front(stack)
           /\ Tail(Top.todo) # <<>> =>
                Proceed(answer) = Append(Front(stack), After(answer)) /\ After(answer) \in Calls
           /\ After(answer).f = Top.f /\ After(answer).voting = Top.voting
           /\ After(answer).todo = Tail(Top.todo) /\ After(answer).answer = answer
           /\ After(answer).tx = Top.tx
<1>1. Top \in Calls
  BY TopCall
<1>2. /\ After(answer).f = Top.f /\ After(answer).voting = Top.voting
      /\ After(answer).todo = Tail(Top.todo) /\ After(answer).answer = answer
      /\ After(answer).tx = Top.tx
  BY <1>1 DEF After, Calls
<1>3. Tail(Top.todo) = <<>> => Proceed(answer) = Front(stack)
  BY <1>2 DEF Proceed, After
<1>4. ASSUME Tail(Top.todo) # <<>>
      PROVE  Proceed(answer) = Append(Front(stack), After(answer)) /\ After(answer) \in Calls
  <2>1. Proceed(answer) = Append(Front(stack), After(answer))
    BY <1>2, <1>4 DEF Proceed, After
  <2>2. Tail(Top.todo) \in Rests[Top.f] /\ Top.f \in DOMAIN Rests
    BY <1>4, TopCall, Steps, Functions
  <2>3. Tail(Top.todo) \in UNION {Rests[f] : f \in DOMAIN Program}
    BY <2>2, Functions
  <2> QED BY <1>1, <2>1, <2>2, <2>3 DEF Calls, After
<1> QED BY <1>2, <1>3, <1>4

\* The current call has made a step.
LEMMA ProceedKeeps ==
    ASSUME StackOK(stack), stack # <<>>, NEW answer \in BOOLEAN,
           NEW ch, NEW S, NEW paid, NEW due,
           Tail(Top.todo) # <<>> => Justified(After(answer), ch, S, paid, due)
    PROVE  StackInv(Proceed(answer), ch, S, paid, due)
<1>1. Front(stack) \in Seq(Calls) /\ \A i \in 1 .. Len(Front(stack)) : Dormant(Front(stack)[i])
  BY Popped DEF StackOK
<1>2. CASE Tail(Top.todo) = <<>>
  BY <1>2, Proceeds, PopKeeps
<1>3. CASE Tail(Top.todo) # <<>>
  BY <1>1, <1>3, Proceeds, PushKeeps
<1> QED BY <1>2, <1>3

-----------------------------------------------------------------------------
(* The steps of the client.                                                *)

LEMMA InitIsGood == Init => ClientInv
<1> SUFFICES ASSUME Init PROVE ClientInv
  OBVIOUS
<1>1. Len(stack) = 0 /\ stack = <<>> /\ <<>> \in Seq(Calls)
  BY DEF Init
<1>2. StackInv(stack, chosen, sent, payments, commands + lost)
  BY <1>1 DEF StackInv, StackOK
<1>3. chosen \in UserChoices
  BY DEF Init, UserChoices
<1>4. /\ sent = {} /\ question = FALSE /\ payments = 0 /\ commands = 0 /\ lost = 0 /\ forms = 0
  BY DEF Init
<1>5. FaucetPaysOnce /\ OneTxPerChoice
  BY <1>4 DEF OneTxPerChoice, FaucetPaysOnce
<1> QED BY <1>2, <1>3, <1>4, <1>5 DEF ClientInv

\* A choice is newer than everything that was sent.
LEMMA ChooseIsNew ==
    ASSUME ClientInv, NEW f \in DOMAIN Program, NEW v \in {Nil} \cup Votings, Choose(f, v)
    PROVE  /\ chosen' \in UserChoices /\ chosen'.n = chosen.n + 1
           /\ chosen'.what = f /\ chosen'.voting = v
           /\ \A t \in sent : t.chosen.n <= chosen'.n /\ t.chosen.n # chosen'.n
<1>1. chosen' = [n |-> chosen.n + 1, what |-> f, voting |-> v, failed |-> FALSE]
  BY DEF Choose
<1>2. chosen.n \in Nat
  BY DEF ClientInv, UserChoices
<1>3. chosen' \in UserChoices /\ chosen'.n = chosen.n + 1 /\ chosen'.what = f /\ chosen'.voting = v
  BY <1>1, <1>2 DEF UserChoices
<1>4. ASSUME NEW t \in sent PROVE t.chosen.n <= chosen'.n /\ t.chosen.n # chosen'.n
  <2>1. t.chosen.n \in Nat /\ t.chosen.n <= chosen.n
    BY DEF ClientInv, Txs, UserChoices
  <2> QED BY <1>2, <1>3, <2>1
<1> QED BY <1>3, <1>4

\* The call that a choice starts is justified: nothing is sent for it.
LEMMA ChosenCall ==
    ASSUME ClientInv, NEW f \in DOMAIN Program \ {"sendTx", "sendFaucet"},
           NEW v \in {Nil} \cup Votings, Choose(f, v), NEW due,
           f = "faucet" => payments + 1 <= due
    PROVE  /\ Call(f, v, Nil) \in Calls
           /\ Justified(Call(f, v, Nil), chosen', sent, payments, due)
<1>1. /\ Call(f, v, Nil) \in Calls /\ Call(f, v, Nil).f = f /\ Call(f, v, Nil).voting = v
  BY CallIsCall
<1> QED BY <1>1, ChooseIsNew DEF Justified, ActsFor

LEMMA TypeCommandKeeps == ASSUME ClientInv, TypeCommand PROVE ClientInv'
<1>1. PICK f \in Commands : Choose(f, Nil) /\ stack' = <<Call(f, Nil, Nil)>>
  BY DEF TypeCommand
<1>2. f \in DOMAIN Program \ {"sendTx", "sendFaucet"} /\ Nil \in {Nil} \cup Votings
  BY Functions DEF Commands
<1>3. /\ stack = <<>> /\ commands' = commands + 1 /\ commands \in Nat /\ lost \in Nat
      /\ payments \in Nat
      /\ payments <= commands + lost
      /\ question' = question /\ sent' = sent /\ payments' = payments /\ lost' = lost
      /\ forms' = forms
  BY DEF TypeCommand, ClientInv, FaucetPaysOnce
<1>4. payments + 1 <= commands' + lost'
  BY <1>3
<1>5. /\ Call(f, Nil, Nil) \in Calls
      /\ Justified(Call(f, Nil, Nil), chosen', sent, payments, commands' + lost')
  BY <1>1, <1>2, <1>4, ChosenCall
<1>6. /\ stack' = Append(<<>>, Call(f, Nil, Nil)) /\ <<>> \in Seq(Calls)
      /\ \A i \in 1 .. Len(<<>>) : Dormant(<<>>[i])
  BY <1>1
<1>7. StackInv(stack', chosen', sent', payments', commands' + lost')
  <2> HIDE DEF Dormant
  <2> QED BY <1>3, <1>5, <1>6, PushKeeps
<1>8. ~ question
  BY <1>3 DEF ClientInv
<1> QED BY <1>1, <1>2, <1>3, <1>4, <1>7, <1>8, ChooseIsNew
      DEF ClientInv, OneTxPerChoice, FaucetPaysOnce

\* What the steps of a call that runs have in common.
LEMMA Running ==
    ASSUME ClientInv, NEW step, At(step)
    PROVE  /\ StackOK(stack) /\ stack # <<>> /\ question = FALSE /\ Head(Top.todo) = step
           /\ Justified(Top, chosen, sent, payments, commands + lost)
           /\ Front(stack) \in Seq(Calls)
           /\ \A i \in 1 .. Len(Front(stack)) : Dormant(Front(stack)[i])
<1>1. StackOK(stack) /\ stack # <<>> /\ question = FALSE /\ Head(Top.todo) = step
  BY DEF ClientInv, StackInv, At, Step
<1>2. Justified(Top, chosen, sent, payments, commands + lost)
  BY <1>1 DEF ClientInv, StackInv, Top
<1> QED BY <1>1, <1>2, Popped DEF StackOK

LEMMA FillFormKeeps == ASSUME ClientInv, FillForm PROVE ClientInv'
<1>1. /\ At("form") /\ stack' = Proceed(FALSE) /\ forms' = forms + 1
      /\ question' = question /\ chosen' = chosen /\ sent' = sent /\ payments' = payments
      /\ commands' = commands /\ lost' = lost
  BY DEF FillForm
<1>2. /\ Top.f \in {"send", "createVoting", "sendVote", "faucet"}
      /\ Top.todo # <<"create">>
  <2>1. Head(Top.todo) = "form" /\ Top.f \in DOMAIN Program /\ Top.todo \in Rests[Top.f]
    BY <1>1, Running, TopCall
  <2>2. Head(<<"create">>) = "create"
    BY Tails
  <2> QED BY <2>1, <2>2, Steps
<1>3. Justified(After(FALSE), chosen, sent, payments, commands + lost)
  <2>1. After(FALSE).f = Top.f /\ After(FALSE).voting = Top.voting
    BY <1>1, Running, Proceeds
  <2>2. Live(After(FALSE)) => Live(Top)
    BY <1>2, <2>1 DEF Live
  <2>3. Justified(Top, chosen, sent, payments, commands + lost)
    BY <1>1, Running
  <2> QED BY <1>2, <2>1, <2>2, <2>3 DEF Justified, ActsFor
<1>4. StackInv(stack', chosen', sent', payments', commands' + lost')
  BY <1>1, <1>3, Running, ProceedKeeps
<1>5. question = FALSE
  BY <1>1, Running
<1>6. forms' \in Nat /\ OneTxPerChoice' /\ FaucetPaysOnce'
  BY <1>1 DEF ClientInv, OneTxPerChoice, FaucetPaysOnce
<1> QED BY <1>1, <1>4, <1>5, <1>6 DEF ClientInv

\* The current call returns, for whatever reason.
LEMMA ReturnKeeps ==
    ASSUME ClientInv, NEW step, At(step), stack' = Return,
           UNCHANGED <<question, chosen, sent, payments, commands, lost, forms>>
    PROVE  ClientInv'
<1>1. StackInv(stack', chosen', sent', payments', commands' + lost')
  BY Running, PopKeeps DEF Return
<1> QED BY <1>1, Running DEF ClientInv, OneTxPerChoice, FaucetPaysOnce

\* The menu of votings is left for what was chosen in it.
LEMMA MenuKeeps ==
    ASSUME ClientInv, At("menu"), NEW f \in {"createVoting", "voteInfo", "voteResults", "sendVote"},
           NEW v \in {Nil} \cup Votings, Choose(f, v), stack' = Append(Return, Call(f, v, Nil)),
           UNCHANGED <<question, sent, payments, commands, lost, forms>>
    PROVE  ClientInv'
<1>1. f \in DOMAIN Program \ {"sendTx", "sendFaucet"} /\ f # "faucet"
  BY Functions
<1>2. /\ Call(f, v, Nil) \in Calls
      /\ Justified(Call(f, v, Nil), chosen', sent, payments, commands + lost)
  BY <1>1, ChosenCall
<1>3. StackInv(stack', chosen', sent', payments', commands' + lost')
  BY <1>2, Running, PushKeeps DEF Return
<1> QED BY <1>1, <1>3, Running, ChooseIsNew DEF ClientInv, OneTxPerChoice, FaucetPaysOnce

\* The transaction of a filled form is what was chosen, and the first one.
LEMMA CreateTxKeeps == ASSUME ClientInv, CreateTx PROVE ClientInv'
<1> DEFINE tx == [kind |-> Kind(Top.f), voting |-> Top.voting, form |-> forms, chosen |-> chosen]
           call == Call("sendTx", Nil, tx)
<1>1. /\ At("create") /\ CanCreate(Top) /\ stack' = Append(Return, call)
      /\ question' = question /\ chosen' = chosen /\ sent' = sent /\ payments' = payments
      /\ commands' = commands /\ lost' = lost /\ forms' = forms
  BY DEF CreateTx, counters
<1>2. Top.f \in Creators /\ Top.f \in DOMAIN Program /\ Top.answer
  <2>1. Head(Top.todo) = "create" /\ Top.f \in DOMAIN Program /\ Top.todo \in Rests[Top.f]
    BY <1>1, Running, TopCall
  <2> QED BY <1>1, <2>1, Steps DEF Creators, CanCreate
<1>3. ActsFor(Top, chosen) /\ \A t \in sent : t.chosen.n # chosen.n
  BY <1>1, <1>2, Running DEF Justified, Live
<1>4. tx \in Txs
  <2>1. Kind(Top.f) \in {"coins", "vote", "voting"}
    BY <1>2 DEF Kind, Creators
  <2> QED BY <1>1, <2>1, Running, TopCall DEF ClientInv, Txs
<1>5. AsChosen(tx)
  <2>1. CASE Top.f = chosen.what /\ Top.voting = chosen.voting
    BY <2>1 DEF AsChosen
  <2>2. CASE chosen.what = "sendVote" /\ chosen.failed /\ Top.f = "send"
    <3>1. Kind("send") = "coins"
      BY DEF Kind
    <3> QED BY <2>2, <3>1 DEF AsChosen
  <2> QED BY <1>3, <2>1, <2>2 DEF ActsFor
<1>6. call \in Calls /\ call.f = "sendTx" /\ call.tx = tx
  <2>1. "sendTx" \in DOMAIN Program
    BY Functions
  <2> HIDE DEF tx
  <2> QED BY <1>4, <2>1, CallIsCall
<1>7. tx.chosen.n <= chosen.n /\ \A t \in sent : t.chosen.n # tx.chosen.n
  BY <1>3 DEF ClientInv, UserChoices
<1>8. Justified(call, chosen, sent, payments, commands + lost)
  <2> HIDE DEF tx, call
  <2>1. ~ Live(call)
    BY <1>6 DEF Live, Creators
  <2> QED BY <1>5, <1>6, <1>7, <2>1 DEF Justified
<1>9. StackInv(stack', chosen', sent', payments', commands' + lost')
  <2> HIDE DEF call
  <2> QED BY <1>1, <1>6, <1>8, Running, PushKeeps DEF Return
<1> HIDE DEF call
<1> QED BY <1>1, <1>9, Running DEF ClientInv, OneTxPerChoice, FaucetPaysOnce

LEMMA AskingAt ==
    ASSUME ClientInv, Asking
    PROVE  /\ Step \in Requests /\ At(Step)
           /\ Top.f \in DOMAIN Program /\ Top.todo \in Rests[Top.f]
           /\ Head(Top.todo) = Step
<1>1. Step \in Requests /\ At(Step)
  BY DEF Asking, At
<1> QED BY <1>1, Running, TopCall

\* The host takes what it is asked to: the first transaction of its choice, as
\* chosen; or it pays, which is one payment more.
LEMMA TakeKeeps ==
    ASSUME ClientInv, Asking, Take
    PROVE  /\ sent' \subseteq Txs /\ payments' \in Nat
           /\ \A t \in sent' : t.chosen.n <= chosen.n /\ AsChosen(t)
           /\ OneTxPerChoice'
           /\ Step # "submit" => sent' = sent
           /\ Step # "faucet" => payments' = payments
           /\ payments' <= payments + 1
           /\ Step = "faucet" => payments + 1 <= commands + lost
           /\ payments' <= commands + lost
<1>1. Justified(Top, chosen, sent, payments, commands + lost)
  BY AskingAt, Running
<1>2. CASE Step = "submit"
  <2>1. Top.f = "sendTx" /\ Top.tx \in Txs
    BY <1>2, AskingAt, Steps, Running, TopCall
  <2>2. sent' = sent \cup {Top.tx} /\ payments' = payments
    BY <1>2 DEF Take
  <2>3. /\ Top.tx.chosen.n <= chosen.n /\ AsChosen(Top.tx)
        /\ \A t \in sent : t.chosen.n = Top.tx.chosen.n => t = Top.tx
    BY <1>1, <2>1 DEF Justified
  <2>4. OneTxPerChoice'
    BY <2>2, <2>3 DEF ClientInv, OneTxPerChoice
  <2> QED BY <1>2, <2>1, <2>2, <2>3, <2>4 DEF ClientInv, FaucetPaysOnce
<1>3. CASE Step # "submit"
  <2>1. sent' = sent
    BY <1>3 DEF Take
  <2>2. Step = "faucet" => payments + 1 <= commands + lost
    BY <1>1, AskingAt, Steps DEF Justified
  <2>3. payments' = IF Step = "faucet" THEN payments + 1 ELSE payments
    BY DEF Take
  <2>4. /\ sent \subseteq Txs /\ payments \in Nat /\ payments <= commands + lost
        /\ commands \in Nat /\ lost \in Nat
        /\ \A t \in sent : t.chosen.n <= chosen.n /\ AsChosen(t)
    BY DEF ClientInv, FaucetPaysOnce
  <2>5. OneTxPerChoice'
    BY <2>1 DEF ClientInv, OneTxPerChoice
  <2>6. payments' \in Nat /\ payments' <= payments + 1 /\ payments' <= commands + lost
    BY <2>2, <2>3, <2>4
  <2> QED BY <1>3, <2>1, <2>2, <2>3, <2>4, <2>5, <2>6
<1> QED BY <1>2, <1>3

LEMMA AnsweredKeeps == ASSUME ClientInv, Answered PROVE ClientInv'
<1>1. /\ Asking /\ Take /\ stack' = Proceed(Found)
      /\ question' = question /\ chosen' = chosen
      /\ commands' = commands /\ lost' = lost /\ forms' = forms
  BY DEF Answered, counters
<1>2. Found \in BOOLEAN
  BY DEF Found
<1>3. ASSUME Tail(Top.todo) # <<>>
      PROVE  Justified(After(Found), chosen, sent', payments', commands + lost)
  <2>1. /\ Step \notin {"submit", "faucet"} /\ Top.f \notin {"sendTx", "faucet", "sendFaucet"}
        /\ Top.f \in Creators => Top.todo # <<"create">>
    <3>1. Head(<<"create">>) = "create"
      BY Tails
    <3> QED BY <1>1, <1>3, <3>1, AskingAt, Steps DEF Creators, Requests
  <2>2. sent' = sent /\ payments' = payments
    BY <1>1, <2>1, TakeKeeps
  <2>3. After(Found).f = Top.f /\ After(Found).voting = Top.voting
    BY <1>1, <1>2, AskingAt, Running, Proceeds
  <2>4. Live(After(Found)) => Live(Top)
    BY <2>1, <2>3 DEF Live
  <2>5. Justified(Top, chosen, sent, payments, commands + lost)
    BY <1>1, AskingAt, Running
  <2> QED BY <2>1, <2>2, <2>3, <2>4, <2>5 DEF Justified, ActsFor
<1>4. StackInv(stack', chosen', sent', payments', commands' + lost')
  BY <1>1, <1>2, <1>3, AskingAt, Running, ProceedKeeps
<1>5. question = FALSE
  BY <1>1, AskingAt, Running
<1>6. FaucetPaysOnce'
  BY <1>1, TakeKeeps DEF FaucetPaysOnce
<1>7. \A t \in sent' : t.chosen.n <= chosen'.n /\ AsChosen(t)
  BY <1>1, TakeKeeps
<1> QED BY <1>1, <1>4, <1>5, <1>6, <1>7, TakeKeeps DEF ClientInv

LEMMA OneMore ==
    \A p, q, c, l \in Nat : q <= p + 1 /\ p + 1 <= c + l => q + 1 <= c + (l + 1)
OBVIOUS

\* A request fails, and the user is asked; what the host took before, it took
\* as TakeKeeps says, and the answer that is lost is counted.
LEMMA FailKeeps ==
    ASSUME ClientInv, Asking, Fail, stack' = stack,
           UNCHANGED <<commands, forms>>,
           \/ UNCHANGED <<sent, payments, lost>>
           \/ Take /\ lost' = lost + 1
    PROVE  ClientInv'
<1>1. /\ StackOK(stack) /\ stack # <<>> /\ Justified(Top, chosen, sent, payments, commands + lost)
      /\ Step \in Requests
  BY AskingAt, Running
<1>2. /\ chosen \in UserChoices /\ commands \in Nat /\ lost \in Nat /\ payments \in Nat
      /\ payments <= commands + lost
  BY DEF ClientInv, FaucetPaysOnce
<1>3. /\ chosen' \in UserChoices /\ chosen'.n = chosen.n /\ chosen'.what = chosen.what
      /\ chosen'.voting = chosen.voting /\ chosen'.failed = TRUE
  BY <1>2 DEF Fail, UserChoices
<1>4. /\ sent' \subseteq Txs /\ payments' \in Nat /\ lost' \in Nat
      /\ \A t \in sent' : t.chosen.n <= chosen.n /\ AsChosen(t)
      /\ OneTxPerChoice' /\ FaucetPaysOnce'
  <2>1. CASE UNCHANGED <<sent, payments, lost>>
    BY <2>1 DEF ClientInv, OneTxPerChoice, FaucetPaysOnce
  <2>2. CASE Take /\ lost' = lost + 1
    <3>1. payments' <= commands' + lost'
      BY <1>2, <2>2, TakeKeeps
    <3> QED BY <1>2, <2>2, <3>1, TakeKeeps DEF FaucetPaysOnce
  <2> QED BY <2>1, <2>2
<1>5. Justified(Top, chosen', sent', payments', commands' + lost')
  <2>1. /\ Top.f = "sendTx" =>
            /\ Top.tx.chosen.n <= chosen'.n /\ AsChosen(Top.tx)
            /\ \A t \in sent' : t.chosen.n = Top.tx.chosen.n => t = Top.tx
    <3>1. sent' \subseteq sent \cup {Top.tx}
      BY DEF Take
    <3> QED BY <1>1, <1>3, <3>1 DEF Justified
  <2>2. Live(Top) => ActsFor(Top, chosen') /\ \A t \in sent' : t.chosen.n # chosen'.n
    <3>1. Live(Top) => Step # "submit"
      BY AskingAt, Steps DEF Live, Creators
    <3>2. Live(Top) => sent' = sent
      BY <3>1 DEF Take
    <3> QED BY <1>1, <1>3, <3>2 DEF Justified, ActsFor
  <2>3. Top.f \in {"faucet", "sendFaucet"} => payments' + 1 <= commands' + lost'
    <3>1. CASE UNCHANGED <<sent, payments, lost>>
      BY <1>1, <3>1 DEF Justified
    <3>2. CASE Take /\ lost' = lost + 1
      <4>1. payments' <= payments + 1 /\ payments' \in Nat
        BY <3>2, TakeKeeps
      <4>2. Top.f \in {"faucet", "sendFaucet"} => payments + 1 <= commands + lost
        BY <1>1 DEF Justified
      <4>3. lost' = lost + 1 /\ commands' = commands
        BY <3>2
      <4>4. payments + 1 <= commands + lost => payments' + 1 <= commands + (lost + 1)
        BY <1>2, <4>1, OneMore
      <4> QED BY <4>2, <4>3, <4>4
    <3> QED BY <3>1, <3>2
  <2> QED BY <2>1, <2>2, <2>3 DEF Justified
<1>6. StackInv(stack', chosen', sent', payments', commands' + lost')
  BY <1>1, <1>5 DEF StackInv, Top
<1>7. \A t \in sent' : t.chosen.n <= chosen'.n /\ AsChosen(t)
  BY <1>3, <1>4
<1>8. Step' = Step
  BY DEF Step, Top
<1>9. question' = TRUE
  BY DEF Fail
<1> QED BY <1>1, <1>2, <1>3, <1>4, <1>6, <1>7, <1>8, <1>9 DEF ClientInv

\* What the question is asked about.
LEMMA Questioned ==
    ASSUME ClientInv, question
    PROVE  /\ StackOK(stack) /\ stack # <<>> /\ chosen.failed /\ Step \in Requests
           /\ Justified(Top, chosen, sent, payments, commands + lost)
           /\ Top.f \in DOMAIN Program /\ Top.todo \in Rests[Top.f] /\ Head(Top.todo) = Step
<1>1. StackOK(stack) /\ stack # <<>> /\ chosen.failed /\ Step \in Requests
  BY DEF ClientInv, StackInv
<1>2. Justified(Top, chosen, sent, payments, commands + lost)
  BY <1>1 DEF ClientInv, StackInv, Top
<1> QED BY <1>1, <1>2, TopCall DEF Step

\* The call that failed goes on with nothing, and is dormant.
LEMMA GoneOn ==
    ASSUME ClientInv, question, Tail(Top.todo) # <<>>
    PROVE  Dormant(After(FALSE))
<1>1. /\ After(FALSE).f = Top.f /\ After(FALSE).todo = Tail(Top.todo)
      /\ After(FALSE).answer = FALSE
  BY Questioned, Proceeds
<1>2. Top.f \notin {"sendTx", "faucet", "sendFaucet"}
  BY Questioned, Steps DEF Requests
<1>3. Top.f \in Creators => Tail(Top.todo) = <<"create">>
  BY Questioned, Steps DEF Creators
<1> QED BY <1>1, <1>2, <1>3 DEF Dormant, Live

LEMMA AnswerNoKeeps == ASSUME ClientInv, AnswerNo PROVE ClientInv'
<1>1. /\ question /\ question' = FALSE /\ stack' = Proceed(FALSE)
      /\ chosen' = chosen /\ sent' = sent /\ payments' = payments
      /\ commands' = commands /\ lost' = lost /\ forms' = forms
  BY DEF AnswerNo, counters
<1>2. StackInv(stack', chosen', sent', payments', commands' + lost')
  BY <1>1, Questioned, GoneOn, DormantIsJustified, ProceedKeeps
<1>3. OneTxPerChoice' /\ FaucetPaysOnce'
  BY <1>1 DEF ClientInv, OneTxPerChoice, FaucetPaysOnce
<1> QED BY <1>1, <1>2, <1>3 DEF ClientInv

\* What is called again has the justification of the call that failed.
LEMMA AgainIsJustified ==
    ASSUME ClientInv, question
    PROVE  /\ Again(Top) \in Calls
           /\ Justified(Again(Top), chosen, sent, payments, commands + lost)
<1>1. /\ Top \in Calls /\ Top.f \in DOMAIN Program
      /\ Top.voting \in {Nil} \cup Votings /\ Top.tx \in {Nil} \cup Txs
      /\ Top.f = "sendTx" => Top.tx \in Txs
      /\ Justified(Top, chosen, sent, payments, commands + lost)
  BY Questioned, TopCall
<1>2. Top.f \in Creators => Live(Top)
  <2>1. Head(Top.todo) \in Requests /\ Head(<<"create">>) = "create"
    BY Questioned, Tails
  <2> QED BY <2>1 DEF Live, Requests
<1>3. CASE Top.f = "sendVote"
  <2>1. Again(Top) = Call("send", Nil, Nil)
    BY <1>3 DEF Again
  <2>2. Call("send", Nil, Nil) \in Calls /\ Call("send", Nil, Nil).f = "send"
    BY CallIsCall, Functions
  <2>3. ActsFor(Top, chosen) /\ \A t \in sent : t.chosen.n # chosen.n
    BY <1>1, <1>2, <1>3 DEF Justified, Creators
  <2>4. chosen.what = "sendVote" /\ chosen.failed
    BY <1>3, <2>3, Questioned DEF ActsFor
  <2> QED BY <2>1, <2>2, <2>3, <2>4 DEF Justified, ActsFor
<1>4. CASE Top.f = "faucet"
  <2>1. Again(Top) = Call("sendFaucet", Nil, Nil)
    BY <1>4 DEF Again
  <2>2. Call("sendFaucet", Nil, Nil) \in Calls /\ Call("sendFaucet", Nil, Nil).f = "sendFaucet"
    BY CallIsCall, Functions
  <2> QED BY <1>1, <1>4, <2>1, <2>2 DEF Justified, Live, Creators
<1>5. CASE Top.f \notin {"sendVote", "faucet"}
  <2>1. Again(Top) = Call(Top.f, Top.voting, Top.tx)
    BY <1>5 DEF Again
  <2>2. /\ Again(Top) \in Calls /\ Again(Top).f = Top.f /\ Again(Top).voting = Top.voting
        /\ Again(Top).tx = Top.tx
    BY <1>1, <2>1, CallIsCall
  <2>3. Live(Again(Top)) => Live(Top)
    BY <1>2, <2>2 DEF Live
  <2> QED BY <1>1, <2>2, <2>3 DEF Justified, ActsFor
<1> QED BY <1>3, <1>4, <1>5

LEMMA AnswerYesKeeps == ASSUME ClientInv, AnswerYes PROVE ClientInv'
<1>1. /\ question /\ chosen' = chosen /\ sent' = sent /\ payments' = payments
      /\ commands' = commands /\ lost' = lost /\ forms' = forms
  BY DEF AnswerYes
<1>2. \/ stack' = stack /\ question' = question
      \/ stack' = Retried /\ question' = FALSE
  BY DEF AnswerYes
<1>3. StackInv(Retried, chosen, sent, payments, commands + lost)
  <2>1. CASE Top.f = "createVoting"
    BY <2>1 DEF Retried, ClientInv
  <2>2. CASE Top.f # "createVoting"
    <3>1. Front(stack) \in Seq(Calls) /\ \A i \in 1 .. Len(Front(stack)) : Dormant(Front(stack)[i])
      BY <1>1, Questioned, Popped DEF StackOK
    <3>2. Proceed(FALSE) \in Seq(Calls) /\ \A i \in 1 .. Len(Proceed(FALSE)) : Dormant(Proceed(FALSE)[i])
      <4>1. CASE Tail(Top.todo) = <<>>
        BY <1>1, <3>1, <4>1, Questioned, Proceeds
      <4>2. CASE Tail(Top.todo) # <<>>
        BY <1>1, <3>1, <4>2, Questioned, Proceeds, GoneOn, Pushed DEF StackOK
      <4> QED BY <4>1, <4>2
    <3>3. Retried = Append(Proceed(FALSE), Again(Top))
      BY <2>2 DEF Retried
    <3> QED BY <1>1, <3>2, <3>3, AgainIsJustified, PushKeeps
  <2> QED BY <2>1, <2>2
<1>4. OneTxPerChoice' /\ FaucetPaysOnce'
  BY <1>1 DEF ClientInv, OneTxPerChoice, FaucetPaysOnce
<1>5. CASE stack' = stack /\ question' = question
  <2>1. Step' = Step
    BY <1>5 DEF Step, Top
  <2> QED BY <1>1, <1>4, <1>5, <2>1 DEF ClientInv, StackInv
<1>6. CASE stack' = Retried /\ question' = FALSE
  <2>1. StackInv(stack', chosen', sent', payments', commands' + lost')
    BY <1>1, <1>3, <1>6
  <2> QED BY <1>1, <1>4, <1>6, <2>1 DEF ClientInv
<1> QED BY <1>2, <1>5, <1>6

\* What the calls depend on stays as it is.
LEMMA StutterKeeps ==
    ASSUME ClientInv, UNCHANGED <<stack, question, chosen, sent, payments, commands, lost, forms>>
    PROVE  ClientInv'
<1>1. Step' = Step /\ OneTxPerChoice' /\ FaucetPaysOnce'
  BY DEF ClientInv, Step, Top, OneTxPerChoice, FaucetPaysOnce
<1>2. StackInv(stack', chosen', sent', payments', commands' + lost')
  BY DEF ClientInv
<1> QED BY <1>1, <1>2 DEF ClientInv

LEMMA NextKeeps == ASSUME ClientInv, [Next]_vars PROVE ClientInv'
<1> USE DEF counters, env
<1>1. CASE TypeCommand
  BY <1>1, TypeCommandKeeps
<1>2. CASE FillForm
  BY <1>2, FillFormKeeps
<1>3. CASE Cancel
  BY <1>3, ReturnKeeps DEF Cancel
<1>4. CASE CreateVotingMenu
  BY <1>4, MenuKeeps DEF CreateVotingMenu
<1>5. CASE VoteMenu
  BY <1>5, MenuKeeps DEF VoteMenu
<1>6. CASE CreateTx
  BY <1>6, CreateTxKeeps
<1>7. CASE CreateTxFails
  BY <1>7, ReturnKeeps DEF CreateTxFails
<1>8. CASE Answered
  BY <1>8, AnsweredKeeps
<1>9. CASE Unreachable
  BY <1>9, FailKeeps DEF Unreachable
<1>10. CASE AnswerLost
  BY <1>10, FailKeeps DEF AnswerLost
<1>11. CASE Refused
  BY <1>11, FailKeeps DEF Refused
<1>12. CASE HostStops
  BY <1>12, FailKeeps DEF HostStops
<1>13. CASE AnswerNo
  BY <1>13, AnswerNoKeeps
<1>14. CASE AnswerYes
  BY <1>14, AnswerYesKeeps
<1>15. CASE ShowInfo
  BY <1>15, ReturnKeeps, StutterKeeps DEF ShowInfo
<1>16. CASE HostDown
  BY <1>16, StutterKeeps DEF HostDown
<1>17. CASE HostUp
  BY <1>17, StutterKeeps DEF HostUp
<1>18. CASE UNCHANGED vars
  BY <1>18, StutterKeeps DEF vars
<1> QED BY <1>1, <1>2, <1>3, <1>4, <1>5, <1>6, <1>7, <1>8, <1>9, <1>10, <1>11, <1>12,
           <1>13, <1>14, <1>15, <1>16, <1>17, <1>18 DEF Next

LEMMA ClientInductive == Spec => []ClientInv
<1>1. ClientInv /\ [Next]_vars => ClientInv'
  BY NextKeeps
<1> QED BY <1>1, InitIsGood, PTL DEF Spec

-----------------------------------------------------------------------------

\* Whatever fails, is retried or goes on with nothing, what the user chose in a
\* prompt or in the menu of votings makes one transaction at most.
THEOREM OneTransactionPerChoice == Spec => []OneTxPerChoice
<1>1. ClientInv => OneTxPerChoice
  BY DEF ClientInv
<1> QED BY <1>1, ClientInductive, PTL

\* Every transaction that reaches a host is the one that was chosen, or the
\* payment of coins that a failed vote is retried as.
THEOREM TransactionsAreAsChosen == Spec => []TxIsAsChosen
<1>1. ClientInv => TxIsAsChosen
  BY DEF ClientInv, AsChosen, TxIsAsChosen
<1> QED BY <1>1, ClientInductive, PTL

\* The faucet is paid for a command, or for an answer that was lost.
THEOREM FaucetIsPaidFor == Spec => []FaucetPaysOnce
<1>1. ClientInv => FaucetPaysOnce
  BY DEF ClientInv
<1> QED BY <1>1, ClientInductive, PTL

-----------------------------------------------------------------------------
(* The hosts that the client asks.                                         *)

\* Every host on its list that is down is one of the outages, and so is every
\* retry that was caused by one.
NetInv ==
    /\ GoodNet(net) /\ up \subseteq Range(Hosts)
    /\ outages \in Nat /\ vain \in Nat /\ vain <= outages
    /\ stopped = Nil => vain + Downs(net, up) <= outages

LEMMA FirstNet == Init => NetInv
<1> SUFFICES ASSUME Init PROVE NetInv
  OBVIOUS
<1> DEFINE Missing == Range(Hosts) \ up
<1>1. up \subseteq Range(Hosts) /\ outages = Cardinality(Missing) /\ vain = 0
  BY DEF Init
<1>2. PICK first \in InitNetwork(Hosts) : net \in PingAll(first, up)
  BY DEF Init
<1>3. GoodNet(first)
  BY <1>2, FirstIsGood
<1>4. PICK hosts \in PingHosts(Hosts, up) : net = [first EXCEPT !.workingHosts = hosts]
  BY <1>2, <1>3 DEF PingAll, GoodNet
<1>5. IsFiniteSet(Range(Hosts) \cap up)
  BY HostsFinite, FS_Subset
<1>6. hosts \in Seq(Range(Hosts) \cap up) /\ Range(hosts) = Range(Hosts) \cap up
  BY <1>4, <1>5, Pinged
<1>7. hosts \in Seq(Range(Hosts))
  BY <1>6, SeqMonotonic
<1>8. GoodNet(net) /\ net.workingHosts = hosts /\ net.curHost \in Range(Hosts)
  BY <1>3, <1>4, <1>7 DEF GoodNet
<1>9. DownHosts(net, up) \subseteq Missing
  BY <1>6, <1>8 DEF DownHosts
<1>10. IsFiniteSet(Missing) /\ Cardinality(Missing) \in Nat
  BY HostsFinite, FS_Subset, FS_CardinalityType
<1>11. Downs(net, up) <= Cardinality(Missing) /\ Downs(net, up) \in Nat
  BY <1>8, <1>9, <1>10, FS_Subset, DownsCount DEF Downs
<1> QED BY <1>1, <1>8, <1>10, <1>11 DEF NetInv

\* A host stops, or goes down.
LEMMA OutageKeepsNet ==
    ASSUME NetInv, stopped = Nil, NEW h, up' = up \ {h}, outages' = outages + 1,
           UNCHANGED <<net, vain, stopped>>
    PROVE  NetInv'
<1>1. /\ GoodNet(net) /\ up' \subseteq Range(Hosts) /\ vain \in Nat /\ outages \in Nat
      /\ vain + Downs(net, up) <= outages
  BY DEF NetInv
<1>2. Downs(net, up') <= Downs(net, up) + 1
  BY <1>1, DownsMore
<1>3. Downs(net, up') \in Nat /\ Downs(net, up) \in Nat
  BY <1>1, DownsCount
<1>4. vain + Downs(net, up') <= outages + 1 /\ vain <= outages + 1 /\ outages + 1 \in Nat
  BY <1>1, <1>2, <1>3
<1> QED BY <1>1, <1>4 DEF NetInv

\* A host comes back.
LEMMA ReturnOfHostKeepsNet ==
    ASSUME NetInv, stopped = Nil, NEW h \in Range(Hosts), up' = up \cup {h},
           UNCHANGED <<net, vain, stopped, outages>>
    PROVE  NetInv'
<1>1. /\ GoodNet(net) /\ up' \subseteq Range(Hosts) /\ vain \in Nat /\ outages \in Nat
      /\ vain + Downs(net, up) <= outages
  BY DEF NetInv
<1>2. Downs(net, up') <= Downs(net, up)
  BY <1>1, DownsFewer DEF DownHosts
<1>3. Downs(net, up') \in Nat /\ Downs(net, up) \in Nat
  BY <1>1, DownsCount
<1>4. vain + Downs(net, up') <= outages /\ vain <= outages
  BY <1>1, <1>2, <1>3
<1> QED BY <1>1, <1>4 DEF NetInv

\* The host that is down is paid for with the retry.
LEMMA RetryKeepsNet == ASSUME NetInv, AnswerYes PROVE NetInv'
<1>1. /\ GoodNet(net) /\ up \subseteq Range(Hosts) /\ vain \in Nat /\ outages \in Nat
      /\ vain + Downs(net, up) <= outages
      /\ UNCHANGED <<up, outages>>
  BY DEF NetInv, AnswerYes, env
<1>2. vain' = vain + (IF net.curHost \in up THEN 0 ELSE 1)
  BY DEF AnswerYes, CurUp
<1>3. Downs(net, up) \in Nat /\ (net.curHost \notin up => Downs(net, up) >= 1)
  BY <1>1, DownsCount
<1>4. vain' \in Nat /\ vain' <= outages
  BY <1>1, <1>2, <1>3
<1>5. CASE stopped' = "noHost" /\ net' = net
  BY <1>1, <1>4, <1>5, NilAssumption DEF NetInv
<1>6. CASE net' \in SelectNextHost(net, up) /\ stopped' = stopped
  <2>1. GoodNet(net')
    BY <1>1, <1>6, NextIsGood
  <2>2. /\ Downs(net', up) <= Downs(net, up)
        /\ net.curHost \notin up => Downs(net', up) + 1 <= Downs(net, up)
    BY <1>1, <1>6, OutageIsPaid
  <2>3. Downs(net', up) \in Nat
    BY <2>1, DownsCount
  <2>4. vain' + Downs(net', up) <= outages
    BY <1>1, <1>2, <1>3, <2>2, <2>3
  <2> QED BY <1>1, <1>4, <2>1, <2>4 DEF NetInv
<1> QED BY <1>5, <1>6 DEF AnswerYes

\* What the hosts are asked does not change which of them are asked.
LEMMA NetStays ==
    ASSUME NetInv, UNCHANGED <<env, net, vain>>, stopped' = stopped \/ stopped' # Nil
    PROVE  NetInv'
BY DEF NetInv, env

LEMMA NextNet == ASSUME NetInv, [Next]_vars PROVE NetInv'
<1> USE DEF counters
<1>1. CASE TypeCommand \/ FillForm \/ Cancel \/ CreateVotingMenu \/ VoteMenu
  BY <1>1, NetStays DEF TypeCommand, FillForm, Cancel, CreateVotingMenu, VoteMenu
<1>2. CASE CreateTx \/ CreateTxFails \/ Answered \/ Unreachable
  BY <1>2, NetStays DEF CreateTx, CreateTxFails, Answered, Unreachable
<1>3. CASE AnswerLost \/ Refused \/ AnswerNo
  BY <1>3, NetStays DEF AnswerLost, Refused, AnswerNo
<1>4. CASE HostStops
  BY <1>4, OutageKeepsNet DEF HostStops, Asking, At
<1>5. CASE AnswerYes
  BY <1>5, RetryKeepsNet
<1>6. CASE ShowInfo
  BY <1>6, NetStays, NilAssumption DEF ShowInfo
<1>7. CASE HostDown
  BY <1>7, OutageKeepsNet DEF HostDown
<1>8. CASE HostUp
  BY <1>8, ReturnOfHostKeepsNet DEF HostUp
<1>9. CASE UNCHANGED vars
  BY <1>9, NetStays DEF vars
<1> QED BY <1>1, <1>2, <1>3, <1>4, <1>5, <1>6, <1>7, <1>8, <1>9 DEF Next

LEMMA NetInductive == Spec => []NetInv
<1>1. NetInv /\ [Next]_vars => NetInv'
  BY NextNet
<1> QED BY <1>1, FirstNet, PTL DEF Spec

\* However the hosts go down and come back, and whichever hosts SelectNextHost
\* drops with the one that failed, an outage costs the user one retry.
THEOREM OutagesCostOneRetry == Spec => []OutageCostsOneRetry
<1>1. NetInv => OutageCostsOneRetry
  BY DEF NetInv, OutageCostsOneRetry
<1> QED BY <1>1, NetInductive, PTL

-----------------------------------------------------------------------------
(* Why the client stops.                                                   *)

\* A call that shows a voting shows the one chosen last, and has it unless its
\* request failed or no block has it.
ShowsChosen(c, ch) ==
    c.f = "voteInfo" =>
        /\ ch.what = "voteInfo" /\ c.voting = ch.voting
        /\ c.todo = <<"show">> => c.answer \/ ch.failed \/ ch.voting \notin Stored

\* Such a call waits for its own retry only.
InfoInv(s, ch) ==
    /\ \A i \in 1 .. Len(s) : ShowsChosen(s[i], ch)
    /\ \A i \in 1 .. Len(s) : \A j \in i .. Len(s) :
        s[i].f = "voteInfo" => s[j].f = "voteInfo"

LEMMA FrontOf ==
    ASSUME NEW s \in Seq(Calls), s # <<>>
    PROVE  /\ Len(s) \in Nat \ {0} /\ Len(Front(s)) = Len(s) - 1 /\ Front(s) \in Seq(Calls)
           /\ \A i \in 1 .. Len(s) - 1 : Front(s)[i] = s[i]
<1>1. Len(s) \in Nat /\ Len(s) > 0
  BY StackLen
<1>2. Front(s) = SubSeq(s, 1, Len(s) - 1)
  BY DEF Front
<1>3. 1 \in Nat \ {0} /\ Len(s) - 1 \in 0 .. Len(s) /\ Len(s) - 1 - 1 + 1 = Len(s) - 1
  BY <1>1
<1>4. \A i \in 1 .. Len(s) - 1 : s[i] \in Calls
  BY <1>1, ElementOfSeq
<1> QED BY <1>1, <1>2, <1>3, <1>4, SubSeqProperties

LEMMA InfoPops ==
    ASSUME NEW s \in Seq(Calls), s # <<>>, NEW ch, InfoInv(s, ch)
    PROVE  InfoInv(Front(s), ch)
<1>1. /\ Len(s) \in Nat \ {0} /\ Len(Front(s)) = Len(s) - 1
      /\ \A i \in 1 .. Len(s) - 1 : Front(s)[i] = s[i]
  BY FrontOf
<1>2. ASSUME NEW i \in 1 .. Len(Front(s)) PROVE ShowsChosen(Front(s)[i], ch)
  <2>1. i \in 1 .. Len(s) - 1 /\ i \in 1 .. Len(s)
    BY <1>1
  <2> QED BY <1>1, <2>1 DEF InfoInv
<1>3. ASSUME NEW i \in 1 .. Len(Front(s)), NEW j \in i .. Len(Front(s)),
             Front(s)[i].f = "voteInfo"
      PROVE  Front(s)[j].f = "voteInfo"
  <2>1. i \in 1 .. Len(s) - 1 /\ j \in 1 .. Len(s) - 1 /\ i \in 1 .. Len(s) /\ j \in i .. Len(s)
    BY <1>1
  <2>2. Front(s)[i] = s[i] /\ Front(s)[j] = s[j]
    BY <1>1, <2>1
  <2> QED BY <1>3, <2>1, <2>2 DEF InfoInv
<1> QED BY <1>2, <1>3 DEF InfoInv

LEMMA InfoPushes ==
    ASSUME NEW s \in Seq(Calls), NEW c \in Calls, NEW ch, InfoInv(s, ch), ShowsChosen(c, ch),
           c.f # "voteInfo" => \A i \in 1 .. Len(s) : s[i].f # "voteInfo"
    PROVE  InfoInv(Append(s, c), ch)
<1>1. /\ Len(s) \in Nat /\ Len(Append(s, c)) = Len(s) + 1
      /\ \A i \in 1 .. Len(s) : Append(s, c)[i] = s[i]
      /\ Append(s, c)[Len(s) + 1] = c
  BY StackLen, AppendProperties
<1>2. \A i \in 1 .. Len(s) + 1 : i \in 1 .. Len(s) \/ i = Len(s) + 1
  BY <1>1
<1>3. ASSUME NEW i \in 1 .. Len(s) + 1 PROVE ShowsChosen(Append(s, c)[i], ch)
  BY <1>1, <1>2 DEF InfoInv
<1>4. ASSUME NEW i \in 1 .. Len(s) + 1, NEW j \in i .. Len(s) + 1,
             Append(s, c)[i].f = "voteInfo"
      PROVE  Append(s, c)[j].f = "voteInfo"
  <2>1. CASE j = Len(s) + 1
    BY <1>1, <1>2, <1>4, <2>1
  <2>2. CASE j # Len(s) + 1
    <3>1. i \in 1 .. Len(s) /\ j \in i .. Len(s) /\ j \in 1 .. Len(s)
      BY <1>1, <2>2
    <3> QED BY <1>1, <1>4, <3>1 DEF InfoInv
  <2> QED BY <2>1, <2>2
<1> QED BY <1>1, <1>3, <1>4 DEF InfoInv

\* A current call that shows no voting waits for none that does.
LEMMA NoInfo ==
    ASSUME NEW s \in Seq(Calls), s # <<>>, NEW ch, InfoInv(s, ch), s[Len(s)].f # "voteInfo"
    PROVE  /\ \A i \in 1 .. Len(s) : s[i].f # "voteInfo"
           /\ \A i \in 1 .. Len(Front(s)) : Front(s)[i].f # "voteInfo"
           /\ \A other : InfoInv(Front(s), other)
<1>1. /\ Len(s) \in Nat \ {0} /\ Len(Front(s)) = Len(s) - 1
      /\ \A i \in 1 .. Len(s) - 1 : Front(s)[i] = s[i]
  BY FrontOf
<1>2. \A i \in 1 .. Len(s) : Len(s) \in i .. Len(s)
  BY <1>1
<1>3. \A i \in 1 .. Len(s) : s[i].f # "voteInfo"
  BY <1>2 DEF InfoInv
<1>4. \A i \in 1 .. Len(s) - 1 : i \in 1 .. Len(s)
  BY <1>1
<1>5. \A i \in 1 .. Len(Front(s)) : Front(s)[i].f # "voteInfo"
  BY <1>1, <1>3, <1>4
<1>6. \A other : InfoInv(Front(s), other)
  <2>1. \A i \in 1 .. Len(Front(s)) : \A j \in i .. Len(Front(s)) : j \in 1 .. Len(Front(s))
    BY <1>1
  <2> QED BY <1>5, <2>1 DEF InfoInv, ShowsChosen
<1> QED BY <1>3, <1>5, <1>6

\* A request that fails is a reason to have no answer.
LEMMA InfoFails ==
    ASSUME NEW s, NEW ch, NEW failed, InfoInv(s, ch),
           failed.what = ch.what, failed.voting = ch.voting, failed.failed = TRUE
    PROVE  InfoInv(s, failed)
BY DEF InfoInv, ShowsChosen

LEMMA InfoProceeds ==
    ASSUME StackOK(stack), stack # <<>>, NEW answer \in BOOLEAN, InfoInv(stack, chosen),
           Top.f = "voteInfo" => answer \/ chosen.failed \/ chosen.voting \notin Stored
    PROVE  /\ Proceed(answer) \in Seq(Calls) /\ InfoInv(Proceed(answer), chosen)
           /\ Top.f # "voteInfo" =>
                \A i \in 1 .. Len(Proceed(answer)) : Proceed(answer)[i].f # "voteInfo"
<1>1. stack \in Seq(Calls) /\ Front(stack) \in Seq(Calls) /\ InfoInv(Front(stack), chosen)
  BY FrontOf, InfoPops DEF StackOK
<1>2. Top.f # "voteInfo" => \A i \in 1 .. Len(Front(stack)) : Front(stack)[i].f # "voteInfo"
  BY <1>1, NoInfo DEF Top
<1>3. CASE Tail(Top.todo) = <<>>
  BY <1>1, <1>2, <1>3, Proceeds
<1>4. CASE Tail(Top.todo) # <<>>
  <2>1. /\ Proceed(answer) = Append(Front(stack), After(answer)) /\ After(answer) \in Calls
        /\ After(answer).f = Top.f /\ After(answer).voting = Top.voting
        /\ After(answer).answer = answer
    BY <1>4, Proceeds
  <2>2. ShowsChosen(Top, chosen)
    <3>1. Len(stack) \in 1 .. Len(stack)
      BY <1>1, FrontOf
    <3> QED BY <3>1 DEF InfoInv, Top
  <2>3. ShowsChosen(After(answer), chosen)
    BY <2>1, <2>2 DEF ShowsChosen
  <2>4. InfoInv(Proceed(answer), chosen)
    BY <1>1, <1>2, <2>1, <2>3, InfoPushes
  <2>5. Top.f # "voteInfo" =>
            \A i \in 1 .. Len(Proceed(answer)) : Proceed(answer)[i].f # "voteInfo"
    <3>1. /\ Len(Front(stack)) \in Nat /\ Len(Proceed(answer)) = Len(Front(stack)) + 1
          /\ \A i \in 1 .. Len(Front(stack)) : Proceed(answer)[i] = Front(stack)[i]
          /\ Proceed(answer)[Len(Front(stack)) + 1] = After(answer)
      BY <1>1, <2>1, StackLen, AppendProperties
    <3>2. \A i \in 1 .. Len(Front(stack)) + 1 :
                i \in 1 .. Len(Front(stack)) \/ i = Len(Front(stack)) + 1
      BY <3>1
    <3> QED BY <1>2, <2>1, <3>1, <3>2
  <2> QED BY <1>1, <2>1, <2>4, <2>5, AppendProperties
<1> QED BY <1>3, <1>4

\* What voteInfo does next tells what it has left.
LEMMA InfoSteps ==
    ASSUME NEW f \in DOMAIN Program, NEW todo \in Rests[f]
    PROVE  /\ Head(todo) = "show" => f = "voteInfo" /\ todo = <<"show">>
           /\ f = "voteInfo" /\ Head(todo) \in Requests => Head(todo) = "info"
<1>1. f = "voteInfo" => todo \in {<<"info", "show">>, <<"show">>}
  BY DEF Rests
<1>2. Head(<<"info", "show">>) = "info" /\ Head(<<"show">>) = "show"
  BY Tails
<1>3. f # "voteInfo" => Head(todo) # "show"
  <2> HIDE DEF Requests
  <2>1. CASE f \in {"balance", "transactions", "send", "createVoting", "sendVote"}
    <3>1. todo \in {<<"utxos", "txs">>, <<"txs">>, <<"form", "utxos", "create">>,
                    <<"utxos", "create">>, <<"create">>}
      BY <2>1 DEF Rests
    <3>2. Head(<<"utxos", "txs">>) = "utxos" /\ Head(<<"txs">>) = "txs"
          /\ Head(<<"form", "utxos", "create">>) = "form"
          /\ Head(<<"utxos", "create">>) = "utxos" /\ Head(<<"create">>) = "create"
      BY Tails
    <3> QED BY <3>1, <3>2
  <2>2. CASE f \in {"sendTx", "faucet", "sendFaucet", "vote", "voteResults"}
    <3>1. todo \in {<<"submit">>, <<"form", "faucet">>, <<"faucet">>, <<"utxos", "txs", "menu">>,
                    <<"txs", "menu">>, <<"menu">>, <<"results">>}
      BY <2>2 DEF Rests
    <3>2. Head(<<"submit">>) = "submit" /\ Head(<<"form", "faucet">>) = "form"
          /\ Head(<<"faucet">>) = "faucet" /\ Head(<<"utxos", "txs", "menu">>) = "utxos"
          /\ Head(<<"txs", "menu">>) = "txs" /\ Head(<<"menu">>) = "menu"
          /\ Head(<<"results">>) = "results"
      BY Tails
    <3> QED BY <3>1, <3>2
  <2> QED BY <2>1, <2>2, Functions
<1>4. "show" \notin Requests
  BY DEF Requests
<1> QED BY <1>1, <1>2, <1>3, <1>4

\* A call that starts shows nothing yet.
LEMMA StartsToShow ==
    ASSUME NEW f \in DOMAIN Program, NEW v \in {Nil} \cup Votings, NEW tx \in {Nil} \cup Txs,
           f = "sendTx" => tx \in Txs,
           NEW ch, f = "voteInfo" => ch.what = f /\ ch.voting = v
    PROVE  ShowsChosen(Call(f, v, tx), ch)
<1>1. /\ Call(f, v, tx).f = f /\ Call(f, v, tx).voting = v
      /\ Call(f, v, tx).todo = Program[f]
  BY CallIsCall
<1>2. Program["voteInfo"] = <<"info", "show">>
  BY DEF Program, voteInfo
<1>3. <<"info", "show">> # <<"show">>
  <2>1. Head(<<"info", "show">>) = "info" /\ Head(<<"show">>) = "show"
    BY Tails
  <2> QED BY <2>1
<1> QED BY <1>1, <1>2, <1>3 DEF ShowsChosen

ReasonInv ==
    ClientInv /\ NetInv /\ InfoInv(stack, chosen) /\ StopsForAReason

\* The menu of votings and the prompt are reached with no voting on show.
LEMMA MenuShows ==
    ASSUME ReasonInv, At("menu"), NEW f \in {"createVoting", "voteInfo", "voteResults", "sendVote"},
           NEW v \in {Nil} \cup Votings, Choose(f, v), stack' = Append(Return, Call(f, v, Nil))
    PROVE  InfoInv(stack', chosen')
<1> USE DEF ReasonInv
<1>1. /\ StackOK(stack) /\ stack # <<>> /\ stack \in Seq(Calls) /\ Front(stack) \in Seq(Calls)
      /\ Head(Top.todo) = "menu"
  BY Running DEF StackOK
<1>2. Top.f = "vote"
  BY <1>1, TopCall, Steps
<1>3. /\ \A i \in 1 .. Len(Front(stack)) : Front(stack)[i].f # "voteInfo"
      /\ InfoInv(Front(stack), chosen')
  BY <1>1, <1>2, NoInfo DEF Top
<1>4. f \in DOMAIN Program /\ f # "sendTx" /\ Nil \in {Nil} \cup Txs
  BY Functions
<1>5. Call(f, v, Nil) \in Calls
  BY <1>4, CallIsCall
<1>6. chosen'.what = f /\ chosen'.voting = v
  BY <1>4, ChooseIsNew
<1>7. ShowsChosen(Call(f, v, Nil), chosen')
  BY <1>4, <1>6, StartsToShow
<1> QED BY <1>1, <1>3, <1>5, <1>7, InfoPushes DEF Return

LEMMA TypeCommandShows == ASSUME ReasonInv, TypeCommand PROVE InfoInv(stack', chosen')
<1> USE DEF ReasonInv
<1>1. PICK f \in Commands : Choose(f, Nil) /\ stack' = <<Call(f, Nil, Nil)>>
  BY DEF TypeCommand
<1>2. f \in DOMAIN Program /\ f # "voteInfo" /\ f # "sendTx"
  BY Functions DEF Commands
<1>3. Call(f, Nil, Nil) \in Calls /\ ShowsChosen(Call(f, Nil, Nil), chosen')
  BY <1>2, CallIsCall, StartsToShow
<1>4. /\ stack' = Append(<<>>, Call(f, Nil, Nil)) /\ <<>> \in Seq(Calls)
      /\ InfoInv(<<>>, chosen') /\ \A i \in 1 .. Len(<<>>) : <<>>[i].f # "voteInfo"
  <2>1. Len(<<>>) = 0
    OBVIOUS
  <2>2. 1 .. Len(<<>>) = {}
    BY <2>1
  <2> QED BY <1>1, <2>2 DEF InfoInv
<1> QED BY <1>3, <1>4, InfoPushes

LEMMA ReturnShows ==
    ASSUME ReasonInv, NEW step, At(step), stack' = Return, chosen' = chosen
    PROVE  InfoInv(stack', chosen')
<1>1. stack \in Seq(Calls) /\ stack # <<>>
  BY Running DEF ReasonInv, StackOK
<1> QED BY <1>1, InfoPops DEF ReasonInv, Return

LEMMA FillFormShows == ASSUME ReasonInv, FillForm PROVE InfoInv(stack', chosen')
<1> USE DEF ReasonInv
<1>1. At("form") /\ stack' = Proceed(FALSE) /\ chosen' = chosen
  BY DEF FillForm
<1>2. StackOK(stack) /\ stack # <<>> /\ Head(Top.todo) = "form"
  BY <1>1, Running
<1>3. Top.f # "voteInfo"
  BY <1>2, TopCall, Steps
<1> QED BY <1>1, <1>2, <1>3, InfoProceeds

LEMMA CreateTxShows == ASSUME ReasonInv, CreateTx PROVE InfoInv(stack', chosen')
<1> USE DEF ReasonInv
<1> DEFINE tx == [kind |-> Kind(Top.f), voting |-> Top.voting, form |-> forms, chosen |-> chosen]
<1>1. At("create") /\ stack' = Append(Return, Call("sendTx", Nil, tx)) /\ chosen' = chosen
  BY DEF CreateTx
<1>2. /\ StackOK(stack) /\ stack # <<>> /\ stack \in Seq(Calls) /\ Front(stack) \in Seq(Calls)
      /\ Head(Top.todo) = "create"
  BY <1>1, Running DEF StackOK
<1>3. Top.f \in Creators
  BY <1>2, TopCall, Steps DEF Creators
<1>4. tx \in Txs
  <2>1. Kind(Top.f) \in {"coins", "vote", "voting"}
    BY <1>3 DEF Kind, Creators
  <2> QED BY <1>1, <1>2, <2>1, TopCall DEF ClientInv, Txs
<1> HIDE DEF tx
<1>5. Call("sendTx", Nil, tx) \in Calls /\ ShowsChosen(Call("sendTx", Nil, tx), chosen)
  BY <1>4, Functions, CallIsCall, StartsToShow
<1>6. /\ \A i \in 1 .. Len(Front(stack)) : Front(stack)[i].f # "voteInfo"
      /\ InfoInv(Front(stack), chosen)
  BY <1>2, <1>3, NoInfo DEF Top, Creators
<1> QED BY <1>1, <1>2, <1>5, <1>6, InfoPushes DEF Return

\* An answer without the voting says that no block has it.
LEMMA AnsweredShows == ASSUME ReasonInv, Answered PROVE InfoInv(stack', chosen')
<1> USE DEF ReasonInv
<1>1. Asking /\ stack' = Proceed(Found) /\ chosen' = chosen
  BY DEF Answered
<1>2. StackOK(stack) /\ stack # <<>> /\ stack \in Seq(Calls)
  BY <1>1, AskingAt, Running DEF StackOK
<1>3. ASSUME Top.f = "voteInfo" PROVE Found \/ chosen.failed \/ chosen.voting \notin Stored
  <2>1. Step = "info"
    BY <1>1, <1>3, AskingAt, InfoSteps
  <2>2. ShowsChosen(Top, chosen)
    <3>1. Len(stack) \in 1 .. Len(stack)
      BY <1>2, FrontOf
    <3> QED BY <3>1 DEF InfoInv, Top
  <2> QED BY <1>3, <2>1, <2>2 DEF Found, ShowsChosen
<1>4. Found \in BOOLEAN
  BY DEF Found
<1> QED BY <1>1, <1>2, <1>3, <1>4, InfoProceeds

LEMMA FailShows ==
    ASSUME ReasonInv, Fail, stack' = stack
    PROVE  InfoInv(stack', chosen')
<1>1. chosen'.what = chosen.what /\ chosen'.voting = chosen.voting /\ chosen'.failed = TRUE
  BY DEF ReasonInv, ClientInv, Fail, UserChoices
<1> QED BY <1>1, InfoFails DEF ReasonInv

LEMMA AnswerNoShows == ASSUME ReasonInv, AnswerNo PROVE InfoInv(stack', chosen')
<1>1. question /\ stack' = Proceed(FALSE) /\ chosen' = chosen
  BY DEF AnswerNo
<1> QED BY <1>1, Questioned, InfoProceeds DEF ReasonInv

LEMMA AnswerYesShows == ASSUME ReasonInv, AnswerYes PROVE InfoInv(stack', chosen')
<1> USE DEF ReasonInv
<1>1. question /\ chosen' = chosen
  BY DEF AnswerYes
<1>2. StackOK(stack) /\ stack # <<>> /\ stack \in Seq(Calls) /\ chosen.failed
  BY <1>1, Questioned DEF StackOK
<1>3. CASE Top.f = "createVoting" \/ stack' = stack
  BY <1>1, <1>3 DEF AnswerYes, Retried
<1>4. CASE Top.f # "createVoting" /\ stack' = Retried
  <2>1. stack' = Append(Proceed(FALSE), Again(Top))
    BY <1>4 DEF Retried
  <2>2. /\ Proceed(FALSE) \in Seq(Calls) /\ InfoInv(Proceed(FALSE), chosen)
        /\ Top.f # "voteInfo" =>
             \A i \in 1 .. Len(Proceed(FALSE)) : Proceed(FALSE)[i].f # "voteInfo"
    BY <1>2, InfoProceeds
  <2>3. Again(Top) \in Calls
    BY <1>1, AgainIsJustified
  <2>4. CASE Top.f = "voteInfo"
    <3>1. Again(Top) = Call("voteInfo", Top.voting, Top.tx)
      BY <2>4 DEF Again
    <3>2. ShowsChosen(Top, chosen)
      <4>1. Len(stack) \in 1 .. Len(stack)
        BY <1>2, FrontOf
      <4> QED BY <4>1 DEF InfoInv, Top
    <3>3. /\ ShowsChosen(Again(Top), chosen) /\ Again(Top).f = "voteInfo"
      BY <1>2, <2>4, <3>1, <3>2, TopCall, CallIsCall, StartsToShow, Functions DEF ShowsChosen
    <3> QED BY <1>1, <2>1, <2>2, <2>3, <3>3, InfoPushes
  <2>5. CASE Top.f # "voteInfo"
    <3>1. Again(Top).f # "voteInfo"
      BY <2>5 DEF Again, Call
    <3> QED BY <1>1, <2>1, <2>2, <2>3, <2>5, <3>1, InfoPushes DEF ShowsChosen
  <2> QED BY <2>4, <2>5
<1> QED BY <1>3, <1>4 DEF AnswerYes

LEMMA NextShows == ASSUME ReasonInv, [Next]_vars PROVE InfoInv(stack', chosen')
<1>1. CASE TypeCommand
  BY <1>1, TypeCommandShows
<1>2. CASE FillForm
  BY <1>2, FillFormShows
<1>3. CASE Cancel \/ CreateTxFails
  BY <1>3, ReturnShows DEF Cancel, CreateTxFails
<1>4. CASE CreateVotingMenu \/ VoteMenu
  BY <1>4, MenuShows DEF CreateVotingMenu, VoteMenu
<1>5. CASE CreateTx
  BY <1>5, CreateTxShows
<1>6. CASE Answered
  BY <1>6, AnsweredShows
<1>7. CASE Unreachable \/ AnswerLost \/ Refused \/ HostStops
  BY <1>7, FailShows DEF Unreachable, AnswerLost, Refused, HostStops
<1>8. CASE AnswerNo
  BY <1>8, AnswerNoShows
<1>9. CASE AnswerYes
  BY <1>9, AnswerYesShows
<1>10. CASE ShowInfo
  BY <1>10, ReturnShows DEF ShowInfo, ReasonInv
<1>11. CASE HostDown \/ HostUp \/ UNCHANGED vars
  BY <1>11 DEF HostDown, HostUp, vars, ReasonInv
<1> QED BY <1>1, <1>2, <1>3, <1>4, <1>5, <1>6, <1>7, <1>8, <1>9, <1>10, <1>11 DEF Next

\* No step follows a panic, and only two steps panic.
LEMMA OnlyTwoStop ==
    ASSUME [Next]_vars
    PROVE  \/ UNCHANGED <<up, chosen, stopped>>
           \/ stopped = Nil /\ stopped' = Nil
           \/ AnswerYes /\ SelectNextHost(net, up) = {} /\ stopped' = "noHost" /\ up' = up
           \/ ShowInfo /\ ~ Top.answer /\ stopped' = "noTx" /\ chosen' = chosen
<1> USE DEF At, Asking
<1>1. CASE TypeCommand \/ FillForm \/ Cancel \/ CreateVotingMenu \/ VoteMenu
  BY <1>1 DEF TypeCommand, FillForm, Cancel, CreateVotingMenu, VoteMenu
<1>2. CASE CreateTx \/ CreateTxFails \/ Answered \/ Unreachable
  BY <1>2 DEF CreateTx, CreateTxFails, Answered, Unreachable
<1>3. CASE AnswerLost \/ Refused \/ HostStops \/ AnswerNo
  BY <1>3 DEF AnswerLost, Refused, HostStops, AnswerNo
<1>4. CASE AnswerYes
  BY <1>4 DEF AnswerYes, env
<1>5. CASE ShowInfo
  BY <1>5 DEF ShowInfo, env
<1>6. CASE HostDown \/ HostUp
  BY <1>6 DEF HostDown, HostUp
<1>7. CASE UNCHANGED vars
  BY <1>7 DEF vars, env
<1> QED BY <1>1, <1>2, <1>3, <1>4, <1>5, <1>6, <1>7 DEF Next

LEMMA NextReason == ASSUME ReasonInv, [Next]_vars PROVE StopsForAReason'
<1>1. CASE UNCHANGED <<up, chosen, stopped>>
  BY <1>1 DEF ReasonInv, StopsForAReason
<1>2. CASE stopped = Nil /\ stopped' = Nil
  BY <1>2, NilAssumption DEF StopsForAReason
<1>3. CASE AnswerYes /\ SelectNextHost(net, up) = {} /\ stopped' = "noHost" /\ up' = up
  <2>1. Range(Hosts) \cap up = {} /\ up \subseteq Range(Hosts)
    BY <1>3, HostIsFound DEF ReasonInv, NetInv
  <2> QED BY <1>3, <2>1 DEF StopsForAReason
<1>4. CASE ShowInfo /\ ~ Top.answer /\ stopped' = "noTx" /\ chosen' = chosen
  <2>1. StackOK(stack) /\ stack # <<>> /\ stack \in Seq(Calls) /\ Head(Top.todo) = "show"
    BY <1>4, Running DEF ShowInfo, ReasonInv, StackOK
  <2>2. Top.f = "voteInfo" /\ Top.todo = <<"show">>
    BY <2>1, TopCall, InfoSteps
  <2>3. ShowsChosen(Top, chosen)
    <3>1. Len(stack) \in 1 .. Len(stack)
      BY <2>1, FrontOf
    <3> QED BY <3>1 DEF ReasonInv, InfoInv, Top
  <2> QED BY <1>4, <2>2, <2>3 DEF ShowsChosen, StopsForAReason
<1> QED BY <1>1, <1>2, <1>3, <1>4, OnlyTwoStop

\* The client panics only when no host answers, or when it shows a voting whose
\* request failed or that no block has.
THEOREM PanicsForAReason == Spec => []StopsForAReason
<1>1. Init => InfoInv(stack, chosen) /\ StopsForAReason
  <2> SUFFICES ASSUME Init PROVE InfoInv(stack, chosen) /\ StopsForAReason
    OBVIOUS
  <2>1. stack = <<>> /\ Len(<<>>) = 0 /\ stopped = Nil
    BY DEF Init
  <2> QED BY <2>1, NilAssumption DEF InfoInv, StopsForAReason
<1>2. Init => ReasonInv
  BY <1>1, InitIsGood, FirstNet DEF ReasonInv
<1>3. ReasonInv /\ [Next]_vars => ReasonInv'
  BY NextKeeps, NextNet, NextShows, NextReason DEF ReasonInv
<1>4. ReasonInv => StopsForAReason
  BY DEF ReasonInv
<1> QED BY <1>2, <1>3, <1>4, PTL DEF Spec
=============================================================================
