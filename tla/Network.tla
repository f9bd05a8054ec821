------------------------------ MODULE Network -------------------------------
(***************************************************************************)
(* The network client (evote/network.go): which of the validators' hosts   *)
(* a request goes to, and which one after a request that failed.  Both the *)
(* client program and the reward goroutine of a validator use it.  alive   *)
(* is the set of hosts that answer /abci_info while they are asked; what   *)
(* depends on rand, or on the order of answers, is a set of outcomes.      *)
(***************************************************************************)
EXTENDS Integers, Sequences, SequencesExt

CONSTANTS Hosts,   \* the addresses of the validators
          Nil      \* the empty string, and a nil pointer

ASSUME HostsAssumption == Hosts \in Seq(Range(Hosts))

\* new(Network)
BlankNetwork == [workingHosts |-> <<>>, allHosts |-> <<>>, curHost |-> Nil]

InitNetwork(hosts) ==
    {[workingHosts |-> hosts, allHosts |-> hosts, curHost |-> h] : h \in Range(hosts)}

\* What a concurrent Copy may see while Init runs: it assigns allHosts,
\* workingHosts and curHost one after the other.
HalfInit(hosts) ==
    {BlankNetwork,
     [BlankNetwork EXCEPT !.allHosts = hosts],
     [BlankNetwork EXCEPT !.allHosts = hosts, !.workingHosts = hosts]}

\* The hosts are asked at once; the list is in the order of their answers.
PingHosts(hosts, alive) == SetToSeqs(Range(hosts) \cap alive)

\* No outcome: the panic when no host answers.
PingAll(net, alive) ==
    {[net EXCEPT !.workingHosts = hosts] : hosts \in PingHosts(net.allHosts, alive) \ {<<>>}}

\* Mutant: the loop removes nothing.
KeepsFailed(net) == net.workingHosts

\* The loop moves curHost on while it compares with it: the current host is
\* removed, and so is every host that follows it.
ClearedHosts(net) ==
    LET n == Len(net.workingHosts)
        step(acc, i) ==
            IF net.workingHosts[i] # acc.curHost
            THEN [acc EXCEPT !.cleared = Append(@, net.workingHosts[i])]
            ELSE [acc EXCEPT !.curHost = net.workingHosts[(i % n) + 1]]
    IN FoldLeftDomain(step, [cleared |-> <<>>, curHost |-> net.curHost],
                      net.workingHosts).cleared

\* Mutant: when all are removed, the removed ones alone are asked again.
NextListsOfWorking(net, alive) ==
    IF ClearedHosts(net) # <<>> THEN {ClearedHosts(net)}
    ELSE PingHosts(net.workingHosts, alive) \ {<<>>}

NextLists(net, alive) ==
    IF ClearedHosts(net) # <<>> THEN {ClearedHosts(net)}
    ELSE PingHosts(net.allHosts, alive) \ {<<>>}

SelectNextHost(net, alive) ==
    UNION {{[net EXCEPT !.workingHosts = hosts, !.curHost = h] : h \in Range(hosts)} :
           hosts \in NextLists(net, alive)}
=============================================================================
