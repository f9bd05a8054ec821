---------------------------- MODULE NetworkProofs ----------------------------
(***************************************************************************)
(* The choice of a host, for every list of hosts: a host whose request     *)
(* failed is not asked again before it has answered a ping, no host is     *)
(* made up, and there is a next host as long as one answers.               *)
(***************************************************************************)
EXTENDS Network, SumProofs, SequenceTheorems

-----------------------------------------------------------------------------
(* The loop of SelectNextHost.                                             *)

\* The i-th round of the loop.
Round(acc, w, i) ==
    IF w[i] # acc.curHost
    THEN [acc EXCEPT !.cleared = Append(@, w[i])]
    ELSE [acc EXCEPT !.curHost = w[(i % Len(w)) + 1]]

Before(cur) == [cleared |-> <<>>, curHost |-> cur]

Indexes(w) == [i \in DOMAIN w |-> i]

RoundsTable(it, w, cur) ==
    it = [s \in SUBSET DOMAIN Indexes(w) |->
            IF s = {} THEN Before(cur)
            ELSE LET x == Max(s) IN Round(it[s \ {x}], w, Indexes(w)[x])]

LEMMA ClearedChooses ==
    ASSUME NEW net
    PROVE  ClearedHosts(net) =
                (CHOOSE it : RoundsTable(it, net.workingHosts, net.curHost))
                    [DOMAIN Indexes(net.workingHosts)].cleared
BY DEF ClearedHosts, FoldLeftDomain, FoldLeft, MapThenFoldSet, RoundsTable, Round, Before, Indexes

\* What the loop has kept, and the host it compares with.
Kept(S, cur) == [cleared : Seq(S), curHost : S \cup {cur}]

LEMMA RoundKeeps ==
    ASSUME NEW S, NEW w \in Seq(S), NEW cur, NEW a \in Kept(S, cur), NEW i \in 1 .. Len(w)
    PROVE  Round(a, w, i) \in Kept(S, cur)
<1>1. Len(w) \in Nat \ {0}
  BY LenProperties
<1>2. i % Len(w) \in 0 .. (Len(w) - 1)
  <2>1. i \in Int
    OBVIOUS
  <2> QED BY <1>1, <2>1, DivMod
<1>3. (i % Len(w)) + 1 \in 1 .. Len(w)
  BY <1>1, <1>2
<1>4. w[i] \in S /\ w[(i % Len(w)) + 1] \in S
  BY <1>3, ElementOfSeq
<1>5. Append(a.cleared, w[i]) \in Seq(S)
  BY <1>4, AppendProperties DEF Kept
<1> QED BY <1>4, <1>5 DEF Kept, Round

\* The loop can be run from the first host to the last.
LEMMA RoundsRun ==
    ASSUME NEW S, NEW net, net.workingHosts \in Seq(S)
    PROVE  LET w == net.workingHosts
               P == Kept(S, net.curHost)
           IN \E r \in [0 .. Len(w) -> P] :
                /\ r[0] = Before(net.curHost)
                /\ \A i \in 1 .. Len(w) : r[i] = Round(r[i - 1], w, i)
                /\ ClearedHosts(net) = r[Len(w)].cleared
<1> DEFINE w == net.workingHosts
           cur == net.curHost
           P == Kept(S, cur)
           n == Len(w)
           f == [p \in P \X (1 .. n) |-> Round(p[1], w, p[2])]
           it == CHOOSE t : RoundsTable(t, w, cur)
<1>1. n \in Nat /\ DOMAIN w = 1 .. n /\ w \in Seq(S)
  BY LenProperties
<1>2. \A a \in P : \A i \in 1 .. n : f[<<a, i>>] = Round(a, w, i)
  OBVIOUS
<1>3. \A a \in P : \A i \in 1 .. n : f[<<a, i>>] \in P
  BY <1>1, <1>2, RoundKeeps
<1>4. Before(cur) \in P
  <2>1. <<>> \in Seq(S)
    BY EmptySeq
  <2> QED BY <2>1 DEF Before, Kept
<1>5. DOMAIN Indexes(w) = 1 .. n /\ \A i \in 1 .. n : Indexes(w)[i] = i
  BY <1>1 DEF Indexes
<1> HIDE DEF P, f, it, n
<1>6. RoundsTable(it, w, cur)
  <2>1. PICK t \in [SUBSET (1 .. n) -> P] : AreFolds(t, n, Before(cur), f)
    BY <1>1, <1>3, <1>4, FoldsExist
  <2>2. ASSUME NEW s \in SUBSET (1 .. n)
        PROVE  t[s] = IF s = {} THEN Before(cur)
                      ELSE Round(t[s \ {Max(s)}], w, Indexes(w)[Max(s)])
    <3>1. s # {} => Max(s) \in 1 .. n
      BY <1>1, MaxIndex
    <3>2. s # {} => t[s] = Round(t[s \ {Max(s)}], w, Max(s))
      BY <1>2, <2>1, <3>1 DEF AreFolds
    <3>3. s = {} => t[s] = Before(cur)
      BY <2>1 DEF AreFolds
    <3> QED BY <1>5, <3>1, <3>2, <3>3
  <2>3. t = [s \in SUBSET (1 .. n) |-> t[s]]
    BY <2>1
  <2>4. RoundsTable(t, w, cur)
    BY <1>5, <2>2, <2>3 DEF RoundsTable
  <2> QED BY <2>4 DEF it
<1>7. FoldsTo(it, n, P, Before(cur), f)
  <2>1. it[{}] = Before(cur)
    BY <1>6 DEF RoundsTable
  <2>2. ASSUME NEW s \in SUBSET (1 .. n), s # {}, it[s \ {Max(s)}] \in P
        PROVE  it[s] = f[<<it[s \ {Max(s)}], Max(s)>>]
    <3>1. Max(s) \in 1 .. n
      BY <1>1, <2>2, MaxIndex
    <3>2. it[s] = Round(it[s \ {Max(s)}], w, Indexes(w)[Max(s)])
      BY <1>5, <1>6, <2>2 DEF RoundsTable
    <3> QED BY <1>2, <1>5, <2>2, <3>1, <3>2
  <2> QED BY <1>1, <1>3, <1>4, <2>1, <2>2 DEF FoldsTo
<1>8. PICK r : IsRun(r, it, n, P, Before(cur), f)
  BY <1>7, FoldRun
<1>9. r \in [0 .. n -> P] /\ r[0] = Before(cur) /\ r[n] = it[1 .. n]
  BY <1>8 DEF IsRun
<1>10. \A i \in 1 .. n : r[i] = Round(r[i - 1], w, i)
  <2> SUFFICES ASSUME NEW i \in 1 .. n PROVE r[i] = Round(r[i - 1], w, i)
    OBVIOUS
  <2>1. i - 1 \in 0 .. n
    BY <1>1
  <2>2. r[i - 1] \in P /\ r[i] = f[<<r[i - 1], i>>]
    BY <1>8, <1>9, <2>1 DEF IsRun
  <2> QED BY <1>2, <2>2
<1>11. ClearedHosts(net) = it[1 .. n].cleared
  BY <1>5, ClearedChooses DEF it
<1> QED BY <1>9, <1>10, <1>11 DEF P, n

\* SelectNextHost takes the host that failed off its list.  It may take others
\* with it: from the host that failed on, each round moves curHost to the host
\* that the next round compares with.
THEOREM FailedIsCleared ==
    ASSUME NEW S, NEW net, net.workingHosts \in Seq(S)
    PROVE  ClearedHosts(net) \in Seq(S \ {net.curHost})
<1> DEFINE w == net.workingHosts
           cur == net.curHost
           n == Len(w)
           Rest == S \ {cur}
<1>1. n \in Nat /\ w \in Seq(S)
  BY LenProperties
<1>2. PICK r \in [0 .. n -> Kept(S, cur)] :
            /\ r[0] = Before(cur)
            /\ \A i \in 1 .. n : r[i] = Round(r[i - 1], w, i)
            /\ ClearedHosts(net) = r[n].cleared
  BY RoundsRun
<1> DEFINE Good(k) == /\ r[k].cleared \in Seq(Rest)
                      /\ r[k].curHost = cur \/ (k > 0 /\ r[k].curHost = w[(k % n) + 1])
           N == {k \in Nat : k <= n => Good(k)}
<1> HIDE DEF w, cur, n
<1>3. 0 \in N
  <2>1. <<>> \in Seq(Rest)
    BY EmptySeq
  <2>2. r[0].cleared = <<>> /\ r[0].curHost = cur
    BY <1>2 DEF Before
  <2>3. Good(0)
    BY <2>1, <2>2
  <2> HIDE DEF Good
  <2> QED BY <2>3
<1>4. ASSUME NEW k \in Nat, k \in N PROVE k + 1 \in N
  <2> SUFFICES ASSUME k + 1 <= n PROVE Good(k + 1)
    <3> HIDE DEF Good
    <3> QED OBVIOUS
  <2>1. k + 1 \in 1 .. n /\ (k + 1) - 1 = k /\ k \in 0 .. n /\ k <= n
    BY <1>1
  <2>2. Good(k) /\ r[k + 1] = Round(r[k], w, k + 1) /\ r[k] \in Kept(S, cur)
    BY <1>2, <1>4, <2>1
  <2>3. CASE w[k + 1] # r[k].curHost
    <3>1. k > 0 => k % n = k
      <4>1. k \in 0 .. (n - 1) /\ n \in Nat \ {0}
        BY <1>1, <2>1
      <4> QED BY <4>1, SmallRemainder
    <3>2. r[k].curHost = cur
      BY <2>2, <2>3, <3>1
    <3>3. r[k + 1] = [r[k] EXCEPT !.cleared = Append(@, w[k + 1])]
      BY <2>2, <2>3 DEF Round
    <3>4. r[k + 1].cleared = Append(r[k].cleared, w[k + 1]) /\ r[k + 1].curHost = r[k].curHost
      BY <2>2, <3>3 DEF Kept
    <3>5. w[k + 1] \in Rest
      <4>1. w[k + 1] \in S
        BY <1>1, <2>1, ElementOfSeq DEF n
      <4> QED BY <2>3, <3>2, <4>1
    <3>6. Append(r[k].cleared, w[k + 1]) \in Seq(Rest)
      BY <2>2, <3>5, AppendProperties
    <3> QED BY <3>2, <3>4, <3>6
  <2>4. CASE w[k + 1] = r[k].curHost
    <3>1. r[k + 1] = [r[k] EXCEPT !.curHost = w[((k + 1) % n) + 1]]
      BY <2>2, <2>4 DEF Round, n
    <3>2. r[k + 1].cleared = r[k].cleared /\ r[k + 1].curHost = w[((k + 1) % n) + 1]
      BY <2>2, <3>1 DEF Kept
    <3> QED BY <2>2, <3>2
  <2> QED BY <2>3, <2>4
<1> HIDE DEF N
<1>5. n \in N /\ n <= n
  BY <1>1, <1>3, <1>4, NaturalInduct
<1>6. Good(n)
  BY <1>5 DEF N
<1> QED BY <1>2, <1>6 DEF cur

-----------------------------------------------------------------------------
(* The hosts that may be asked next.                                       *)

\* The hosts that answer, in any order.
LEMMA Pinged ==
    ASSUME NEW hosts, NEW alive, IsFiniteSet(Range(hosts) \cap alive)
    PROVE  /\ PingHosts(hosts, alive) # {}
           /\ \A q \in PingHosts(hosts, alive) :
                q \in Seq(Range(hosts) \cap alive) /\ Range(q) = Range(hosts) \cap alive
<1> DEFINE S == Range(hosts) \cap alive
           n == Cardinality(S)
<1>1. n \in Nat
  BY FS_CardinalityType
<1>2. SetToSeqs(S) = {f \in [1 .. n -> S] : \A i, j \in 1 .. n : i # j => f[i] # f[j]}
  BY DEF SetToSeqs
<1>3. ExistsBijection(1 .. n, S)
  BY FS_CardinalityType
<1>4. IsFiniteSet(1 .. n) /\ Cardinality(1 .. n) = n
  BY <1>1, FS_Interval
<1>5. n = Cardinality(S) /\ IsFiniteSet(S)
  OBVIOUS
<1> HIDE DEF S, n
<1>6. SetToSeqs(S) # {}
  BY <1>2, <1>3 DEF ExistsBijection, Bijection, Injection, IsInjective
<1>7. ASSUME NEW q \in SetToSeqs(S) PROVE q \in Seq(S) /\ Range(q) = S
  <2>1. q \in [1 .. n -> S] /\ q \in Injection(1 .. n, S)
    BY <1>2, <1>7 DEF Injection, IsInjective
  <2>2. q \in Surjection(1 .. n, S)
    BY <1>4, <1>5, <2>1, FS_Injection
  <2>3. Range(q) = S
    BY <2>1, <2>2 DEF Range, Surjection
  <2> QED BY <1>1, <2>1, <2>3
<1> QED BY <1>6, <1>7 DEF PingHosts, S

\* A Network that asks known hosts.
GoodNet(net) ==
    net \in [allHosts : {Hosts}, workingHosts : Seq(Range(Hosts)), curHost : Range(Hosts)]

\* Its hosts that do not answer.
DownHosts(net, alive) == (Range(net.workingHosts) \cup {net.curHost}) \ alive

LEMMA HostsFinite == IsFiniteSet(Range(Hosts))
<1>1. IsFiniteSet(DOMAIN Hosts)
  <2>1. Len(Hosts) \in Nat /\ DOMAIN Hosts = 1 .. Len(Hosts)
    BY HostsAssumption, LenProperties
  <2> QED BY <2>1, FS_Interval
<1> DEFINE f == [x \in DOMAIN Hosts |-> Hosts[x]]
<1>2. f \in Surjection(DOMAIN Hosts, Range(Hosts))
  BY DEF Surjection, Range
<1> QED BY <1>1, <1>2, FS_Surjection

LEMMA FirstIsGood == ASSUME NEW net \in InitNetwork(Hosts) PROVE GoodNet(net)
BY HostsAssumption DEF InitNetwork, GoodNet

\* SelectNextHost finds a host when one answers.
THEOREM HostIsFound ==
    ASSUME NEW net, GoodNet(net), NEW alive, SelectNextHost(net, alive) = {}
    PROVE  Range(Hosts) \cap alive = {}
<1> SUFFICES ASSUME Range(Hosts) \cap alive # {} PROVE FALSE
  OBVIOUS
<1>1. ASSUME NEW q \in NextLists(net, alive) PROVE Range(q) = {}
  <2> DEFINE F(hosts) == {[net EXCEPT !.workingHosts = hosts, !.curHost = h] : h \in Range(hosts)}
  <2>1. SelectNextHost(net, alive) = UNION {F(hosts) : hosts \in NextLists(net, alive)}
    BY DEF SelectNextHost
  <2>2. F(q) \subseteq SelectNextHost(net, alive)
    <3> HIDE DEF F
    <3> QED BY <1>1, <2>1
  <2> QED BY <2>2
<1>2. CASE ClearedHosts(net) # <<>>
  <2>1. ClearedHosts(net) \in Seq(Range(Hosts) \ {net.curHost})
    BY FailedIsCleared DEF GoodNet
  <2>2. 1 \in DOMAIN ClearedHosts(net)
    BY <1>2, <2>1, EmptySeq, LenProperties
  <2>3. Range(ClearedHosts(net)) # {}
    BY <2>2 DEF Range
  <2> QED BY <1>1, <1>2, <2>3 DEF NextLists
<1>3. CASE ClearedHosts(net) = <<>>
  <2>1. IsFiniteSet(Range(Hosts) \cap alive)
    BY HostsFinite, FS_Subset
  <2> DEFINE Answers == PingHosts(Hosts, alive)
             Up == Range(Hosts) \cap alive
  <2>2. PICK q \in Answers : Range(q) = Up
    <3>1. Answers # {} /\ \A q \in Answers : Range(q) = Up
      BY <2>1, Pinged
    <3> HIDE DEF Answers, Up
    <3> QED BY <3>1
  <2>3. q # <<>>
    BY <2>2 DEF Range
  <2> QED BY <1>1, <1>3, <2>2, <2>3 DEF NextLists, GoodNet
<1> QED BY <1>2, <1>3

\* A host that did not answer is off the list of hosts to ask, until all of them
\* are and the hosts are asked which of them answer.
LEMMA NextIsGood ==
    ASSUME NEW net, GoodNet(net), NEW alive, NEW next \in SelectNextHost(net, alive)
    PROVE  /\ GoodNet(next)
           /\ DownHosts(next, alive) \subseteq DownHosts(net, alive) \ {net.curHost}
<1>0. PICK q \in NextLists(net, alive) :
            next \in {[net EXCEPT !.workingHosts = q, !.curHost = h] : h \in Range(q)}
  BY DEF SelectNextHost
<1>1. PICK h \in Range(q) : next = [net EXCEPT !.workingHosts = q, !.curHost = h]
  BY <1>0
<1>2. /\ next.workingHosts = q /\ next.curHost = h /\ next.allHosts = Hosts
      /\ q \in Seq(Range(Hosts)) => GoodNet(next)
  <2>1. q \in Seq(Range(Hosts)) => h \in Range(Hosts)
    BY <1>1, RangeOfSeq
  <2> QED BY <1>1, <2>1 DEF GoodNet
<1>3. CASE ClearedHosts(net) # <<>>
  <2>1. net.workingHosts \in Seq(Range(net.workingHosts))
    BY SeqOfRange DEF GoodNet
  <2>2. q \in Seq(Range(net.workingHosts) \ {net.curHost})
    BY <1>1, <1>3, <2>1, FailedIsCleared DEF NextLists
  <2>3. Range(net.workingHosts) \subseteq Range(Hosts)
    BY RangeOfSeq DEF GoodNet
  <2>4. q \in Seq(Range(Hosts)) /\ Range(q) \subseteq Range(net.workingHosts) \ {net.curHost}
    BY <2>2, <2>3, RangeOfSeq, SeqMonotonic
  <2> QED BY <1>2, <2>4 DEF DownHosts
<1>4. CASE ClearedHosts(net) = <<>>
  <2>1. IsFiniteSet(Range(Hosts) \cap alive)
    BY HostsFinite, FS_Subset
  <2>2. q \in PingHosts(Hosts, alive)
    BY <1>1, <1>4 DEF NextLists, GoodNet
  <2>3. q \in Seq(Range(Hosts) \cap alive) /\ Range(q) = Range(Hosts) \cap alive
    BY <2>1, <2>2, Pinged
  <2>4. q \in Seq(Range(Hosts))
    BY <2>3, SeqMonotonic
  <2> QED BY <1>2, <2>3, <2>4 DEF DownHosts
<1> QED BY <1>3, <1>4

-----------------------------------------------------------------------------
(* How many hosts of the list do not answer.                               *)

Downs(net, alive) == Cardinality(DownHosts(net, alive))

LEMMA DownsCount ==
    ASSUME NEW net, GoodNet(net), NEW alive
    PROVE  /\ IsFiniteSet(DownHosts(net, alive)) /\ Downs(net, alive) \in Nat
           /\ net.curHost \notin alive => net.curHost \in DownHosts(net, alive)
           /\ net.curHost \notin alive => Downs(net, alive) >= 1
<1>1. DownHosts(net, alive) \subseteq Range(Hosts)
  BY RangeOfSeq DEF GoodNet, DownHosts
<1>2. IsFiniteSet(DownHosts(net, alive))
  BY <1>1, HostsFinite, FS_Subset
<1>3. net.curHost \notin alive => net.curHost \in DownHosts(net, alive)
  BY DEF GoodNet, DownHosts
<1>4. Downs(net, alive) \in Nat /\ (Downs(net, alive) = 0 => DownHosts(net, alive) = {})
  BY <1>2, FS_CardinalityType, FS_EmptySet DEF Downs
<1> QED BY <1>2, <1>3, <1>4

\* A list with no other hosts that are down has no more of them.
LEMMA DownsFewer ==
    ASSUME NEW net, GoodNet(net), NEW alive, NEW other, NEW up,
           DownHosts(other, up) \subseteq DownHosts(net, alive)
    PROVE  Downs(other, up) <= Downs(net, alive)
BY DownsCount, FS_Subset DEF Downs

\* Another host goes down.
LEMMA DownsMore ==
    ASSUME NEW net, GoodNet(net), NEW alive, NEW up, NEW h, alive \ {h} \subseteq up
    PROVE  Downs(net, up) <= Downs(net, alive) + 1
<1> DEFINE D == DownHosts(net, alive)
<1>1. DownHosts(net, up) \subseteq D \cup {h}
  BY DEF DownHosts
<1>2. IsFiniteSet(D) /\ Cardinality(D) \in Nat
  BY DownsCount DEF Downs
<1>3. IsFiniteSet(D \cup {h}) /\ Cardinality(D \cup {h}) <= Cardinality(D) + 1
  BY <1>2, FS_AddElement
<1>4. Cardinality(DownHosts(net, up)) <= Cardinality(D \cup {h})
  BY <1>1, <1>3, FS_Subset
<1>5. Cardinality(DownHosts(net, up)) \in Nat /\ Cardinality(D \cup {h}) \in Nat
  BY <1>3, FS_CardinalityType, DownsCount DEF Downs
<1> QED BY <1>2, <1>3, <1>4, <1>5 DEF Downs

\* The next list has no more hosts that are down, and one less when the current
\* host was down.
LEMMA OutageIsPaid ==
    ASSUME NEW net, GoodNet(net), NEW alive, NEW next \in SelectNextHost(net, alive)
    PROVE  /\ Downs(next, alive) <= Downs(net, alive)
           /\ net.curHost \notin alive => Downs(next, alive) + 1 <= Downs(net, alive)
<1> DEFINE D == DownHosts(net, alive)
           E == DownHosts(next, alive)
<1>1. E \subseteq D \ {net.curHost} /\ E \subseteq D
  BY NextIsGood
<1>2. Downs(next, alive) <= Downs(net, alive)
  BY <1>1, DownsFewer
<1>3. ASSUME net.curHost \notin alive PROVE Downs(next, alive) + 1 <= Downs(net, alive)
  <2>1. IsFiniteSet(D) /\ Cardinality(D) \in Nat /\ net.curHost \in D
    BY <1>3, DownsCount DEF Downs
  <2>2. IsFiniteSet(D \ {net.curHost}) /\ Cardinality(D \ {net.curHost}) = Cardinality(D) - 1
    BY <2>1, FS_RemoveElement
  <2>3. Cardinality(E) <= Cardinality(D \ {net.curHost})
    BY <1>1, <2>2, FS_Subset
  <2>4. Cardinality(E) \in Nat
    BY <1>1, <2>1, FS_Subset, FS_CardinalityType
  <2> QED BY <2>1, <2>2, <2>3, <2>4 DEF Downs
<1> QED BY <1>2, <1>3

=============================================================================
