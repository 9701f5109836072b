-------------------------- MODULE ConntrackNatProofs --------------------------
(* Theorems about ConntrackNat, for any connections and hosts and for arrays *)
(* of any size: the cache of NatApp and the hardware table agree.            *)
EXTENDS ConntrackNat, FiniteSetTheorems, WellFoundedInduction, TLAPS

NatType == [cache : [Slots -> Entry \cup {none}], hw : [Handles -> Rule \cup {none}],
            table : BOOLEAN, pub : PublicIps \cup {none}, pre : PublicIps]

\* The refreshing thread has deleted the rule of the entry in slot i, not yet the entry.
Bare(i) == timer.at = "clearing" /\ timer.hdl # 0 /\ timer.slot = i

\* The entry in slot i of n is one with a rule in the hardware.
On(n, i) == n.cache[i] # none /\ n.cache[i].enabled /\ ~Bare(i)

\* What TableAgrees says of the variable, of any state n of NatApp; and the entry that is about
\* to be cleared is the one whose rule was deleted.
Agree(n) ==
  /\ \A h \in Handles : n.hw[h] # none => \E i \in Slots : On(n, i) /\ n.cache[i].hdl = h
  /\ \A i \in Slots : On(n, i) =>
       /\ n.table /\ n.cache[i].hdl \in Handles /\ n.hw[n.cache[i].hdl] = n.cache[i].rule
       /\ \A j \in Slots : On(n, j) /\ n.cache[j].hdl = n.cache[i].hdl => i = j
  /\ \A i \in Slots : Bare(i) => n.cache[i] # none /\ n.cache[i].enabled /\ n.table

\* The entry the refreshing thread has found is as it was.
Grip ==
  /\ timer.at = "deleting" => On(nat, timer.slot) /\ nat.cache[timer.slot].hdl = timer.hdl
  /\ timer.at = "clearing" /\ timer.hdl = 0 => ~On(nat, timer.slot)

\* Unless the threads crossed, cache and table agree.
Sound == nat \in NatType /\ (~crossed => Agree(nat) /\ Grip)

\* m has the table of n.
SameTable(n, m) == m \in NatType /\ m.table = n.table /\ m.pub = n.pub

\* It agrees, too, if n did and the entry about to be cleared is left alone.
Leaves(n, m) ==
  /\ SameTable(n, m)
  /\ Agree(n) /\ (\A i \in Slots : Bare(i) => m.cache[i] = n.cache[i]) => Agree(m)

\* It agrees if n did.
Keeps(n, m) == Leaves(n, m) /\ (Agree(n) => Agree(m))

\* The entries of m are entries of n, each in its slot.
Fewer(n, m) ==
  \A i \in Slots : m.cache[i] # none => n.cache[i] # none /\ m.cache[i].rule = n.cache[i].rule

\* The table is there while the WAN interface is up, and for its address.
WanInv == /\ nat.table <=> wan.up
          /\ wan.up => nat.pub = wan.addr /\ wan.addr \in PublicIps

Others == /\ temp \in [Temps -> Waiting \cup {none}]
          /\ PwrSaveIfs \subseteq setting.sleepers
          /\ wan \in [up : BOOLEAN, addr : PublicIps \cup {none}, sta : BOOLEAN]
          /\ threads \in [{"tcp", "udp", "timeouts"} -> {"none", "created", "running"}]
          /\ bound \in [Own -> PublicIps \cup {none}]
          /\ natIfs \in [Hosts -> {"unknown", "listed", "routed"}]
          /\ nonNatIfs \in [OtherHosts -> 0 .. MaxIfaces]
          /\ tracked \subseteq Conns /\ closing \subseteq tracked
          /\ timer \in Timer /\ (timer # Idle => timer.slot \in Slots) /\ crossed \in BOOLEAN

\* StaClntCnt counts the peers in the array.
StaInv == /\ sta.clients \in [1 .. MaxPeers -> Peers \cup {none}]
          /\ sta = [clients |-> sta.clients, count |-> sta.count]
          /\ sta.count = Cardinality({i \in 1 .. MaxPeers : sta.clients[i] # none})

TableInv == setting \in Settings /\ Sound /\ WanInv /\ Others /\ StaInv

-----------------------------------------------------------------------------
(* Numbers *)

\* A non-empty set of numbers has a least element.
LEMMA LeastExists ==
  ASSUME NEW S \in SUBSET Nat, S # {}
  PROVE  \E x \in S : \A y \in S : x <= y
<1>1. \E x \in S : \A y \in S : <<y, x>> \notin OpToRel(<, Nat)
  BY NatLessThanWellFounded, WFMin
<1>2. PICK x \in S : \A y \in S : <<y, x>> \notin OpToRel(<, Nat)
  BY <1>1
<1>3. ASSUME NEW y \in S PROVE x <= y
  <2>1. <<y, x>> \notin OpToRel(<, Nat)
    BY <1>2
  <2>2. x \in Nat /\ y \in Nat
    OBVIOUS
  <2>3. ~(y < x)
    BY <2>1, <2>2 DEF OpToRel
  <2> QED BY <2>2, <2>3
<1> QED BY <1>3

\* A free slot is found when there is one.
LEMMA FirstIsIn ==
  ASSUME NEW S \in SUBSET Nat, S # {}
  PROVE  First(S) \in S
BY LeastExists DEF First

\* A set that has 0 and the successor of each of its numbers below n has all up to n.
LEMMA UpTo ==
  ASSUME NEW n \in Nat, NEW P \in SUBSET (0 .. n), 0 \in P,
         \A k \in 0 .. n : k # n /\ k \in P => k + 1 \in P
  PROVE  P = 0 .. n
<1> SUFFICES ASSUME (0 .. n) \ P # {} PROVE FALSE
  OBVIOUS
<1>1. (0 .. n) \ P \in SUBSET Nat
  OBVIOUS
<1>2. PICK x \in (0 .. n) \ P : \A y \in (0 .. n) \ P : x <= y
  BY <1>1, LeastExists
<1>3. x # 0 /\ x - 1 \in 0 .. n /\ x - 1 # n
  BY <1>2
<1>4. x - 1 \in P
  BY <1>2, <1>3
<1> QED BY <1>2, <1>3, <1>4

-----------------------------------------------------------------------------
(* The rules in the hardware *)

\* What a setting gives.
LEMMA Sizes ==
  ASSUME setting \in Settings
  PROVE  /\ setting.entries \in Nat /\ setting.temps \in Nat /\ setting.hw \in Nat
         /\ setting.conns \subseteq Conns /\ setting.sleepers \subseteq Hosts
         /\ setting.modes \subseteq BOOLEAN /\ setting.wanFalls \in BOOLEAN
         /\ Slots \subseteq Nat /\ Handles \subseteq Nat /\ Temps \subseteq Nat
         /\ 0 \notin Slots /\ 0 \notin Handles
BY SettingsAssumption DEF Setting, Slots, Handles, Temps

\* An entry and a rule are something.
LEMMA Entries ==
  ASSUME setting \in Settings, NEW n \in NatType
  PROVE  /\ none \notin Entry /\ none \notin Rule /\ none \notin Waiting
         /\ \A i \in Slots : n.cache[i] # none => n.cache[i] \in Entry
         /\ \A h \in Handles : n.hw[h] # none => n.hw[h] \in Rule
<1>1. Entry \subseteq [rule : Rule, enabled : BOOLEAN, hdl : Nat, pub : PublicIps \cup {none}]
  BY Sizes DEF Entry
<1> QED BY <1>1, NoneAssumption DEF NatType

\* ipa_nat_add_ipv4_rule for an entry that has no rule.
LEMMA EnableOrDropKeeps ==
  ASSUME setting \in Settings, NEW n \in NatType,
         NEW i \in Slots, n.cache[i] # none
  PROVE  LET m == EnableOrDrop(n, i)
         IN  /\ SameTable(n, m) /\ Fewer(n, m)
             /\ Agree(n) /\ ~n.cache[i].enabled => Agree(m)
             /\ \A j \in Slots \ {i} : m.cache[j] = n.cache[j]
<1>0. n \in NatType /\ n.cache[i] \in Entry /\ none \notin Entry /\ none \notin Rule
  BY Entries
<1> DEFINE m == EnableOrDrop(n, i)
<1>1. CASE NatAdds(n)
  <2> DEFINE h  == First(Free(n.hw))
             e  == [n.cache[i] EXCEPT !.enabled = TRUE, !.hdl = h]
             hw == [n.hw EXCEPT ![h] = n.cache[i].rule]
             cache == [n.cache EXCEPT ![i] = e]
  <2>1. h \in Handles /\ n.hw[h] = none /\ n.table
    <3>1. Free(n.hw) \subseteq Handles /\ Free(n.hw) # {} /\ n.table
      BY <1>0, <1>1 DEF Free, NatAdds, NatType
    <3>2. Free(n.hw) \in SUBSET Nat
      BY <3>1, Sizes
    <3>3. h \in Free(n.hw)
      BY <3>1, <3>2, FirstIsIn
    <3> QED BY <3>1, <3>3 DEF Free
  <2>2. m = [n EXCEPT !.hw = hw, !.cache = cache]
    BY <1>0, <1>1 DEF EnableOrDrop, NatType
  <2> HIDE DEF h, m
  <2>3. e \in Entry /\ e.enabled /\ e.hdl = h /\ e.rule = n.cache[i].rule /\ e.rule \in Rule
    BY <1>0, <2>1 DEF Entry
  <2> HIDE DEF e
  <2>4. /\ hw \in [Handles -> Rule \cup {none}] /\ hw[h] = e.rule
        /\ \A g \in Handles \ {h} : hw[g] = n.hw[g]
        /\ cache \in [Slots -> Entry \cup {none}] /\ cache[i] = e
        /\ \A j \in Slots \ {i} : cache[j] = n.cache[j]
    BY <1>0, <2>1, <2>3 DEF NatType
  <2> HIDE DEF hw, cache
  <2>5. /\ m \in NatType /\ m.hw = hw /\ m.cache = cache /\ m.table = n.table /\ m.pub = n.pub
    BY <1>0, <2>2, <2>4 DEF NatType
  <2>8. ASSUME Agree(n), ~n.cache[i].enabled PROVE Agree(m)
    <3>0. ~Bare(i)
      BY <2>8 DEF Agree
    <3>6. On(m, i) /\ \A j \in Slots \ {i} : On(m, j) <=> On(n, j)
      BY <1>0, <2>3, <2>4, <2>5, <2>8, <3>0 DEF On
    <3>7. \A j \in Slots \ {i} : On(n, j) => n.cache[j].hdl \in Handles /\ n.cache[j].hdl # h
      BY <1>0, <2>1, <2>8, Entries DEF Agree, On, Entry
    <3>1. ASSUME NEW g \in Handles, m.hw[g] # none
          PROVE  \E j \in Slots : On(m, j) /\ m.cache[j].hdl = g
      <4>1. CASE g = h
        BY <2>3, <2>4, <2>5, <3>6, <4>1
      <4>2. CASE g # h
        <5>1. PICK j \in Slots : On(n, j) /\ n.cache[j].hdl = g
          BY <1>0, <2>4, <2>5, <2>8, <3>1, <4>2 DEF Agree
        <5>2. j # i
          BY <2>8, <5>1 DEF On
        <5> QED BY <2>4, <2>5, <3>6, <5>1, <5>2
      <4> QED BY <4>1, <4>2
    <3>2. ASSUME NEW j \in Slots, On(m, j)
          PROVE  /\ m.table /\ m.cache[j].hdl \in Handles /\ m.hw[m.cache[j].hdl] = m.cache[j].rule
                 /\ \A k \in Slots : On(m, k) /\ m.cache[k].hdl = m.cache[j].hdl => j = k
      <4>1. CASE j = i
        BY <2>1, <2>3, <2>4, <2>5, <3>6, <3>7, <4>1
      <4>2. CASE j # i
        <5>1. On(n, j) /\ m.cache[j] = n.cache[j]
          BY <2>4, <2>5, <3>6, <3>2, <4>2
        <5>2. /\ n.table /\ n.cache[j].hdl \in Handles /\ n.hw[n.cache[j].hdl] = n.cache[j].rule
              /\ \A k \in Slots : On(n, k) /\ n.cache[k].hdl = n.cache[j].hdl => j = k
          BY <1>0, <2>8, <5>1 DEF Agree
        <5> QED BY <2>3, <2>4, <2>5, <3>6, <3>7, <4>2, <5>1, <5>2
      <4> QED BY <4>1, <4>2
    <3>3. \A j \in Slots : Bare(j) => m.cache[j] # none /\ m.cache[j].enabled /\ m.table
      BY <2>4, <2>5, <2>8, <3>0 DEF Agree
    <3> QED BY <3>1, <3>2, <3>3 DEF Agree
  <2>9. Fewer(n, m)
    BY <2>3, <2>4, <2>5 DEF Fewer
  <2> QED BY <2>4, <2>5, <2>8, <2>9 DEF SameTable, m
<1>2. CASE ~NatAdds(n)
  <2> DEFINE cache == [n.cache EXCEPT ![i] = none]
  <2>1. m = [n EXCEPT !.cache = cache]
    BY <1>0, <1>2 DEF EnableOrDrop, NatType
  <2>2. cache \in [Slots -> Entry \cup {none}] /\ cache[i] = none
        /\ \A j \in Slots \ {i} : cache[j] = n.cache[j]
    BY <1>0 DEF NatType
  <2> HIDE DEF cache, m
  <2>3. /\ m \in NatType /\ m.hw = n.hw /\ m.cache = cache /\ m.table = n.table /\ m.pub = n.pub
    BY <1>0, <2>1, <2>2 DEF NatType
  <2>5. ASSUME Agree(n), ~n.cache[i].enabled PROVE Agree(m)
    <3>1. \A j \in Slots : Bare(j) => j # i
      BY <2>5 DEF Agree
    <3>2. \A j \in Slots : /\ On(m, j) <=> On(n, j)
                           /\ On(n, j) => m.cache[j] = n.cache[j]
      BY <1>0, <2>2, <2>3, <2>5 DEF On
    <3> QED BY <1>0, <2>2, <2>3, <2>5, <3>1, <3>2 DEF Agree
  <2>6. Fewer(n, m)
    BY <2>2, <2>3 DEF Fewer
  <2> QED BY <2>2, <2>3, <2>5, <2>6 DEF SameTable, m
<1> QED BY <1>1, <1>2

\* The entries of some slots without a rule are given one in turn: each step leaves the slots
\* that are still to come as they are.
LEMMA EnableEachKeeps ==
  ASSUME setting \in Settings, NEW n \in NatType, NEW its \in SUBSET Slots,
         \A i \in its : n.cache[i] # none
  PROVE  LET m == EnableEach(n, its)
         IN  /\ SameTable(n, m) /\ Fewer(n, m)
             /\ Agree(n) /\ (\A i \in its : ~n.cache[i].enabled) => Agree(m)
<1> DEFINE N == setting.entries
           Step1(m, i) == IF i \in its THEN EnableOrDrop(m, i) ELSE m
           Is(g, k) == g = [i \in 0 .. k |-> IF i = 0 THEN n ELSE Step1(g[i - 1], i)]
           Ready == \A i \in its : ~n.cache[i].enabled
           Good(m, k) == /\ SameTable(n, m) /\ Fewer(n, m)
                         /\ Agree(n) /\ Ready => Agree(m)
                         /\ \A i \in Slots : i > k => m.cache[i] = n.cache[i]
           P == {k \in 0 .. N : \E g : Is(g, k)}
<1>0. N \in Nat /\ Slots = 1 .. N
  BY Sizes DEF Slots
<1>1. P = 0 .. N
  <2>1. 0 \in P
    <3> DEFINE g == [i \in 0 .. 0 |-> n]
    <3>1. g = [i \in 0 .. 0 |-> IF i = 0 THEN n ELSE Step1(g[i - 1], i)]
      BY \A i \in 0 .. 0 : i = 0
    <3> HIDE DEF g
    <3>2. Is(g, 0)
      BY <3>1
    <3> HIDE DEF Is
    <3>3. \E f : Is(f, 0)
      BY <3>2
    <3> QED BY <1>0, <3>3
  <2>2. ASSUME NEW k \in 0 .. N, k # N, k \in P PROVE k + 1 \in P
    <3>1. PICK g : Is(g, k)
      BY <2>2
    <3> DEFINE f == [i \in 0 .. k + 1 |-> IF i <= k THEN g[i] ELSE Step1(g[k], i)]
    <3> HIDE DEF Step1
    <3>2. ASSUME NEW i \in 0 .. k + 1 PROVE f[i] = IF i = 0 THEN n ELSE Step1(f[i - 1], i)
      <4>1. CASE i = 0
        BY <1>0, <3>1, <4>1
      <4>2. CASE i # 0 /\ i <= k
        <5>1. i \in 0 .. k /\ i - 1 \in 0 .. k + 1 /\ i - 1 <= k
          BY <1>0, <4>2
        <5>2. f[i] = g[i] /\ f[i - 1] = g[i - 1]
          BY <5>1, <4>2
        <5>3. g[i] = Step1(g[i - 1], i)
          BY <3>1, <4>2, <5>1
        <5> QED BY <4>2, <5>2, <5>3
      <4>3. CASE i = k + 1
        <5>1. i - 1 = k /\ k \in 0 .. k + 1 /\ ~(i <= k) /\ k <= k /\ i # 0
          BY <1>0, <4>3
        <5>2. f[i] = Step1(g[k], i) /\ f[i - 1] = g[k]
          BY <5>1
        <5> QED BY <5>1, <5>2
      <4> QED BY <1>0, <4>1, <4>2, <4>3
    <3>3. f = [i \in 0 .. k + 1 |-> f[i]]
      OBVIOUS
    <3> HIDE DEF f
    <3>4. Is(f, k + 1)
      BY <3>2, <3>3
    <3> QED BY <1>0, <2>2, <3>4
  <2> HIDE DEF P
  <2>3. P \subseteq 0 .. N
    BY DEF P
  <2> QED BY <1>0, <2>1, <2>2, <2>3, UpTo
<1> DEFINE after[i \in 0 .. N] == IF i = 0 THEN n ELSE Step1(after[i - 1], i)
<1>2. Is(after, N)
  <2>1. \E g : Is(g, N)
    BY <1>0, <1>1
  <2> QED BY <2>1
<1>3. EnableEach(n, its) = after[N]
  BY DEF EnableEach
<1> HIDE DEF after, P
<1> DEFINE Q == {k \in 0 .. N : Good(after[k], k)}
<1>4. Q = 0 .. N
  <2>1. 0 \in Q
    <3>1. after[0] = n
      BY <1>0, <1>2
    <3> QED BY <1>0, <3>1 DEF SameTable, Fewer
  <2>2. ASSUME NEW k \in 0 .. N, k # N, k \in Q PROVE k + 1 \in Q
    <3>1. after[k + 1] = Step1(after[k], k + 1)
      <4>1. k + 1 \in 0 .. N /\ k + 1 # 0 /\ (k + 1) - 1 = k
        BY <1>0, <2>2
      <4> HIDE DEF Step1
      <4> QED BY <1>2, <4>1
    <3>2. Good(after[k], k) /\ k + 1 \in Slots /\ k \in Nat
      BY <1>0, <2>2
    <3>3. CASE k + 1 \in its
      <4>1. after[k] \in NatType /\ after[k].cache[k + 1] = n.cache[k + 1] /\ n.cache[k + 1] # none
        BY <3>2, <3>3 DEF SameTable
      <4>2. /\ SameTable(after[k], EnableOrDrop(after[k], k + 1))
            /\ Agree(after[k]) /\ ~after[k].cache[k + 1].enabled => Agree(EnableOrDrop(after[k], k + 1))
            /\ Fewer(after[k], EnableOrDrop(after[k], k + 1))
            /\ \A j \in Slots \ {k + 1} : EnableOrDrop(after[k], k + 1).cache[j] = after[k].cache[j]
        BY <3>2, <4>1, EnableOrDropKeeps
      <4>3. after[k + 1] = EnableOrDrop(after[k], k + 1)
        BY <3>1, <3>3
      <4>4. Agree(n) /\ Ready => Agree(after[k + 1])
        BY <3>2, <3>3, <4>1, <4>2, <4>3
      <4>5. SameTable(n, after[k + 1]) /\ Fewer(n, after[k + 1])
        BY <3>2, <4>2, <4>3 DEF SameTable, Fewer
      <4>6. Good(after[k + 1], k + 1)
        BY <1>0, <3>2, <4>2, <4>3, <4>4, <4>5
      <4> QED BY <1>0, <2>2, <4>6
    <3>4. CASE k + 1 \notin its
      <4>1. Good(after[k + 1], k + 1)
        BY <1>0, <3>1, <3>2, <3>4
      <4> QED BY <1>0, <2>2, <4>1
    <3> QED BY <3>3, <3>4
  <2> HIDE DEF Q
  <2>3. Q \subseteq 0 .. N
    BY DEF Q
  <2> QED BY <1>0, <2>1, <2>2, <2>3, UpTo
<1> QED BY <1>0, <1>3, <1>4

-----------------------------------------------------------------------------
(* NatApp *)

\* Entries that are left without a rule, and whose rules go, leave the others as they were.
LEMMA WithdrawnKeeps ==
  ASSUME setting \in Settings, NEW n \in NatType, NEW its \in SUBSET Slots,
         \A i \in its : n.cache[i] # none,
         NEW m \in NatType, m.table = n.table, m.pub = n.pub, m.hw = Withdrawn(n, its),
         \A i \in its : m.cache[i] = none \/ ~m.cache[i].enabled,
         \A i \in Slots \ its : m.cache[i] = n.cache[i]
  PROVE  Leaves(n, m)
<1> SUFFICES ASSUME Agree(n), \A i \in Slots : Bare(i) => m.cache[i] = n.cache[i]
             PROVE  Agree(m)
  BY DEF Leaves, SameTable
<1>0. n \in NatType /\ Agree(n)
  OBVIOUS
<1>b. \A i \in Slots : Bare(i) => i \notin its /\ m.cache[i] # none /\ m.cache[i].enabled
  BY DEF Agree
<1>a. \A i \in its : ~On(m, i)
  BY DEF On
<1>1. \A i \in Slots \ its : On(m, i) <=> On(n, i)
  BY DEF On
<1>2. \A h \in Handles : m.hw[h] = IF \E i \in its : n.cache[i].enabled /\ n.cache[i].hdl = h
                                   THEN none ELSE n.hw[h]
  BY DEF Withdrawn
<1>3. ASSUME NEW h \in Handles, m.hw[h] # none
      PROVE  \E i \in Slots : On(m, i) /\ m.cache[i].hdl = h
  <2>1. n.hw[h] # none /\ ~\E i \in its : n.cache[i].enabled /\ n.cache[i].hdl = h
    BY <1>2, <1>3
  <2>2. PICK i \in Slots : On(n, i) /\ n.cache[i].hdl = h
    BY <1>0, <2>1 DEF Agree
  <2>3. i \in Slots \ its
    BY <2>1, <2>2 DEF On
  <2> QED BY <1>1, <2>2, <2>3
<1>4. ASSUME NEW i \in Slots, On(m, i)
      PROVE  /\ m.table /\ m.cache[i].hdl \in Handles /\ m.hw[m.cache[i].hdl] = m.cache[i].rule
             /\ \A j \in Slots : On(m, j) /\ m.cache[j].hdl = m.cache[i].hdl => i = j
  <2>1. i \in Slots \ its /\ On(n, i) /\ m.cache[i] = n.cache[i]
    BY <1>1, <1>4, <1>a
  <2>2. /\ n.table /\ n.cache[i].hdl \in Handles /\ n.hw[n.cache[i].hdl] = n.cache[i].rule
        /\ \A j \in Slots : On(n, j) /\ n.cache[j].hdl = n.cache[i].hdl => i = j
    BY <1>0, <2>1 DEF Agree
  <2>3. m.hw[n.cache[i].hdl] = n.hw[n.cache[i].hdl]
    <3>1. ASSUME NEW j \in its, n.cache[j].enabled, n.cache[j].hdl = n.cache[i].hdl PROVE FALSE
      <4>1. On(n, j)
        BY <1>b, <3>1 DEF On
      <4> QED BY <2>1, <2>2, <3>1, <4>1
    <3> QED BY <1>2, <2>2, <3>1
  <2> QED BY <1>1, <1>4, <1>a, <2>1, <2>2, <2>3
<1>5. \A i \in Slots : Bare(i) => m.cache[i] # none /\ m.cache[i].enabled /\ m.table
  BY <1>0, <1>b DEF Agree
<1> QED BY <1>3, <1>4, <1>5 DEF Agree

\* What is withdrawn leaves rules in the hardware, or nothing.
LEMMA WithdrawnType ==
  ASSUME NEW n \in NatType, NEW its
  PROVE  Withdrawn(n, its) \in [Handles -> Rule \cup {none}]
BY DEF Withdrawn, NatType

LEMMA DropKeeps ==
  ASSUME setting \in Settings, NEW n \in NatType, NEW its \in SUBSET Slots,
         \A i \in its : n.cache[i] # none
  PROVE  Leaves(n, Drop(n, its)) /\ Fewer(n, Drop(n, its))
<1> DEFINE m == Drop(n, its)
           hw == Withdrawn(n, its)
           cache == [i \in Slots |-> IF i \in its THEN none ELSE n.cache[i]]
<1>0. n \in NatType /\ hw \in [Handles -> Rule \cup {none}]
  BY WithdrawnType
<1>1. m = [n EXCEPT !.hw = hw, !.cache = cache]
  BY <1>0 DEF Drop, NatType
<1>2. /\ cache \in [Slots -> Entry \cup {none}]
      /\ \A i \in its : cache[i] = none
      /\ \A i \in Slots \ its : cache[i] = n.cache[i]
  BY <1>0 DEF NatType
<1> HIDE DEF cache, m, hw
<1>3. m \in NatType /\ m.hw = hw /\ m.cache = cache /\ m.table = n.table /\ m.pub = n.pub
  BY <1>0, <1>1, <1>2 DEF NatType
<1>4. \A i \in its : m.cache[i] = none \/ ~m.cache[i].enabled
  BY <1>2, <1>3
<1>5. m.hw = Withdrawn(n, its)
  BY <1>3 DEF hw
<1>6. \A i \in Slots \ its : m.cache[i] = n.cache[i]
  BY <1>2, <1>3
<1>7. Fewer(n, m)
  BY <1>2, <1>3 DEF Fewer
<1> QED BY <1>3, <1>4, <1>5, <1>6, <1>7, WithdrawnKeeps DEF m

\* An entry that loses its rule.
LEMMA OffEntry ==
  ASSUME setting \in Settings, NEW e \in Entry
  PROVE  /\ [e EXCEPT !.enabled = FALSE, !.hdl = 0] \in Entry
         /\ ~[e EXCEPT !.enabled = FALSE, !.hdl = 0].enabled
         /\ [e EXCEPT !.enabled = FALSE, !.hdl = 0].rule = e.rule
         /\ [e EXCEPT !.enabled = FALSE] \in Entry /\ ~[e EXCEPT !.enabled = FALSE].enabled
         /\ [e EXCEPT !.enabled = FALSE].rule = e.rule
BY DEF Entry

LEMMA SuspendKeeps ==
  ASSUME setting \in Settings, NEW n \in NatType, NEW ip
  PROVE  Leaves(n, Suspend(n, ip)) /\ Fewer(n, Suspend(n, ip))
<1> DEFINE its == SlotsOf(n, LAMBDA e : e.rule.priv = ip /\ e.enabled)
           m == Suspend(n, ip)
           hw == Withdrawn(n, its)
           off(i) == [n.cache[i] EXCEPT !.enabled = FALSE, !.hdl = 0]
           cache == [i \in Slots |-> IF i \in its THEN off(i) ELSE n.cache[i]]
<1>0. n \in NatType /\ hw \in [Handles -> Rule \cup {none}]
  BY WithdrawnType
<1>a. its \in SUBSET Slots /\ \A i \in its : n.cache[i] # none
  BY DEF SlotsOf
<1>1. m = [n EXCEPT !.hw = hw, !.cache = cache]
  BY <1>0 DEF Suspend, NatType
<1> HIDE DEF its
<1>b. \A i \in its : off(i) \in Entry /\ ~off(i).enabled /\ off(i).rule = n.cache[i].rule
  BY <1>0, <1>a, Entries, OffEntry
<1> HIDE DEF off
<1>2. /\ cache \in [Slots -> Entry \cup {none}]
      /\ \A i \in its : cache[i] = off(i)
      /\ \A i \in Slots \ its : cache[i] = n.cache[i]
  BY <1>0, <1>a, <1>b DEF NatType
<1> HIDE DEF cache, m, hw
<1>3. m \in NatType /\ m.hw = hw /\ m.cache = cache /\ m.table = n.table /\ m.pub = n.pub
  BY <1>0, <1>1, <1>2 DEF NatType
<1>4. \A i \in its : m.cache[i] = none \/ ~m.cache[i].enabled
  BY <1>b, <1>2, <1>3
<1>5. m.hw = Withdrawn(n, its)
  BY <1>3 DEF hw
<1>6. \A i \in Slots \ its : m.cache[i] = n.cache[i]
  BY <1>2, <1>3
<1>7. Fewer(n, m)
  BY <1>a, <1>b, <1>2, <1>3 DEF Fewer
<1> QED BY <1>a, <1>3, <1>4, <1>5, <1>6, <1>7, WithdrawnKeeps DEF m

LEMMA DeleteEntryKeeps ==
  ASSUME setting \in Settings, NEW n \in NatType, NEW r
  PROVE  Leaves(n, DeleteEntry(n, r)) /\ Fewer(n, DeleteEntry(n, r))
<1> DEFINE its == SlotsOf(n, LAMBDA e : e.rule = r)
<1>1. its \in SUBSET Slots /\ \A i \in its : n.cache[i] # none
  BY DEF SlotsOf
<1>2. DeleteEntry(n, r) = IF its = {} THEN n ELSE Drop(n, {First(its)})
  BY DEF DeleteEntry
<1> HIDE DEF its
<1>3. CASE its = {}
  BY <1>2, <1>3 DEF Leaves, SameTable, Fewer
<1>4. CASE its # {}
  <2>1. First(its) \in its
    BY <1>1, <1>4, Sizes, FirstIsIn
  <2>2. Leaves(n, Drop(n, {First(its)})) /\ Fewer(n, Drop(n, {First(its)}))
    BY <1>1, <2>1, DropKeeps
  <2> QED BY <1>2, <1>4, <2>2
<1> QED BY <1>3, <1>4

LEMMA DropPeerKeeps ==
  ASSUME setting \in Settings, NEW n \in NatType, NEW ip
  PROVE  Leaves(n, DropPeer(n, ip)) /\ Fewer(n, DropPeer(n, ip))
<1> DEFINE its == SlotsOf(n, LAMBDA e : TargetIp[e.rule.conn] = ip)
<1>1. its \in SUBSET Slots /\ \A i \in its : n.cache[i] # none
  BY DEF SlotsOf
<1>2. DropPeer(n, ip) = Drop(n, its)
  BY DEF DropPeer
<1> HIDE DEF its
<1> QED BY <1>1, <1>2, DropKeeps

LEMMA ResumeKeeps ==
  ASSUME setting \in Settings, NEW n \in NatType, NEW ip
  PROVE  Keeps(n, Resume(n, ip)) /\ Fewer(n, Resume(n, ip))
<1> DEFINE its == SlotsOf(n, LAMBDA e : e.rule.priv = ip /\ ~e.enabled)
<1>1. its \in SUBSET Slots /\ \A i \in its : n.cache[i] # none /\ ~n.cache[i].enabled
  BY DEF SlotsOf
<1>2. Resume(n, ip) = EnableEach(n, its)
  BY DEF Resume
<1> HIDE DEF its
<1> QED BY <1>1, <1>2, EnableEachKeeps DEF Keeps, Leaves

\* A table that is created has the rules of the entries it is given.
LEMMA AddTableSound ==
  ASSUME setting \in Settings, NEW n \in NatType, NEW pub \in PublicIps
  PROVE  LET m == AddTable(n, pub)
         IN  /\ m \in NatType /\ Fewer(n, m) /\ m.table /\ m.pub = pub
             /\ Agree(n) /\ ~n.table => Agree(m)
<1> DEFINE created == [n EXCEPT !.table = TRUE]
           its == SlotsOf(created, LAMBDA e : TRUE)
           put == IF pub = n.pre THEN EnableEach(created, its) ELSE created
           m == AddTable(n, pub)
<1>1. m = [put EXCEPT !.pub = pub]
  BY DEF AddTable
<1>2. its \in SUBSET Slots /\ \A i \in its : created.cache[i] # none
  BY DEF SlotsOf
<1>3. created \in NatType /\ created.table /\ created.hw = n.hw /\ created.cache = n.cache
  BY DEF NatType
<1> HIDE DEF created, its
<1>6. /\ put \in NatType /\ put.table /\ Fewer(created, put)
      /\ Agree(created) /\ (\A i \in its : ~created.cache[i].enabled) => Agree(put)
  <2>1. /\ SameTable(created, EnableEach(created, its)) /\ Fewer(created, EnableEach(created, its))
        /\ Agree(created) /\ (\A i \in its : ~created.cache[i].enabled) => Agree(EnableEach(created, its))
    BY <1>2, <1>3, EnableEachKeeps
  <2>2. Fewer(created, created)
    BY DEF Fewer
  <2> QED BY <1>3, <2>1, <2>2 DEF SameTable
<1> HIDE DEF put, m
<1>7. m \in NatType /\ m.table /\ m.pub = pub /\ m.cache = put.cache /\ m.hw = put.hw
  BY <1>1, <1>6 DEF NatType
<1>8. ASSUME Agree(n), ~n.table PROVE Agree(m)
  <2>1. \A i \in Slots : ~On(n, i) /\ ~Bare(i)
    BY <1>8 DEF Agree
  <2>2. \A i \in Slots : ~On(created, i)
    BY <1>3, <2>1 DEF On
  <2>3. Agree(created)
    BY <1>3, <1>8, <2>1, <2>2 DEF Agree
  <2>4. \A i \in its : ~created.cache[i].enabled
    BY <1>2, <2>1, <2>2 DEF On
  <2>5. Agree(put)
    BY <1>6, <2>3, <2>4
  <2>6. \A i : On(m, i) <=> On(put, i)
    BY <1>7 DEF On
  <2> QED BY <1>6, <1>7, <2>5, <2>6 DEF Agree
<1>9. Fewer(n, m)
  BY <1>3, <1>6, <1>7 DEF Fewer
<1> QED BY <1>7, <1>8, <1>9 DEF m

LEMMA DeleteTableSound ==
  ASSUME setting \in Settings, NEW n \in NatType, NEW pub \in PublicIps
  PROVE  LET m == DeleteTable(n, pub)
         IN  /\ m \in NatType /\ Fewer(n, m) /\ (n.pub = pub => ~m.table)
             /\ (n.table /\ n.pub = pub =>
                   /\ \A i \in Slots : m.cache[i] = none \/ ~m.cache[i].enabled
                   /\ \A h \in Handles : m.hw[h] = none)
<1> DEFINE m == DeleteTable(n, pub)
<1>1. CASE n.table /\ n.pub = pub
  <2> DEFINE off(i) == IF n.cache[i] = none THEN none ELSE [n.cache[i] EXCEPT !.enabled = FALSE]
             hw == [h \in Handles |-> none]
             cache == [i \in Slots |-> off(i)]
  <2>1. m = [n EXCEPT !.table = FALSE, !.pub = none, !.pre = pub, !.hw = hw, !.cache = cache]
    BY <1>1 DEF DeleteTable
  <2>2. \A i \in Slots : /\ off(i) \in Entry \cup {none}
                         /\ off(i) # none => /\ ~off(i).enabled /\ n.cache[i] # none
                                             /\ off(i).rule = n.cache[i].rule
    BY Entries, OffEntry
  <2> HIDE DEF off
  <2>3. /\ hw \in [Handles -> Rule \cup {none}] /\ \A h \in Handles : hw[h] = none
        /\ cache \in [Slots -> Entry \cup {none}] /\ \A i \in Slots : cache[i] = off(i)
    BY <2>2
  <2> HIDE DEF m, hw, cache
  <2>4. m \in NatType /\ ~m.table /\ m.hw = hw /\ m.cache = cache
    BY <2>1, <2>3 DEF NatType
  <2>5. \A i \in Slots : m.cache[i] = none \/ ~m.cache[i].enabled
    BY <2>2, <2>3, <2>4
  <2>7. Fewer(n, m)
    BY <2>2, <2>3, <2>4 DEF Fewer
  <2> QED BY <2>3, <2>4, <2>5, <2>7 DEF m
<1>2. CASE ~(n.table /\ n.pub = pub)
  BY <1>2 DEF DeleteTable, Fewer
<1> QED BY <1>1, <1>2

\* A new entry takes a free slot, without a rule.
LEMMA CachedKeeps ==
  ASSUME setting \in Settings, NEW n \in NatType, Free(n.cache) # {},
         NEW r \in Rule, NEW pub \in PublicIps \cup {none}
  PROVE  LET m == Cached(n, r, pub)
             i == First(Free(n.cache))
         IN  /\ Keeps(n, m) /\ i \in Slots /\ m.cache[i] # none /\ ~m.cache[i].enabled
             /\ m.cache[i].rule = r /\ \A j \in Slots \ {i} : m.cache[j] = n.cache[j]
<1> DEFINE m == Cached(n, r, pub)
           i == First(Free(n.cache))
           e == [rule |-> r, enabled |-> FALSE, hdl |-> 0, pub |-> pub]
           cache == [n.cache EXCEPT ![i] = e]
<1>0. n \in NatType
  OBVIOUS
<1>1. i \in Slots /\ n.cache[i] = none
  <2>1. Free(n.cache) \subseteq Slots
    BY <1>0 DEF Free, NatType
  <2>2. i \in Free(n.cache)
    BY <2>1, Sizes, FirstIsIn
  <2> QED BY <2>1, <2>2 DEF Free
<1>2. m = [n EXCEPT !.cache = cache]
  BY <1>0 DEF Cached, NatType
<1>3. e \in Entry /\ ~e.enabled /\ e.rule = r
  BY DEF Entry
<1> HIDE DEF i, e
<1>4. /\ cache \in [Slots -> Entry \cup {none}] /\ cache[i] = e
      /\ \A j \in Slots \ {i} : cache[j] = n.cache[j]
  BY <1>0, <1>1, <1>3 DEF NatType
<1> HIDE DEF m, cache
<1>5. /\ m \in NatType /\ m.hw = n.hw /\ m.cache = cache /\ m.table = n.table /\ m.pub = n.pub
  BY <1>0, <1>2, <1>4 DEF NatType
<1>6. m.cache[i] # none /\ ~m.cache[i].enabled /\ m.cache[i].rule = r
  BY <1>0, <1>3, <1>4, <1>5, Entries
<1>7. \A j \in Slots : /\ On(m, j) <=> On(n, j)
                       /\ On(n, j) => m.cache[j] = n.cache[j]
  BY <1>1, <1>4, <1>5, <1>6 DEF On
<1>8. ASSUME Agree(n) PROVE Agree(m)
  <2>1. \A j \in Slots : Bare(j) => j # i
    BY <1>1, <1>8 DEF Agree
  <2> QED BY <1>0, <1>4, <1>5, <1>7, <1>8, <2>1 DEF Agree
<1> QED BY <1>1, <1>4, <1>5, <1>6, <1>8 DEF Keeps, Leaves, SameTable, m, i

LEMMA CacheEntryKeeps ==
  ASSUME setting \in Settings, NEW n \in NatType, NEW r, r \in Rule \/ r.priv = none,
         NEW pub \in PublicIps \cup {none}
  PROVE  Keeps(n, CacheEntry(n, r, pub))
<1>1. CASE r.priv = none \/ ChkForDup(n, r) \/ Free(n.cache) = {}
  BY <1>1 DEF CacheEntry, Keeps, Leaves, SameTable
<1>2. CASE ~(r.priv = none \/ ChkForDup(n, r) \/ Free(n.cache) = {})
  BY <1>2, CachedKeeps DEF CacheEntry
<1> QED BY <1>1, <1>2

LEMMA AddEntryKeeps ==
  ASSUME setting \in Settings, NEW n \in NatType, NEW r \in Rule
  PROVE  Keeps(n, AddEntry(n, r))
<1>1. CASE ~AddEntryOk(n, r)
  BY <1>1 DEF AddEntry, Keeps, Leaves, SameTable
<1>2. CASE AddEntryOk(n, r)
  <2> DEFINE c == Cached(n, r, none)
             i == First(Free(n.cache))
  <2>1. Keeps(n, c) /\ i \in Slots /\ c.cache[i] # none /\ ~c.cache[i].enabled
    BY <1>2, CachedKeeps DEF AddEntryOk
  <2>2. AddEntry(n, r) = IF r.priv \in PwrSaveIfs THEN c ELSE EnableOrDrop(c, i)
    BY <1>2 DEF AddEntry
  <2> HIDE DEF c, i
  <2>3. SameTable(c, EnableOrDrop(c, i)) /\ (Agree(c) => Agree(EnableOrDrop(c, i)))
    BY <2>1, EnableOrDropKeeps DEF Keeps, Leaves, SameTable
  <2> QED BY <2>1, <2>2, <2>3 DEF Keeps, Leaves, SameTable
<1> QED BY <1>1, <1>2

-----------------------------------------------------------------------------
(* What the entries are for *)

\* The rule of a settled connection, as long as its host is known.
Meant(c) == IF PrivateIp[c] \in Hosts THEN Plain(c) ELSE Dummy(c, wan.addr)

\* The rule is that of a connection in T, if it is that of a settled one.
Fine(r, T) == r.conn \in Settled => r.conn \in T /\ r = Meant(r.conn)

\* The entries are for different connections, those in T.
Clean(n, T) ==
  /\ \A i \in Slots : n.cache[i] # none => Fine(n.cache[i].rule, T)
  /\ \A i, j \in Slots : /\ n.cache[i] # none /\ n.cache[j] # none
                         /\ n.cache[i].rule = n.cache[j].rule
                         => i = j

\* The rule waits for a connection in T, if it is that of a settled one: a host's.
Waits(r, T) == r.conn \in Settled => r.conn \in Natted \cap T /\ r = Plain(r.conn)
TempsClean(temps, T) == \A i \in Temps : temps[i] # none => Waits(temps[i].rule, T)

LEMMA FewerClean ==
  ASSUME NEW T, NEW n, NEW m, Clean(n, T), Fewer(n, m)
  PROVE  Clean(m, T)
<1>1. ASSUME NEW i \in Slots, m.cache[i] # none PROVE Fine(m.cache[i].rule, T)
  BY <1>1 DEF Clean, Fewer
<1>2. ASSUME NEW i \in Slots, NEW j \in Slots, m.cache[i] # none, m.cache[j] # none,
             m.cache[i].rule = m.cache[j].rule
      PROVE  i = j
  BY <1>2 DEF Clean, Fewer
<1> QED BY <1>1, <1>2 DEF Clean

LEMMA CachedClean ==
  ASSUME setting \in Settings, NEW T, NEW n \in NatType, Clean(n, T), Free(n.cache) # {},
         NEW r \in Rule, Fine(r, T), ~ChkForDup(n, r), NEW pub \in PublicIps \cup {none}
  PROVE  Clean(Cached(n, r, pub), T)
<1> DEFINE m == Cached(n, r, pub)
           i == First(Free(n.cache))
<1>1. /\ i \in Slots /\ m.cache[i] # none
      /\ m.cache[i].rule = r /\ \A j \in Slots \ {i} : m.cache[j] = n.cache[j]
  BY CachedKeeps
<1> HIDE DEF m, i
<1>2. ASSUME NEW j \in Slots, m.cache[j] # none PROVE Fine(m.cache[j].rule, T)
  BY <1>1, <1>2 DEF Clean
<1>3. \A j \in Slots \ {i} : m.cache[j] # none => m.cache[j].rule # r
  BY <1>1 DEF ChkForDup
<1>4. ASSUME NEW j \in Slots, NEW k \in Slots, m.cache[j] # none, m.cache[k] # none,
             m.cache[j].rule = m.cache[k].rule
      PROVE  j = k
  <2>1. CASE j = i \/ k = i
    BY <1>1, <1>3, <1>4, <2>1
  <2>2. CASE j # i /\ k # i
    BY <1>1, <1>4, <2>2 DEF Clean
  <2> QED BY <2>1, <2>2
<1> QED BY <1>2, <1>4 DEF Clean, m

LEMMA CacheEntryClean ==
  ASSUME setting \in Settings, NEW T, NEW n \in NatType, Clean(n, T),
         NEW r, r \in Rule \/ r.priv = none, Fine(r, T), NEW pub \in PublicIps \cup {none}
  PROVE  Clean(CacheEntry(n, r, pub), T)
BY CachedClean DEF CacheEntry

LEMMA AddEntryClean ==
  ASSUME setting \in Settings, NEW T, NEW n \in NatType, Clean(n, T), NEW r \in Rule, Fine(r, T)
  PROVE  Clean(AddEntry(n, r), T)
<1>1. CASE ~AddEntryOk(n, r)
  BY <1>1 DEF AddEntry
<1>2. CASE AddEntryOk(n, r)
  <2> DEFINE c == Cached(n, r, none)
             i == First(Free(n.cache))
  <2>1. Keeps(n, c) /\ i \in Slots /\ c.cache[i] # none /\ ~c.cache[i].enabled
    BY <1>2, CachedKeeps DEF AddEntryOk
  <2>2. AddEntry(n, r) = IF r.priv \in PwrSaveIfs THEN c ELSE EnableOrDrop(c, i)
    BY <1>2 DEF AddEntry
  <2>3. Clean(c, T)
    BY <1>2, CachedClean DEF AddEntryOk
  <2> HIDE DEF c, i
  <2>4. Fewer(c, EnableOrDrop(c, i))
    BY <2>1, EnableOrDropKeeps DEF Keeps, Leaves, SameTable
  <2>5. Clean(EnableOrDrop(c, i), T)
    BY <2>3, <2>4, FewerClean
  <2> QED BY <2>2, <2>3, <2>5
<1> QED BY <1>1, <1>2

\* A rule that waits is fine when it is added.
LEMMA WaitingIsFine ==
  ASSUME NEW T, NEW r, Waits(r, T)
  PROVE  Fine(r, T)
BY DEF Waits, Fine, Meant, Natted

\* Where an entry becomes a dummy it waited for a host that is not on a NAT interface.
LEMMA DummyWaits ==
  ASSUME NEW T, NEW t \in Waiting, Waits(t.rule, T), NEW ip \in OtherHosts, Concerns(t, ip)
  PROVE  Waits([t EXCEPT !.rule.priv = t.pub].rule, T)
<1>1. t.rule \in Rule /\ t.rule.conn \in Conns /\ [t EXCEPT !.rule.priv = t.pub].rule.conn = t.rule.conn
  BY DEF Waiting, Rule
<1>2. TargetIp[t.rule.conn] # ip
  BY <1>1, HostsAssumption
<1>3. t.rule.priv = ip
  BY <1>2 DEF Concerns
<1>4. t.rule.conn \notin Settled
  <2> SUFFICES ASSUME t.rule.conn \in Settled PROVE FALSE
    OBVIOUS
  <2>1. PrivateIp[t.rule.conn] \in Hosts /\ t.rule = [conn |-> t.rule.conn, priv |-> PrivateIp[t.rule.conn]]
    BY DEF Waits, Natted, Plain
  <2> QED BY <1>3, <2>1, HostsAssumption
<1> QED BY <1>1, <1>4 DEF Waits

-----------------------------------------------------------------------------
(* Temporary entries *)

TempType == [Temps -> Waiting \cup {none}]

\* A temporary entry that has become a dummy.
LEMMA DummyWaiting ==
  ASSUME NEW t \in Waiting
  PROVE  [t EXCEPT !.rule.priv = t.pub] \in Waiting
<1> DEFINE r == [t.rule EXCEPT !.priv = t.pub]
<1>1. t.rule \in Rule /\ t.pub \in PublicIps
  BY DEF Waiting
<1>2. r \in Rule
  BY <1>1 DEF Rule
<1>3. [t EXCEPT !.rule.priv = t.pub] = [t EXCEPT !.rule = r]
  BY DEF Waiting
<1> HIDE DEF r
<1> QED BY <1>2, <1>3 DEF Waiting

\* Flushing adds rules one by one, and leaves entries that are waiting.  It turns into
\* dummies only those of hosts that are not on a NAT interface.
LEMMA FlushedKeeps ==
  ASSUME setting \in Settings, NEW n \in NatType, temp \in TempType, NEW ip, NEW isDummy, NEW T
  PROVE  LET s == Flushed(n, ip, isDummy)
         IN  /\ Keeps(n, s.nat) /\ s.temp \in TempType
             /\ (isDummy => ip \in OtherHosts) /\ Clean(n, T) /\ TempsClean(temp, T)
                  => Clean(s.nat, T) /\ TempsClean(s.temp, T)
<1> DEFINE N == setting.temps
           Turned(t) == IF isDummy THEN [t EXCEPT !.rule.priv = t.pub] ELSE t
           Kept(s, u) == IF AddEntryOk(s.nat, u.rule) THEN none ELSE u
           Put(s, i, u) == [nat  |-> AddEntry(s.nat, u.rule),
                            temp |-> [s.temp EXCEPT ![i] = Kept(s, u)]]
           After(s, i) ==
             IF ~Concerns(s.temp[i], ip) THEN s
             ELSE IF s.temp[i].pub # s.nat.pub THEN [s EXCEPT !.temp[i] = none]
             ELSE Put(s, i, Turned(s.temp[i]))
           start == [nat |-> n, temp |-> temp]
           Is(g, k) == g = [i \in 0 .. k |-> IF i = 0 THEN start ELSE After(g[i - 1], i)]
           State == [nat : NatType, temp : TempType]
           From == (isDummy => ip \in OtherHosts) /\ Clean(n, T) /\ TempsClean(temp, T)
           Good(s) == /\ s \in State /\ Keeps(n, s.nat)
                      /\ From => Clean(s.nat, T) /\ TempsClean(s.temp, T)
           P == {k \in 0 .. N : \E g : Is(g, k)}
<1>0. N \in Nat /\ Temps = 1 .. N
  BY Sizes DEF Temps
<1>a. ASSUME NEW s, Good(s), NEW i \in Temps PROVE Good(After(s, i))
  <2> DEFINE t == s.temp[i]
             m == After(s, i)
  <2>0. /\ s \in State /\ s.nat \in NatType /\ Keeps(n, s.nat) /\ s.temp \in TempType
        /\ From => Clean(s.nat, T) /\ TempsClean(s.temp, T)
    BY <1>a
  <2>1. CASE ~Concerns(t, ip)
    BY <1>a, <2>1
  <2>2. CASE Concerns(t, ip) /\ t.pub # s.nat.pub
    <3> DEFINE temps == [s.temp EXCEPT ![i] = none]
    <3>1. m = [s EXCEPT !.temp = temps]
      BY <2>0, <2>2
    <3>2. temps \in TempType
      BY <2>0 DEF TempType
    <3> HIDE DEF temps, m
    <3>3. m \in State /\ m.nat = s.nat /\ m.temp = temps
      BY <2>0, <3>1, <3>2
    <3>4. TempsClean(s.temp, T) => TempsClean(m.temp, T)
      BY <2>0, <3>3 DEF TempsClean, TempType, temps
    <3> HIDE DEF From
    <3> QED BY <2>0, <3>3, <3>4 DEF m
  <2>3. CASE Concerns(t, ip) /\ t.pub = s.nat.pub
    <3> DEFINE u == Turned(t)
               a == AddEntry(s.nat, u.rule)
               k == Kept(s, u)
               temps == [s.temp EXCEPT ![i] = k]
    <3>1. t \in Waiting
      BY <2>0, <2>3 DEF TempType, Concerns
    <3>2. u \in Waiting
      BY <3>1, DummyWaiting
    <3>3. m = [nat |-> a, temp |-> temps]
      BY <2>3
    <3> HIDE DEF u
    <3>4. u.rule \in Rule
      BY <3>2 DEF Waiting
    <3>5. Keeps(s.nat, a)
      BY <2>0, <3>4, AddEntryKeeps
    <3>6. k \in Waiting \cup {none}
      BY <3>2
    <3> HIDE DEF k
    <3>7. temps \in TempType
      BY <2>0, <3>6 DEF TempType
    <3> HIDE DEF temps, m, a
    <3>8. m.nat = a /\ m \in State
      BY <3>3, <3>5, <3>7 DEF Keeps, Leaves, SameTable
    <3>9. Keeps(n, m.nat)
      BY <2>0, <3>5, <3>8 DEF Keeps, Leaves, SameTable
    <3>10. ASSUME From PROVE Clean(m.nat, T) /\ TempsClean(m.temp, T)
      <4>1. Clean(s.nat, T) /\ TempsClean(s.temp, T)
        BY <2>0, <3>10
      <4>2. Waits(t.rule, T)
        BY <3>1, <4>1, NoneAssumption DEF TempsClean
      <4>3. Waits(u.rule, T)
        <5>1. CASE isDummy
          <6>1. Waits([t EXCEPT !.rule.priv = t.pub].rule, T)
            BY <2>3, <3>1, <3>10, <4>2, <5>1, DummyWaits
          <6> QED BY <5>1, <6>1 DEF u
        <5>2. CASE ~isDummy
          BY <4>2, <5>2 DEF u
        <5> QED BY <5>1, <5>2
      <4>4. Clean(a, T)
        BY <2>0, <3>4, <4>1, <4>3, WaitingIsFine, AddEntryClean DEF a
      <4>5. TempsClean(temps, T)
        BY <2>0, <4>1, <4>3 DEF TempsClean, TempType, temps, k
      <4>6. m.temp = temps
        BY <3>3
      <4> QED BY <3>8, <4>4, <4>5, <4>6
    <3> QED BY <3>8, <3>9, <3>10 DEF m
  <2> QED BY <2>1, <2>2, <2>3
<1> HIDE DEF After
<1>1. P = 0 .. N
  <2>1. 0 \in P
    <3> DEFINE g == [i \in 0 .. 0 |-> start]
    <3>1. g = [i \in 0 .. 0 |-> IF i = 0 THEN start ELSE After(g[i - 1], i)]
      BY \A i \in 0 .. 0 : i = 0
    <3> HIDE DEF g
    <3>2. Is(g, 0)
      BY <3>1
    <3> HIDE DEF Is
    <3>3. \E f : Is(f, 0)
      BY <3>2
    <3> QED BY <1>0, <3>3
  <2>2. ASSUME NEW k \in 0 .. N, k # N, k \in P PROVE k + 1 \in P
    <3>1. PICK g : Is(g, k)
      BY <2>2
    <3> DEFINE f == [i \in 0 .. k + 1 |-> IF i <= k THEN g[i] ELSE After(g[k], i)]
    <3> HIDE DEF start
    <3>2. ASSUME NEW i \in 0 .. k + 1 PROVE f[i] = IF i = 0 THEN start ELSE After(f[i - 1], i)
      <4>1. CASE i = 0
        BY <1>0, <3>1, <4>1
      <4>2. CASE i # 0 /\ i <= k
        <5>1. i \in 0 .. k /\ i - 1 \in 0 .. k + 1 /\ i - 1 <= k
          BY <1>0, <4>2
        <5>2. f[i] = g[i] /\ f[i - 1] = g[i - 1]
          BY <5>1, <4>2
        <5>3. g[i] = After(g[i - 1], i)
          BY <3>1, <4>2, <5>1
        <5> QED BY <4>2, <5>2, <5>3
      <4>3. CASE i = k + 1
        <5>1. i - 1 = k /\ k \in 0 .. k + 1 /\ ~(i <= k) /\ k <= k /\ i # 0
          BY <1>0, <4>3
        <5>2. f[i] = After(g[k], i) /\ f[i - 1] = g[k]
          BY <5>1
        <5> QED BY <5>1, <5>2
      <4> QED BY <1>0, <4>1, <4>2, <4>3
    <3>3. f = [i \in 0 .. k + 1 |-> f[i]]
      OBVIOUS
    <3> HIDE DEF f
    <3>4. Is(f, k + 1)
      BY <3>2, <3>3
    <3> QED BY <1>0, <2>2, <3>4
  <2> HIDE DEF P
  <2>3. P \subseteq 0 .. N
    BY DEF P
  <2> QED BY <1>0, <2>1, <2>2, <2>3, UpTo
<1> DEFINE after[i \in 0 .. N] == IF i = 0 THEN start ELSE After(after[i - 1], i)
<1>2. Is(after, N)
  <2>1. \E g : Is(g, N)
    BY <1>0, <1>1
  <2> QED BY <2>1
<1>3. Flushed(n, ip, isDummy) = after[N]
  BY DEF Flushed, After
<1> HIDE DEF after, P
<1> DEFINE Q == {k \in 0 .. N : Good(after[k])}
<1>4. Q = 0 .. N
  <2>1. 0 \in Q
    <3>1. after[0] = start
      BY <1>0, <1>2
    <3>2. start \in State /\ start.nat = n
      OBVIOUS
    <3> QED BY <1>0, <3>1, <3>2 DEF Keeps, Leaves, SameTable
  <2>2. ASSUME NEW k \in 0 .. N, k # N, k \in Q PROVE k + 1 \in Q
    <3>1. k + 1 \in 0 .. N /\ k + 1 # 0 /\ (k + 1) - 1 = k /\ k + 1 \in Temps
      BY <1>0, <2>2
    <3>2. after[k + 1] = After(after[k], k + 1)
      <4> HIDE DEF start
      <4> QED BY <1>2, <3>1
    <3> HIDE DEF Good
    <3>3. Good(after[k])
      BY <2>2
    <3>4. Good(after[k + 1])
      BY <1>a, <3>1, <3>2, <3>3
    <3> QED BY <3>1, <3>4
  <2> HIDE DEF Q
  <2>3. Q \subseteq 0 .. N
    BY DEF Q
  <2> QED BY <1>0, <2>1, <2>2, <2>3, UpTo
<1> QED BY <1>0, <1>3, <1>4

-----------------------------------------------------------------------------
(* What a step leaves *)

\* A handler runs: the refreshing thread stays where it is.
Handled ==
  setting' = setting /\ timer' = timer /\ crossed' = (Touches \/ (crossed /\ ~Anew))

\* What a state of NatApp is, it is in the next state.
LEMMA AgreeNext ==
  ASSUME setting' = setting, timer' = timer
  PROVE  /\ (nat \in NatType)' <=> nat' \in NatType
         /\ Agree(nat)' <=> Agree(nat')
         /\ \A i : On(nat, i)' <=> On(nat', i)
<1>1. (nat \in NatType)' <=> nat' \in NatType
  BY DEF NatType, Entry, Slots, Handles
<1>2. \A i : On(nat, i)' <=> On(nat', i)
  BY DEF On, Bare
<1>3. Agree(nat)' <=> Agree(nat')
  BY DEF Agree, On, Bare, Slots, Handles
<1> QED BY <1>1, <1>2, <1>3

\* If the two threads have not crossed after a handler, either they had not before, or the
\* table is made anew; and the entry that is being deleted is as it was.
LEMMA NotCrossed ==
  ASSUME Handled, ~crossed'
  PROVE  /\ ~crossed \/ Anew
         /\ timer.at \in {"deleting", "clearing"} => nat'.cache[timer.slot] = nat.cache[timer.slot]
<1>1. ~Touches /\ (~crossed \/ Anew)
  BY Zenon DEF Handled
<1> QED BY <1>1 DEF Touches, Found

\* A handler that leaves the WAN interface and the table.
LEMMA SoundNext ==
  ASSUME TableInv, Handled, Leaves(nat, nat')
  PROVE  Sound'
<1>1. setting' = setting /\ timer' = timer
  BY DEF Handled
<1>2. (nat \in NatType)'
  BY <1>1, AgreeNext DEF Leaves, SameTable
<1>3. ASSUME ~crossed' PROVE Agree(nat)' /\ Grip'
  <2>1. timer.at \in {"deleting", "clearing"} => nat'.cache[timer.slot] = nat.cache[timer.slot]
    BY <1>3, NotCrossed
  <2>2. ~Anew
    BY DEF Anew, Leaves, SameTable
  <2>3. ~crossed
    BY <1>3, <2>2, NotCrossed
  <2>4. Agree(nat) /\ Grip
    BY <2>3 DEF TableInv, Sound
  <2>5. \A i \in Slots : Bare(i) => nat'.cache[i] = nat.cache[i]
    BY <2>1 DEF Bare
  <2>6. Agree(nat')
    BY <2>4, <2>5 DEF Leaves
  <2>7. timer.at \in {"deleting", "clearing"} => (On(nat', timer.slot) <=> On(nat, timer.slot))
    BY <2>1 DEF On
  <2>8. Grip'
    BY <1>1, <2>1, <2>4, <2>7, AgreeNext DEF Grip
  <2> QED BY <1>1, <2>6, <2>8, AgreeNext
<1> QED BY <1>2, <1>3 DEF Sound

LEMMA NatNext ==
  ASSUME TableInv, Handled, wan' = wan, Leaves(nat, nat')
  PROVE  (setting \in Settings /\ Sound /\ WanInv)'
<1>1. Sound'
  BY SoundNext
<1> QED BY <1>1 DEF TableInv, WanInv, Leaves, SameTable, Handled

\* What the events of the neighbours, of power save and of the refreshing thread leave.
LEMMA OthersNext ==
  ASSUME TableInv, setting' = setting, wan' = wan,
         temp' \in TempType, PwrSaveIfs' \subseteq setting.sleepers,
         threads' \in [{"tcp", "udp", "timeouts"} -> {"none", "created", "running"}],
         bound' \in [Own -> PublicIps \cup {none}],
         natIfs' \in [Hosts -> {"unknown", "listed", "routed"}],
         nonNatIfs' \in [OtherHosts -> 0 .. MaxIfaces],
         tracked' \subseteq Conns, closing' \subseteq tracked',
         timer' \in Timer, timer' # Idle => timer'.slot \in Slots, crossed' \in BOOLEAN
  PROVE  Others'
BY DEF TableInv, Others, TempType, Temps, Slots, Handles, Timer, Idle

\* Temporary entries that come and go.
LEMMA TempsKept ==
  ASSUME setting \in Settings, temp \in TempType
  PROVE  /\ \A t \in Waiting : AddTempEntry(t) \in TempType
         /\ \A r : DeleteTempEntry(r) \in TempType
         /\ \A ip : Forgotten(ip) \in TempType
<1>1. ASSUME NEW t \in Waiting PROVE AddTempEntry(t) \in TempType
  BY DEF AddTempEntry, TempType
<1>2. ASSUME NEW r PROVE DeleteTempEntry(r) \in TempType
  BY DEF DeleteTempEntry, TempType
<1>3. ASSUME NEW ip PROVE Forgotten(ip) \in TempType
  BY DEF Forgotten, TempType
<1> QED BY <1>1, <1>2, <1>3

\* The rule of a connection is one once the WAN interface has an address; until then it is
\* one without a private address, or one.
LEMMA RuleOfIsRule ==
  ASSUME NEW c \in Conns, wan.addr \in PublicIps \cup {none}
  PROVE  RuleOf(c) \in Rule \/ (RuleOf(c).priv = none /\ wan.addr = none)
<1>1. PrivateIp[c] \in Hosts \cup OtherHosts \cup {self} /\ self \notin Hosts \cup OtherHosts
  BY HostsAssumption
<1>2. HostUnknown(c) => PrivateIp[c] \in Hosts \cup OtherHosts
  BY <1>1 DEF HostUnknown, Own
<1>3. CASE PrivateIp[c] \in Hosts \/ HostUnknown(c)
  <2>1. RuleOf(c) = [conn |-> c, priv |-> PrivateIp[c]]
    BY <1>3 DEF RuleOf, Plain
  <2> QED BY <1>2, <1>3, <2>1 DEF Rule
<1>4. CASE ~(PrivateIp[c] \in Hosts \/ HostUnknown(c))
  <2>1. RuleOf(c) = [conn |-> c, priv |-> wan.addr]
    BY <1>4 DEF RuleOf, Dummy
  <2> QED BY <2>1 DEF Rule
<1> QED BY <1>3, <1>4

-----------------------------------------------------------------------------
(* The peers of the station *)

\* The peers in a slot of the array.
Held(clients) == {i \in 1 .. MaxPeers : clients[i] # none}

LEMMA HeldSize ==
  ASSUME NEW clients
  PROVE  /\ IsFiniteSet(Held(clients)) /\ Cardinality(Held(clients)) \in 0 .. MaxPeers
         /\ Cardinality(Held(clients)) # MaxPeers => Held(clients) # 1 .. MaxPeers
<1>1. IsFiniteSet(1 .. MaxPeers) /\ Cardinality(1 .. MaxPeers) = MaxPeers
  BY FS_Interval, SizesAssumption
<1>2. Held(clients) \subseteq 1 .. MaxPeers
  BY DEF Held
<1>3. /\ IsFiniteSet(Held(clients)) /\ Cardinality(Held(clients)) <= Cardinality(1 .. MaxPeers)
  BY <1>1, <1>2, FS_Subset
<1>4. Cardinality(Held(clients)) \in Nat
  BY <1>3, FS_CardinalityType
<1> QED BY <1>1, <1>3, <1>4, SizesAssumption

\* The array after a peer has got an address.
LEMMA PeerAdded ==
  ASSUME StaInv, sta.count < MaxPeers, NEW p \in Peers,
         NEW slot, slot = First({i \in 1 .. MaxPeers : sta.clients[i] \in {none, p}})
  PROVE  /\ slot \in 1 .. MaxPeers
         /\ sta.clients[slot] # p =>
              /\ [sta.clients EXCEPT ![slot] = p] \in [1 .. MaxPeers -> Peers \cup {none}]
              /\ sta.count + 1 = Cardinality(Held([sta.clients EXCEPT ![slot] = p]))
<1> DEFINE free == {i \in 1 .. MaxPeers : sta.clients[i] \in {none, p}}
           clients == [sta.clients EXCEPT ![slot] = p]
<1>0. p # none /\ sta.count = Cardinality(Held(sta.clients))
  BY HostsAssumption DEF StaInv, Held
<1>1. free # {}
  <2>1. sta.count # MaxPeers
    BY <1>0, HeldSize, SizesAssumption
  <2>2. Held(sta.clients) # 1 .. MaxPeers
    BY <1>0, <2>1, HeldSize
  <2> QED BY <2>2 DEF Held
<1>2. slot \in free
  <2>1. free \in SUBSET Nat
    BY SizesAssumption
  <2> QED BY <1>1, <2>1, FirstIsIn
<1>3. ASSUME sta.clients[slot] # p
      PROVE  clients \in [1 .. MaxPeers -> Peers \cup {none}] /\ sta.count + 1 = Cardinality(Held(clients))
  <2>1. sta.clients[slot] = none /\ slot \in 1 .. MaxPeers
    BY <1>2, <1>3
  <2>2. /\ clients \in [1 .. MaxPeers -> Peers \cup {none}] /\ clients[slot] = p
        /\ \A i \in 1 .. MaxPeers : i # slot => clients[i] = sta.clients[i]
    BY <2>1 DEF StaInv
  <2> HIDE DEF clients
  <2>3. Held(clients) = Held(sta.clients) \cup {slot} /\ slot \notin Held(sta.clients)
    BY <1>0, <2>1, <2>2 DEF Held
  <2>4. Cardinality(Held(clients)) = Cardinality(Held(sta.clients)) + 1
    BY <2>3, HeldSize, FS_AddElement
  <2> QED BY <1>0, <2>2, <2>4
<1> QED BY <1>2, <1>3

\* The array after a peer has gone.
LEMMA PeerRemoved ==
  ASSUME StaInv, NEW p \in Peers,
         NEW slot \in 1 .. MaxPeers, sta.clients[slot] = p
  PROVE  /\ [sta.clients EXCEPT ![slot] = none] \in [1 .. MaxPeers -> Peers \cup {none}]
         /\ sta.count - 1 = Cardinality(Held([sta.clients EXCEPT ![slot] = none]))
<1> DEFINE clients == [sta.clients EXCEPT ![slot] = none]
<1>0. p # none /\ sta.count = Cardinality(Held(sta.clients))
  BY HostsAssumption DEF StaInv, Held
<1>1. /\ clients \in [1 .. MaxPeers -> Peers \cup {none}] /\ clients[slot] = none
      /\ \A i \in 1 .. MaxPeers : i # slot => clients[i] = sta.clients[i]
  BY DEF StaInv
<1> HIDE DEF clients
<1>2. Held(clients) = Held(sta.clients) \ {slot} /\ slot \in Held(sta.clients)
  BY <1>0, <1>1 DEF Held
<1>3. Cardinality(Held(clients)) = Cardinality(Held(sta.clients)) - 1
  BY <1>2, HeldSize, FS_RemoveElement
<1> QED BY <1>0, <1>1, <1>3 DEF clients

\* Another listing of an address fits as long as there is room in the array.
LEMMA ListingFits ==
  ASSUME nonNatIfs \in [OtherHosts -> 0 .. MaxIfaces], NEW o \in OtherHosts,
         Cardinality(Listings) < MaxIfaces
  PROVE  nonNatIfs[o] + 1 \in 0 .. MaxIfaces
<1> SUFFICES ASSUME nonNatIfs[o] = MaxIfaces PROVE FALSE
  BY SizesAssumption
<1> DEFINE all == OtherHosts \X (1 .. MaxIfaces)
           own == {o} \X (1 .. MaxIfaces)
<1>1. IsFiniteSet(1 .. MaxIfaces) /\ Cardinality(1 .. MaxIfaces) = MaxIfaces
  BY FS_Interval, SizesAssumption
<1>2. IsFiniteSet(all)
  BY <1>1, FS_Product, SizesAssumption
<1>3. IsFiniteSet({o}) /\ Cardinality({o}) = 1
  BY FS_Singleton
<1>4. Cardinality(own) = 1 * MaxIfaces
  BY <1>1, <1>3, FS_Product
<1>5. Listings \subseteq all /\ own \subseteq Listings
  BY SizesAssumption DEF Listings
<1> HIDE DEF own, all
<1>6. IsFiniteSet(Listings)
  BY <1>2, <1>5, FS_Subset
<1>7. Cardinality(own) <= Cardinality(Listings) /\ Cardinality(Listings) \in Nat
  BY <1>5, <1>6, FS_Subset, FS_CardinalityType
<1> QED BY <1>4, <1>7, SizesAssumption

-----------------------------------------------------------------------------
(* The steps *)

\* The types of what a handler leaves.
LEMMA Types ==
  ASSUME TableInv
  PROVE  /\ setting \in Settings /\ nat \in NatType /\ Keeps(nat, nat)
         /\ temp \in TempType /\ PwrSaveIfs \subseteq setting.sleepers
         /\ wan.addr \in PublicIps \cup {none}
         /\ threads \in [{"tcp", "udp", "timeouts"} -> {"none", "created", "running"}]
         /\ bound \in [Own -> PublicIps \cup {none}]
         /\ natIfs \in [Hosts -> {"unknown", "listed", "routed"}]
         /\ nonNatIfs \in [OtherHosts -> 0 .. MaxIfaces]
         /\ tracked \subseteq Conns /\ closing \subseteq tracked
         /\ timer \in Timer /\ (timer # Idle => timer.slot \in Slots) /\ crossed \in BOOLEAN
BY DEF TableInv, Sound, Others, TempType, Keeps, Leaves, SameTable

LEMMA HandledTypes ==
  ASSUME TableInv, Handled
  PROVE  /\ setting' = setting /\ crossed' \in BOOLEAN
         /\ timer' \in Timer /\ (timer' # Idle => timer'.slot \in Slots)
<1>1. crossed' \in BOOLEAN
  BY Zenon DEF Handled
<1> QED BY <1>1, Types DEF Handled

\* A handler that leaves the WAN interface and the peers.
LEMMA StepKeeps ==
  ASSUME TableInv, Handled, wan' = wan, sta' = sta, Leaves(nat, nat'),
         temp' \in TempType, PwrSaveIfs' \subseteq setting.sleepers,
         threads' \in [{"tcp", "udp", "timeouts"} -> {"none", "created", "running"}],
         bound' \in [Own -> PublicIps \cup {none}],
         natIfs' \in [Hosts -> {"unknown", "listed", "routed"}],
         nonNatIfs' \in [OtherHosts -> 0 .. MaxIfaces],
         tracked' \subseteq Conns, closing' \subseteq tracked'
  PROVE  TableInv'
<1>1. Others'
  BY HandledTypes, OthersNext
<1>2. StaInv'
  BY DEF TableInv, StaInv
<1> QED BY <1>1, <1>2, NatNext DEF TableInv

LEMMA ListenersStep ==
  ASSUME TableInv, Handled, HANDLE_LAN_UP \/ \E t \in {"tcp", "udp"} : RegisterWithConnTrack(t)
  PROVE  TableInv'
<1>1. CASE HANDLE_LAN_UP
  <2>1. threads' \in [{"tcp", "udp", "timeouts"} -> {"none", "created", "running"}]
    BY <1>1, Types DEF HANDLE_LAN_UP, WithListeners
  <2> QED BY <1>1, <2>1, Types, StepKeeps DEF HANDLE_LAN_UP, told, Keeps
<1>2. ASSUME NEW t \in {"tcp", "udp"}, RegisterWithConnTrack(t) PROVE TableInv'
  <2>1. threads' \in [{"tcp", "udp", "timeouts"} -> {"none", "created", "running"}]
    BY <1>2, Types DEF RegisterWithConnTrack
  <2> QED BY <1>2, <2>1, Types, StepKeeps DEF RegisterWithConnTrack, told, Keeps
<1> QED BY <1>1, <1>2

LEMMA WanUpStep ==
  ASSUME TableInv, Handled, NEW addr \in PublicIps, NEW isSta \in setting.modes,
         TriggerWANUp(addr, isSta)
  PROVE  TableInv'
<1>0. /\ wan' = [up |-> TRUE, addr |-> addr, sta |-> isSta] /\ nat' = AddTable(nat, addr) /\ ~wan.up
      /\ isSta \in BOOLEAN
  BY Types, Sizes DEF TriggerWANUp
<1>1. nat' \in NatType /\ nat'.table /\ nat'.pub = addr /\ ~nat.table
  BY <1>0, Types, AddTableSound DEF TableInv, WanInv
<1>2. Sound'
  <2>1. setting' = setting /\ timer' = timer
    BY DEF Handled
  <2>2. ASSUME ~crossed' PROVE Agree(nat)' /\ Grip'
    <3>1. timer.at \in {"deleting", "clearing"} => nat'.cache[timer.slot] = nat.cache[timer.slot]
      BY <2>2, NotCrossed
    <3>2. ~Anew
      BY <1>1 DEF Anew
    <3>3. ~crossed
      BY <2>2, <3>2, NotCrossed
    <3>4. Agree(nat) /\ Grip
      BY <3>3 DEF TableInv, Sound
    <3>5. Agree(nat')
      BY <1>0, <1>1, <3>4, Types, AddTableSound
    <3>6. \A i \in Slots : ~On(nat, i)
      BY <1>1, <3>4 DEF Agree
    <3>7. timer.at # "deleting"
      <4>1. timer.at = "deleting" => timer.slot \in Slots
        BY Types DEF Idle
      <4> QED BY <3>4, <3>6, <4>1 DEF Grip
    <3>8. timer.at = "clearing" => (On(nat', timer.slot) <=> On(nat, timer.slot))
      BY <3>1 DEF On
    <3>9. Grip'
      BY <2>1, <3>4, <3>7, <3>8, AgreeNext DEF Grip
    <3> QED BY <2>1, <3>5, <3>9, AgreeNext
  <2> QED BY <1>1, <2>1, <2>2, AgreeNext DEF Sound
<1>3. WanInv'
  BY <1>0, <1>1 DEF WanInv
<1>4. threads' \in [{"tcp", "udp", "timeouts"} -> {"none", "created", "running"}]
  BY Types DEF TriggerWANUp, WithListeners, WithNatThread
<1>5. wan' \in [up : BOOLEAN, addr : PublicIps \cup {none}, sta : BOOLEAN]
  BY <1>0
<1>6. Others'
  BY <1>4, <1>5, Types, HandledTypes
  DEF TriggerWANUp, Others, TempType, Temps, Slots, Handles, Timer, Idle, told
<1>7. StaInv'
  BY DEF TableInv, StaInv, TriggerWANUp
<1> QED BY <1>2, <1>3, <1>6, <1>7, HandledTypes DEF TableInv

LEMMA WanDownStep ==
  ASSUME TableInv, Handled, TriggerWANDown
  PROVE  TableInv'
<1>0. /\ wan' = [wan EXCEPT !.up = FALSE] /\ nat' = DeleteTable(nat, wan.addr) /\ wan.up
      /\ wan \in [up : BOOLEAN, addr : PublicIps \cup {none}, sta : BOOLEAN]
      /\ nat.pub = wan.addr /\ wan.addr \in PublicIps
  BY DEF TriggerWANDown, TableInv, WanInv, Others
<1>1. /\ nat' \in NatType /\ ~nat'.table
      /\ \A i \in Slots : nat'.cache[i] = none \/ ~nat'.cache[i].enabled
      /\ \A h \in Handles : nat'.hw[h] = none
  <2>1. nat.table
    BY <1>0 DEF TableInv, WanInv
  <2> QED BY <1>0, <2>1, Types, DeleteTableSound
<1>2. wan' \in [up : BOOLEAN, addr : PublicIps \cup {none}, sta : BOOLEAN] /\ ~wan'.up
  BY <1>0
<1>3. Sound'
  <2>1. setting' = setting /\ timer' = timer
    BY DEF Handled
  <2>2. ASSUME ~crossed' PROVE Agree(nat)' /\ Grip'
    <3>1. timer.at \in {"deleting", "clearing"} => nat'.cache[timer.slot] = nat.cache[timer.slot]
      BY <2>2, NotCrossed
    <3>2. timer.at \in {"deleting", "clearing"} => ~crossed /\ timer.slot \in Slots
      BY <2>2, NotCrossed, Types DEF Anew, Found, Idle
    <3>3. timer.at \in {"deleting", "clearing"} => Agree(nat) /\ Grip
      BY <3>2 DEF TableInv, Sound
    <3>4. \A i \in Slots : ~On(nat', i)
      BY <1>1 DEF On
    <3>5. timer.at \in {"deleting", "clearing"} =>
            nat.cache[timer.slot] = none \/ ~nat.cache[timer.slot].enabled
      BY <1>1, <3>1, <3>2
    <3>6. \A i \in Slots : ~Bare(i)
      BY <3>3, <3>5 DEF Agree, Bare
    <3>7. timer.at # "deleting"
      BY <3>3, <3>5 DEF Grip, On
    <3>8. Agree(nat')
      BY <1>1, <3>4, <3>6 DEF Agree
    <3>9. Grip'
      BY <2>1, <3>2, <3>4, <3>7, AgreeNext DEF Grip
    <3> QED BY <2>1, <3>8, <3>9, AgreeNext
  <2> QED BY <1>1, <2>1, <2>2, AgreeNext DEF Sound
<1>6. WanInv'
  BY <1>1, <1>2 DEF WanInv
<1>4. Others'
  BY <1>2, Types, HandledTypes
  DEF TriggerWANDown, Others, TempType, Temps, Slots, Handles, Timer, Idle, told
<1>5. StaInv'
  BY DEF TableInv, StaInv, TriggerWANDown
<1> QED BY <1>3, <1>4, <1>5, <1>6, HandledTypes DEF TableInv

LEMMA ConnectionStep ==
  ASSUME TableInv, Handled, NEW c \in setting.conns,
         ct_established(c) \/ kernel_drops(c) \/ ct_destroyed(c)
  PROVE  TableInv'
<1>0. c \in Conns
  BY Types, Sizes
<1>1. CASE ct_established(c)
  <2>1. RuleOf(c) \in Rule \/ (RuleOf(c).priv = none /\ wan.addr = none)
    BY <1>0, Types, RuleOfIsRule
  <2>2. wan.up => wan.addr \in PublicIps /\ RuleOf(c) \in Rule
    BY <2>1, HostsAssumption DEF TableInv, WanInv
  <2>3. bound' \in [Own -> PublicIps \cup {none}]
    BY <1>1, Types DEF ct_established
  <2>4. Leaves(nat, nat') /\ temp' \in TempType
    <3>1. CASE ~wan.up
      BY <1>1, <2>1, <3>1, Types, CacheEntryKeeps DEF ct_established, Keeps
    <3>2. CASE wan.up /\ IsTemp(c)
      <4>1. [rule |-> RuleOf(c), pub |-> wan.addr] \in Waiting
        BY <2>2, <3>2 DEF Waiting
      <4> QED BY <1>1, <3>2, <4>1, Types, TempsKept DEF ct_established, Keeps
    <3>3. CASE wan.up /\ ~IsTemp(c)
      BY <1>1, <2>2, <3>3, Types, AddEntryKeeps DEF ct_established, Keeps
    <3> QED BY <3>1, <3>2, <3>3
  <2> QED BY <1>0, <1>1, <2>3, <2>4, Types, StepKeeps DEF ct_established, links
<1>2. CASE kernel_drops(c)
  BY <1>2, Types, StepKeeps DEF kernel_drops, links, Keeps
<1>3. CASE ct_destroyed(c)
  <2>1. bound' \in [Own -> PublicIps \cup {none}]
    BY <1>3, Types DEF ct_destroyed
  <2>2. Leaves(nat, nat') /\ temp' \in TempType
    BY <1>3, Types, DeleteEntryKeeps, TempsKept DEF ct_destroyed, Keeps
  <2> QED BY <1>3, <2>1, <2>2, Types, StepKeeps DEF ct_destroyed, links
<1> QED BY <1>1, <1>2, <1>3

LEMMA NeighbourStep ==
  ASSUME TableInv, Handled, NEW h \in Hosts,
         neighbour_listed(h) \/ HandleNeighIpAddrAddEvt(h) \/ HandleNeighIpAddrDelEvt(h)
  PROVE  TableInv'
<1>1. CASE neighbour_listed(h)
  <2>1. natIfs' \in [Hosts -> {"unknown", "listed", "routed"}]
    BY <1>1, Types DEF neighbour_listed
  <2> QED BY <1>1, <2>1, Types, StepKeeps DEF neighbour_listed, links, told, Keeps
<1>2. CASE HandleNeighIpAddrAddEvt(h)
  <2>1. natIfs' \in [Hosts -> {"unknown", "listed", "routed"}] /\ PwrSaveIfs' \subseteq setting.sleepers
    BY <1>2, Types DEF HandleNeighIpAddrAddEvt
  <2>2. Keeps(nat, Resume(nat, h))
    BY Types, ResumeKeeps
  <2> DEFINE s == Flushed(Resume(nat, h), h, FALSE)
  <2>3. Keeps(Resume(nat, h), s.nat) /\ s.temp \in TempType
    BY <2>2, Types, FlushedKeeps DEF Keeps, Leaves, SameTable
  <2>4. nat' = s.nat /\ temp' = s.temp
    BY <1>2 DEF HandleNeighIpAddrAddEvt
  <2> HIDE DEF s
  <2>5. Leaves(nat, nat') /\ temp' \in TempType
    BY <2>2, <2>3, <2>4 DEF Keeps, Leaves, SameTable
  <2> QED BY <1>2, <2>1, <2>5, Types, StepKeeps DEF HandleNeighIpAddrAddEvt, links, told
<1>3. CASE HandleNeighIpAddrDelEvt(h)
  <2>1. natIfs' \in [Hosts -> {"unknown", "listed", "routed"}] /\ PwrSaveIfs' \subseteq setting.sleepers
    BY <1>3, Types DEF HandleNeighIpAddrDelEvt
  <2>2. Leaves(nat, nat') /\ temp' \in TempType
    BY <1>3, Types, SuspendKeeps, TempsKept DEF HandleNeighIpAddrDelEvt
  <2> QED BY <1>3, <2>1, <2>2, Types, StepKeeps DEF HandleNeighIpAddrDelEvt, links, told
<1> QED BY <1>1, <1>2, <1>3

LEMMA PowerSaveStep ==
  ASSUME TableInv, Handled, NEW h \in setting.sleepers,
         UpdatePwrSaveIf(h) \/ ResetPwrSaveIf(h)
  PROVE  TableInv'
<1>1. CASE UpdatePwrSaveIf(h)
  <2>1. Leaves(nat, nat') /\ PwrSaveIfs' \subseteq setting.sleepers
    BY <1>1, Types, SuspendKeeps DEF UpdatePwrSaveIf
  <2> QED BY <1>1, <2>1, Types, StepKeeps DEF UpdatePwrSaveIf, links, told
<1>2. CASE ResetPwrSaveIf(h)
  <2>1. Leaves(nat, nat') /\ PwrSaveIfs' \subseteq setting.sleepers
    BY <1>2, Types, ResumeKeeps DEF ResetPwrSaveIf, Keeps
  <2> QED BY <1>2, <2>1, Types, StepKeeps DEF ResetPwrSaveIf, links, told
<1> QED BY <1>1, <1>2

LEMMA NonNatStep ==
  ASSUME TableInv, Handled, NEW o \in OtherHosts, NonNatAdd(o) \/ NonNatDel(o)
  PROVE  TableInv'
<1>1. CASE NonNatAdd(o)
  <2>1. nonNatIfs' \in [OtherHosts -> 0 .. MaxIfaces]
    <3>1. nonNatIfs[o] + 1 \in 0 .. MaxIfaces
      BY <1>1, Types, ListingFits DEF NonNatAdd
    <3> QED BY <1>1, <3>1, Types DEF NonNatAdd
  <2> DEFINE s == Flushed(nat, o, TRUE)
  <2>2. Keeps(nat, s.nat) /\ s.temp \in TempType
    BY Types, FlushedKeeps
  <2>3. nat' = s.nat /\ temp' = s.temp
    BY <1>1 DEF NonNatAdd
  <2> HIDE DEF s
  <2> QED BY <1>1, <2>1, <2>2, <2>3, Types, StepKeeps DEF NonNatAdd, links, told, Keeps
<1>2. CASE NonNatDel(o)
  <2>1. nonNatIfs' \in [OtherHosts -> 0 .. MaxIfaces]
    BY <1>2, Types, SizesAssumption DEF NonNatDel
  <2>2. Leaves(nat, nat') /\ temp' \in TempType
    BY <1>2, Types, SuspendKeeps, TempsKept DEF NonNatDel
  <2> QED BY <1>2, <2>1, <2>2, Types, StepKeeps DEF NonNatDel, links, told
<1> QED BY <1>1, <1>2

LEMMA PeerStep ==
  ASSUME TableInv, Handled, NEW p \in Peers,
         HandleSTAClientAddEvt(p) \/ HandleSTAClientDelEvt(p)
  PROVE  TableInv'
<1>0. StaInv
  BY DEF TableInv
<1>1. CASE HandleSTAClientAddEvt(p)
  <2>1. StaInv'
    <3> DEFINE slot == First({i \in 1 .. MaxPeers : sta.clients[i] \in {none, p}})
    <3>1. /\ sta.count < MaxPeers
          /\ sta' = IF sta.clients[slot] = p THEN sta
                    ELSE [clients |-> [sta.clients EXCEPT ![slot] = p], count |-> sta.count + 1]
      BY <1>1 DEF HandleSTAClientAddEvt
    <3>2. sta.clients[slot] # p =>
            /\ [sta.clients EXCEPT ![slot] = p] \in [1 .. MaxPeers -> Peers \cup {none}]
            /\ sta.count + 1 = Cardinality(Held([sta.clients EXCEPT ![slot] = p]))
      BY <1>0, <3>1, PeerAdded
    <3> HIDE DEF slot
    <3>3. CASE sta.clients[slot] = p
      BY <1>0, <3>1, <3>3 DEF StaInv
    <3>4. CASE sta.clients[slot] # p
      <4> DEFINE clients == [sta.clients EXCEPT ![slot] = p]
      <4>1. sta' = [clients |-> clients, count |-> sta.count + 1]
        BY <3>1, <3>4
      <4>2. clients \in [1 .. MaxPeers -> Peers \cup {none}] /\ sta.count + 1 = Cardinality(Held(clients))
        BY <3>2, <3>4
      <4> HIDE DEF clients
      <4> QED BY <4>1, <4>2 DEF StaInv, Held
    <3> QED BY <3>3, <3>4
  <2> DEFINE s == Flushed(nat, p, FALSE)
  <2>2. Keeps(nat, s.nat) /\ s.temp \in TempType
    BY Types, FlushedKeeps
  <2>3. nat' = s.nat /\ temp' = s.temp
    BY <1>1 DEF HandleSTAClientAddEvt
  <2> HIDE DEF s
  <2>4. Leaves(nat, nat') /\ temp' \in TempType /\ wan' = wan
    BY <1>1, <2>2, <2>3 DEF HandleSTAClientAddEvt, Keeps
  <2>5. Others'
    BY <1>1, <2>4, Types, HandledTypes, OthersNext DEF HandleSTAClientAddEvt, told
  <2> QED BY <2>1, <2>4, <2>5, NatNext DEF TableInv
<1>2. CASE HandleSTAClientDelEvt(p)
  <2> DEFINE slots == {i \in 1 .. MaxPeers : sta.clients[i] = p}
             slot == First(slots)
  <2>0. /\ sta' = IF slots = {} THEN sta
                  ELSE [clients |-> [sta.clients EXCEPT ![slot] = none], count |-> sta.count - 1]
        /\ nat' = IF slots = {} THEN nat ELSE DropPeer(nat, p)
        /\ temp' = Forgotten(p) /\ wan' = wan
    BY <1>2 DEF HandleSTAClientDelEvt
  <2>1. StaInv'
    <3>1. CASE slots = {}
      BY <1>0, <2>0, <3>1 DEF StaInv
    <3>2. CASE slots # {}
      <4> DEFINE clients == [sta.clients EXCEPT ![slot] = none]
      <4>1. slots \in SUBSET Nat
        BY SizesAssumption
      <4>2. slot \in slots
        BY <3>2, <4>1, FirstIsIn
      <4>3. sta' = [clients |-> clients, count |-> sta.count - 1]
        BY <2>0, <3>2
      <4>4. slot \in 1 .. MaxPeers /\ sta.clients[slot] = p
        BY <4>2
      <4> HIDE DEF slot
      <4>5. clients \in [1 .. MaxPeers -> Peers \cup {none}] /\ sta.count - 1 = Cardinality(Held(clients))
        BY <1>0, <4>4, PeerRemoved
      <4> HIDE DEF clients
      <4> QED BY <4>3, <4>5 DEF StaInv, Held
    <3> QED BY <3>1, <3>2
  <2>2. Leaves(nat, nat') /\ temp' \in TempType
    BY <2>0, Types, DropPeerKeeps, TempsKept DEF Keeps
  <2>3. Others'
    BY <1>2, <2>0, <2>2, Types, HandledTypes, OthersNext DEF HandleSTAClientDelEvt, told
  <2> QED BY <2>0, <2>1, <2>2, <2>3, NatNext DEF TableInv
<1> QED BY <1>1, <1>2

\* What the steps of the refreshing thread leave alone.
LEMMA TimerKeeps ==
  ASSUME TableInv, setting' = setting, crossed' = crossed, wan' = wan, sta' = sta,
         UNCHANGED <<temp, PwrSaveIfs, threads, natIfs, nonNatIfs, told>>,
         nat'.table = nat.table, nat'.pub = nat.pub, Sound',
         timer' \in Timer, timer' # Idle => timer'.slot \in Slots
  PROVE  TableInv'
<1>1. Others'
  BY Types, OthersNext DEF told
<1>2. StaInv'
  BY DEF TableInv, StaInv
<1>3. WanInv'
  BY DEF TableInv, WanInv
<1> QED BY <1>1, <1>2, <1>3 DEF TableInv

\* Nothing is withdrawn yet.
LEMMA RefusedStep ==
  ASSUME TableInv, setting' = setting, crossed' = crossed, NEW i \in Slots, timer_refused(i)
  PROVE  TableInv'
<1>1. nat' = nat /\ timer = Idle /\ timer' = [at |-> "refused", slot |-> i, hdl |-> 0]
  BY DEF timer_refused
<1>2. timer' \in Timer /\ timer'.slot \in Slots
  BY <1>1 DEF Timer
<1>3. ~crossed => Agree(nat)' /\ Grip'
  <2>1. \A j : ~Bare(j) /\ ~Bare(j)'
    BY <1>1 DEF Bare, Idle
  <2>2. Grip'
    BY <1>1 DEF Grip
  <2>3. Agree(nat) => Agree(nat)'
    BY <1>1, <2>1 DEF Agree, On, Slots, Handles
  <2> QED BY <2>2, <2>3 DEF TableInv, Sound
<1>4. (nat \in NatType)'
  BY <1>1, Types DEF NatType, Entry, Slots, Handles
<1>5. Sound'
  BY <1>3, <1>4 DEF Sound
<1> QED BY <1>1, <1>2, <1>5, TimerKeeps DEF timer_refused, links

\* The entry that is found is looked at.
LEMMA FindsStep ==
  ASSUME TableInv, setting' = setting, crossed' = crossed, timer_finds
  PROVE  TableInv'
<1> DEFINE S == {j \in Slots : SameRule(j, timer.slot)}
           i == First(S)
<1>1. /\ nat' = nat /\ timer.at = "refused"
      /\ timer' = IF nat.cache[i] # none /\ nat.cache[i].enabled
                  THEN [at |-> "deleting", slot |-> i, hdl |-> nat.cache[i].hdl]
                  ELSE [at |-> "clearing", slot |-> i, hdl |-> 0]
  BY DEF timer_finds
<1>2. i \in Slots
  <2>1. timer.slot \in Slots
    BY <1>1, Types DEF Idle
  <2>2. SameRule(timer.slot, timer.slot)
    BY DEF SameRule
  <2>3. S # {} /\ S \in SUBSET Nat
    BY <2>1, <2>2, Types, Sizes
  <2>4. i \in S
    BY <2>3, FirstIsIn
  <2> QED BY <2>4
<1> HIDE DEF i
<1>3. timer' \in Timer /\ timer'.slot \in Slots
  <2>1. nat.cache[i] # none => nat.cache[i].hdl \in Handles \cup {0}
    BY <1>2, Types, Entries DEF Entry
  <2> QED BY <1>1, <1>2, <2>1 DEF Timer
<1>4. ~crossed => Agree(nat)' /\ Grip'
  <2>1. \A j : ~Bare(j) /\ ~Bare(j)'
    BY <1>1 DEF Bare
  <2>2. Grip'
    BY <1>1, <2>1 DEF Grip, On
  <2>3. Agree(nat) => Agree(nat)'
    BY <1>1, <2>1 DEF Agree, On, Slots, Handles
  <2> QED BY <2>2, <2>3 DEF TableInv, Sound
<1>5. (nat \in NatType)'
  BY <1>1, Types DEF NatType, Entry, Slots, Handles
<1>6. Sound'
  BY <1>4, <1>5 DEF Sound
<1> QED BY <1>1, <1>3, <1>6, TimerKeeps DEF timer_finds, links

\* The rule that goes is the one of the entry that was found, if the threads have not crossed.
LEMMA WithdrawsStep ==
  ASSUME TableInv, setting' = setting, crossed' = crossed, timer_withdraws
  PROVE  TableInv'
<1>1. PICK h \in {timer.hdl, HandleNow(timer.slot)} :
        /\ nat' = [nat EXCEPT !.hw = [g \in Handles |-> IF g = h THEN none ELSE @[g]]]
        /\ timer' = [timer EXCEPT !.at = "clearing", !.hdl = h]
  BY DEF timer_withdraws
<1>2. timer.at = "deleting" /\ timer \in Timer /\ timer.slot \in Slots /\ nat \in NatType
  BY Types DEF timer_withdraws, Idle
<1>3. h \in Handles \cup {0}
  <2>1. timer.hdl \in Handles \cup {0}
    BY <1>2 DEF Timer
  <2>2. HandleNow(timer.slot) \in Handles \cup {0}
    BY <1>2, Types, Entries DEF HandleNow, Entry
  <2> QED BY <2>1, <2>2
<1>4. timer'.at = "clearing" /\ timer'.hdl = h /\ timer'.slot = timer.slot /\ timer' \in Timer
  BY <1>1, <1>2, <1>3 DEF Timer
<1>5. /\ nat' \in NatType /\ nat'.cache = nat.cache /\ nat'.table = nat.table /\ nat'.pub = nat.pub
      /\ \A g \in Handles : nat'.hw[g] = IF g = h THEN none ELSE nat.hw[g]
  BY <1>1, <1>2 DEF NatType
<1>6. ASSUME ~crossed PROVE Agree(nat)' /\ Grip'
  <2>1. Agree(nat) /\ On(nat, timer.slot) /\ nat.cache[timer.slot].hdl = timer.hdl
    BY <1>2, <1>6 DEF TableInv, Sound, Grip
  <2>2. h = timer.hdl /\ h \in Handles /\ h # 0 /\ nat.table
    BY <1>1, <1>2, <2>1, Types, Sizes DEF HandleNow, On, Agree
  <2>3. \A j \in Slots : ~Bare(j) /\ (Bare(j)' <=> j = timer.slot)
    BY <1>2, <1>4, <2>2 DEF Bare
  <2>4. \A j \in Slots : On(nat, j)' <=> On(nat, j) /\ j # timer.slot
    BY <1>5, <2>3 DEF On
  <2>5. \A g \in Handles : nat'.hw[g] # none =>
          \E j \in Slots : On(nat, j)' /\ nat'.cache[j].hdl = g
    BY <1>5, <2>1, <2>2, <2>4 DEF Agree
  <2>6. \A j \in Slots : On(nat, j)' =>
          /\ nat'.table /\ nat'.cache[j].hdl \in Handles /\ nat'.hw[nat'.cache[j].hdl] = nat'.cache[j].rule
          /\ \A k \in Slots : On(nat, k)' /\ nat'.cache[k].hdl = nat'.cache[j].hdl => j = k
    <3> SUFFICES ASSUME NEW j \in Slots, On(nat, j)'
                 PROVE  /\ nat'.table /\ nat'.cache[j].hdl \in Handles
                        /\ nat'.hw[nat'.cache[j].hdl] = nat'.cache[j].rule
                        /\ \A k \in Slots : On(nat, k)' /\ nat'.cache[k].hdl = nat'.cache[j].hdl => j = k
      OBVIOUS
    <3>1. On(nat, j) /\ j # timer.slot
      BY <2>4
    <3>2. /\ nat.table /\ nat.cache[j].hdl \in Handles /\ nat.hw[nat.cache[j].hdl] = nat.cache[j].rule
          /\ \A k \in Slots : On(nat, k) /\ nat.cache[k].hdl = nat.cache[j].hdl => j = k
      BY <2>1, <3>1 DEF Agree
    <3>3. nat.cache[j].hdl # h
      BY <1>2, <2>1, <2>2, <3>1, <3>2
    <3> QED BY <1>5, <2>4, <3>2, <3>3
  <2>7. \A j \in Slots : Bare(j)' => nat'.cache[j] # none /\ nat'.cache[j].enabled /\ nat'.table
    BY <1>5, <2>1, <2>2, <2>3 DEF On
  <2>8. Slots' = Slots /\ Handles' = Handles
    BY DEF Slots, Handles
  <2>9. Agree(nat)'
    BY <2>5, <2>6, <2>7, <2>8 DEF Agree
  <2>10. Grip'
    BY <1>4, <2>2 DEF Grip
  <2> QED BY <2>9, <2>10
<1>7. (nat \in NatType)'
  BY <1>5 DEF NatType, Entry, Slots, Handles
<1>8. Sound'
  BY <1>6, <1>7 DEF Sound
<1> QED BY <1>2, <1>4, <1>5, <1>8, TimerKeeps DEF timer_withdraws, links

\* The entry that goes has no rule, if the threads have not crossed.
LEMMA ClearsStep ==
  ASSUME TableInv, setting' = setting, crossed' = crossed, timer_clears
  PROVE  TableInv'
<1>1. nat' = [nat EXCEPT !.cache[timer.slot] = none] /\ timer' = Idle /\ timer.at = "clearing"
  BY DEF timer_clears
<1>2. timer.slot \in Slots /\ nat \in NatType
  BY <1>1, Types DEF Idle
<1>3. /\ nat' \in NatType /\ nat'.hw = nat.hw /\ nat'.table = nat.table /\ nat'.pub = nat.pub
      /\ nat'.cache[timer.slot] = none
      /\ \A j \in Slots \ {timer.slot} : nat'.cache[j] = nat.cache[j]
  BY <1>1, <1>2 DEF NatType
<1>4. timer' \in Timer
  BY <1>1 DEF Idle, Timer
<1>5. ASSUME ~crossed PROVE Agree(nat)' /\ Grip'
  <2>1. Agree(nat) /\ Grip
    BY <1>5 DEF TableInv, Sound
  <2>2. ~On(nat, timer.slot) /\ \A j \in Slots \ {timer.slot} : ~Bare(j)
    BY <1>1, <2>1 DEF Grip, On, Bare
  <2>3. \A j : ~Bare(j)'
    BY <1>1 DEF Bare, Idle
  <2>4. \A j \in Slots : /\ On(nat, j)' <=> On(nat, j)
                         /\ On(nat, j) => nat'.cache[j] = nat.cache[j]
    BY <1>2, <1>3, <2>2, <2>3 DEF On
  <2>5. Slots' = Slots /\ Handles' = Handles
    BY DEF Slots, Handles
  <2>6. Agree(nat)'
    BY <1>3, <2>1, <2>3, <2>4, <2>5 DEF Agree
  <2>7. Grip'
    BY <1>1 DEF Grip, Idle
  <2> QED BY <2>6, <2>7
<1>6. (nat \in NatType)'
  BY <1>3 DEF NatType, Entry, Slots, Handles
<1>7. Sound'
  BY <1>5, <1>6 DEF Sound
<1> QED BY <1>1, <1>3, <1>4, <1>7, TimerKeeps DEF timer_clears, links

-----------------------------------------------------------------------------
(* The theorems *)

LEMMA InitHolds == Init => TableInv
<1> SUFFICES ASSUME Init PROVE TableInv
  OBVIOUS
<1>0. /\ setting \in Settings /\ setting.wanFalls \in BOOLEAN /\ setting.modes \subseteq BOOLEAN
  BY Sizes DEF Init
<1>1. PICK pre \in PublicIps, addr \in PublicIps, isSta \in setting.modes :
        /\ wan = [up |-> ~setting.wanFalls, addr |-> IF setting.wanFalls THEN none ELSE addr,
                  sta |-> isSta]
        /\ nat = [cache |-> [i \in Slots |-> none], hw |-> [h \in Handles |-> none],
                  table |-> ~setting.wanFalls, pub |-> wan.addr, pre |-> pre]
  BY DEF Init
<1>2. wan \in [up : BOOLEAN, addr : PublicIps \cup {none}, sta : BOOLEAN]
  BY <1>0, <1>1
<1>3. Sound
  <2>1. nat \in NatType
    BY <1>1, <1>2 DEF NatType
  <2>2. timer = Idle
    BY DEF Init
  <2>3. /\ \A i \in Slots : ~On(nat, i) /\ ~Bare(i)
        /\ \A h \in Handles : nat.hw[h] = none
    BY <1>1, <2>2 DEF On, Bare, Idle
  <2>4. Grip
    BY <2>2 DEF Grip, Idle
  <2> QED BY <2>1, <2>3, <2>4 DEF Sound, Agree
<1>4. WanInv
  BY <1>0, <1>1 DEF WanInv
<1>5. Others
  <2>1. timer = Idle /\ crossed = FALSE /\ timer \in Timer
    BY DEF Init, Timer, Idle
  <2>2. nonNatIfs \in [OtherHosts -> 0 .. MaxIfaces]
    BY SizesAssumption DEF Init
  <2> QED BY <1>2, <2>1, <2>2 DEF Init, Others
<1>6. StaInv
  <2>1. {i \in 1 .. MaxPeers : sta.clients[i] # none} = {}
    BY DEF Init
  <2> QED BY <2>1, FS_EmptySet DEF Init, StaInv
<1> QED BY <1>0, <1>3, <1>4, <1>5, <1>6 DEF TableInv

LEMMA HandlerKeeps ==
  ASSUME TableInv, Handled, EventThread
  PROVE  TableInv'
<1>1. \A p \in Reached : p \in Peers
  BY DEF Reached
<1> QED BY <1>1, ListenersStep, WanUpStep, WanDownStep, ConnectionStep, NeighbourStep,
           PowerSaveStep, NonNatStep, PeerStep DEF EventThread

LEMMA NextKeeps ==
  ASSUME TableInv, [Next]_vars
  PROVE  TableInv'
<1>1. CASE UNCHANGED vars
  BY <1>1 DEF vars, links, told, TableInv, Sound, NatType, Agree, Grip, On, Bare, WanInv, Others,
              StaInv, Entry, Timer, Idle, Slots, Handles, Temps
<1>2. CASE UNCHANGED setting /\ EventThread /\ crossed' = (Touches \/ (crossed /\ ~Anew))
  <2>1. timer' = timer
    BY <1>2, Zenon DEF EventThread, HANDLE_LAN_UP, RegisterWithConnTrack, TriggerWANUp,
       TriggerWANDown, ct_established, kernel_drops, ct_destroyed, neighbour_listed,
       HandleNeighIpAddrAddEvt, HandleNeighIpAddrDelEvt, UpdatePwrSaveIf, ResetPwrSaveIf,
       NonNatAdd, NonNatDel, HandleSTAClientAddEvt, HandleSTAClientDelEvt
  <2>2. Handled
    BY <1>2, <2>1, Zenon DEF Handled
  <2> QED BY <1>2, <2>2, HandlerKeeps
<1>3. CASE UNCHANGED setting /\ UpdateUDPTimeStamp /\ UNCHANGED crossed
  BY <1>3, RefusedStep, FindsStep, WithdrawsStep, ClearsStep DEF UpdateUDPTimeStamp
<1> QED BY <1>1, <1>2, <1>3, Zenon DEF Next

LEMMA InvAgrees ==
  ASSUME TableInv
  PROVE  TypeOK /\ TableAgrees
<1>1. sta \in [clients : [1 .. MaxPeers -> Peers \cup {none}], count : 0 .. MaxPeers]
  BY HeldSize DEF TableInv, StaInv, Held
<1>2. TypeOK
  BY <1>1 DEF TableInv, Sound, NatType, Others, TypeOK
<1>3. \A i : HasRule(i) <=> On(nat, i)
  BY DEF HasRule, On, Bare
<1>4. ~crossed => Agree(nat) /\ 0 \notin Handles
  BY Sizes DEF TableInv, Sound
<1>5. ~crossed /\ Agree(nat) =>
        \A h \in Handles : nat.hw[h] # none =>
          \E i \in Slots : HasRule(i) /\ nat.cache[i].hdl = h /\ nat.cache[i].rule = nat.hw[h]
  BY <1>3 DEF Agree
<1>6. ~crossed /\ Agree(nat) =>
        \A i \in Slots : HasRule(i) =>
          /\ nat.table /\ nat.cache[i].hdl # 0 /\ nat.hw[nat.cache[i].hdl] = nat.cache[i].rule
          /\ \A j \in Slots \ {i} : HasRule(j) => nat.cache[j].hdl # nat.cache[i].hdl
  BY <1>3, <1>4 DEF Agree
<1> QED BY <1>2, <1>4, <1>5, <1>6 DEF TableAgrees

\* Every variable of the listener and of NatApp has its type: no index of the cache, of the
\* hardware table or of the arrays of hosts and peers leaves it.
THEOREM TypeCorrect == Spec => []TypeOK
<1>1. TableInv => TypeOK
  BY InvAgrees
<1> QED BY <1>1, InitHolds, NextKeeps, PTL DEF Spec

\* The cache of NatApp and the rules in the hardware agree after every handler and between the
\* steps of a deletion by the refreshing thread, however interfaces, neighbours, connections and
\* power save come between those; a handler that changes the very entry being deleted excepted,
\* after which they may disagree until the table is next deleted.
THEOREM TableAlwaysAgrees == Spec => []TableAgrees
<1>1. TableInv => TableAgrees
  BY InvAgrees
<1> QED BY <1>1, InitHolds, NextKeeps, PTL DEF Spec

-----------------------------------------------------------------------------
(* Closed connections *)

\* A connection that is tracked is listened to until it closes, under the rule it has.
HeardInv ==
  \A c \in Settled :
    /\ c \in tracked => threads[Thread(c)] = "running"
    /\ c \in Own => wan.up /\ bound[c] \in {none, wan.addr} /\ (c \in tracked => ~wan.sta)

GoneInv == TableInv /\ Clean(nat, tracked) /\ TempsClean(temp, tracked) /\ HeardInv

\* A step that leaves what is meant: what holds of nat' and temp' holds in the next state.
LEMMA CleanNext ==
  ASSUME setting' = setting, \A c \in Settled : wan' = wan \/ c \in Natted,
         Clean(nat', tracked'), TempsClean(temp', tracked')
  PROVE  Clean(nat, tracked)' /\ TempsClean(temp, tracked)'
<1>0. Settled' = Settled /\ Slots' = Slots /\ Temps' = Temps
  BY DEF Settled, Slots, Temps
<1>1. \A c \in Settled : Meant(c)' = Meant(c)
  BY DEF Meant, Natted, Plain, Dummy
<1>2. ASSUME NEW i \in Slots, nat'.cache[i] # none PROVE Fine(nat.cache[i].rule, tracked)'
  <2>1. Fine(nat'.cache[i].rule, tracked')
    BY <1>2 DEF Clean
  <2> QED BY <1>0, <1>1, <2>1 DEF Fine
<1>3. Clean(nat, tracked)'
  BY <1>0, <1>2 DEF Clean
<1>4. TempsClean(temp, tracked)'
  BY <1>0 DEF TempsClean, Waits, Plain
<1> QED BY <1>3, <1>4

\* More connections are told.
LEMMA MoreTracked ==
  ASSUME NEW T, NEW U, T \subseteq U
  PROVE  /\ \A n : Clean(n, T) => Clean(n, U)
         /\ \A temps : TempsClean(temps, T) => TempsClean(temps, U)
<1>1. \A r : /\ Fine(r, T) => Fine(r, U)
             /\ Waits(r, T) => Waits(r, U)
  BY DEF Fine, Waits
<1>2. ASSUME NEW n, Clean(n, T) PROVE Clean(n, U)
  BY <1>1, <1>2 DEF Clean
<1>3. ASSUME NEW temps, TempsClean(temps, T) PROVE TempsClean(temps, U)
  BY <1>1, <1>3 DEF TempsClean
<1> QED BY <1>2, <1>3

\* A step that adds no entry and hears of no connection.
LEMMA QuietStep ==
  ASSUME GoneInv, TableInv', setting' = setting, Fewer(nat, nat'),
         TempsClean(temp', tracked), tracked' = tracked, bound' = bound,
         \A t \in {"tcp", "udp"} : threads[t] = "running" => threads'[t] = "running",
         wan' = wan \/ ((~wan.up \/ setting.wanFalls))
  PROVE  GoneInv'
<1>1. Clean(nat', tracked')
  BY FewerClean DEF GoneInv
<1>2. \A c \in Settled : wan' = wan \/ c \in Natted
  BY DEF GoneInv, HeardInv, Settled
<1>3. Clean(nat, tracked)' /\ TempsClean(temp, tracked)'
  BY <1>1, <1>2, CleanNext
<1>4. HeardInv'
  <2>1. Settled' = Settled
    BY DEF Settled
  <2>2. ASSUME NEW c \in Settled
        PROVE  /\ c \in tracked => threads'[Thread(c)] = "running"
               /\ c \in Own => wan'.up /\ bound[c] \in {none, wan'.addr} /\ (c \in tracked => ~wan'.sta)
    <3>1. c \notin Own \/ c \notin Natted
      BY HostsAssumption DEF Own, Natted
    <3> QED BY <1>2, <3>1 DEF GoneInv, HeardInv, Thread
  <2> QED BY <2>1, <2>2 DEF HeardInv
<1> QED BY <1>3, <1>4 DEF GoneInv

\* A step that adds entries of those that wait.
LEMMA FlushedStep ==
  ASSUME GoneInv, TableInv', setting' = setting, Clean(nat', tracked), TempsClean(temp', tracked),
         tracked' = tracked, bound' = bound, threads' = threads, wan' = wan
  PROVE  GoneInv'
<1>1. Clean(nat, tracked)' /\ TempsClean(temp, tracked)'
  BY CleanNext
<1>2. HeardInv'
  BY DEF GoneInv, HeardInv, Settled
<1> QED BY <1>1, <1>2 DEF GoneInv

\* Temporary entries that go, and one that comes.
LEMMA TempsStayClean ==
  ASSUME NEW T, setting \in Settings, temp \in TempType, TempsClean(temp, T)
  PROVE  /\ \A t \in Waiting : Waits(t.rule, T) => TempsClean(AddTempEntry(t), T)
         /\ \A r : TempsClean(DeleteTempEntry(r), T)
         /\ \A ip : TempsClean(Forgotten(ip), T)
<1>1. ASSUME NEW t \in Waiting, Waits(t.rule, T) PROVE TempsClean(AddTempEntry(t), T)
  BY <1>1 DEF AddTempEntry, TempsClean, TempType
<1>2. ASSUME NEW r PROVE TempsClean(DeleteTempEntry(r), T)
  BY DEF DeleteTempEntry, TempsClean
<1>3. ASSUME NEW ip PROVE TempsClean(Forgotten(ip), T)
  BY DEF Forgotten, TempsClean
<1> QED BY <1>1, <1>2, <1>3

\* The rule of a settled connection that is heeded is the one that is meant, and it waits
\* only where its host is on a NAT interface.
LEMMA RuleIsMeant ==
  ASSUME GoneInv, NEW c \in Settled, Heeds(c)
  PROVE  /\ RuleOf(c) = Meant(c)
         /\ IsTemp(c) => c \in Natted
<1>1. CASE c \in Natted
  BY <1>1 DEF RuleOf, Meant, Natted
<1>2. CASE c \notin Natted
  <2>1. c \in Own /\ PrivateIp[c] = self /\ self \notin Hosts \cup OtherHosts
    BY <1>2, HostsAssumption DEF Settled, Own
  <2>2. ~HostUnknown(c) /\ ~wan.sta
    BY <2>1 DEF HostUnknown, Heeds
  <2> QED BY <2>1, <2>2 DEF RuleOf, Meant, IsTemp, CheckSTAClient
<1> QED BY <1>1, <1>2

LEMMA RuleConn ==
  ASSUME NEW c
  PROVE  RuleOf(c).conn = c
BY DEF RuleOf, Plain, Dummy

\* DeleteEntry leaves no entry of the rule.
LEMMA DeleteEntryDeletes ==
  ASSUME setting \in Settings, NEW T, NEW n \in NatType, Clean(n, T), NEW r,
         NEW i \in Slots, DeleteEntry(n, r).cache[i] # none
  PROVE  DeleteEntry(n, r).cache[i].rule # r
<1> DEFINE its == SlotsOf(n, LAMBDA e : e.rule = r)
           m == DeleteEntry(n, r)
<1>0. Fewer(n, m) /\ n \in NatType
  BY DeleteEntryKeeps
<1>1. /\ its \in SUBSET Slots /\ \A j \in its : n.cache[j] # none
      /\ \A j \in Slots : j \in its <=> n.cache[j] # none /\ n.cache[j].rule = r
  BY DEF SlotsOf
<1>2. m = IF its = {} THEN n ELSE Drop(n, {First(its)})
  BY DEF DeleteEntry
<1> SUFFICES ASSUME m.cache[i].rule = r PROVE FALSE
  OBVIOUS
<1> HIDE DEF its, m
<1>3. i \in its
  BY <1>0, <1>1 DEF Fewer, m
<1>4. First(its) \in its
  BY <1>1, <1>3, Sizes, FirstIsIn
<1>5. First(its) = i
  BY <1>1, <1>3, <1>4 DEF Clean
<1>6. m = Drop(n, {i})
  BY <1>2, <1>3, <1>5
<1>7. m.cache[i] = none
  BY <1>0, <1>6 DEF Drop, NatType
<1> QED BY <1>7 DEF m

LEMMA EstablishedGone ==
  ASSUME GoneInv, setting' = setting, TableInv', NEW c \in setting.conns, ct_established(c)
  PROVE  GoneInv'
<1> DEFINE r == RuleOf(c)
<1>0. /\ TableInv /\ Heeds(c) /\ tracked' = tracked \cup {c} /\ wan' = wan /\ threads' = threads
      /\ bound' = [o \in Own |-> IF o = c THEN wan.addr ELSE bound[o]] /\ c \in Conns
  BY Types, Sizes DEF ct_established, links, GoneInv
<1>1. Clean(nat, tracked') /\ TempsClean(temp, tracked')
  BY <1>0, MoreTracked DEF GoneInv
<1>2. Fine(r, tracked') /\ (IsTemp(c) => Waits(r, tracked'))
  BY <1>0, RuleIsMeant, RuleConn DEF Fine, Waits, Meant, Natted
<1>3. r \in Rule \/ (r.priv = none /\ wan.addr = none)
  BY <1>0, Types, RuleOfIsRule
<1>4. wan.up => wan.addr \in PublicIps /\ r \in Rule
  BY <1>0, <1>3, HostsAssumption DEF TableInv, WanInv
<1> HIDE DEF r
<1>5. Clean(nat', tracked') /\ TempsClean(temp', tracked')
  <2>1. CASE ~wan.up
    BY <1>0, <1>1, <1>2, <1>3, <2>1, Types, CacheEntryClean DEF ct_established, r
  <2>2. CASE wan.up /\ IsTemp(c)
    <3>1. [rule |-> r, pub |-> wan.addr] \in Waiting
      BY <1>4, <2>2 DEF Waiting
    <3>2. [rule |-> r, pub |-> wan.addr].rule = r
      OBVIOUS
    <3>3. TempsClean(AddTempEntry([rule |-> r, pub |-> wan.addr]), tracked')
      BY <1>0, <1>1, <1>2, <2>2, <3>1, <3>2, Types, TempsStayClean
    <3> QED BY <1>1, <2>2, <3>3 DEF ct_established, r
  <2>3. CASE wan.up /\ ~IsTemp(c)
    <3>1. Clean(AddEntry(nat, r), tracked')
      BY <1>0, <1>1, <1>2, <1>4, <2>3, Types, AddEntryClean
    <3> QED BY <1>1, <2>3, <3>1 DEF ct_established, r
  <2> QED BY <2>1, <2>2, <2>3
<1>6. Clean(nat, tracked)' /\ TempsClean(temp, tracked)'
  BY <1>0, <1>5, CleanNext
<1>7. HeardInv'
  <2>1. Settled' = Settled
    BY DEF Settled
  <2>2. ASSUME NEW d \in Settled
        PROVE  /\ d \in tracked' => threads'[Thread(d)] = "running"
               /\ d \in Own => wan'.up /\ bound'[d] \in {none, wan'.addr} /\ (d \in tracked' => ~wan'.sta)
    BY <1>0 DEF GoneInv, HeardInv, Heeds
  <2> QED BY <2>1, <2>2 DEF HeardInv
<1> QED BY <1>6, <1>7 DEF GoneInv

LEMMA DestroyedGone ==
  ASSUME GoneInv, setting' = setting, TableInv', NEW c \in setting.conns, ct_destroyed(c)
  PROVE  GoneInv'
<1> DEFINE r == RuleOf(c)
<1>0. /\ TableInv /\ c \in tracked /\ tracked' = tracked \ {c} /\ wan' = wan /\ threads' = threads
      /\ bound' = [o \in Own |-> IF o = c THEN none ELSE bound[o]]
  BY Types DEF ct_destroyed, links, GoneInv
<1>1. c \in Settled => Heeds(c)
  BY <1>0 DEF GoneInv, HeardInv, Heeds
<1>2. Fewer(nat, nat') /\ TempsClean(temp', tracked)
  <2>1. CASE Heeds(c)
    BY <1>0, <2>1, Types, DeleteEntryKeeps, TempsStayClean DEF ct_destroyed, GoneInv
  <2>2. CASE ~Heeds(c)
    BY <2>2 DEF ct_destroyed, Fewer, GoneInv
  <2> QED BY <2>1, <2>2
<1>3. Clean(nat', tracked)
  BY <1>2, FewerClean DEF GoneInv
<1>4. ASSUME c \in Settled
      PROVE  /\ \A i \in Slots : nat'.cache[i] # none => nat'.cache[i].rule.conn # c
             /\ \A i \in Temps : temp'[i] # none => temp'[i].rule.conn # c
  <2>1. r = Meant(c) /\ nat' = DeleteEntry(nat, r) /\ temp' = DeleteTempEntry(r)
    BY <1>1, <1>4, RuleIsMeant DEF ct_destroyed
  <2> HIDE DEF r
  <2>2. ASSUME NEW i \in Slots, nat'.cache[i] # none, nat'.cache[i].rule.conn = c PROVE FALSE
    <3>1. nat'.cache[i].rule = r
      BY <1>3, <1>4, <2>1, <2>2 DEF Clean, Fine
    <3> QED BY <1>0, <2>1, <2>2, <3>1, DeleteEntryDeletes, Types DEF GoneInv
  <2>3. ASSUME NEW i \in Temps, temp'[i] # none, temp'[i].rule.conn = c PROVE FALSE
    <3>1. temp'[i] = temp[i] /\ temp[i].rule # r
      BY <2>1, <2>3 DEF DeleteTempEntry
    <3>2. temp[i].rule = Plain(c) /\ c \in Natted
      BY <1>4, <2>3, <3>1 DEF GoneInv, TempsClean, Waits
    <3> QED BY <2>1, <3>1, <3>2 DEF Meant, Natted
  <2> QED BY <2>2, <2>3
<1>5. Clean(nat', tracked')
  <2>1. ASSUME NEW i \in Slots, nat'.cache[i] # none PROVE Fine(nat'.cache[i].rule, tracked')
    BY <1>0, <1>3, <1>4, <2>1 DEF Clean, Fine
  <2> QED BY <1>3, <2>1 DEF Clean
<1>6. TempsClean(temp', tracked')
  BY <1>0, <1>2, <1>4 DEF TempsClean, Waits
<1>7. Clean(nat, tracked)' /\ TempsClean(temp, tracked)'
  BY <1>0, <1>5, <1>6, CleanNext
<1>8. HeardInv'
  <2>1. Settled' = Settled
    BY DEF Settled
  <2>2. ASSUME NEW d \in Settled
        PROVE  /\ d \in tracked' => threads'[Thread(d)] = "running"
               /\ d \in Own => wan'.up /\ bound'[d] \in {none, wan'.addr} /\ (d \in tracked' => ~wan'.sta)
    BY <1>0 DEF GoneInv, HeardInv
  <2> QED BY <2>1, <2>2 DEF HeardInv
<1> QED BY <1>7, <1>8 DEF GoneInv

LEMMA GoneInit == Init => GoneInv
<1> SUFFICES ASSUME Init PROVE GoneInv
  OBVIOUS
<1>1. TableInv
  BY InitHolds
<1>2. Clean(nat, tracked) /\ TempsClean(temp, tracked)
  BY DEF Init, Clean, TempsClean
<1>3. setting.wanFalls \/ wan.up
  <2>1. setting.wanFalls \in BOOLEAN
    BY Sizes DEF Init
  <2>2. wan.up = ~setting.wanFalls
    BY DEF Init
  <2> QED BY <2>1, <2>2
<1>4. HeardInv
  BY <1>3, HostsAssumption DEF Init, HeardInv, Settled, Natted, Own
<1> QED BY <1>1, <1>2, <1>4 DEF GoneInv

\* The steps of one actor each.
LEMMA GoneNext ==
  ASSUME GoneInv, [Next]_vars
  PROVE  GoneInv'
<1>0. TableInv /\ TableInv' /\ setting' = setting /\ TempsClean(temp, tracked)
  BY NextKeeps DEF GoneInv, Next, vars
<1>1. CASE UNCHANGED vars
  BY <1>0, <1>1, QuietStep DEF vars, links, told, Fewer
<1>2. ASSUME HANDLE_LAN_UP \/ \E t \in {"tcp", "udp"} : RegisterWithConnTrack(t) PROVE GoneInv'
  <2>1. \A t \in {"tcp", "udp"} : threads[t] = "running" => threads'[t] = "running"
    BY <1>0, <1>2, Types DEF HANDLE_LAN_UP, RegisterWithConnTrack, WithListeners
  <2> QED BY <1>0, <1>2, <2>1, QuietStep DEF HANDLE_LAN_UP, RegisterWithConnTrack, told, Fewer
<1>3. ASSUME NEW addr \in PublicIps, NEW isSta \in setting.modes, TriggerWANUp(addr, isSta) PROVE GoneInv'
  <2>1. \A t \in {"tcp", "udp"} : threads[t] = "running" => threads'[t] = "running"
    BY <1>0, <1>3, Types DEF TriggerWANUp, WithListeners, WithNatThread
  <2>2. ~nat.table
    BY <1>0, <1>3 DEF TriggerWANUp, TableInv, WanInv
  <2>3. Fewer(nat, nat')
    BY <1>0, <1>3, <2>2, Types, AddTableSound DEF TriggerWANUp
  <2> QED BY <1>0, <1>3, <2>1, <2>3, QuietStep DEF TriggerWANUp, told
<1>4. ASSUME TriggerWANDown PROVE GoneInv'
  <2>1. wan.addr \in PublicIps
    BY <1>0, <1>4 DEF TriggerWANDown, TableInv, WanInv
  <2>2. Fewer(nat, nat')
    BY <1>0, <1>4, <2>1, Types, DeleteTableSound DEF TriggerWANDown
  <2> QED BY <1>0, <1>4, <2>2, QuietStep DEF TriggerWANDown, told
<1>5. ASSUME NEW c \in setting.conns, ct_established(c) \/ kernel_drops(c) \/ ct_destroyed(c) PROVE GoneInv'
  <2>1. CASE kernel_drops(c)
    BY <1>0, <2>1, QuietStep DEF kernel_drops, links, Fewer
  <2> QED BY <1>0, <1>5, <2>1, EstablishedGone, DestroyedGone
<1>6. ASSUME NEW h \in Hosts,
             neighbour_listed(h) \/ HandleNeighIpAddrAddEvt(h) \/ HandleNeighIpAddrDelEvt(h)
      PROVE GoneInv'
  <2>1. CASE neighbour_listed(h)
    BY <1>0, <2>1, QuietStep DEF neighbour_listed, links, told, Fewer
  <2>2. CASE HandleNeighIpAddrAddEvt(h)
    <3> DEFINE s == Flushed(Resume(nat, h), h, FALSE)
    <3>1. Keeps(nat, Resume(nat, h)) /\ Clean(Resume(nat, h), tracked)
      BY <1>0, Types, ResumeKeeps, FewerClean DEF GoneInv
    <3>2. Clean(s.nat, tracked) /\ TempsClean(s.temp, tracked)
      BY <1>0, <3>1, Types, FlushedKeeps DEF Keeps, Leaves, SameTable
    <3>3. nat' = s.nat /\ temp' = s.temp
      BY <2>2 DEF HandleNeighIpAddrAddEvt
    <3> HIDE DEF s
    <3> QED BY <1>0, <2>2, <3>2, <3>3, FlushedStep DEF HandleNeighIpAddrAddEvt, links, told
  <2>3. CASE HandleNeighIpAddrDelEvt(h)
    BY <1>0, <2>3, Types, SuspendKeeps, TempsStayClean, QuietStep DEF HandleNeighIpAddrDelEvt, links, told
  <2> QED BY <1>6, <2>1, <2>2, <2>3
<1>7. ASSUME NEW h \in setting.sleepers, UpdatePwrSaveIf(h) \/ ResetPwrSaveIf(h) PROVE GoneInv'
  BY <1>0, <1>7, Types, SuspendKeeps, ResumeKeeps, QuietStep DEF UpdatePwrSaveIf, ResetPwrSaveIf, links, told
<1>8. ASSUME NEW o \in OtherHosts, NonNatAdd(o) \/ NonNatDel(o) PROVE GoneInv'
  <2>1. CASE NonNatAdd(o)
    <3> DEFINE s == Flushed(nat, o, TRUE)
    <3>1. Clean(s.nat, tracked) /\ TempsClean(s.temp, tracked)
      BY <1>0, Types, FlushedKeeps DEF GoneInv
    <3>2. nat' = s.nat /\ temp' = s.temp
      BY <2>1 DEF NonNatAdd
    <3> HIDE DEF s
    <3> QED BY <1>0, <2>1, <3>1, <3>2, FlushedStep DEF NonNatAdd, links, told
  <2>2. CASE NonNatDel(o)
    BY <1>0, <2>2, Types, SuspendKeeps, TempsStayClean, QuietStep DEF NonNatDel, links, told
  <2> QED BY <1>8, <2>1, <2>2
<1>9. ASSUME NEW p \in Peers, HandleSTAClientAddEvt(p) \/ HandleSTAClientDelEvt(p) PROVE GoneInv'
  <2>1. CASE HandleSTAClientAddEvt(p)
    <3> DEFINE s == Flushed(nat, p, FALSE)
    <3>1. Clean(s.nat, tracked) /\ TempsClean(s.temp, tracked)
      BY <1>0, Types, FlushedKeeps DEF GoneInv
    <3>2. nat' = s.nat /\ temp' = s.temp
      BY <2>1 DEF HandleSTAClientAddEvt
    <3> HIDE DEF s
    <3> QED BY <1>0, <2>1, <3>1, <3>2, FlushedStep DEF HandleSTAClientAddEvt, links, told
  <2>2. CASE HandleSTAClientDelEvt(p)
    <3>1. Fewer(nat, nat')
      BY <1>0, <2>2, Types, DropPeerKeeps DEF HandleSTAClientDelEvt, Fewer
    <3> QED BY <1>0, <2>2, <3>1, Types, TempsStayClean, QuietStep DEF HandleSTAClientDelEvt, told
  <2> QED BY <1>9, <2>1, <2>2
<1>10. ASSUME NEW i \in Slots, timer_refused(i) PROVE GoneInv'
  BY <1>0, <1>10, QuietStep DEF timer_refused, links, told, Fewer
<1>11. ASSUME timer_finds PROVE GoneInv'
  BY <1>0, <1>11, QuietStep DEF timer_finds, links, told, Fewer
<1>13. ASSUME timer_withdraws PROVE GoneInv'
  <2>1. nat'.cache = nat.cache
    BY <1>0, <1>13, Types DEF timer_withdraws, NatType
  <2>2. Fewer(nat, nat')
    BY <2>1 DEF Fewer
  <2> QED BY <1>0, <1>13, <2>2, QuietStep DEF timer_withdraws, links, told
<1>14. ASSUME timer_clears PROVE GoneInv'
  <2>1. \A i \in Slots : nat'.cache[i] = none \/ nat'.cache[i] = nat.cache[i]
    BY <1>0, <1>14, Types DEF timer_clears, NatType
  <2>2. Fewer(nat, nat')
    BY <2>1 DEF Fewer
  <2> QED BY <1>0, <1>14, <2>2, QuietStep DEF timer_clears, links, told
<1>12. \A p \in Reached : p \in Peers
  BY DEF Reached
<1>15. EventThread => GoneInv'
  BY <1>2, <1>3, <1>4, <1>5, <1>6, <1>7, <1>8, <1>9, <1>12 DEF EventThread
<1>16. UpdateUDPTimeStamp => GoneInv'
  BY <1>10, <1>11, <1>13, <1>14 DEF UpdateUDPTimeStamp
<1> QED BY <1>1, <1>15, <1>16, Zenon DEF Next

\* A connection of a NAT host, or of the device itself, that has closed has left nothing in
\* the cache or the temporary entries, wherever in a deletion the refreshing thread is.  Unless
\* the event thread changed the very entry that was being deleted, it has left nothing in the
\* hardware either, and until it closes it has one rule there at most.
THEOREM ClosedStaysGone == Spec => []ClosedIsGone
<1>1. ASSUME GoneInv PROVE ClosedIsGone
  <2>0. (~crossed => Agree(nat)) /\ Clean(nat, tracked) /\ TempsClean(temp, tracked)
    BY <1>1 DEF GoneInv, TableInv, Sound
  <2>1. ASSUME NEW h \in Handles, nat.hw[h] # none, nat.hw[h].conn \in Settled, ~crossed
        PROVE  \E i \in Slots : /\ nat.cache[i] # none /\ nat.cache[i].hdl = h /\ nat.cache[i].rule = nat.hw[h]
                                /\ nat.hw[h].conn \in tracked /\ nat.hw[h] = Meant(nat.hw[h].conn)
    <3>0. Agree(nat)
      BY <2>0, <2>1
    <3>1. PICK i \in Slots : On(nat, i) /\ nat.cache[i].hdl = h
      BY <2>1, <3>0 DEF Agree
    <3>2. nat.cache[i].rule = nat.hw[h]
      BY <3>0, <3>1 DEF Agree
    <3> QED BY <2>0, <2>1, <3>1, <3>2 DEF On, Clean, Fine
  <2>2. ASSUME NEW c \in Settled \ tracked
        PROVE  /\ \A i \in Slots : nat.cache[i] # none => nat.cache[i].rule.conn # c
               /\ \A i \in Temps : temp[i] # none => temp[i].rule.conn # c
    BY <2>0 DEF Clean, Fine, TempsClean, Waits
  <2>3. ASSUME NEW c \in Settled \ tracked, ~crossed PROVE ~InHw(c)
    BY <2>1, <2>3 DEF InHw
  <2>4. ASSUME NEW g \in Handles, NEW h \in Handles, nat.hw[g] # none, nat.hw[h] # none,
               nat.hw[g].conn = nat.hw[h].conn, nat.hw[g].conn \in Settled, ~crossed
        PROVE  g = h
    BY <2>0, <2>1, <2>4 DEF Clean
  <2> QED BY <2>2, <2>3, <2>4 DEF ClosedIsGone
<1> QED BY <1>1, GoneInit, GoneNext, PTL DEF Spec

=============================================================================
