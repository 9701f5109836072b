-------------------------- MODULE IpacmRulesProofs --------------------------
(* Theorems about IpacmRules, for any interfaces, nets and worlds: the       *)
(* dependencies of the resource manager follow their use, and the rules of   *)
(* the private subnets the interfaces.                                       *)
EXTENDS IpacmRules, SequenceTheorems, TLAPS

Ifaces  == Lans \cup Wlans
Call    == {"install", "delete", "change"} \X Calls
ObjType == [live : {"none", "up", "dying"}, fam : SUBSET {"v4", "v6"}, n6 : Nat, held : [Kinds -> Nat],
            lists : Seq(Nets \cup {file, dummy}), net : Nets \cup {none}, clients : Nat, sw : BOOLEAN]

\* Every variable the proofs speak of has its type; no net is in the table twice, and who has
\* an IPv6 address has that family.
Types ==
  /\ world \in Worlds /\ obj \in [Ifaces -> ObjType]
  /\ \A i \in Ifaces : obj[i].n6 > 0 => "v6" \in obj[i].fam
  /\ table \in Seq(Nets \cup {file}) /\ IsInjective(table)
  /\ news \in Seq(world.ifs) /\ refused \in Seq(Call)

-----------------------------------------------------------------------------
(* The resource manager *)

\* A table t and dependencies d of the kernel follow from the resources U that are used.
Follows(t, d, U) ==
  /\ t \in [Entries -> [p : BOOLEAN, c : BOOLEAN, set : BOOLEAN]]
  /\ \A e \in Entries :
       /\ t[e].p <=> RmTable[e].p1 \in U
       /\ t[e].c <=> RmTable[e].c1 \in U
       /\ t[e].set <=> RmTable[e].p1 \in U /\ RmTable[e].c1 \in U
  /\ d = UNION {Pair(e) : e \in {f \in Entries : RmTable[f].p1 \in U /\ RmTable[f].c1 \in U}}

Sides == {RmTable[e].p1 : e \in Entries} \cup {RmTable[e].c1 : e \in Entries}
Used  == {r \in Sides : InUse(r)}

\* No dependency is of two entries, and the modem's consumer is no producer.
LEMMA RmTableFacts ==
  /\ \A d, e \in Entries : d # e => Pair(d) \cap Pair(e) = {}
  /\ \A e \in Entries : RmTable[e].p1 # "Q6_CONS"
<1>1. Entries = 1..6
  BY DEF Entries, RmTable
<1>2. ASSUME NEW e \in Entries
      PROVE  /\ RmTable[e].p1 # "Q6_CONS"
             /\ \A d \in Entries : d # e => Pair(d) \cap Pair(e) = {}
  BY <1>1, <1>2 DEF Pair, RmTable
<1> QED BY <1>2

\* A resource that comes up is used from now on.
LEMMA Adds ==
  ASSUME NEW U, Follows(rm.tbl, deps, U), NEW r, AddRmDepend(r)
  PROVE  Follows(rm'.tbl, deps', U \cup {r}) /\ rm'.a2 = rm.a2 + Users(r)
<1> DEFINE P(e) == RmTable[e].p1
           C(e) == RmTable[e].c1
           V == U \cup {r}
           New(e) == LET p == rm.tbl[e].p \/ r = P(e)
                         c == rm.tbl[e].c \/ r = C(e)
                     IN  [p |-> p, c |-> c, set |-> rm.tbl[e].set \/ (r \in {P(e), C(e)} /\ p /\ c)]
           tbl == [e \in Entries |-> New(e)]
<1>1. /\ rm' = [tbl |-> tbl, a2 |-> rm.a2 + Users(r)]
      /\ deps' = deps \cup UNION {Pair(e) : e \in {f \in Entries : tbl[f].set /\ ~rm.tbl[f].set}}
  BY DEF AddRmDepend
<1>2. ASSUME NEW e \in Entries
      PROVE  /\ tbl[e] \in [p : BOOLEAN, c : BOOLEAN, set : BOOLEAN]
             /\ tbl[e].p <=> P(e) \in V
             /\ tbl[e].c <=> C(e) \in V
             /\ tbl[e].set <=> P(e) \in V /\ C(e) \in V
  BY DEF Follows
<1>3. tbl \in [Entries -> [p : BOOLEAN, c : BOOLEAN, set : BOOLEAN]]
  BY <1>2
<1>4. ASSUME NEW e \in Entries PROVE rm.tbl[e].set <=> P(e) \in U /\ C(e) \in U
  BY DEF Follows
<1> HIDE DEF tbl
<1>5. deps' = UNION {Pair(e) : e \in {f \in Entries : P(f) \in V /\ C(f) \in V}}
  BY <1>1, <1>2, <1>4 DEF Follows
<1> QED BY <1>1, <1>2, <1>3, <1>5 DEF Follows

\* Resources that go are no longer used, but for the modem's consumer while it has a user.
LEMMA Deletes ==
  ASSUME NEW U, Follows(rm.tbl, deps, U), NEW rs, DelRmDepends(rs)
  PROVE  /\ rm'.a2 = rm.a2 - (IF "Q6_CONS" \in rs THEN 1 ELSE 0)
         /\ Follows(rm'.tbl, deps', {r \in U : r \notin rs \/ (r = "Q6_CONS" /\ rm'.a2 = 1)})
<1> DEFINE P(e) == RmTable[e].p1
           C(e) == RmTable[e].c1
           a2 == rm.a2 - (IF "Q6_CONS" \in rs THEN 1 ELSE 0)
           off(e) == P(e) \in rs \/ (C(e) \in rs /\ ~(C(e) = "Q6_CONS" /\ a2 = 1))
           V == {r \in U : r \notin rs \/ (r = "Q6_CONS" /\ a2 = 1)}
           New(e) == IF ~off(e) THEN rm.tbl[e]
                     ELSE [p   |-> rm.tbl[e].p /\ P(e) \notin rs,
                           c   |-> rm.tbl[e].c /\ (C(e) \notin rs \/ (C(e) = "Q6_CONS" /\ a2 = 1)),
                           set |-> FALSE]
           tbl == [e \in Entries |-> New(e)]
<1>1. /\ rm' = [tbl |-> tbl, a2 |-> a2]
      /\ deps' = deps \ UNION {Pair(e) : e \in {f \in Entries : off(f) /\ rm.tbl[f].set}}
  BY DEF DelRmDepends
<1>2. ASSUME NEW e \in Entries
      PROVE  /\ tbl[e] \in [p : BOOLEAN, c : BOOLEAN, set : BOOLEAN]
             /\ tbl[e].p <=> P(e) \in V
             /\ tbl[e].c <=> C(e) \in V
             /\ tbl[e].set <=> P(e) \in V /\ C(e) \in V
             /\ P(e) \in V /\ C(e) \in V <=> ~off(e) /\ P(e) \in U /\ C(e) \in U
  BY RmTableFacts DEF Follows
<1>3. tbl \in [Entries -> [p : BOOLEAN, c : BOOLEAN, set : BOOLEAN]]
  BY <1>2
<1>4. ASSUME NEW e \in Entries PROVE rm.tbl[e].set <=> P(e) \in U /\ C(e) \in U
  BY DEF Follows
<1> HIDE DEF tbl, off, V
<1>5. deps' = UNION {Pair(e) : e \in {f \in Entries : P(f) \in V /\ C(f) \in V}}
  BY <1>1, <1>2, <1>4, RmTableFacts DEF Follows
<1>6. Follows(tbl, deps', V)
  BY <1>2, <1>3, <1>5 DEF Follows
<1> QED BY <1>1, <1>6 DEF V

\* Only what is asked of a side matters.
LEMMA SameUse ==
  ASSUME NEW t, NEW d, NEW U, NEW V, Follows(t, d, U), \A r \in Sides : r \in U <=> r \in V
  PROVE  Follows(t, d, V)
<1>1. ASSUME NEW e \in Entries
      PROVE  /\ RmTable[e].p1 \in U <=> RmTable[e].p1 \in V
             /\ RmTable[e].c1 \in U <=> RmTable[e].c1 \in V
  BY DEF Sides
<1>2. {f \in Entries : RmTable[f].p1 \in U /\ RmTable[f].c1 \in U}
        = {f \in Entries : RmTable[f].p1 \in V /\ RmTable[f].c1 \in V}
  BY <1>1
<1> QED BY <1>1, <1>2 DEF Follows

\* The users the modem's consumer is counted for.
Counted(us) == (IF "v4" \in us THEN 1 ELSE 0) + (IF "v6" \in us THEN 1 ELSE 0)

\* While nothing was refused, the table follows the use, and clients are those of a LAN with
\* an address.
DepInv ==
  /\ upstream \subseteq {"v4", "v6"}
  /\ refused = <<>> /\ OneEach =>
       /\ Follows(rm.tbl, deps, Used)
       /\ rm.a2 = Counted(upstream)
       /\ \A i \in Up : obj[i].clients > 0 => obj[i].fam # {} /\ i \in Lans

-----------------------------------------------------------------------------
(* The private subnets *)

On == {i \in Up : "v4" \in obj[i].fam}

\* News of another interface wait to be handled.
OthersTold(i) == \E k \in DOMAIN news : news[k] # i

\* While nothing was refused, the table has the nets of the interfaces, no two the same, and
\* what an interface does not list yet it will be told.
NetInv ==
  world.android /\ refused = <<>> =>
    /\ Range(table) = {file} \cup {obj[i].net : i \in On}
    /\ \A i \in On : /\ obj[i].net \in Nets /\ obj[i].held["private"] > 0
                     /\ obj[i].lists = Listing(table) \/ OthersTold(i)
    /\ \A i, j \in On : obj[i].net = obj[j].net => i = j

\* The inductive invariant: what is left out of Allowed is what the code does not stand.
DepHolds == "third" \notin Allowed => DepInv
NetHolds == Allowed \cap {"shared", "overflow", "reload"} = {} => NetInv
RulesInv == Types /\ DepHolds /\ NetHolds

\* The elements of two sequences in a row.
LEMMA Joined ==
  ASSUME NEW S, NEW a \in Seq(S), NEW b \in Seq(S)
  PROVE  /\ a \o b \in Seq(S) /\ Len(a \o b) = Len(a) + Len(b)
         /\ \A i \in 1..Len(a) + Len(b) : (a \o b)[i] = IF i <= Len(a) THEN a[i] ELSE b[i - Len(a)]
OBVIOUS

\* A net that is not in the table may be added at its end.
LEMMA TableGrows ==
  ASSUME NEW S, NEW t \in Seq(S), IsInjective(t), NEW n \in S, n \notin Range(t)
  PROVE  /\ Append(t, n) \in Seq(S) /\ IsInjective(Append(t, n))
         /\ Range(Append(t, n)) = Range(t) \cup {n}
<1> DEFINE u == Append(t, n)
<1>1. /\ u \in Seq(S) /\ Len(t) \in Nat /\ DOMAIN u = 1..Len(t) + 1 /\ DOMAIN t = 1..Len(t)
      /\ u[Len(t) + 1] = n /\ \A k \in 1..Len(t) : u[k] = t[k]
  OBVIOUS
<1> HIDE DEF u
<1>2. IsInjective(u)
  BY <1>1 DEF IsInjective, Range
<1>3. Range(u) = Range(t) \cup {n}
  BY <1>1 DEF Range
<1> QED BY <1>1, <1>2, <1>3 DEF u

\* A net may be taken out of the table.
LEMMA TableShrinks ==
  ASSUME NEW S, NEW t \in Seq(S), IsInjective(t), NEW n
  PROVE  /\ RemoveFirst(t, n) \in Seq(S) /\ IsInjective(RemoveFirst(t, n))
         /\ Range(RemoveFirst(t, n)) = Range(t) \ {n}
<1>2. CASE n \notin Range(t)
  <2>1. ~\E i \in 1..Len(t) : t[i] = n
    BY <1>2 DEF Range
  <2>2. RemoveFirst(t, n) = t
    BY <2>1, Zenon DEF RemoveFirst
  <2>3. Range(t) = Range(t) \ {n}
    BY <1>2, Zenon
  <2> QED BY <2>2, <2>3
<1>3. CASE n \in Range(t)
  <2>1. PICK k \in 1..Len(t) : t[k] = n
    BY <1>3 DEF Range
  <2>2. {i \in 1..Len(t) : t[i] = n} = {k}
    BY <2>1 DEF IsInjective
  <2>3. Min({k}) = k
    BY <2>1 DEF Min
  <2>4. RemoveFirst(t, n) = SubSeq(t, 1, k - 1) \o SubSeq(t, k + 1, Len(t))
    BY <2>1, <2>2, <2>3 DEF RemoveFirst, RemoveAt, SelectInSeq
  <2> DEFINE u == SubSeq(t, 1, k - 1) \o SubSeq(t, k + 1, Len(t))
  <2>5. /\ u \in Seq(S) /\ Len(t) \in Nat /\ DOMAIN t = 1..Len(t) /\ Len(u) = Len(t) - 1
        /\ DOMAIN u = 1..Len(t) - 1
        /\ \A i \in 1..Len(t) - 1 : u[i] = IF i < k THEN t[i] ELSE t[i + 1]
    <3> DEFINE a == SubSeq(t, 1, k - 1)
               b == SubSeq(t, k + 1, Len(t))
    <3>1. /\ a \in Seq(S) /\ Len(a) = k - 1 /\ \A i \in 1..k - 1 : a[i] = t[i]
          /\ b \in Seq(S) /\ Len(b) = Len(t) - k /\ \A i \in 1..Len(t) - k : b[i] = t[k + i]
      BY <2>1
    <3>2. Len(t) \in Nat /\ DOMAIN t = 1..Len(t) /\ k \in 1..Len(t)
      BY <2>1
    <3> HIDE DEF a, b
    <3>3. a \o b \in Seq(S) /\ Len(a \o b) = Len(t) - 1 /\ DOMAIN (a \o b) = 1..Len(t) - 1
      <4>1. a \o b \in Seq(S) /\ Len(a \o b) = Len(a) + Len(b)
        BY <3>1, Joined
      <4>2. Len(a) + Len(b) = Len(t) - 1
        BY <3>1, <3>2
      <4>3. DOMAIN (a \o b) = 1..Len(a \o b)
        BY <4>1
      <4> QED BY <4>1, <4>2, <4>3
    <3>5. ASSUME NEW i \in 1..Len(t) - 1 PROVE (a \o b)[i] = IF i < k THEN t[i] ELSE t[i + 1]
      <4>1. (a \o b)[i] = IF i <= k - 1 THEN a[i] ELSE b[i - (k - 1)]
        BY <3>1, <3>2, Joined
      <4>2. CASE i < k
        BY <3>1, <3>2, <4>1, <4>2
      <4>3. CASE ~(i < k)
        <5>1. i - (k - 1) \in 1..Len(t) - k /\ k + (i - (k - 1)) = i + 1 /\ ~(i <= k - 1)
          BY <3>2, <4>3
        <5> QED BY <3>1, <4>1, <4>3, <5>1
      <4> QED BY <4>2, <4>3
    <3> QED BY <3>2, <3>3, <3>5 DEF a, b
  <2> HIDE DEF u
  <2>6. IsInjective(u)
    <3> SUFFICES ASSUME NEW i \in 1..Len(t) - 1, NEW j \in 1..Len(t) - 1, u[i] = u[j]
                 PROVE  i = j
      BY <2>5 DEF IsInjective
    <3> DEFINE at(m) == IF m < k THEN m ELSE m + 1
    <3>1. ASSUME NEW m \in 1..Len(t) - 1 PROVE at(m) \in 1..Len(t) /\ u[m] = t[at(m)]
      BY <2>1, <2>5
    <3>2. at(i) \in DOMAIN t /\ at(j) \in DOMAIN t /\ t[at(i)] = t[at(j)]
      BY <2>5, <3>1
    <3>3. at(i) = at(j)
      <4> HIDE DEF at
      <4> QED BY <3>2 DEF IsInjective
    <3> QED BY <2>1, <3>3
  <2>7. ASSUME NEW x PROVE x \in Range(u) <=> x \in Range(t) \ {n}
    <3>1. ASSUME NEW i \in 1..Len(t) - 1 PROVE u[i] \in Range(t) \ {n}
      <4>1. PICK j \in 1..Len(t) : u[i] = t[j] /\ j # k
        BY <2>1, <2>5
      <4>2. t[j] # n
        BY <2>1, <4>1 DEF IsInjective
      <4> QED BY <4>1, <4>2 DEF Range
    <3>2. ASSUME x \in Range(t) \ {n} PROVE x \in Range(u)
      <4>1. PICK i \in 1..Len(t) : t[i] = x /\ i # k
        BY <2>1, <3>2 DEF Range
      <4>2. CASE i < k
        BY <2>1, <2>5, <4>1, <4>2 DEF Range
      <4>3. CASE i > k
        <5>1. i - 1 \in 1..Len(t) - 1 /\ u[i - 1] = t[i]
          BY <2>1, <2>5, <4>1, <4>3
        <5> QED BY <2>5, <4>1, <5>1 DEF Range
      <4> QED BY <2>1, <4>1, <4>2, <4>3
    <3> QED BY <2>5, <3>1, <3>2 DEF Range
  <2>8. Range(u) = Range(t) \ {n}
    BY <2>7
  <2> QED BY <1>3, <2>4, <2>5, <2>6, <2>8 DEF u
<1> QED BY <1>2, <1>3

-----------------------------------------------------------------------------
(* Facts the steps share *)

\* What a world says has its type.
LEMMA WorldFacts ==
  ASSUME Types
  PROVE  world.android \in BOOLEAN /\ world.ifs \subseteq Ifaces /\ world.refusals \in Nat
BY WorldsAssumption DEF Types, Ifaces

\* A sequence is not empty once something is appended.
LEMMA Appended ==
  ASSUME NEW S, NEW q \in Seq(S), NEW x \in S
  PROVE  Append(q, x) \in Seq(S) /\ Append(q, x) # <<>>
<1>1. Append(q, x) \in Seq(S)
  OBVIOUS
<1>2. Len(q) \in Nat /\ Len(Append(q, x)) = Len(q) + 1 /\ Len(<<>>) = 0
  OBVIOUS
<1> QED BY <1>1, <1>2

\* A handler that is refused nothing has met no refusal before either.
LEMMA Refusing ==
  ASSUME Types, NEW to \in {"install", "delete", "change"}, NEW r \in Calls, NEW calls,
         MayRefuse(to, r, calls)
  PROVE  /\ refused' \in Seq(Call)
         /\ refused' = <<>> => r = "no" /\ refused = <<>>
<1>1. refused \in Seq(Call) /\ <<to, r>> \in Call
  BY DEF Types, Call
<1>2. refused' = refused \/ refused' = Append(refused, <<to, r>>)
  BY DEF MayRefuse
<1>3. r = "no" \/ refused' = Append(refused, <<to, r>>)
  BY DEF MayRefuse
<1>4. Append(refused, <<to, r>>) \in Seq(Call) /\ Append(refused, <<to, r>>) # <<>>
  BY <1>1, Appended
<1> QED BY <1>1, <1>2, <1>3, <1>4

\* How many rules a call installs.
LEMMA Nominals ==
  ASSUME Types
  PROVE  /\ \A k \in Kinds : Nominal(k) \in Nat
         /\ world.android => Nominal("private") > 0
         /\ Nominal("rt6") = 2
<1>1. Len(table) \in Nat
  BY DEF Types
<1> QED BY <1>1 DEF Nominal, IPA_MAX_PRIVATE_SUBNET_ENTRIES

\* What an object is that is given handles.
LEMMA Handled ==
  ASSUME Types, NEW o \in ObjType, NEW ks \in SUBSET Kinds
  PROVE  LET h == WithHandles(o, ks)
         IN  /\ h \in ObjType
             /\ h.live = o.live /\ h.fam = o.fam /\ h.n6 = o.n6 /\ h.lists = o.lists
             /\ h.net = o.net /\ h.clients = o.clients
             /\ h.held["private"] = IF "private" \in ks THEN Nominal("private")
                                                        ELSE o.held["private"]
             /\ h.held["rt6"] \in Nat
<1> DEFINE held == [k \in Kinds |-> IF k \in ks THEN Nominal(k) ELSE o.held[k]]
           sw == o.sw \/ {"sw4", "sw6"} \subseteq ks
<1>1. held \in [Kinds -> Nat] /\ "private" \in Kinds /\ "rt6" \in Kinds
  BY Nominals DEF ObjType, Kinds, Flt4, Route
<1>2. sw \in BOOLEAN
  OBVIOUS
<1>3. WithHandles(o, ks) = [o EXCEPT !.held = held, !.sw = sw]
  BY DEF WithHandles, ObjType
<1>4. held["private"] = IF "private" \in ks THEN Nominal("private") ELSE o.held["private"]
  BY <1>1
<1> HIDE DEF held, sw
<1> QED BY <1>1, <1>2, <1>3, <1>4 DEF ObjType

\* What the rules may list.
LEMMA Lists ==
  ASSUME NEW t \in Seq(Nets \cup {file})
  PROVE  /\ t \in Seq(Nets \cup {file, dummy})
         /\ Dummies \in Seq(Nets \cup {file, dummy})
         /\ Listing(t) \in Seq(Nets \cup {file, dummy})
<1>1. Len(t) \in Nat /\ \A k \in 1..Len(t) : t[k] \in Nets \cup {file, dummy}
  OBVIOUS
<1>2. Dummies \in [1..3 -> Nets \cup {file, dummy}]
  BY DEF Dummies, IPA_MAX_PRIVATE_SUBNET_ENTRIES
<1>3. Listing(t) \in [1..3 -> Nets \cup {file, dummy}]
  BY <1>1, <1>2 DEF Listing
<1>4. ASSUME NEW f \in [1..3 -> Nets \cup {file, dummy}] PROVE f \in Seq(Nets \cup {file, dummy})
  <2>1. [1..3 -> Nets \cup {file, dummy}] \in {[1..n -> Nets \cup {file, dummy}] : n \in Nat}
    OBVIOUS
  <2>2. f \in UNION {[1..n -> Nets \cup {file, dummy}] : n \in Nat}
    BY <1>4, <2>1
  <2>3. Seq(Nets \cup {file, dummy}) = UNION {[1..n -> Nets \cup {file, dummy}] : n \in Nat}
    BY SeqDef
  <2> QED BY <2>2, <2>3
<1>5. t \in Seq(Nets \cup {file, dummy})
  BY <1>1
<1> QED BY <1>2, <1>3, <1>4, <1>5

\* What an object starts as, and what is left of it.
LEMMA Blank ==
  /\ Fresh \in ObjType /\ Fresh.live = "up" /\ Fresh.fam = {} /\ Fresh.n6 = 0 /\ Fresh.clients = 0
  /\ \A l \in {"none", "dying"} : LET o == [Gone EXCEPT !.live = l]
                                  IN  o \in ObjType /\ o.live = l /\ o.n6 = 0
  /\ Gone \in ObjType /\ Gone.live = "none" /\ Gone.n6 = 0
<1>1. /\ <<>> \in Seq(Nets \cup {file, dummy}) /\ [k \in Kinds |-> 0] \in [Kinds -> Nat]
      /\ none \in Nets \cup {none} /\ 0 \in Nat /\ {} \in SUBSET {"v4", "v6"} /\ FALSE \in BOOLEAN
  OBVIOUS
<1>2. Fresh \in ObjType /\ Fresh.live = "up" /\ Fresh.fam = {} /\ Fresh.n6 = 0 /\ Fresh.clients = 0
  BY <1>1 DEF Fresh, ObjType
<1>3. Gone \in ObjType /\ Gone.live = "none" /\ Gone.n6 = 0
  BY <1>2 DEF Gone, ObjType
<1> QED BY <1>2, <1>3 DEF ObjType

\* The steps of one object leave the others.
LEMMA OneObject ==
  ASSUME Types, NEW i \in Ifaces, NEW o \in ObjType, obj' = [obj EXCEPT ![i] = o]
  PROVE  /\ obj' \in [Ifaces -> ObjType] /\ obj'[i] = o
         /\ \A j \in Ifaces \ {i} : obj'[j] = obj[j]
         /\ (o.n6 > 0 => "v6" \in o.fam) =>
              \A j \in Ifaces : obj'[j].n6 > 0 => "v6" \in obj'[j].fam
BY DEF Types

-----------------------------------------------------------------------------
(* When use does not change, grows or shrinks *)

Addressed(i) == obj[i].live = "up" /\ obj[i].fam # {}
Serving(i)   == obj[i].live = "up" /\ obj[i].clients > 0

\* What an interface or the upstream is used for.
LEMMA Uses1 ==
  /\ \A r : InUse(r) <=> \/ \E i \in world.ifs : Addressed(i) /\ ProdOf(i) = r
                         \/ r = "USB_CONS" /\ \E i \in world.ifs : Serving(i)
                         \/ r = "Q6_CONS" /\ upstream # {}
  /\ DepInv /\ refused = <<>> /\ OneEach =>
       \A i \in world.ifs : Serving(i) => Addressed(i) /\ i \in Lans
BY DEF InUse, Up, Addressed, Serving, DepInv

\* Nobody starts or ends to use a resource.
LEMMA DepQuiet ==
  ASSUME DepInv, UNCHANGED <<world, rm, deps, upstream>>, refused' = <<>> => refused = <<>>,
         \A i \in world.ifs : /\ Addressed(i)' <=> Addressed(i)
                              /\ Serving(i)' <=> Serving(i)
  PROVE  DepInv'
<1> SUFFICES ASSUME refused' = <<>>, OneEach'
             PROVE  /\ Follows(rm'.tbl, deps', Used') /\ rm'.a2 = Counted(upstream')
                    /\ \A i \in Up' : obj'[i].clients > 0 => obj'[i].fam # {} /\ i \in Lans
  BY DEF DepInv
<1>1. refused = <<>> /\ OneEach
  BY DEF OneEach
<1>2. \A i \in world.ifs : Serving(i) => Addressed(i) /\ i \in Lans
  BY <1>1, Uses1
<1>3. \A r \in Sides : InUse(r)' <=> InUse(r)
  BY DEF InUse, Up, Addressed, Serving
<1>4. Used' = Used
  BY <1>3 DEF Used, Sides
<1>5. \A i \in Up' : obj'[i].clients > 0 => obj'[i].fam # {} /\ i \in Lans
  BY <1>2 DEF Up, Addressed, Serving
<1> QED BY <1>1, <1>4, <1>5 DEF DepInv

\* A resource comes into use.
LEMMA DepGrows ==
  ASSUME DepInv, NEW r, AddRmDepend(r), world' = world, refused' = <<>> => refused = <<>>,
         upstream' \subseteq {"v4", "v6"}, Counted(upstream') = Counted(upstream) + Users(r),
         \A i \in world.ifs : Serving(i)' => Addressed(i)' /\ i \in Lans,
         \A x \in Sides : InUse(x)' <=> InUse(x) \/ x = r
  PROVE  DepInv'
<1> SUFFICES ASSUME refused' = <<>>, OneEach'
             PROVE  /\ Follows(rm'.tbl, deps', Used') /\ rm'.a2 = Counted(upstream')
                    /\ \A i \in Up' : obj'[i].clients > 0 => obj'[i].fam # {} /\ i \in Lans
  BY DEF DepInv
<1>1. refused = <<>> /\ OneEach
  BY DEF OneEach
<1>2. Follows(rm.tbl, deps, Used) /\ rm.a2 = Counted(upstream)
  BY <1>1 DEF DepInv
<1>3. Follows(rm'.tbl, deps', Used \cup {r}) /\ rm'.a2 = rm.a2 + Users(r)
  BY <1>2, Adds
<1>4. \A x \in Sides : x \in Used \cup {r} <=> x \in Used'
  BY DEF Used, Sides
<1>5. Follows(rm'.tbl, deps', Used')
  BY <1>3, <1>4, SameUse
<1>6. \A i \in Up' : obj'[i].clients > 0 => obj'[i].fam # {} /\ i \in Lans
  BY DEF Up, Addressed, Serving
<1> QED BY <1>2, <1>3, <1>5, <1>6

\* Resources go out of use, the modem's consumer unless it has another user.
LEMMA DepShrinks ==
  ASSUME DepInv, NEW rs, DelRmDepends(rs), world' = world, refused' = <<>> => refused = <<>>,
         upstream' \subseteq {"v4", "v6"},
         Counted(upstream') = Counted(upstream) - (IF "Q6_CONS" \in rs THEN 1 ELSE 0),
         \A i \in world.ifs : Serving(i)' => Addressed(i)' /\ i \in Lans,
         refused' = <<>> /\ OneEach =>
           \A x \in Sides : InUse(x)' <=>
             InUse(x) /\ (x \notin rs \/ (x = "Q6_CONS" /\ Counted(upstream') = 1))
  PROVE  DepInv'
<1> SUFFICES ASSUME refused' = <<>>, OneEach'
             PROVE  /\ Follows(rm'.tbl, deps', Used') /\ rm'.a2 = Counted(upstream')
                    /\ \A i \in Up' : obj'[i].clients > 0 => obj'[i].fam # {} /\ i \in Lans
  BY DEF DepInv
<1>1. refused = <<>> /\ OneEach
  BY DEF OneEach
<1>2. Follows(rm.tbl, deps, Used) /\ rm.a2 = Counted(upstream)
  BY <1>1 DEF DepInv
<1> DEFINE V == {r \in Used : r \notin rs \/ (r = "Q6_CONS" /\ rm'.a2 = 1)}
<1>3. Follows(rm'.tbl, deps', V) /\ rm'.a2 = Counted(upstream')
  BY <1>2, Deletes
<1>4. \A x \in Sides : x \in V <=> x \in Used'
  BY <1>1, <1>3 DEF Used, Sides
<1>5. Follows(rm'.tbl, deps', Used')
  BY <1>3, <1>4, SameUse
<1>6. \A i \in Up' : obj'[i].clients > 0 => obj'[i].fam # {} /\ i \in Lans
  BY DEF Up, Addressed, Serving
<1> QED BY <1>3, <1>5, <1>6

\* Nets and lists stay, and so does what is waited for.
LEMMA NetQuiet ==
  ASSUME NetInv, UNCHANGED <<world, table, news>>, refused' = <<>> => refused = <<>>,
         On' = On, \A i \in On : /\ obj'[i].net = obj[i].net /\ obj'[i].lists = obj[i].lists
                                 /\ obj'[i].held["private"] = obj[i].held["private"]
  PROVE  NetInv'
<1> SUFFICES ASSUME world.android, refused' = <<>> PROVE NetInv'
  BY DEF NetInv
<1>1. refused = <<>>
  OBVIOUS
<1>2. {obj'[i].net : i \in On'} = {obj[i].net : i \in On}
  OBVIOUS
<1> QED BY <1>1, <1>2 DEF NetInv, OthersTold

-----------------------------------------------------------------------------
(* The steps *)

\* An interface gets an IPv4 address.
LEMMA AddrV4Keeps ==
  ASSUME RulesInv, NEW i \in world.ifs, NEW n \in Nets, NEW r \in Calls, AddrV4(i, n, r)
  PROVE  RulesInv'
<1>0. /\ Types /\ world.android \in BOOLEAN /\ i \in Ifaces /\ obj[i] \in ObjType
      /\ table \in Seq(Nets \cup {file}) /\ IsInjective(table) /\ news \in Seq(world.ifs)
  BY WorldFacts DEF RulesInv, Types
<1>1. /\ refused' \in Seq(Call)
      /\ refused' = <<>> => r = "no" /\ refused = <<>>
      /\ obj[i].live = "up" /\ "v4" \notin obj[i].fam
      /\ UNCHANGED <<world, upstream>>
  <2>1. /\ obj[i].live = "up" /\ "v4" \notin obj[i].fam /\ UNCHANGED <<world, upstream>>
        /\ MayRefuse("install", r, {"rt4", "dft4", "icmp4", "private", "modify", "sw4", "sw6"})
    BY DEF AddrV4, Up
  <2> QED BY <1>0, <2>1, Refusing
<1> DEFINE new == n \notin Range(table) /\ Len(table) < IPA_MAX_PRIVATE_SUBNET_ENTRIES
<1>2. IF world.android /\ new THEN table' = Append(table, n) /\ news' = Append(news, i)
                              ELSE UNCHANGED <<table, news>>
  BY <1>0 DEF AddrV4, AddPrivateSubnet
<1>3. /\ table' \in Seq(Nets \cup {file}) /\ IsInjective(table') /\ news' \in Seq(world.ifs)
  <2>1. CASE world.android /\ new
    <3>1. table' = Append(table, n) /\ news' = Append(news, i) /\ n \notin Range(table)
      BY <1>2, <2>1
    <3>2. n \in Nets \cup {file}
      OBVIOUS
    <3>3. Append(table, n) \in Seq(Nets \cup {file}) /\ IsInjective(Append(table, n))
      BY <1>0, <3>1, <3>2, TableGrows
    <3> QED BY <1>0, <3>1, <3>3, Appended
  <2>2. CASE ~(world.android /\ new)
    BY <1>0, <1>2, <2>2
  <2> QED BY <2>1, <2>2
<1> DEFINE o  == [obj[i] EXCEPT !.net = n]
           ks == ({"rt4", "dft4", "icmp4", "private"} \ {r}) \cup (IF swrt THEN SwOn(o, r) ELSE {})
           h  == WithHandles(o, ks)
           w  == [h EXCEPT !.fam = @ \cup {"v4"}, !.lists = Listed(r, table')]
<1>4. IF r = "rt4" THEN obj' = [obj EXCEPT ![i] = o] /\ UNCHANGED <<rm, deps>>
                   ELSE obj' = [obj EXCEPT ![i] = w] /\ AddRmDepend(ProdOf(i))
  BY DEF AddrV4
<1>5. /\ o \in ObjType /\ o.live = "up" /\ o.fam = obj[i].fam /\ o.clients = obj[i].clients
      /\ o.net = n /\ o.n6 = obj[i].n6
  BY <1>0, <1>1 DEF ObjType
<1>6. ks \in SUBSET Kinds /\ (r # "private" => "private" \in ks)
  BY DEF SwOn, Kinds, Flt4, Flt6, Route
<1> HIDE DEF o, ks
<1>7. /\ h \in ObjType /\ h.live = "up" /\ h.fam = obj[i].fam /\ h.clients = obj[i].clients
      /\ h.net = n /\ h.n6 = obj[i].n6
      /\ (r # "private" => h.held["private"] = Nominal("private"))
  BY <1>0, <1>5, <1>6, Handled
<1> HIDE DEF h
<1>8. Listed(r, table') \in Seq(Nets \cup {file, dummy})
  <2>1. /\ table' \in Seq(Nets \cup {file, dummy}) /\ Dummies \in Seq(Nets \cup {file, dummy})
        /\ Listing(table') \in Seq(Nets \cup {file, dummy})
    BY <1>3, Lists
  <2>2. <<>> \in Seq(Nets \cup {file, dummy})
    OBVIOUS
  <2> QED BY <2>1, <2>2, Zenon DEF Listed
<1>9. /\ w \in ObjType /\ w.live = "up" /\ w.fam = obj[i].fam \cup {"v4"}
      /\ w.clients = obj[i].clients /\ w.net = n /\ w.lists = Listed(r, table')
      /\ w.held = h.held /\ w.n6 = obj[i].n6
  BY <1>7, <1>8 DEF ObjType
<1> HIDE DEF w
<1>10. Types'
  <2>0. obj[i].n6 > 0 => "v6" \in obj[i].fam
    BY <1>0 DEF Types
  <2>1. /\ obj' \in [Ifaces -> ObjType]
        /\ \A j \in Ifaces : obj'[j].n6 > 0 => "v6" \in obj'[j].fam
    BY <1>0, <1>4, <1>5, <1>9, <2>0, OneObject
  <2> QED BY <1>0, <1>1, <1>3, <2>1 DEF Types
<1>11. DepHolds'
  <2> SUFFICES ASSUME DepInv PROVE DepInv'
    BY DEF RulesInv, DepHolds
  <2>1. CASE r = "rt4"
    <3>1. refused' # <<>>
      BY <1>1, <2>1
    <3> QED BY <1>1, <3>1 DEF DepInv
  <2>2. CASE r # "rt4"
    <3>1. AddRmDepend(ProdOf(i)) /\ obj'[i] = w /\ \A j \in Ifaces \ {i} : obj'[j] = obj[j]
      BY <1>0, <1>4, <1>9, <2>2, OneObject
    <3>2. world.ifs \subseteq Ifaces /\ Users(ProdOf(i)) = 0 /\ upstream \subseteq {"v4", "v6"}
      BY <1>0, WorldFacts DEF Users, ProdOf, DepInv
    <3>3. CASE refused' = <<>> /\ OneEach
      <4>1. \A j \in world.ifs : Serving(j) => Addressed(j) /\ j \in Lans
        BY <1>1, <3>3, Uses1
      <4>2. \A j \in world.ifs : /\ Serving(j)' <=> Serving(j)
                                 /\ Addressed(j)' <=> Addressed(j) \/ j = i
        BY <1>1, <1>9, <3>1, <3>2 DEF Serving, Addressed
      <4>3. \A x \in Sides : InUse(x)' <=> InUse(x) \/ x = ProdOf(i)
        BY <1>1, <4>2, Uses1 DEF InUse, Up, Addressed, Serving
      <4>4. \A j \in world.ifs : Serving(j)' => Addressed(j)' /\ j \in Lans
        BY <4>1, <4>2
      <4>5. Counted(upstream') = Counted(upstream) + Users(ProdOf(i)) /\ upstream' = upstream
        BY <1>1, <3>2 DEF Counted
      <4> QED BY <1>1, <3>1, <3>2, <4>3, <4>4, <4>5, DepGrows
    <3>4. CASE ~(refused' = <<>> /\ OneEach)
      BY <1>1, <3>2, <3>4 DEF DepInv, OneEach
    <3> QED BY <3>3, <3>4
  <2> QED BY <2>1, <2>2
<1>12. NetHolds'
  <2> SUFFICES ASSUME Allowed \cap {"shared", "overflow", "reload"} = {}, NetInv,
                      world.android, refused' = <<>>
               PROVE  NetInv'
    BY <1>1 DEF RulesInv, NetHolds, NetInv
  <2>0. r = "no" /\ refused = <<>> /\ obj'[i] = w /\ \A j \in Ifaces \ {i} : obj'[j] = obj[j]
    BY <1>0, <1>1, <1>4, <1>9, OneObject
  <2>1. /\ Range(table) = {file} \cup {obj[j].net : j \in On}
        /\ \A j \in On : /\ obj[j].net \in Nets /\ obj[j].held["private"] > 0
                         /\ obj[j].lists = Listing(table) \/ OthersTold(j)
        /\ \A j, k \in On : obj[j].net = obj[k].net => j = k
    BY <2>0 DEF NetInv
  <2>2. i \notin On /\ On' = On \cup {i} /\ On \subseteq Ifaces \ {i}
    BY <1>0, <1>1, <1>9, <2>0, WorldFacts DEF On, Up
  <2>3. \A j \in On : obj[j].net # n
    BY <1>1, <2>2 DEF AddrV4, On
  <2>4. n \notin Range(table) /\ n # file
    BY <2>1, <2>3, NamesAssumption
  <2>5. table' = Append(table, n) /\ news' = Append(news, i)
    BY <1>2, <2>4 DEF AddrV4
  <2>6. Range(table') = Range(table) \cup {n}
    <3>1. n \in Nets \cup {file}
      OBVIOUS
    <3> QED BY <1>0, <2>4, <2>5, <3>1, TableGrows
  <2>7. Range(table') = {file} \cup {obj'[j].net : j \in On'}
    BY <1>9, <2>0, <2>1, <2>2, <2>6
  <2>8. w.lists = Listing(table')
    BY <1>9, <2>0 DEF Listed
  <2>9. ASSUME NEW j \in On PROVE OthersTold(j)'
    <3>1. Len(news) + 1 \in DOMAIN news' /\ news'[Len(news) + 1] = i
      BY <1>0, <2>5
    <3> QED BY <2>2, <3>1 DEF OthersTold
  <2>10. w.held["private"] > 0
    BY <1>0, <1>7, <1>9, <2>0, Nominals
  <2>11. ASSUME NEW j \in On'
         PROVE  /\ obj'[j].net \in Nets /\ obj'[j].held["private"] > 0
                /\ obj'[j].lists = Listing(table') \/ OthersTold(j)'
    BY <1>9, <2>0, <2>1, <2>2, <2>8, <2>9, <2>10
  <2>12. \A j, k \in On' : obj'[j].net = obj'[k].net => j = k
    BY <1>9, <2>0, <2>1, <2>2, <2>3
  <2> QED BY <1>1, <2>7, <2>11, <2>12 DEF NetInv
<1> QED BY <1>10, <1>11, <1>12 DEF RulesInv

\* An interface gets an IPv6 address.
LEMMA AddrV6Keeps ==
  ASSUME RulesInv, NEW i \in world.ifs, NEW r \in Calls, AddrV6(i, r)
  PROVE  RulesInv'
<1>0. /\ Types /\ i \in Ifaces /\ obj[i] \in ObjType /\ world.ifs \subseteq Ifaces
      /\ obj[i].n6 > 0 => "v6" \in obj[i].fam
  BY WorldFacts DEF RulesInv, Types
<1>1. /\ refused' \in Seq(Call)
      /\ refused' = <<>> => r = "no" /\ refused = <<>>
      /\ obj[i].live = "up" /\ UNCHANGED <<world, upstream, table, news>>
  <2>1. /\ obj[i].live = "up" /\ UNCHANGED <<world, upstream, table, news>>
        /\ MayRefuse("install", r, {"rt6", "rt6wan", "dft6", "icmp6", "sw4", "sw6"})
    BY DEF AddrV6, Up
  <2> QED BY <1>0, <2>1, Refusing
<1>2. CASE r \in {"rt6", "rt6wan"}
  <2>1. UNCHANGED obj /\ refused' # <<>>
    BY <1>1, <1>2 DEF AddrV6
  <2>2. Types' /\ DepHolds' /\ NetHolds'
    BY <1>0, <1>1, <2>1 DEF RulesInv, Types, DepHolds, DepInv, NetHolds, NetInv
  <2> QED BY <2>2 DEF RulesInv
<1>3. CASE r \notin {"rt6", "rt6wan"}
  <2> DEFINE o  == obj[i]
             ks == (IF o.n6 = 0 THEN {"dft6", "icmp6"} \ {r} ELSE {})
                   \cup (IF swrt THEN SwOn(o, r) ELSE {})
             h  == WithHandles(o, ks)
             w  == [h EXCEPT !.held["rt6"] = o.held["rt6"] + Nominal("rt6"),
                             !.n6 = @ + 1, !.fam = @ \cup {"v6"}]
  <2>1. /\ obj' = [obj EXCEPT ![i] = w]
        /\ IF o.n6 = 0 THEN AddRmDepend(ProdOf(i)) ELSE UNCHANGED <<rm, deps>>
    BY <1>3 DEF AddrV6
  <2>2. ks \in SUBSET Kinds /\ "private" \notin ks
    BY DEF SwOn, Kinds, Flt4, Flt6, Route
  <2> HIDE DEF ks
  <2>3. /\ h \in ObjType /\ h.live = "up" /\ h.fam = o.fam /\ h.clients = o.clients
        /\ h.net = o.net /\ h.n6 = o.n6 /\ h.lists = o.lists
        /\ h.held["private"] = o.held["private"]
    BY <1>0, <1>1, <2>2, Handled
  <2> HIDE DEF h
  <2> DEFINE held == [h.held EXCEPT !["rt6"] = o.held["rt6"] + Nominal("rt6")]
  <2>4. /\ held \in [Kinds -> Nat] /\ held["private"] = o.held["private"]
        /\ w = [h EXCEPT !.held = held, !.n6 = @ + 1, !.fam = @ \cup {"v6"}]
        /\ h.n6 \in Nat /\ h.fam \in SUBSET {"v4", "v6"}
    <3>1. o.held["rt6"] + Nominal("rt6") \in Nat
      BY <1>0, Nominals DEF ObjType, Kinds, Route
    <3> QED BY <2>3, <3>1 DEF ObjType, Kinds, Flt4
  <2> DEFINE n6  == h.n6 + 1
             fam == h.fam \cup {"v6"}
  <2>parts. /\ n6 \in Nat /\ fam \in SUBSET {"v4", "v6"} /\ fam = o.fam \cup {"v6"}
         /\ w = [h EXCEPT !.held = held, !.n6 = n6, !.fam = fam]
    <3> HIDE DEF held, w, h
    <3> QED BY <2>3, <2>4 DEF ObjType
  <2> HIDE DEF held, n6, fam, w
  <2>fields. /\ w.live = h.live /\ w.fam = fam /\ w.clients = h.clients
             /\ w.net = h.net /\ w.lists = h.lists /\ w.held = held
    BY <2>3, <2>parts DEF ObjType
  <2>typed. w \in ObjType
    BY <2>3, <2>4, <2>parts DEF ObjType
  <2>5. /\ w \in ObjType /\ w.live = "up" /\ w.fam = o.fam \cup {"v6"} /\ w.clients = o.clients
        /\ w.net = o.net /\ w.lists = o.lists /\ w.held["private"] = o.held["private"]
    BY <2>3, <2>4, <2>parts, <2>fields, <2>typed
  <2>6. /\ obj' \in [Ifaces -> ObjType] /\ obj'[i] = w
        /\ \A j \in Ifaces \ {i} : obj'[j] = obj[j]
        /\ \A j \in Ifaces : obj'[j].n6 > 0 => "v6" \in obj'[j].fam
    BY <1>0, <2>1, <2>5, OneObject
  <2>7. Types'
    BY <1>0, <1>1, <2>6 DEF Types
  <2>8. DepHolds'
    <3> SUFFICES ASSUME DepInv PROVE DepInv'
      BY DEF RulesInv, DepHolds
    <3>1. CASE o.n6 # 0
      <4>1. o.fam # {} /\ UNCHANGED <<rm, deps>>
        BY <1>0, <2>1, <3>1 DEF ObjType
      <4>2. \A j \in world.ifs : /\ Addressed(j)' <=> Addressed(j)
                                 /\ Serving(j)' <=> Serving(j)
        BY <1>0, <1>1, <2>5, <2>6, <4>1 DEF Addressed, Serving
      <4> QED BY <1>1, <4>1, <4>2, DepQuiet
    <3>2. CASE o.n6 = 0
      <4>1. Users(ProdOf(i)) = 0 /\ upstream \subseteq {"v4", "v6"} /\ AddRmDepend(ProdOf(i))
        BY <2>1, <3>2 DEF Users, ProdOf, DepInv
      <4>2. CASE refused' = <<>> /\ OneEach
        <5>1. \A j \in world.ifs : Serving(j) => Addressed(j) /\ j \in Lans
          BY <1>1, <4>2, Uses1
        <5>2. \A j \in world.ifs : /\ Serving(j)' <=> Serving(j)
                                   /\ Addressed(j)' <=> Addressed(j) \/ j = i
          BY <1>0, <1>1, <2>5, <2>6 DEF Serving, Addressed
        <5>3. \A x \in Sides : InUse(x)' <=> InUse(x) \/ x = ProdOf(i)
          BY <1>1, <5>2, Uses1 DEF InUse, Up, Addressed, Serving
        <5>4. \A j \in world.ifs : Serving(j)' => Addressed(j)' /\ j \in Lans
          BY <5>1, <5>2
        <5>5. Counted(upstream') = Counted(upstream) + Users(ProdOf(i)) /\ upstream' = upstream
          BY <1>1, <4>1 DEF Counted
        <5> QED BY <1>1, <4>1, <5>3, <5>4, <5>5, DepGrows
      <4>3. CASE ~(refused' = <<>> /\ OneEach)
        BY <1>1, <4>1, <4>3 DEF DepInv, OneEach
      <4> QED BY <4>2, <4>3
    <3> QED BY <3>1, <3>2
  <2>9. NetHolds'
    <3> SUFFICES ASSUME NetInv PROVE NetInv'
      BY DEF RulesInv, NetHolds
    <3>1. On' = On
      BY <1>0, <1>1, <2>5, <2>6 DEF On, Up
    <3>2. \A j \in On : /\ obj'[j].net = obj[j].net /\ obj'[j].lists = obj[j].lists
                        /\ obj'[j].held["private"] = obj[j].held["private"]
      BY <1>0, <2>5, <2>6 DEF On, Up
    <3> QED BY <1>1, <3>1, <3>2, NetQuiet
  <2> QED BY <2>7, <2>8, <2>9 DEF RulesInv
<1> QED BY <1>2, <1>3

\* The filter rules of an object that goes are all deleted when nothing is refused.
LEMMA AllReached ==
  ASSUME NEW o \in ObjType
  PROVE  EndIsMet(o, "no") <=> o.fam # {}
<1> DEFINE order == DownOrder(o)
<1>1. \A k \in DOMAIN order : order[k] # "no"
  <2>1. <<"icmp4", "dft4", "private">> \in Seq(Flt4 \cup Flt6)
        /\ <<"icmp6", "dft6">> \in Seq(Flt4 \cup Flt6) /\ <<>> \in Seq(Flt4 \cup Flt6)
    BY DEF Flt4, Flt6
  <2> DEFINE a == IF "v4" \in o.fam THEN <<"icmp4", "dft4", "private">> ELSE <<>>
             b == IF "v6" \in o.fam THEN <<"icmp6", "dft6">> ELSE <<>>
  <2>2. order \in Seq(Flt4 \cup Flt6)
    <3>1. a \in Seq(Flt4 \cup Flt6) /\ b \in Seq(Flt4 \cup Flt6) /\ order = a \o b
      BY <2>1 DEF DownOrder
    <3> HIDE DEF a, b, order
    <3> QED BY <3>1, Joined
  <2>3. \A k \in DOMAIN order : order[k] \in Flt4 \cup Flt6
    BY <2>2
  <2> QED BY <2>3 DEF Flt4, Flt6
<1>2. DOMAIN order = 1..Len(order) /\ Len(order) \in Nat
  BY DEF DownOrder
<1> HIDE DEF order
<1>3. {order[k] : k \in {k \in DOMAIN order : \A h \in 1..k : order[h] # "no"}} = Range(order)
  BY <1>1, <1>2 DEF Range
<1>4. Reached(o, "no") = Range(order)
  BY <1>3 DEF Reached, order
<1> QED BY <1>4 DEF EndIsMet, FiltersGo, order

\* An interface goes down.
LEMMA DownKeeps ==
  ASSUME RulesInv, NEW i \in world.ifs, NEW r \in Calls, NEW m, Down(i, r, m)
  PROVE  RulesInv'
<1> DEFINE o    == obj[i]
           ends == EndIsMet(o, r)
           gone == [Gone EXCEPT !.live = "dying"]
           rs   == {ProdOf(i)} \cup (IF ends /\ i \in Lans THEN {"USB_CONS"} ELSE {})
<1>0. /\ Types /\ world.android \in BOOLEAN /\ world.ifs \subseteq Ifaces /\ i \in Ifaces
      /\ o \in ObjType /\ table \in Seq(Nets \cup {file}) /\ IsInjective(table)
      /\ news \in Seq(world.ifs)
  BY WorldFacts DEF RulesInv, Types
<1>1. /\ refused' \in Seq(Call)
      /\ refused' = <<>> => r = "no" /\ refused = <<>>
      /\ o.live = "up" /\ UNCHANGED <<world, upstream>>
      /\ DelRmDepends(rs)
      /\ IF world.android /\ ends /\ "v4" \in o.fam
         THEN DelPrivateSubnet(i, o.net) ELSE UNCHANGED <<table, news>>
      /\ obj' = [obj EXCEPT ![i] = gone]
  <2>1. /\ o.live = "up" /\ UNCHANGED <<world, upstream>> /\ DelRmDepends(rs)
        /\ IF world.android /\ ends /\ "v4" \in o.fam
           THEN DelPrivateSubnet(i, o.net) ELSE UNCHANGED <<table, news>>
        /\ obj' = [obj EXCEPT ![i] = gone]
        /\ MayRefuse("delete", r, {"client", "rt4", "rt6", "sw4", "sw6"} \cup Range(DownOrder(o)))
    BY DEF Down, Up
  <2> QED BY <1>0, <2>1, Refusing
<1>2. /\ gone \in ObjType /\ gone.live = "dying" /\ gone.n6 = 0
  BY Blank
<1>blank. obj' = [obj EXCEPT ![i] = gone] /\ (gone.n6 > 0 => "v6" \in gone.fam)
  BY <1>1, <1>2
<1> HIDE DEF gone
<1>3. /\ obj' \in [Ifaces -> ObjType] /\ obj'[i] = gone
      /\ \A j \in Ifaces \ {i} : obj'[j] = obj[j]
      /\ \A j \in Ifaces : obj'[j].n6 > 0 => "v6" \in obj'[j].fam
  BY <1>0, <1>2, <1>blank, OneObject
<1>4. refused' = <<>> => (ends <=> o.fam # {})
  BY <1>0, <1>1, AllReached
<1> HIDE DEF ends
<1>5. Types'
  <2>1. table' \in Seq(Nets \cup {file}) /\ IsInjective(table') /\ news' \in Seq(world.ifs)
    <3>1. CASE world.android /\ ends /\ "v4" \in o.fam
      <4>1. table' = RemoveFirst(table, o.net) /\ (news' = news \/ news' = Append(news, i))
        BY <1>1, <3>1 DEF DelPrivateSubnet
      <4>2. RemoveFirst(table, o.net) \in Seq(Nets \cup {file})
            /\ IsInjective(RemoveFirst(table, o.net))
        BY <1>0, TableShrinks
      <4>3. Append(news, i) \in Seq(world.ifs)
        BY <1>0
      <4> QED BY <1>0, <4>1, <4>2, <4>3
    <3>2. CASE ~(world.android /\ ends /\ "v4" \in o.fam)
      BY <1>0, <1>1, <3>2
    <3> QED BY <3>1, <3>2
  <2> QED BY <1>0, <1>1, <1>3, <2>1 DEF Types
<1>6. DepHolds'
  <2> SUFFICES ASSUME DepInv PROVE DepInv'
    BY DEF RulesInv, DepHolds
  <2>1. upstream' \subseteq {"v4", "v6"} /\ "Q6_CONS" \notin rs
    BY <1>1 DEF DepInv, ProdOf
  <2>2. CASE refused' = <<>> /\ OneEach
    <3>1. \A j \in world.ifs : Serving(j) => Addressed(j) /\ j \in Lans
      BY <1>1, <2>2, Uses1
    <3>2. /\ \A j \in world.ifs : /\ Serving(j)' <=> Serving(j) /\ j # i
                                  /\ Addressed(j)' <=> Addressed(j) /\ j # i
      BY <1>0, <1>1, <1>2, <1>3 DEF Serving, Addressed
    <3>3. \A j \in world.ifs \ {i} : ProdOf(j) # ProdOf(i)
      BY <2>2 DEF OneEach
    <3>4. \A j \in world.ifs : j \in Lans => ProdOf(j) = "USB_PROD"
      BY NamesAssumption DEF ProdOf
    <3>5. ProdOf(i) # "USB_CONS"
      BY DEF ProdOf
    <3>6. ASSUME NEW x \in Sides
          PROVE  InUse(x)' <=> InUse(x) /\ x \notin rs
      <4>1. InUse(x) <=> \/ \E j \in world.ifs : Addressed(j) /\ ProdOf(j) = x
                         \/ x = "USB_CONS" /\ \E j \in world.ifs : Serving(j)
                         \/ x = "Q6_CONS" /\ upstream # {}
        BY Uses1
      <4>2. InUse(x)' <=> \/ \E j \in world.ifs : Addressed(j) /\ j # i /\ ProdOf(j) = x
                          \/ x = "USB_CONS" /\ \E j \in world.ifs : Serving(j) /\ j # i
                          \/ x = "Q6_CONS" /\ upstream # {}
        BY <1>1, <3>2 DEF InUse, Up, Addressed, Serving
      <4>3. CASE x = "USB_CONS"
        <5>1. \A j \in world.ifs : ProdOf(j) # x
          BY <4>3 DEF ProdOf
        <5>2. x \in rs <=> ends /\ i \in Lans
          BY <3>5, <4>3
        <5>3. CASE ends /\ i \in Lans
          <6>1. \A j \in world.ifs \ {i} : ~Serving(j)
            BY <3>1, <3>3, <3>4, <5>3
          <6> QED BY <4>2, <4>3, <5>1, <5>2, <5>3, <6>1
        <5>4. CASE ~(ends /\ i \in Lans)
          <6>1. ~Serving(i)
            BY <1>4, <2>2, <3>1, <5>4 DEF Addressed
          <6> QED BY <4>1, <4>2, <4>3, <5>1, <5>2, <5>4, <6>1
        <5> QED BY <5>3, <5>4
      <4>4. CASE x = ProdOf(i)
        BY <2>1, <3>3, <3>5, <4>2, <4>4
      <4>5. CASE x # "USB_CONS" /\ x # ProdOf(i)
        BY <4>1, <4>2, <4>5
      <4> QED BY <4>3, <4>4, <4>5
    <3>7. \A j \in world.ifs : Serving(j)' => Addressed(j)' /\ j \in Lans
      BY <3>1, <3>2
    <3>8. Counted(upstream') = Counted(upstream) - (IF "Q6_CONS" \in rs THEN 1 ELSE 0)
      BY <1>1, <2>1 DEF Counted
    <3>9. \A x \in Sides : InUse(x)' <=>
            InUse(x) /\ (x \notin rs \/ (x = "Q6_CONS" /\ Counted(upstream') = 1))
      BY <2>1, <3>6
    <3> HIDE DEF rs
    <3> QED BY <1>1, <2>1, <3>7, <3>8, <3>9, DepShrinks
  <2>3. CASE ~(refused' = <<>> /\ OneEach)
    BY <1>1, <2>1, <2>3 DEF DepInv, OneEach
  <2> QED BY <2>2, <2>3
<1>7. NetHolds'
  <2> SUFFICES ASSUME NetInv, world.android, refused' = <<>> PROVE NetInv'
    BY <1>1 DEF RulesInv, NetHolds, NetInv
  <2>0. refused = <<>>
    BY <1>1
  <2>1. /\ Range(table) = {file} \cup {obj[j].net : j \in On}
        /\ \A j \in On : /\ obj[j].net \in Nets /\ obj[j].held["private"] > 0
                         /\ obj[j].lists = Listing(table) \/ OthersTold(j)
        /\ \A j, k \in On : obj[j].net = obj[k].net => j = k
    BY <2>0 DEF NetInv
  <2>2. /\ On' = On \ {i} /\ On \subseteq Ifaces
        /\ i \in On <=> "v4" \in o.fam
        /\ \A j \in On' : obj'[j] = obj[j]
    BY <1>0, <1>1, <1>2, <1>3 DEF On, Up
  <2>3. CASE "v4" \in o.fam
    <3>1. i \in On /\ ends
      BY <1>4, <2>2, <2>3
    <3>2. o.net \in Range(table) /\ o.net # file /\ \A j \in On' : obj[j].net # o.net
      BY <2>1, <2>2, <3>1, NamesAssumption
    <3>3. table' = RemoveFirst(table, o.net) /\ news' = Append(news, i)
      BY <1>1, <2>3, <3>1, <3>2 DEF DelPrivateSubnet
    <3>4. Range(table') = Range(table) \ {o.net}
      BY <1>0, <3>3, TableShrinks
    <3>5. Range(table') = {file} \cup {obj'[j].net : j \in On'}
      BY <2>1, <2>2, <3>2, <3>4
    <3>6. Len(news) + 1 \in DOMAIN news' /\ news'[Len(news) + 1] = i
      BY <1>0, <3>3
    <3>7. \A j \in On' : OthersTold(j)'
      BY <2>2, <3>6 DEF OthersTold
    <3> QED BY <2>1, <2>2, <3>5, <3>7 DEF NetInv
  <2>4. CASE "v4" \notin o.fam
    <3>1. On' = On /\ UNCHANGED <<world, table, news>>
      BY <1>1, <2>2, <2>4
    <3> QED BY <2>0, <2>2, <3>1, NetQuiet
  <2> QED BY <2>3, <2>4
<1> QED BY <1>5, <1>6, <1>7 DEF RulesInv

\* An interface's object is made.
LEMMA StartKeeps ==
  ASSUME RulesInv, NEW i \in world.ifs, Start(i)
  PROVE  RulesInv'
<1>0. Types /\ i \in Ifaces /\ world.ifs \subseteq Ifaces
  BY WorldFacts DEF RulesInv, Types
<1>1. /\ obj' = [obj EXCEPT ![i] = Fresh] /\ obj[i].live = "none"
      /\ UNCHANGED <<world, table, news, rm, deps, upstream, refused>>
  BY DEF Start
<1>2. /\ obj' \in [Ifaces -> ObjType] /\ obj'[i] = Fresh
      /\ \A j \in Ifaces \ {i} : obj'[j] = obj[j]
      /\ \A j \in Ifaces : obj'[j].n6 > 0 => "v6" \in obj'[j].fam
  <2>1. Fresh.n6 > 0 => "v6" \in Fresh.fam
    BY Blank
  <2> QED BY <1>0, <1>1, <2>1, Blank, OneObject
<1>3. Types'
  BY <1>0, <1>1, <1>2 DEF Types
<1>4. \A j \in world.ifs : /\ Addressed(j)' <=> Addressed(j)
                           /\ Serving(j)' <=> Serving(j)
  BY <1>0, <1>1, <1>2, Blank DEF Addressed, Serving
<1>5. DepHolds'
  BY <1>1, <1>4, DepQuiet DEF RulesInv, DepHolds
<1>6. On' = On /\ \A j \in On : obj'[j] = obj[j]
  BY <1>0, <1>1, <1>2, Blank DEF On, Up
<1>7. NetHolds'
  BY <1>1, <1>6, NetQuiet DEF RulesInv, NetHolds
<1> QED BY <1>3, <1>5, <1>7 DEF RulesInv

\* An object deletes itself.
LEMMA DeleteSelfKeeps ==
  ASSUME RulesInv, NEW i \in world.ifs, DeleteSelf(i)
  PROVE  RulesInv'
<1>0. Types /\ i \in Ifaces /\ world.ifs \subseteq Ifaces
  BY WorldFacts DEF RulesInv, Types
<1>1. /\ obj' = [obj EXCEPT ![i] = Gone] /\ obj[i].live = "dying"
      /\ UNCHANGED <<world, table, news, rm, deps, upstream, refused>>
  BY DEF DeleteSelf
<1>2. /\ obj' \in [Ifaces -> ObjType] /\ obj'[i] = Gone
      /\ \A j \in Ifaces \ {i} : obj'[j] = obj[j]
      /\ \A j \in Ifaces : obj'[j].n6 > 0 => "v6" \in obj'[j].fam
  <2>1. Gone.n6 > 0 => "v6" \in Gone.fam
    BY Blank
  <2> QED BY <1>0, <1>1, <2>1, Blank, OneObject
<1>3. Types'
  BY <1>0, <1>1, <1>2 DEF Types
<1>4. \A j \in world.ifs : /\ Addressed(j)' <=> Addressed(j)
                           /\ Serving(j)' <=> Serving(j)
  BY <1>0, <1>1, <1>2, Blank DEF Addressed, Serving
<1>5. DepHolds'
  BY <1>1, <1>4, DepQuiet DEF RulesInv, DepHolds
<1>6. On' = On /\ \A j \in On : obj'[j] = obj[j]
  BY <1>0, <1>1, <1>2, Blank DEF On, Up
<1>7. NetHolds'
  BY <1>1, <1>6, NetQuiet DEF RulesInv, NetHolds
<1> QED BY <1>3, <1>5, <1>7 DEF RulesInv

\* Objects that keep who they are: nobody's use changes, and no net.
LEMMA SameObjects ==
  ASSUME RulesInv, obj' \in [Ifaces -> ObjType],
         \A j \in Ifaces : /\ obj'[j].live = obj[j].live /\ obj'[j].fam = obj[j].fam
                           /\ obj'[j].n6 = obj[j].n6 /\ obj'[j].net = obj[j].net
                           /\ obj'[j].clients = obj[j].clients,
         UNCHANGED <<world, table, rm, deps, upstream>>, news' \in Seq(world.ifs),
         refused' \in Seq(Call), refused' = <<>> => refused = <<>>
  PROVE  Types' /\ DepHolds' /\ On' = On
<1>0. Types /\ world.ifs \subseteq Ifaces
  BY WorldFacts DEF RulesInv
<1>1. Types'
  BY <1>0 DEF Types
<1>2. \A j \in world.ifs : /\ Addressed(j)' <=> Addressed(j)
                           /\ Serving(j)' <=> Serving(j)
  BY <1>0 DEF Addressed, Serving
<1>3. DepHolds'
  BY <1>2, DepQuiet DEF RulesInv, DepHolds
<1>4. On' = On
  BY <1>0 DEF On, Up
<1> QED BY <1>1, <1>3, <1>4

\* PRIVATE_SUBNET_CHANGE is served.
LEMMA SubnetChangeKeeps ==
  ASSUME RulesInv, NEW j \in world.ifs \cup {none}, SubnetChange(j)
  PROVE  RulesInv'
<1> DEFINE Told(i) == i \in Up \ {Head(news)} /\ obj[i].held["private"] > 0
           call == IF j = none THEN "no" ELSE "modify"
<1>0. /\ Types /\ world.ifs \subseteq Ifaces /\ obj \in [Ifaces -> ObjType]
      /\ table \in Seq(Nets \cup {file}) /\ news \in Seq(world.ifs)
  BY WorldFacts DEF RulesInv, Types
<1>1. /\ news # <<>> /\ news' = Tail(news) /\ UNCHANGED <<world, table, rm, deps, upstream>>
      /\ obj' = [i \in DOMAIN obj |-> IF Told(i) THEN Relisted(obj[i], i = j) ELSE obj[i]]
      /\ MayRefuse("change", call, {"modify"})
  BY DEF SubnetChange
<1>2. refused' \in Seq(Call) /\ (refused' = <<>> => j = none /\ refused = <<>>)
  <2>1. call \in Calls
    BY DEF Calls
  <2> QED BY <1>0, <1>1, <2>1, Refusing
<1>3. ASSUME NEW i \in Ifaces
      PROVE  /\ obj'[i] \in ObjType /\ obj'[i].live = obj[i].live /\ obj'[i].fam = obj[i].fam
             /\ obj'[i].n6 = obj[i].n6 /\ obj'[i].net = obj[i].net
             /\ obj'[i].clients = obj[i].clients /\ obj'[i].held = obj[i].held
             /\ obj'[i].lists = IF Told(i) THEN IF i = j THEN Dummies ELSE Listing(table)
                                           ELSE obj[i].lists
  <2> DEFINE lists == IF i = j THEN Dummies ELSE Listing(table)
  <2>1. lists \in Seq(Nets \cup {file, dummy})
    BY <1>0, Lists
  <2>2. obj[i] \in ObjType /\ obj'[i] = IF Told(i) THEN Relisted(obj[i], i = j) ELSE obj[i]
    BY <1>0, <1>1
  <2> HIDE DEF Told
  <2>3. Relisted(obj[i], i = j) = [obj[i] EXCEPT !.lists = lists]
    BY Zenon DEF Relisted
  <2> HIDE DEF lists
  <2>4. CASE Told(i)
    <3>1. obj'[i] = [obj[i] EXCEPT !.lists = lists]
      BY <2>2, <2>3, <2>4
    <3>2. /\ obj'[i] \in ObjType /\ obj'[i].live = obj[i].live /\ obj'[i].fam = obj[i].fam
          /\ obj'[i].n6 = obj[i].n6 /\ obj'[i].net = obj[i].net
          /\ obj'[i].clients = obj[i].clients /\ obj'[i].held = obj[i].held
          /\ obj'[i].lists = lists
      BY <2>1, <2>2, <3>1 DEF ObjType
    <3> QED BY <2>4, <3>2 DEF lists
  <2>5. CASE ~Told(i)
    BY <2>2, <2>5
  <2> QED BY <2>4, <2>5
<1>4. obj' \in [Ifaces -> ObjType]
  BY <1>0, <1>1, <1>3
<1>5. /\ news' \in Seq(world.ifs) /\ Len(news) \in Nat \ {0} /\ Head(news) = news[1]
      /\ DOMAIN news = 1..Len(news) /\ DOMAIN news' = 1..Len(news) - 1
      /\ \A k \in 1..Len(news) - 1 : news'[k] = news[k + 1]
  BY <1>0, <1>1
<1>6. Types' /\ DepHolds' /\ On' = On
  BY <1>1, <1>2, <1>3, <1>4, <1>5, SameObjects
<1>7. NetHolds'
  <2> SUFFICES ASSUME NetInv, world.android, refused' = <<>> PROVE NetInv'
    BY <1>1 DEF RulesInv, NetHolds, NetInv
  <2>0. refused = <<>> /\ j = none /\ j \notin Ifaces
    BY <1>2, NamesAssumption DEF Ifaces
  <2>1. /\ Range(table) = {file} \cup {obj[i].net : i \in On}
        /\ \A i \in On : /\ obj[i].net \in Nets /\ obj[i].held["private"] > 0
                         /\ obj[i].lists = Listing(table) \/ OthersTold(i)
        /\ \A i, k \in On : obj[i].net = obj[k].net => i = k
    BY <2>0 DEF NetInv
  <2>2. On \subseteq Ifaces /\ On \subseteq Up
    BY <1>0 DEF On, Up
  <2>3. {obj'[i].net : i \in On'} = {obj[i].net : i \in On}
    BY <1>3, <1>6, <2>2
  <2>4. ASSUME NEW i \in On PROVE obj'[i].lists = Listing(table) \/ OthersTold(i)'
    <3>1. CASE i # Head(news)
      <4>1. Told(i) /\ i # j
        BY <2>0, <2>1, <2>2, <3>1
      <4> QED BY <1>3, <2>2, <4>1
    <3>2. CASE i = Head(news)
      <4>1. obj'[i].lists = obj[i].lists
        BY <1>3, <2>2, <3>2
      <4>2. CASE OthersTold(i)
        <5>1. PICK k \in 1..Len(news) : news[k] # i
          BY <1>5, <4>2 DEF OthersTold
        <5>2. k # 1 /\ k - 1 \in 1..Len(news) - 1
          BY <1>5, <3>2, <5>1
        <5>3. news'[k - 1] = news[k]
          BY <1>5, <5>2
        <5> QED BY <1>5, <5>1, <5>2, <5>3 DEF OthersTold
      <4> QED BY <2>1, <4>1, <4>2
    <3> QED BY <3>1, <3>2
  <2>5. \A i \in On' : /\ obj'[i].net \in Nets /\ obj'[i].held["private"] > 0
                       /\ obj'[i].lists = Listing(table') \/ OthersTold(i)'
    BY <1>1, <1>3, <1>6, <2>1, <2>2, <2>4
  <2>6. \A i, k \in On' : obj'[i].net = obj'[k].net => i = k
    BY <1>3, <1>6, <2>1, <2>2
  <2> QED BY <1>1, <2>1, <2>3, <2>5, <2>6 DEF NetInv
<1> QED BY <1>6, <1>7 DEF RulesInv

\* Software routing is enabled or disabled: the handles of its rules change, and nothing else
\* the invariant speaks of.
LEMMA SwRoutingKeeps ==
  ASSUME RulesInv, NEW on \in BOOLEAN, NEW j \in world.ifs \cup {none},
         NEW r \in {"no", "sw4", "sw6"}, SwRouting(on, j, r)
  PROVE  RulesInv'
<1> DEFINE ks(i) == IF i \notin Up THEN {}
                    ELSE IF on THEN SwOn(obj[i], IF i = j THEN r ELSE "no")
                    ELSE SwOff(obj[i], IF i = j THEN r ELSE "no")
           Off(i) == [obj[i] EXCEPT !.held = [k \in Kinds |-> IF k \in ks(i) THEN 0 ELSE @[k]],
                                    !.sw   = @ /\ ks(i) # {"sw4", "sw6"}]
<1>0. /\ Types /\ world.ifs \subseteq Ifaces /\ obj \in [Ifaces -> ObjType]
      /\ news \in Seq(world.ifs)
  BY WorldFacts DEF RulesInv, Types
<1>1. /\ UNCHANGED <<world, table, news, rm, deps, upstream>>
      /\ obj' = [i \in DOMAIN obj |-> IF i \notin world.ifs THEN obj[i]
                                      ELSE IF on THEN WithHandles(obj[i], ks(i)) ELSE Off(i)]
      /\ \E to \in {"install", "delete", "change"} : MayRefuse(to, r, {"sw4", "sw6"})
  BY DEF SwRouting
<1>2. refused' \in Seq(Call) /\ (refused' = <<>> => refused = <<>>)
  <2>1. r \in Calls
    BY DEF Calls, Kinds, Flt4, Flt6
  <2> QED BY <1>0, <1>1, <2>1, Refusing
<1>3. ASSUME NEW i \in Ifaces
      PROVE  /\ obj'[i] \in ObjType /\ obj'[i].live = obj[i].live /\ obj'[i].fam = obj[i].fam
             /\ obj'[i].n6 = obj[i].n6 /\ obj'[i].net = obj[i].net
             /\ obj'[i].clients = obj[i].clients /\ obj'[i].lists = obj[i].lists
             /\ obj'[i].held["private"] = obj[i].held["private"]
  <2>1. ks(i) \in SUBSET Kinds /\ "private" \notin ks(i)
    BY DEF SwOn, SwOff, Kinds, Flt4, Flt6
  <2>2. obj[i] \in ObjType /\ obj'[i] = IF i \notin world.ifs THEN obj[i]
                                        ELSE IF on THEN WithHandles(obj[i], ks(i)) ELSE Off(i)
    BY <1>0, <1>1
  <2>3. CASE i \notin world.ifs
    BY <2>2, <2>3
  <2>4. CASE i \in world.ifs /\ on
    <3>1. obj'[i] = WithHandles(obj[i], ks(i))
      BY <2>2, <2>4
    <3> DEFINE o == obj[i]
               k == ks(i)
               h == WithHandles(o, k)
    <3>2. Types /\ o \in ObjType /\ k \in SUBSET Kinds /\ "private" \notin k
      BY <1>0, <2>1, <2>2
    <3> HIDE DEF o, k
    <3>3. /\ h \in ObjType /\ h.live = o.live /\ h.fam = o.fam /\ h.n6 = o.n6 /\ h.net = o.net
          /\ h.clients = o.clients /\ h.lists = o.lists /\ h.held["private"] = o.held["private"]
      BY <3>2, Handled
    <3>4. obj'[i] = h
      <4> USE DEF o, k
      <4> HIDE DEF ks
      <4> QED BY <3>1, Zenon
    <3> HIDE DEF h
    <3> QED BY <3>3, <3>4 DEF o
  <2>5. CASE i \in world.ifs /\ ~on
    <3> DEFINE held == [k \in Kinds |-> IF k \in ks(i) THEN 0 ELSE obj[i].held[k]]
               sw   == obj[i].sw /\ ks(i) # {"sw4", "sw6"}
    <3>1. obj'[i] = Off(i)
      BY <2>2, <2>5
    <3> HIDE DEF ks
    <3>2. /\ held \in [Kinds -> Nat] /\ held["private"] = obj[i].held["private"]
      BY <2>1, <2>2 DEF ObjType, Kinds, Flt4
    <3>3. sw \in BOOLEAN /\ obj'[i] = [obj[i] EXCEPT !.held = held, !.sw = sw]
      BY <2>2, <3>1 DEF ObjType
    <3> HIDE DEF held, sw
    <3> QED BY <2>2, <3>2, <3>3 DEF ObjType
  <2> QED BY <2>3, <2>4, <2>5
<1> HIDE DEF ks, Off
<1>4. obj' \in [Ifaces -> ObjType]
  <2>1. /\ DOMAIN obj = Ifaces
        /\ obj' = [i \in DOMAIN obj |-> obj'[i]]
    BY <1>0, <1>1
  <2> QED BY <1>3, <2>1
<1>5. Types' /\ DepHolds' /\ On' = On
  <2>1. /\ UNCHANGED <<world, table, rm, deps, upstream>> /\ news' \in Seq(world.ifs)
        /\ refused' \in Seq(Call) /\ (refused' = <<>> => refused = <<>>)
    BY <1>0, <1>1, <1>2
  <2>2. \A i \in Ifaces : /\ obj'[i].live = obj[i].live /\ obj'[i].fam = obj[i].fam
                          /\ obj'[i].n6 = obj[i].n6 /\ obj'[i].net = obj[i].net
                          /\ obj'[i].clients = obj[i].clients
    BY <1>3
  <2> QED BY <1>4, <2>1, <2>2, SameObjects
<1>6. On \subseteq Ifaces
  BY <1>0 DEF On, Up
<1>7. NetHolds'
  BY <1>1, <1>2, <1>3, <1>5, <1>6, NetQuiet DEF RulesInv, NetHolds
<1> QED BY <1>5, <1>7 DEF RulesInv

\* An object whose clients change, and nothing else.
LEMMA ClientsChange ==
  ASSUME RulesInv, NEW i \in Ifaces, NEW c \in Nat, obj' = [obj EXCEPT ![i].clients = c],
         UNCHANGED <<world, table, news, refused>>
  PROVE  /\ Types' /\ NetHolds'
         /\ \A j \in Ifaces : /\ obj'[j].live = obj[j].live /\ obj'[j].fam = obj[j].fam
                              /\ obj'[j].clients = IF j = i THEN c ELSE obj[j].clients
<1>0. Types /\ world.ifs \subseteq Ifaces /\ obj \in [Ifaces -> ObjType]
  BY WorldFacts DEF RulesInv, Types
<1> DEFINE o == [obj[i] EXCEPT !.clients = c]
<1>1. /\ o \in ObjType /\ o.live = obj[i].live /\ o.fam = obj[i].fam /\ o.n6 = obj[i].n6
      /\ o.net = obj[i].net /\ o.lists = obj[i].lists /\ o.held = obj[i].held /\ o.clients = c
  <2>1. obj[i] \in ObjType
    BY <1>0
  <2> QED BY <2>1 DEF ObjType
<1>2. obj' = [obj EXCEPT ![i] = o]
  BY <1>0
<1> HIDE DEF o
<1>3. /\ obj' \in [Ifaces -> ObjType] /\ obj'[i] = o
      /\ \A j \in Ifaces \ {i} : obj'[j] = obj[j]
  BY <1>0, <1>1, <1>2, OneObject
<1>4. Types'
  BY <1>0, <1>1, <1>3 DEF Types
<1>5. On' = On /\ On \subseteq Ifaces
  BY <1>0, <1>1, <1>3 DEF On, Up
<1>6. \A j \in On : /\ obj'[j].net = obj[j].net /\ obj'[j].lists = obj[j].lists
                    /\ obj'[j].held["private"] = obj[j].held["private"]
  BY <1>1, <1>3, <1>5
<1>7. NetHolds'
  BY <1>5, <1>6, NetQuiet DEF RulesInv, NetHolds
<1> QED BY <1>1, <1>3, <1>4, <1>7

\* A client of a LAN gets a route.
LEMMA ClientRouteKeeps ==
  ASSUME RulesInv, NEW i \in world.ifs, ClientRoute(i)
  PROVE  RulesInv'
<1>0. Types /\ i \in Ifaces /\ world.ifs \subseteq Ifaces /\ obj[i].clients \in Nat
  BY WorldFacts DEF RulesInv, Types, ObjType
<1>1. /\ obj[i].live = "up" /\ i \in Lans /\ obj[i].fam # {}
      /\ obj' = [obj EXCEPT ![i].clients = obj[i].clients + 1] /\ AddRmDepend("USB_CONS")
      /\ UNCHANGED <<world, table, news, upstream, refused>>
  BY DEF ClientRoute, Up
<1>2. /\ Types' /\ NetHolds'
      /\ \A j \in Ifaces : /\ obj'[j].live = obj[j].live /\ obj'[j].fam = obj[j].fam
                           /\ obj'[j].clients = IF j = i THEN obj[i].clients + 1
                                                         ELSE obj[j].clients
  <2>1. obj[i].clients + 1 \in Nat
    BY <1>0
  <2> QED BY <1>0, <1>1, <2>1, ClientsChange
<1>3. DepHolds'
  <2> SUFFICES ASSUME DepInv PROVE DepInv'
    BY DEF RulesInv, DepHolds
  <2>1. CASE refused = <<>> /\ OneEach
    <3>1. \A j \in world.ifs : Serving(j) => Addressed(j) /\ j \in Lans
      BY <2>1, Uses1
    <3>2. \A j \in world.ifs : /\ Addressed(j)' <=> Addressed(j)
                               /\ Serving(j)' <=> Serving(j) \/ j = i
      BY <1>0, <1>1, <1>2 DEF Addressed, Serving
    <3>3. \A j \in world.ifs : Serving(j)' => Addressed(j)' /\ j \in Lans
      BY <1>1, <3>1, <3>2 DEF Addressed
    <3>4. \A x \in Sides : InUse(x)' <=> InUse(x) \/ x = "USB_CONS"
      BY <1>1, <3>2, Uses1 DEF InUse, Up, Addressed, Serving
    <3>5. /\ Counted(upstream') = Counted(upstream) + Users("USB_CONS")
          /\ upstream' \subseteq {"v4", "v6"}
      BY <1>1 DEF Counted, Users, DepInv
    <3> QED BY <1>1, <3>3, <3>4, <3>5, DepGrows
  <2>2. CASE ~(refused = <<>> /\ OneEach)
    BY <1>1, <2>2 DEF DepInv, OneEach
  <2> QED BY <2>1, <2>2
<1> QED BY <1>2, <1>3 DEF RulesInv

\* A client of a LAN goes.
LEMMA ClientGoneKeeps ==
  ASSUME RulesInv, NEW i \in world.ifs, ClientGone(i)
  PROVE  RulesInv'
<1>0. Types /\ i \in Ifaces /\ world.ifs \subseteq Ifaces /\ obj[i].clients \in Nat
  BY WorldFacts DEF RulesInv, Types, ObjType
<1>1. /\ obj[i].live = "up" /\ i \in Lans /\ obj[i].clients > 0
      /\ obj' = [obj EXCEPT ![i].clients = obj[i].clients - 1]
      /\ IF obj[i].clients = 1 THEN DelRmDepends({"USB_CONS"}) ELSE UNCHANGED <<rm, deps>>
      /\ UNCHANGED <<world, table, news, upstream, refused>>
  BY DEF ClientGone, Up
<1>2. /\ Types' /\ NetHolds'
      /\ \A j \in Ifaces : /\ obj'[j].live = obj[j].live /\ obj'[j].fam = obj[j].fam
                           /\ obj'[j].clients = IF j = i THEN obj[i].clients - 1
                                                         ELSE obj[j].clients
  <2>1. obj[i].clients - 1 \in Nat
    BY <1>0, <1>1
  <2> QED BY <1>0, <1>1, <2>1, ClientsChange
<1>3. DepHolds'
  <2> SUFFICES ASSUME DepInv PROVE DepInv'
    BY DEF RulesInv, DepHolds
  <2>0. \A j \in world.ifs : /\ Addressed(j)' <=> Addressed(j)
                             /\ Serving(j)' <=> Serving(j) /\ (j = i => obj[i].clients # 1)
    BY <1>0, <1>1, <1>2 DEF Addressed, Serving
  <2>1. CASE obj[i].clients # 1
    BY <1>1, <2>0, <2>1, DepQuiet
  <2>2. CASE obj[i].clients = 1 /\ refused = <<>> /\ OneEach
    <3>1. \A j \in world.ifs : Serving(j) => Addressed(j) /\ j \in Lans
      BY <2>2, Uses1
    <3>2. \A j \in world.ifs : j \in Lans => j = i
      BY <1>1, <2>2, NamesAssumption DEF OneEach, ProdOf
    <3>3. \A j \in world.ifs : ~Serving(j)'
      BY <2>0, <2>2, <3>1, <3>2
    <3>4. \A j \in world.ifs : ProdOf(j) # "USB_CONS"
      BY DEF ProdOf
    <3>5. \A x \in Sides : InUse(x)' <=> InUse(x) /\ x \notin {"USB_CONS"}
      BY <1>1, <2>0, <3>3, <3>4, Uses1 DEF InUse, Up, Addressed, Serving
    <3>6. /\ Counted(upstream')
               = Counted(upstream) - (IF "Q6_CONS" \in {"USB_CONS"} THEN 1 ELSE 0)
          /\ upstream' \subseteq {"v4", "v6"}
      BY <1>1 DEF Counted, DepInv
    <3>7. DelRmDepends({"USB_CONS"}) /\ world' = world /\ (refused' = <<>> => refused = <<>>)
      BY <1>1, <2>2
    <3>8. \A x \in Sides : InUse(x)' <=>
            InUse(x) /\ (x \notin {"USB_CONS"} \/ (x = "Q6_CONS" /\ Counted(upstream') = 1))
      BY <3>5
    <3> QED BY <3>3, <3>6, <3>7, <3>8, DepShrinks
  <2>3. CASE ~(refused = <<>> /\ OneEach)
    BY <1>1, <2>3 DEF DepInv, OneEach
  <2> QED BY <2>1, <2>2, <2>3
<1> QED BY <1>2, <1>3 DEF RulesInv

\* Steps of the upstream and of the file leave the objects, the lists and the news.
LEMMA ObjectsStay ==
  ASSUME RulesInv, UNCHANGED <<world, obj, table, news, refused>>
  PROVE  /\ Types' /\ NetHolds'
         /\ \A j \in world.ifs : /\ Addressed(j)' <=> Addressed(j)
                                 /\ Serving(j)' <=> Serving(j)
<1>1. Types' /\ On' = On
  BY DEF RulesInv, Types, On, Up
<1>2. NetHolds'
  BY <1>1, NetQuiet DEF RulesInv, NetHolds
<1> QED BY <1>1, <1>2 DEF Addressed, Serving

\* The modem's interface gets a default route.
LEMMA UpstreamAddKeeps ==
  ASSUME RulesInv, NEW u \in {"v4", "v6", "embms"}, UpstreamAdd(u)
  PROVE  RulesInv'
<1>1. /\ u \in Uses \ upstream /\ upstream' = upstream \cup {u} /\ AddRmDepend("Q6_CONS")
      /\ UNCHANGED <<world, obj, table, news, refused>>
  BY DEF UpstreamAdd
<1>2. /\ Types' /\ NetHolds'
      /\ \A j \in world.ifs : /\ Addressed(j)' <=> Addressed(j)
                              /\ Serving(j)' <=> Serving(j)
  BY <1>1, ObjectsStay
<1>3. DepHolds'
  <2> SUFFICES ASSUME "third" \notin Allowed, DepInv PROVE DepInv'
    BY DEF RulesInv, DepHolds
  <2>0. u \in {"v4", "v6"} /\ upstream' \subseteq {"v4", "v6"} /\ upstream' # {}
    BY <1>1 DEF Uses, DepInv
  <2>1. CASE refused = <<>> /\ OneEach
    <3>1. \A j \in world.ifs : Serving(j)' => Addressed(j)' /\ j \in Lans
      BY <1>2, <2>1, Uses1
    <3>2. \A x \in Sides : InUse(x)' <=> InUse(x) \/ x = "Q6_CONS"
      BY <1>1, <2>0 DEF InUse, Up
    <3>3. Counted(upstream') = Counted(upstream) + Users("Q6_CONS")
      BY <1>1, <2>0 DEF Counted, Users
    <3>4. world' = world /\ (refused' = <<>> => refused = <<>>)
      BY <1>1
    <3> QED BY <1>1, <2>0, <3>1, <3>2, <3>3, <3>4, DepGrows
  <2>2. CASE ~(refused = <<>> /\ OneEach)
    BY <1>1, <2>0, <2>2 DEF DepInv, OneEach
  <2> QED BY <2>1, <2>2
<1> QED BY <1>2, <1>3 DEF RulesInv

\* The modem's interface loses a default route: the consumer stays up for the other.
LEMMA UpstreamDelKeeps ==
  ASSUME RulesInv, NEW u \in {"v4", "v6", "embms"}, UpstreamDel(u)
  PROVE  RulesInv'
<1>1. /\ u \in upstream /\ upstream' = upstream \ {u} /\ DelRmDepends({"Q6_CONS"})
      /\ UNCHANGED <<world, obj, table, news, refused>>
  BY DEF UpstreamDel
<1>2. /\ Types' /\ NetHolds'
      /\ \A j \in world.ifs : /\ Addressed(j)' <=> Addressed(j)
                              /\ Serving(j)' <=> Serving(j)
  BY <1>1, ObjectsStay
<1>3. DepHolds'
  <2> SUFFICES ASSUME DepInv PROVE DepInv'
    BY DEF RulesInv, DepHolds
  <2>0. u \in {"v4", "v6"} /\ upstream \subseteq {"v4", "v6"} /\ upstream' \subseteq {"v4", "v6"}
    BY <1>1 DEF DepInv
  <2>1. CASE refused = <<>> /\ OneEach
    <3>1. \A j \in world.ifs : Serving(j)' => Addressed(j)' /\ j \in Lans
      BY <1>2, <2>1, Uses1
    <3>2. Counted(upstream') = Counted(upstream) - 1 /\ (upstream' # {} <=> Counted(upstream') = 1)
      <4>1. upstream' # {} <=> "v4" \in upstream' \/ "v6" \in upstream'
        BY <2>0
      <4>2. /\ u \notin upstream'
            /\ \A x \in {"v4", "v6"} \ {u} : x \in upstream' <=> x \in upstream
        BY <1>1
      <4>3. CASE u = "v4"
        BY <1>1, <4>1, <4>2, <4>3 DEF Counted
      <4>4. CASE u = "v6"
        BY <1>1, <4>1, <4>2, <4>4 DEF Counted
      <4> QED BY <2>0, <4>3, <4>4
    <3>3. \A j \in world.ifs : ProdOf(j) # "Q6_CONS"
      BY DEF ProdOf
    <3>4. \A x \in Sides : InUse(x)' <=>
            InUse(x) /\ (x \notin {"Q6_CONS"} \/ (x = "Q6_CONS" /\ Counted(upstream') = 1))
      <4>1. ASSUME NEW x \in Sides, x # "Q6_CONS" PROVE InUse(x)' <=> InUse(x)
        BY <1>1, <4>1 DEF InUse, Up
      <4>2. InUse("Q6_CONS") /\ (InUse("Q6_CONS")' <=> upstream' # {})
        BY <1>1, <3>3 DEF InUse, Up
      <4> QED BY <3>2, <4>1, <4>2
    <3>5. /\ Counted(upstream')
               = Counted(upstream) - (IF "Q6_CONS" \in {"Q6_CONS"} THEN 1 ELSE 0)
          /\ DelRmDepends({"Q6_CONS"}) /\ world' = world /\ (refused' = <<>> => refused = <<>>)
      BY <1>1, <3>2
    <3> QED BY <2>0, <3>1, <3>4, <3>5, DepShrinks
  <2>2. CASE ~(refused = <<>> /\ OneEach)
    BY <1>1, <2>0, <2>2 DEF DepInv, OneEach
  <2> QED BY <2>1, <2>2
<1> QED BY <1>2, <1>3 DEF RulesInv

\* The file is read again.
LEMMA ReloadKeeps ==
  ASSUME RulesInv, Reload
  PROVE  RulesInv'
<1>1. /\ table' \in {<<>>, <<file>>} /\ ("reload" \notin Allowed => table' = table)
      /\ UNCHANGED <<world, obj, news, rm, deps, upstream, refused>>
  BY DEF Reload
<1>2. Types'
  <2>1. /\ <<>> \in Seq(Nets \cup {file}) /\ <<file>> \in Seq(Nets \cup {file})
        /\ IsInjective(<<>>) /\ IsInjective(<<file>>)
    BY DEF IsInjective
  <2> QED BY <1>1, <2>1 DEF RulesInv, Types
<1>3. DepHolds'
  <2>1. \A j \in world.ifs : /\ Addressed(j)' <=> Addressed(j)
                             /\ Serving(j)' <=> Serving(j)
    BY <1>1 DEF Addressed, Serving
  <2> QED BY <1>1, <2>1, DepQuiet DEF RulesInv, DepHolds
<1>4. NetHolds'
  <2>1. CASE "reload" \in Allowed
    BY <2>1 DEF NetHolds
  <2>2. CASE "reload" \notin Allowed
    BY <1>1, <2>2, ObjectsStay
  <2> QED BY <2>1, <2>2
<1> QED BY <1>2, <1>3, <1>4 DEF RulesInv

-----------------------------------------------------------------------------
(* The theorems *)

\* At first nothing is there.
LEMMA InitHolds == Init => RulesInv
<1> SUFFICES ASSUME Init PROVE RulesInv
  OBVIOUS
<1>1. /\ world \in Worlds /\ obj = [i \in Ifaces |-> Gone] /\ table = <<file>> /\ news = <<>>
      /\ deps = {} /\ upstream = {} /\ refused = <<>> /\ rm.a2 = 0
      /\ rm.tbl = [e \in Entries |-> [p |-> FALSE, c |-> FALSE, set |-> FALSE]]
  BY DEF Init, Ifaces
<1>2. Types
  <2>1. /\ <<file>> \in Seq(Nets \cup {file}) /\ <<>> \in Seq(world.ifs) /\ <<>> \in Seq(Call)
        /\ IsInjective(<<file>>)
    BY DEF IsInjective
  <2>2. obj \in [Ifaces -> ObjType] /\ \A i \in Ifaces : ~(obj[i].n6 > 0)
    BY <1>1, Blank
  <2> QED BY <1>1, <2>1, <2>2 DEF Types
<1>3. Up = {} /\ On = {}
  BY <1>1, <1>2, Blank, WorldFacts DEF Up, On
<1>4. DepHolds
  <2>1. \A r \in Sides : ~InUse(r)
    BY <1>1, <1>3 DEF InUse
  <2>2. Used = {}
    BY <2>1 DEF Used
  <2>3. Follows(rm.tbl, deps, {})
    BY <1>1 DEF Follows
  <2> QED BY <1>1, <1>3, <2>2, <2>3 DEF DepHolds, DepInv, Counted
<1>5. NetHolds
  <2>1. Range(table) = {file}
    BY <1>1 DEF Range
  <2> QED BY <1>3, <2>1 DEF NetHolds, NetInv
<1> QED BY <1>2, <1>4, <1>5 DEF RulesInv

\* Every step keeps the invariant.
LEMMA NextKeeps == RulesInv /\ [Next]_vars => RulesInv'
<1> SUFFICES ASSUME RulesInv, [Next]_vars PROVE RulesInv'
  OBVIOUS
<1>1. ASSUME NEW i \in world.ifs, Start(i) PROVE RulesInv'
  BY <1>1, StartKeeps
<1>2. ASSUME NEW i \in world.ifs, DeleteSelf(i) PROVE RulesInv'
  BY <1>2, DeleteSelfKeeps
<1>3. ASSUME NEW i \in world.ifs, ClientRoute(i) PROVE RulesInv'
  BY <1>3, ClientRouteKeeps
<1>4. ASSUME NEW i \in world.ifs, ClientGone(i) PROVE RulesInv'
  BY <1>4, ClientGoneKeeps
<1>5. ASSUME NEW i \in world.ifs, NEW r \in Calls, AddrV6(i, r) PROVE RulesInv'
  BY <1>5, AddrV6Keeps
<1>6. ASSUME NEW i \in world.ifs, NEW r \in Calls, NEW n \in Nets, AddrV4(i, n, r) PROVE RulesInv'
  BY <1>6, AddrV4Keeps
<1>7. ASSUME NEW i \in world.ifs, NEW r \in Calls, NEW m \in 0..5, Down(i, r, m) PROVE RulesInv'
  BY <1>7, DownKeeps
<1>8. ASSUME NEW j \in world.ifs \cup {none}, SubnetChange(j) PROVE RulesInv'
  BY <1>8, SubnetChangeKeeps
<1>9. ASSUME NEW on \in BOOLEAN, NEW j \in world.ifs \cup {none}, NEW r \in {"no", "sw4", "sw6"},
             SwRouting(on, j, r)
      PROVE  RulesInv'
  BY <1>9, SwRoutingKeeps
<1>10. ASSUME NEW u \in {"v4", "v6", "embms"}, UpstreamAdd(u) PROVE RulesInv'
  BY <1>10, UpstreamAddKeeps
<1>11. ASSUME NEW u \in {"v4", "v6", "embms"}, UpstreamDel(u) PROVE RulesInv'
  BY <1>11, UpstreamDelKeeps
<1>12. CASE Reload
  BY <1>12, ReloadKeeps
<1>13. CASE UNCHANGED vars
  <2>1. UNCHANGED <<world, obj, table, news, rm, deps, upstream, refused>>
    BY <1>13 DEF vars
  <2>2. /\ Types' /\ NetHolds'
        /\ \A j \in world.ifs : /\ Addressed(j)' <=> Addressed(j)
                                /\ Serving(j)' <=> Serving(j)
    BY <2>1, ObjectsStay
  <2>3. DepHolds'
    BY <2>1, <2>2, DepQuiet DEF RulesInv, DepHolds
  <2> QED BY <2>2, <2>3 DEF RulesInv
<1> QED BY <1>1, <1>2, <1>3, <1>4, <1>5, <1>6, <1>7, <1>8, <1>9, <1>10, <1>11, <1>12, <1>13 DEF Next

\* The invariant holds in every reachable state.
LEMMA Always == Spec => []RulesInv
BY InitHolds, NextKeeps, PTL DEF Spec

\* Type correctness; besides, the table of private subnets never has an entry twice, and an
\* object that holds a route of an IPv6 address is of that family.
THEOREM TypeCorrect == Spec => []Types
<1>1. RulesInv => Types
  BY DEF RulesInv
<1> QED BY <1>1, Always, PTL

\* The kernel's dependencies are those of the resources in use, whatever comes and goes in what
\* order (IPACM_Config's AddRmDepend and DelRmDepend), while no call is refused and no two
\* interfaces share a producer.  The one assumption is that eMBMS is not opened besides the
\* routes of both families, which the counter of the modem's users does not stand.
THEOREM DependenciesFollow == "third" \notin Allowed => (Spec => []DependenciesAgree)
<1> SUFFICES ASSUME "third" \notin Allowed PROVE Spec => []DependenciesAgree
  OBVIOUS
<1>1. RulesInv => DependenciesAgree
  <2> SUFFICES ASSUME RulesInv, refused = <<>>, OneEach
               PROVE  deps = UNION {Pair(e) : e \in {d \in Entries : InUse(RmTable[d].p1) /\
                                                                     InUse(RmTable[d].c1)}}
    BY DEF DependenciesAgree
  <2>1. Follows(rm.tbl, deps, Used)
    BY DEF RulesInv, DepHolds, DepInv
  <2>2. \A e \in Entries : /\ RmTable[e].p1 \in Used <=> InUse(RmTable[e].p1)
                           /\ RmTable[e].c1 \in Used <=> InUse(RmTable[e].c1)
    BY DEF Used, Sides
  <2>3. {f \in Entries : RmTable[f].p1 \in Used /\ RmTable[f].c1 \in Used}
          = {d \in Entries : InUse(RmTable[d].p1) /\ InUse(RmTable[d].c1)}
    BY <2>2
  <2> QED BY <2>1, <2>3 DEF Follows
<1> QED BY <1>1, Always, PTL

\* Once the events of the private subnets are served, and while no call is refused, the table
\* has the nets of the interfaces and every interface lists the whole of it (IPACM_Config's
\* table, IPACM_Lan's and IPACM_Wlan's handlers of PRIVATE_SUBNET_CHANGE): for any interfaces
\* and nets, as long as no two interfaces are in one net, the table has room, and the file is
\* not read again over it.
THEOREM ListsFollow ==
  Allowed \cap {"shared", "overflow", "reload"} = {} => (Spec => []SubnetsFollow)
<1> SUFFICES ASSUME Allowed \cap {"shared", "overflow", "reload"} = {}
             PROVE  Spec => []SubnetsFollow
  OBVIOUS
<1>1. RulesInv => SubnetsFollow
  <2> SUFFICES ASSUME RulesInv, world.android, refused = <<>>, news = <<>>
               PROVE  /\ Range(table) = {file} \cup {obj[i].net : i \in On}
                      /\ \A i \in On : obj[i].lists = Listing(table)
    BY DEF SubnetsFollow, On
  <2>1. NetInv
    BY DEF RulesInv, NetHolds
  <2>2. \A i \in On : ~OthersTold(i)
    BY DEF OthersTold
  <2> QED BY <2>1, <2>2 DEF NetInv
<1> QED BY <1>1, Always, PTL
=============================================================================
