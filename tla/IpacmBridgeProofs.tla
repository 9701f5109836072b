------------------------- MODULE IpacmBridgeProofs -------------------------
(* That the bridge's rules are the ideal ones, its peers mutual and its     *)
(* clients those of the interfaces: for any interfaces, clients, size of    *)
(* the cache, bound and worlds.                                             *)
EXTENDS IpacmBridge, FiniteSetTheorems, TLAPS

-----------------------------------------------------------------------------
(* The controller's interfaces *)

IfaceRec == [assigned : SUBSET Fams, clients : SUBSET Macs, peers : SUBSET Ifaces,
             inter : BOOLEAN, intra : BOOLEAN, ref : [Types -> Int]]

Typed(m) == DOMAIN m \subseteq Ifaces /\ m \in [DOMAIN m -> IfaceRec]

\* The peers of an interface with a header.
PeersOfType(m, i, t) == {k \in m[i].peers : L2[k] = t}

\* An interface that may be bridged has all others of that kind as its peers, the others
\* have none, and the contexts count the peers of each header.
Links(m) ==
  \A i \in DOMAIN m :
    /\ m[i].peers = {j \in DOMAIN m \ {i} : m[i].inter /\ m[j].inter}
    /\ m[i].intra <=> i \in Wlans
    /\ \A t \in Types : m[i].ref[t] = Cardinality(PeersOfType(m, i, t))

\* What the steps do to the interfaces: one comes, one goes, one gets an address, the
\* clients of one change.
Came(m, n, i, f, cs) ==
  /\ i \in Ifaces \ DOMAIN m /\ DOMAIN n = DOMAIN m \cup {i}
  /\ n[i].assigned = {f} /\ n[i].clients = cs /\ n[i].inter = (i \notin guests)
  /\ n[i].intra = (i \in Wlans) /\ n[i].peers = (IF i \in guests THEN {} ELSE DOMAIN m)
  /\ \A t \in Types : n[i].ref[t] = Cardinality(PeersOfType(n, i, t))
  /\ \A j \in DOMAIN m :
       /\ n[j].assigned = m[j].assigned /\ n[j].clients = m[j].clients
       /\ n[j].inter = m[j].inter /\ n[j].intra = m[j].intra
       /\ i \in guests => n[j].peers = m[j].peers /\ n[j].ref = m[j].ref
       /\ i \notin guests => /\ n[j].peers = m[j].peers \cup {i}
                             /\ \A t \in Types : n[j].ref[t] = IF t = L2[i] THEN m[j].ref[t] + 1
                                                               ELSE m[j].ref[t]

Left(m, n, i) ==
  /\ i \in DOMAIN m /\ DOMAIN n = DOMAIN m \ {i}
  /\ \A j \in DOMAIN n :
       /\ n[j].assigned = m[j].assigned /\ n[j].clients = m[j].clients
       /\ n[j].inter = m[j].inter /\ n[j].intra = m[j].intra
       /\ ~(j \in m[i].peers /\ m[i].inter) => n[j].peers = m[j].peers /\ n[j].ref = m[j].ref
       /\ j \in m[i].peers /\ m[i].inter =>
            /\ n[j].peers = m[j].peers \ {i}
            /\ \A t \in Types : n[j].ref[t] = IF t = L2[i] THEN m[j].ref[t] - 1 ELSE m[j].ref[t]

Changed(m, n, i, fs, cs) ==
  /\ i \in DOMAIN m /\ DOMAIN n = DOMAIN m
  /\ n[i].assigned = fs /\ n[i].clients = cs
  /\ \A j \in DOMAIN m :
       /\ j # i => n[j].assigned = m[j].assigned /\ n[j].clients = m[j].clients
       /\ n[j].inter = m[j].inter /\ n[j].intra = m[j].intra
       /\ n[j].peers = m[j].peers /\ n[j].ref = m[j].ref

LEMMA Relinked ==
  ASSUME NEW r \in IfaceRec, NEW i \in Ifaces
  PROVE  /\ [r EXCEPT !.peers = @ \cup {i}, !.ref[L2[i]] = @ + 1] \in IfaceRec
         /\ [r EXCEPT !.peers = @ \ {i}, !.ref[L2[i]] = @ - 1] \in IfaceRec
<1>1. /\ r.assigned \in SUBSET Fams /\ r.clients \in SUBSET Macs /\ r.peers \in SUBSET Ifaces
      /\ r.inter \in BOOLEAN /\ r.intra \in BOOLEAN /\ r.ref \in [Types -> Int]
  BY DEF IfaceRec
<1>2. L2[i] \in Types BY DEF Types
<1>3. /\ [r.ref EXCEPT ![L2[i]] = @ + 1] \in [Types -> Int]
      /\ [r.ref EXCEPT ![L2[i]] = @ - 1] \in [Types -> Int]
  BY <1>1, <1>2
<1>4. ASSUME NEW p \in SUBSET Ifaces, NEW g \in [Types -> Int]
      PROVE  [r EXCEPT !.peers = p, !.ref = g] \in IfaceRec
  BY DEF IfaceRec
<1>5. r.peers \cup {i} \in SUBSET Ifaces /\ r.peers \ {i} \in SUBSET Ifaces BY <1>1
<1>6. [r EXCEPT !.peers = @ \cup {i}, !.ref[L2[i]] = @ + 1]
      = [r EXCEPT !.peers = r.peers \cup {i}, !.ref = [r.ref EXCEPT ![L2[i]] = @ + 1]]
  BY DEF IfaceRec
<1>7. [r EXCEPT !.peers = @ \ {i}, !.ref[L2[i]] = @ - 1]
      = [r EXCEPT !.peers = r.peers \ {i}, !.ref = [r.ref EXCEPT ![L2[i]] = @ - 1]]
  BY DEF IfaceRec
<1> QED BY <1>3, <1>4, <1>5, <1>6, <1>7

\* The steps of the code are these.
LEMMA LinkedComes ==
  ASSUME Typed(m_iface), NEW i \in Ifaces, i \notin Up, NEW f \in Fams, NEW cs \in SUBSET Macs,
         m_iface' = [Linked(i, f) EXCEPT ![i].clients = cs]
  PROVE  Typed(m_iface') /\ Came(m_iface, m_iface', i, f, cs)
<1> DEFINE m == Linked(i, f)
           n == [m EXCEPT ![i].clients = cs]
<1>1. IsFiniteSet(Ifaces) /\ L2 \in [Ifaces -> STRING] BY FiniteAssumption, IfacesAssumption
<1>2. Up \subseteq Ifaces /\ Others(i) \subseteq Up /\ i \notin Others(i)
      /\ Others(i) = (IF i \in guests THEN {} ELSE Up)
  BY DEF Typed, Up, Others
<1>3. \A j \in Ifaces : L2[j] \in Types BY DEF Types
<1>4. \A t \in Types : Cardinality({k \in Others(i) : L2[k] = t}) \in Nat
  BY <1>1, <1>2, FS_Subset, FS_CardinalityType
<1>5. DOMAIN m = Up \cup {i} BY DEF Linked
<1>6. m[i] = [assigned |-> {f}, clients |-> {}, peers |-> Others(i), inter |-> i \notin guests,
              intra |-> i \in Wlans,
              ref |-> [t \in Types |-> Cardinality({k \in Others(i) : L2[k] = t})]]
  BY DEF Linked
<1>7. \A j \in Up : m_iface[j] \in IfaceRec BY DEF Typed, Up
<1>8. \A j \in Others(i) : m[j] = [m_iface[j] EXCEPT !.peers = @ \cup {i}, !.ref[L2[i]] = @ + 1]
  BY <1>2 DEF Linked
<1>9. \A j \in Up \ Others(i) : m[j] = m_iface[j] BY <1>2 DEF Linked
<1> DEFINE refs == [t \in Types |-> Cardinality({k \in Others(i) : L2[k] = t})]
<1>10. refs \in [Types -> Int] BY <1>4
<1> HIDE DEF refs
<1>11. n[i] = [assigned |-> {f}, clients |-> cs, peers |-> Others(i), inter |-> i \notin guests,
               intra |-> i \in Wlans, ref |-> refs]
  <2>1. n[i] = [m[i] EXCEPT !.clients = cs] BY <1>5
  <2>2. m[i] = [assigned |-> {f}, clients |-> {}, peers |-> Others(i), inter |-> i \notin guests,
                intra |-> i \in Wlans, ref |-> refs]
    BY <1>6 DEF refs
  <2> HIDE DEF m, n
  <2> QED BY <2>1, <2>2
<1>12. DOMAIN n = Up \cup {i} /\ \A j \in Up : n[j] = m[j] BY <1>5
<1> HIDE DEF m
<1>13. n[i] \in IfaceRec
  <2>1. {f} \in SUBSET Fams /\ Others(i) \in SUBSET Ifaces BY <1>2
  <2> HIDE DEF n
  <2> QED BY <1>10, <1>11, <2>1 DEF IfaceRec
<1>14. \A j \in Up : n[j] \in IfaceRec
  <2> SUFFICES ASSUME NEW j \in Up PROVE n[j] \in IfaceRec OBVIOUS
  <2>1. CASE j \in Others(i)
    <3>1. n[j] = [m_iface[j] EXCEPT !.peers = @ \cup {i}, !.ref[L2[i]] = @ + 1]
      BY <2>1, <1>8, <1>12
    <3>2. m_iface[j] \in IfaceRec BY <1>7
    <3> QED BY <3>1, <3>2, <1>3, Relinked
  <2>2. CASE j \notin Others(i) BY <2>2, <1>7, <1>9, <1>12
  <2> QED BY <2>1, <2>2
<1>15. m_iface' = n BY DEF m
<1>16. Typed(m_iface')
  <2> HIDE DEF n
  <2>1. n = [j \in DOMAIN n |-> n[j]] BY <1>12, <1>15 DEF m, n
  <2>2. DOMAIN n \subseteq Ifaces BY <1>12, <1>2
  <2>3. \A j \in DOMAIN n : n[j] \in IfaceRec BY <1>12, <1>13, <1>14
  <2> QED BY <2>1, <2>2, <2>3, <1>15 DEF Typed
<1>17. Came(m_iface, n, i, f, cs)
  <2> HIDE DEF n
  <2>1. i \in Ifaces \ DOMAIN m_iface /\ DOMAIN n = DOMAIN m_iface \cup {i} BY <1>12 DEF Up
  <2>2. /\ n[i].assigned = {f} /\ n[i].clients = cs /\ n[i].inter = (i \notin guests)
        /\ n[i].intra = (i \in Wlans) /\ n[i].peers = (IF i \in guests THEN {} ELSE DOMAIN m_iface)
    BY <1>2, <1>11 DEF Up
  <2>3. \A t \in Types : n[i].ref[t] = Cardinality(PeersOfType(n, i, t))
    <3> SUFFICES ASSUME NEW t \in Types PROVE n[i].ref[t] = Cardinality(PeersOfType(n, i, t))
      OBVIOUS
    <3>1. n[i].peers = Others(i) /\ n[i].ref = refs BY <1>11
    <3>2. PeersOfType(n, i, t) = {k \in Others(i) : L2[k] = t} BY <3>1 DEF PeersOfType
    <3>3. refs[t] = Cardinality({k \in Others(i) : L2[k] = t}) BY DEF refs
    <3> QED BY <3>1, <3>2, <3>3
  <2>4. ASSUME NEW j \in DOMAIN m_iface
        PROVE  /\ n[j].assigned = m_iface[j].assigned /\ n[j].clients = m_iface[j].clients
               /\ n[j].inter = m_iface[j].inter /\ n[j].intra = m_iface[j].intra
               /\ i \in guests => n[j].peers = m_iface[j].peers /\ n[j].ref = m_iface[j].ref
               /\ i \notin guests =>
                    /\ n[j].peers = m_iface[j].peers \cup {i}
                    /\ \A t \in Types : n[j].ref[t] = IF t = L2[i] THEN m_iface[j].ref[t] + 1
                                                      ELSE m_iface[j].ref[t]
    <3>0. j \in Up /\ m_iface[j] \in IfaceRec BY <1>7 DEF Up
    <3>1. CASE i \in guests
      <4>1. n[j] = m_iface[j] BY <3>0, <3>1, <1>2, <1>9, <1>12
      <4> QED BY <4>1, <3>1
    <3>2. CASE i \notin guests
      <4>1. n[j] = [m_iface[j] EXCEPT !.peers = @ \cup {i}, !.ref[L2[i]] = @ + 1]
        BY <3>0, <3>2, <1>2, <1>8, <1>12
      <4> QED BY <4>1, <3>0, <3>2 DEF IfaceRec
    <3> QED BY <3>1, <3>2
  <2> QED BY <2>1, <2>2, <2>3, <2>4, Zenon DEF Came
<1> QED BY <1>15, <1>16, <1>17

LEMMA UnlinkedLeaves ==
  ASSUME Typed(m_iface), NEW i \in Up, m_iface' = Unlinked(i, L2[i])
  PROVE  Typed(m_iface') /\ Left(m_iface, m_iface', i)
<1> DEFINE n == Unlinked(i, L2[i])
           linked(j) == j \in m_iface[i].peers /\ m_iface[i].inter
<1>1. DOMAIN n = Up \ {i} /\ n = [j \in Up \ {i} |-> n[j]] BY DEF Unlinked
<1>2. \A j \in Up \ {i} : linked(j) =>
        n[j] = [m_iface[j] EXCEPT !.peers = @ \ {i}, !.ref[L2[i]] = @ - 1]
  BY DEF Unlinked
<1>3. \A j \in Up \ {i} : ~linked(j) => n[j] = m_iface[j] BY DEF Unlinked
<1>4. Up \subseteq Ifaces /\ \A j \in Up : m_iface[j] \in IfaceRec BY DEF Typed, Up
<1> HIDE DEF n
<1>5. \A j \in Up \ {i} : n[j] \in IfaceRec
  <2> SUFFICES ASSUME NEW j \in Up \ {i} PROVE n[j] \in IfaceRec OBVIOUS
  <2>1. CASE linked(j)
    <3>1. n[j] = [m_iface[j] EXCEPT !.peers = @ \ {i}, !.ref[L2[i]] = @ - 1] BY <2>1, <1>2
    <3>2. m_iface[j] \in IfaceRec /\ i \in Ifaces BY <1>4
    <3>3. [m_iface[j] EXCEPT !.peers = @ \ {i}, !.ref[L2[i]] = @ - 1] \in IfaceRec
      BY ONLY <3>2, Relinked
    <3> QED BY ONLY <3>1, <3>3
  <2>2. CASE ~linked(j) BY <2>2, <1>3, <1>4
  <2> QED BY <2>1, <2>2
<1>6. Typed(n)
  <2>1. DOMAIN n \subseteq Ifaces BY <1>1, <1>4
  <2> QED BY <1>1, <1>5, <2>1 DEF Typed
<1>7. ASSUME NEW j \in DOMAIN n
      PROVE  /\ n[j].assigned = m_iface[j].assigned /\ n[j].clients = m_iface[j].clients
             /\ n[j].inter = m_iface[j].inter /\ n[j].intra = m_iface[j].intra
             /\ ~(j \in m_iface[i].peers /\ m_iface[i].inter) =>
                  n[j].peers = m_iface[j].peers /\ n[j].ref = m_iface[j].ref
             /\ j \in m_iface[i].peers /\ m_iface[i].inter =>
                  /\ n[j].peers = m_iface[j].peers \ {i}
                  /\ \A t \in Types : n[j].ref[t] = IF t = L2[i] THEN m_iface[j].ref[t] - 1
                                                    ELSE m_iface[j].ref[t]
  <2>0. j \in Up \ {i} /\ m_iface[j] \in IfaceRec BY <1>1, <1>4
  <2>1. CASE linked(j)
    <3>1. n[j] = [m_iface[j] EXCEPT !.peers = @ \ {i}, !.ref[L2[i]] = @ - 1] BY <2>0, <2>1, <1>2
    <3> QED BY <3>1, <2>0, <2>1 DEF IfaceRec
  <2>2. CASE ~linked(j)
    <3>1. n[j] = m_iface[j] BY <2>0, <2>2, <1>3
    <3> QED BY <3>1, <2>2
  <2> QED BY <2>1, <2>2
<1>8. i \in DOMAIN m_iface /\ DOMAIN n = DOMAIN m_iface \ {i} BY <1>1 DEF Up
<1>9. Left(m_iface, n, i) BY <1>7, <1>8, Zenon DEF Left
<1> QED BY <1>6, <1>9 DEF n

LEMMA ChangedInPlace ==
  ASSUME Typed(m_iface), NEW i \in Up, NEW fs \in SUBSET Fams, NEW cs \in SUBSET Macs,
         \/ /\ m_iface' = [m_iface EXCEPT ![i].assigned = fs] /\ cs = m_iface[i].clients
         \/ /\ m_iface' = [m_iface EXCEPT ![i].clients = cs] /\ fs = m_iface[i].assigned
  PROVE  Typed(m_iface') /\ Changed(m_iface, m_iface', i, fs, cs)
<1> DEFINE n == m_iface'
<1>1. Up \subseteq Ifaces /\ \A j \in Up : m_iface[j] \in IfaceRec BY DEF Typed, Up
<1>2. m_iface = [j \in Up |-> m_iface[j]] BY DEF Typed, Up
<1>3. DOMAIN n = Up /\ n = [j \in Up |-> n[j]] /\ \A j \in Up \ {i} : n[j] = m_iface[j]
  BY <1>2
<1>4. \/ n[i] = [m_iface[i] EXCEPT !.assigned = fs] /\ cs = m_iface[i].clients
      \/ n[i] = [m_iface[i] EXCEPT !.clients = cs] /\ fs = m_iface[i].assigned
  BY <1>2
<1> HIDE DEF n
<1>5. m_iface[i] \in IfaceRec BY <1>1
<1>6. n[i] \in IfaceRec BY <1>4, <1>5 DEF IfaceRec
<1>7. /\ n[i].assigned = fs /\ n[i].clients = cs /\ n[i].inter = m_iface[i].inter
      /\ n[i].intra = m_iface[i].intra /\ n[i].peers = m_iface[i].peers
      /\ n[i].ref = m_iface[i].ref
  BY <1>4, <1>5 DEF IfaceRec
<1>8. Typed(n)
  <2>1. \A j \in Up : n[j] \in IfaceRec BY <1>1, <1>3, <1>6
  <2> QED BY <1>1, <1>3, <2>1 DEF Typed
<1>9. Changed(m_iface, n, i, fs, cs)
  <2>1. i \in DOMAIN m_iface /\ DOMAIN n = DOMAIN m_iface BY <1>3 DEF Up
  <2>2. ASSUME NEW j \in DOMAIN m_iface
        PROVE  /\ j # i => n[j].assigned = m_iface[j].assigned /\ n[j].clients = m_iface[j].clients
               /\ n[j].inter = m_iface[j].inter /\ n[j].intra = m_iface[j].intra
               /\ n[j].peers = m_iface[j].peers /\ n[j].ref = m_iface[j].ref
    BY <1>3, <1>7 DEF Up
  <2> QED BY <1>7, <2>1, <2>2, Zenon DEF Changed
<1> QED BY <1>8, <1>9 DEF n

\* An interface's peers are finitely many, of each header too.
LEMMA FinitePeers ==
  ASSUME NEW m, Typed(m), NEW i \in DOMAIN m, NEW t
  PROVE  IsFiniteSet(m[i].peers) /\ IsFiniteSet(PeersOfType(m, i, t))
         /\ Cardinality(PeersOfType(m, i, t)) \in Nat
<1>1. IsFiniteSet(Ifaces) BY FiniteAssumption
<1>2. m[i].peers \subseteq Ifaces BY DEF Typed, IfaceRec
<1>3. PeersOfType(m, i, t) \subseteq Ifaces BY <1>2 DEF PeersOfType
<1> QED BY <1>1, <1>2, <1>3, FS_Subset, FS_CardinalityType

LEMMA MutualPeers ==
  ASSUME NEW m, Links(m), NEW i \in DOMAIN m, NEW j \in m[i].peers
  PROVE  /\ j \in DOMAIN m /\ i # j /\ i \in m[j].peers
         /\ m[i].inter /\ m[j].inter
BY DEF Links

LEMMA ComingLinks ==
  ASSUME NEW m, NEW n, NEW i, NEW f, NEW cs, Typed(m), Links(m), Came(m, n, i, f, cs),
         i \notin guests => \A j \in DOMAIN m : m[j].inter
  PROVE  Links(n)
<1>1. /\ i \notin DOMAIN m /\ DOMAIN n = DOMAIN m \cup {i} /\ n[i].inter = (i \notin guests)
      /\ n[i].intra = (i \in Wlans) /\ n[i].peers = (IF i \in guests THEN {} ELSE DOMAIN m)
      /\ \A t \in Types : n[i].ref[t] = Cardinality(PeersOfType(n, i, t))
  BY DEF Came
<1>2. \A j \in DOMAIN m :
        /\ n[j].inter = m[j].inter /\ n[j].intra = m[j].intra
        /\ i \in guests => n[j].peers = m[j].peers /\ n[j].ref = m[j].ref
        /\ i \notin guests => /\ n[j].peers = m[j].peers \cup {i}
                              /\ \A t \in Types : n[j].ref[t] = IF t = L2[i] THEN m[j].ref[t] + 1
                                                                ELSE m[j].ref[t]
  BY DEF Came
<1>3. \A j \in DOMAIN m : /\ m[j].peers = {k \in DOMAIN m \ {j} : m[j].inter /\ m[k].inter}
                          /\ m[j].intra <=> j \in Wlans
                          /\ \A t \in Types : m[j].ref[t] = Cardinality(PeersOfType(m, j, t))
  BY DEF Links
<1>4. \A j \in DOMAIN n : n[j].intra <=> j \in Wlans BY <1>1, <1>2, <1>3
<1>5. \A j \in DOMAIN n : n[j].peers = {k \in DOMAIN n \ {j} : n[j].inter /\ n[k].inter}
  <2>1. n[i].peers = {k \in DOMAIN n \ {i} : n[i].inter /\ n[k].inter}
    <3>1. CASE i \in guests BY <3>1, <1>1
    <3>2. CASE i \notin guests BY <3>2, <1>1, <1>2
    <3> QED BY <3>1, <3>2
  <2>2. ASSUME NEW j \in DOMAIN m
        PROVE  n[j].peers = {k \in DOMAIN n \ {j} : n[j].inter /\ n[k].inter}
    <3>0. m[j].peers = {k \in DOMAIN m \ {j} : m[j].inter /\ m[k].inter} /\ j # i BY <1>1, <1>3
    <3>1. ASSUME NEW k
          PROVE  k \in n[j].peers <=> k \in DOMAIN n \ {j} /\ n[j].inter /\ n[k].inter
      <4>1. CASE i \in guests
        <5>1. n[j].peers = m[j].peers /\ n[j].inter = m[j].inter BY <4>1, <1>2
        <5>2. CASE k = i BY <5>1, <5>2, <3>0, <4>1, <1>1
        <5>3. CASE k \in DOMAIN m
          <6>1. n[k].inter = m[k].inter BY <5>3, <1>2
          <6> QED BY <5>1, <5>3, <6>1, <3>0, <1>1
        <5>4. CASE k # i /\ k \notin DOMAIN m BY <5>1, <5>4, <3>0, <1>1
        <5> QED BY <5>2, <5>3, <5>4
      <4>2. CASE i \notin guests
        <5>1. n[j].peers = m[j].peers \cup {i} /\ n[j].inter = m[j].inter BY <4>2, <1>2
        <5>2. CASE k = i
          <6>1. n[j].inter BY <4>2, <5>1
          <6> QED BY <5>1, <5>2, <6>1, <3>0, <4>2, <1>1
        <5>3. CASE k \in DOMAIN m
          <6>1. n[k].inter = m[k].inter BY <5>3, <1>2
          <6> QED BY <5>1, <5>3, <6>1, <3>0, <1>1
        <5>4. CASE k # i /\ k \notin DOMAIN m BY <5>1, <5>4, <3>0, <1>1
        <5> QED BY <5>2, <5>3, <5>4
      <4> QED BY <4>1, <4>2
    <3> QED BY <3>1
  <2> QED BY <2>1, <2>2, <1>1
<1>6. ASSUME NEW j \in DOMAIN m, NEW t \in Types
      PROVE  n[j].ref[t] = Cardinality(PeersOfType(n, j, t))
  <2>1. IsFiniteSet(PeersOfType(m, j, t)) BY FinitePeers
  <2>2. i \notin PeersOfType(m, j, t) BY <1>1, <1>3 DEF PeersOfType
  <2>3. CASE i \in guests \/ t # L2[i]
    <3>1. PeersOfType(n, j, t) = PeersOfType(m, j, t) BY <2>3, <1>2 DEF PeersOfType
    <3> QED BY <2>3, <3>1, <1>2, <1>3
  <2>4. CASE i \notin guests /\ t = L2[i]
    <3>1. PeersOfType(n, j, t) = PeersOfType(m, j, t) \cup {i} BY <2>4, <1>2 DEF PeersOfType
    <3>2. Cardinality(PeersOfType(n, j, t)) = Cardinality(PeersOfType(m, j, t)) + 1
      BY <2>1, <2>2, <3>1, FS_AddElement
    <3> QED BY <2>4, <3>2, <1>2, <1>3
  <2> QED BY <2>3, <2>4
<1> QED BY <1>1, <1>4, <1>5, <1>6 DEF Links

LEMMA LeavingLinks ==
  ASSUME NEW m, NEW n, NEW i, Typed(m), Links(m), Left(m, n, i)
  PROVE  Links(n)
<1>1. i \in DOMAIN m /\ DOMAIN n = DOMAIN m \ {i} BY DEF Left
<1>2. \A j \in DOMAIN n :
        /\ n[j].inter = m[j].inter /\ n[j].intra = m[j].intra
        /\ ~(j \in m[i].peers /\ m[i].inter) => n[j].peers = m[j].peers /\ n[j].ref = m[j].ref
        /\ j \in m[i].peers /\ m[i].inter =>
             /\ n[j].peers = m[j].peers \ {i}
             /\ \A t \in Types : n[j].ref[t] = IF t = L2[i] THEN m[j].ref[t] - 1 ELSE m[j].ref[t]
  BY DEF Left
<1>3. \A j \in DOMAIN m : /\ m[j].peers = {k \in DOMAIN m \ {j} : m[j].inter /\ m[k].inter}
                          /\ m[j].intra <=> j \in Wlans
                          /\ \A t \in Types : m[j].ref[t] = Cardinality(PeersOfType(m, j, t))
  BY DEF Links
<1>4. \A j \in DOMAIN n : n[j].intra <=> j \in Wlans BY <1>1, <1>2, <1>3
<1>5. ASSUME NEW j \in DOMAIN n
      PROVE  n[j].peers = {k \in DOMAIN n \ {j} : n[j].inter /\ n[k].inter}
  <2>1. CASE j \in m[i].peers /\ m[i].inter BY <2>1, <1>1, <1>2, <1>3
  <2>2. CASE ~(j \in m[i].peers /\ m[i].inter)
    <3>1. i \notin m[j].peers BY <2>2, <1>1, <1>3
    <3> QED BY <2>2, <3>1, <1>1, <1>2, <1>3
  <2> QED BY <2>1, <2>2
<1>6. ASSUME NEW j \in DOMAIN n, NEW t \in Types
      PROVE  n[j].ref[t] = Cardinality(PeersOfType(n, j, t))
  <2>0. j \in DOMAIN m /\ j # i BY <1>1
  <2>1. IsFiniteSet(PeersOfType(m, j, t)) BY <2>0, FinitePeers
  <2>2. CASE j \in m[i].peers /\ m[i].inter /\ t = L2[i]
    <3>1. PeersOfType(n, j, t) = PeersOfType(m, j, t) \ {i} BY <2>2, <1>2 DEF PeersOfType
    <3>2. i \in PeersOfType(m, j, t) BY <2>0, <2>2, <1>1, <1>3 DEF PeersOfType
    <3>3. Cardinality(PeersOfType(n, j, t)) = Cardinality(PeersOfType(m, j, t)) - 1
      BY <2>1, <3>1, <3>2, FS_RemoveElement
    <3> QED BY <2>0, <2>2, <3>3, <1>2, <1>3
  <2>3. CASE ~(j \in m[i].peers /\ m[i].inter /\ t = L2[i])
    <3>1. PeersOfType(n, j, t) = PeersOfType(m, j, t) BY <2>3, <1>2 DEF PeersOfType
    <3> QED BY <2>0, <2>3, <3>1, <1>2, <1>3
  <2> QED BY <2>2, <2>3
<1> QED BY <1>4, <1>5, <1>6 DEF Links

LEMMA ChangingLinks ==
  ASSUME NEW m, NEW n, NEW i, NEW fs, NEW cs, Links(m), Changed(m, n, i, fs, cs)
  PROVE  Links(n)
<1>1. DOMAIN n = DOMAIN m BY DEF Changed
<1>2. \A j \in DOMAIN m : n[j].inter = m[j].inter /\ n[j].intra = m[j].intra
                          /\ n[j].peers = m[j].peers /\ n[j].ref = m[j].ref
  BY DEF Changed
<1>3. \A j \in DOMAIN m, t \in Types : PeersOfType(n, j, t) = PeersOfType(m, j, t)
  BY <1>2 DEF PeersOfType
<1>4. ASSUME NEW j \in DOMAIN n
      PROVE  /\ n[j].peers = {k \in DOMAIN n \ {j} : n[j].inter /\ n[k].inter}
             /\ n[j].intra <=> j \in Wlans
             /\ \A t \in Types : n[j].ref[t] = Cardinality(PeersOfType(n, j, t))
  <2>1. /\ m[j].peers = {k \in DOMAIN m \ {j} : m[j].inter /\ m[k].inter}
        /\ m[j].intra <=> j \in Wlans
        /\ \A t \in Types : m[j].ref[t] = Cardinality(PeersOfType(m, j, t))
    BY <1>1 DEF Links
  <2> QED BY <2>1, <1>1, <1>2, <1>3
<1> QED BY <1>4 DEF Links

-----------------------------------------------------------------------------
(* The rules *)

\* The headers an interface has a context for, and the interfaces whose clients its
\* frames reach.
Headers(m, i) == {L2[j] : j \in m[i].peers} \cup {t \in {Intra} : m[i].intra}
Reached(m, i) == m[i].peers \cup {j \in {i} : m[i].intra}

\* The rules the bridge promises when the interfaces are m.
RulesOf(m, i) ==
  {Ctx(i, t) : t \in Headers(m, i)} \cup ClientRt(i, m[i].clients, Headers(m, i))
  \cup UNION {ClientFlt(i, j, m[j].clients, m[i].assigned) : j \in Reached(m, i)}
RulesFor(m) == UNION {RulesOf(m, i) : i \in DOMAIN m}

IsRule(r) == \/ \E i, t : r = Ctx(i, t)
             \/ \E i, c, t : r = Rt(i, c, t)
             \/ \E i, j, c, f : r = Flt(i, j, c, f)

\* Rules of different kinds differ, and so do rules of one kind with different fields.
LEMMA RulesDiffer ==
  /\ \A i, t, i2, t2 : Ctx(i, t) = Ctx(i2, t2) <=> i = i2 /\ t = t2
  /\ \A i, c, t, i2, c2, t2 : Rt(i, c, t) = Rt(i2, c2, t2) <=> i = i2 /\ c = c2 /\ t = t2
  /\ \A i, j, c, f, i2, j2, c2, f2 :
       Flt(i, j, c, f) = Flt(i2, j2, c2, f2) <=> i = i2 /\ j = j2 /\ c = c2 /\ f = f2
  /\ \A i, t, i2, c2, t2 : Ctx(i, t) # Rt(i2, c2, t2)
  /\ \A i, t, i2, j2, c2, f2 : Ctx(i, t) # Flt(i2, j2, c2, f2)
  /\ \A i, c, t, i2, j2, c2, f2 : Rt(i, c, t) # Flt(i2, j2, c2, f2)
<1>1. \A i, t : Ctx(i, t).what = "ctx" /\ Ctx(i, t).on = i /\ Ctx(i, t).type = t BY DEF Ctx
<1>2. \A i, c, t : /\ Rt(i, c, t).what = "rt" /\ Rt(i, c, t).on = i
                   /\ Rt(i, c, t).client = c /\ Rt(i, c, t).type = t
  BY DEF Rt
<1>3. \A i, j, c, f : /\ Flt(i, j, c, f).what = "flt" /\ Flt(i, j, c, f).on = i
                      /\ Flt(i, j, c, f).peer = j /\ Flt(i, j, c, f).client = c
                      /\ Flt(i, j, c, f).ip = f
  BY DEF Flt
<1>4. "ctx" # "rt" /\ "ctx" # "flt" /\ "rt" # "flt" OBVIOUS
<1>5. \A i, t, i2, t2 : Ctx(i, t) = Ctx(i2, t2) <=> i = i2 /\ t = t2 BY <1>1
<1>6. \A i, c, t, i2, c2, t2 : Rt(i, c, t) = Rt(i2, c2, t2) <=> i = i2 /\ c = c2 /\ t = t2
  BY <1>2
<1>7. \A i, j, c, f, i2, j2, c2, f2 :
        Flt(i, j, c, f) = Flt(i2, j2, c2, f2) <=> i = i2 /\ j = j2 /\ c = c2 /\ f = f2
  BY <1>3
<1>8. \A i, t, i2, c2, t2 : Ctx(i, t) # Rt(i2, c2, t2) BY <1>1, <1>2, <1>4
<1>9. \A i, t, i2, j2, c2, f2 : Ctx(i, t) # Flt(i2, j2, c2, f2) BY <1>1, <1>3, <1>4
<1>10. \A i, c, t, i2, j2, c2, f2 : Rt(i, c, t) # Flt(i2, j2, c2, f2)
  BY <1>2, <1>3, <1>4
<1> QED BY <1>5, <1>6, <1>7, <1>8, <1>9, <1>10

LEMMA RuleFields ==
  /\ \A i, t : Ctx(i, t).what = "ctx" /\ Ctx(i, t).on = i
  /\ \A i, c, t : Rt(i, c, t).what = "rt" /\ Rt(i, c, t).on = i /\ Rt(i, c, t).client = c
  /\ \A i, j, c, f : /\ Flt(i, j, c, f).what = "flt" /\ Flt(i, j, c, f).on = i
                     /\ Flt(i, j, c, f).peer = j /\ Flt(i, j, c, f).ip = f
  /\ "ctx" # "rt" /\ "flt" # "rt" /\ "ctx" # "flt"
BY DEF Ctx, Rt, Flt

\* Two sets of rules are equal when they agree on every kind.
LEMMA SameRules ==
  ASSUME NEW S, NEW T, \A r \in S : IsRule(r), \A r \in T : IsRule(r),
         \A i, t : Ctx(i, t) \in S <=> Ctx(i, t) \in T,
         \A i, c, t : Rt(i, c, t) \in S <=> Rt(i, c, t) \in T,
         \A i, j, c, f : Flt(i, j, c, f) \in S <=> Flt(i, j, c, f) \in T
  PROVE  S = T
<1>1. \A r : IsRule(r) => (r \in S <=> r \in T) BY DEF IsRule
<1> QED BY <1>1

LEMMA NoCommonRule ==
  ASSUME NEW S, NEW T, \A r \in S : IsRule(r),
         \A i, t : ~(Ctx(i, t) \in S /\ Ctx(i, t) \in T),
         \A i, c, t : ~(Rt(i, c, t) \in S /\ Rt(i, c, t) \in T),
         \A i, j, c, f : ~(Flt(i, j, c, f) \in S /\ Flt(i, j, c, f) \in T)
  PROVE  S \cap T = {}
<1>1. \A r : IsRule(r) => ~(r \in S /\ r \in T) BY DEF IsRule
<1> QED BY <1>1

\* What the sets of routing rules and of filters hold.
LEMMA InClientRt ==
  ASSUME NEW i, NEW cs, NEW ts
  PROVE  /\ \A r \in ClientRt(i, cs, ts) : IsRule(r)
         /\ \A j, t : Ctx(j, t) \notin ClientRt(i, cs, ts)
         /\ \A j, c, t : Rt(j, c, t) \in ClientRt(i, cs, ts) <=> j = i /\ c \in cs /\ t \in ts
         /\ \A j, k, c, f : Flt(j, k, c, f) \notin ClientRt(i, cs, ts)
<1>1. \A r : r \in ClientRt(i, cs, ts) <=> \E c \in cs, t \in ts : r = Rt(i, c, t)
  BY DEF ClientRt
<1>2. \A r \in ClientRt(i, cs, ts) : IsRule(r) BY <1>1 DEF IsRule
<1> QED BY <1>1, <1>2, RulesDiffer

LEMMA InClientFlt ==
  ASSUME NEW i, NEW p, NEW cs, NEW fs
  PROVE  /\ \A r \in ClientFlt(i, p, cs, fs) : IsRule(r)
         /\ \A j, t : Ctx(j, t) \notin ClientFlt(i, p, cs, fs)
         /\ \A j, c, t : Rt(j, c, t) \notin ClientFlt(i, p, cs, fs)
         /\ \A j, k, c, f : Flt(j, k, c, f) \in ClientFlt(i, p, cs, fs)
                              <=> j = i /\ k = p /\ c \in cs /\ f \in fs
<1>1. \A r : r \in ClientFlt(i, p, cs, fs) <=> \E c \in cs, f \in fs : r = Flt(i, p, c, f)
  BY DEF ClientFlt
<1>2. \A r \in ClientFlt(i, p, cs, fs) : IsRule(r) BY <1>1 DEF IsRule
<1> QED BY <1>1, <1>2, RulesDiffer

LEMMA InRulesFor ==
  ASSUME NEW m
  PROVE  /\ \A r \in RulesFor(m) : IsRule(r)
         /\ \A i, t : Ctx(i, t) \in RulesFor(m) <=> i \in DOMAIN m /\ t \in Headers(m, i)
         /\ \A i, c, t : Rt(i, c, t) \in RulesFor(m)
                           <=> i \in DOMAIN m /\ c \in m[i].clients /\ t \in Headers(m, i)
         /\ \A i, j, c, f : Flt(i, j, c, f) \in RulesFor(m)
                              <=> /\ i \in DOMAIN m /\ j \in Reached(m, i)
                                  /\ c \in m[j].clients /\ f \in m[i].assigned
<1>1. \A r : r \in RulesFor(m) <=>
               \E i \in DOMAIN m : \/ \E t \in Headers(m, i) : r = Ctx(i, t)
                                   \/ r \in ClientRt(i, m[i].clients, Headers(m, i))
                                   \/ \E j \in Reached(m, i) :
                                        r \in ClientFlt(i, j, m[j].clients, m[i].assigned)
  BY DEF RulesFor, RulesOf
<1>2. \A r \in RulesFor(m) : IsRule(r)
  <2>1. \A i, t : IsRule(Ctx(i, t)) BY DEF IsRule
  <2> QED BY <1>1, <2>1, InClientRt, InClientFlt
<1>3. \A i, t : Ctx(i, t) \in RulesFor(m) <=> i \in DOMAIN m /\ t \in Headers(m, i)
  BY <1>1, InClientRt, InClientFlt, RulesDiffer
<1>4. \A i, c, t : Rt(i, c, t) \in RulesFor(m)
                     <=> i \in DOMAIN m /\ c \in m[i].clients /\ t \in Headers(m, i)
  BY <1>1, InClientRt, InClientFlt, RulesDiffer
<1>5. \A i, j, c, f : Flt(i, j, c, f) \in RulesFor(m)
                        <=> /\ i \in DOMAIN m /\ j \in Reached(m, i)
                            /\ c \in m[j].clients /\ f \in m[i].assigned
  BY <1>1, InClientRt, InClientFlt, RulesDiffer
<1> QED BY <1>2, <1>3, <1>4, <1>5

\* They are the rules the property promises.
LEMMA IdealIs == Links(m_iface) => IdealRules = RulesFor(m_iface)
<1> SUFFICES ASSUME Links(m_iface) PROVE IdealRules = RulesFor(m_iface) OBVIOUS
<1> DEFINE A1 == {Ctx(p[1], L2[p[2]]) : p \in Bridged}
           A2 == {Ctx(i, Intra) : i \in Meshed}
           A3 == UNION {ClientRt(p[1], m_iface[p[1]].clients, {L2[p[2]]}) : p \in Bridged}
           A4 == UNION {ClientRt(i, m_iface[i].clients, {Intra}) : i \in Meshed}
           A5 == UNION {ClientFlt(p[1], p[2], m_iface[p[2]].clients, m_iface[p[1]].assigned) :
                          p \in Bridged}
           A6 == UNION {ClientFlt(i, i, m_iface[i].clients, m_iface[i].assigned) : i \in Meshed}
<1>1. IdealRules = A1 \cup A2 \cup A3 \cup A4 \cup A5 \cup A6 BY DEF IdealRules
<1>2. /\ \A p \in Bridged : p[1] \in Up /\ p[2] \in m_iface[p[1]].peers
      /\ \A i \in Up : \A j \in m_iface[i].peers : \E p \in Bridged : p[1] = i /\ p[2] = j
  <2>1. \A p \in Bridged : p[1] \in Up /\ p[2] \in m_iface[p[1]].peers
    BY DEF Links, Bridged, Up
  <2>2. ASSUME NEW i \in Up, NEW j \in m_iface[i].peers
        PROVE  \E p \in Bridged : p[1] = i /\ p[2] = j
    <3>1. <<i, j>> \in Bridged BY DEF Links, Bridged, Up
    <3>2. <<i, j>>[1] = i /\ <<i, j>>[2] = j OBVIOUS
    <3> QED BY <3>1, <3>2
  <2> QED BY <2>1, <2>2
<1>3. /\ \A i, t : t \in Headers(m_iface, i)
                     <=> (\E j \in m_iface[i].peers : t = L2[j]) \/ (t = Intra /\ m_iface[i].intra)
      /\ \A i, j : j \in Reached(m_iface, i) <=> j \in m_iface[i].peers \/ (j = i /\ m_iface[i].intra)
  BY DEF Headers, Reached
<1>4. Up = DOMAIN m_iface /\ \A i : i \in Meshed <=> i \in Up /\ m_iface[i].intra BY DEF Up, Meshed
<1>5. \A i, t : IsRule(Ctx(i, t)) BY DEF IsRule
<1>6. \A r : r \in A1 <=> \E i \in Up : \E j \in m_iface[i].peers : r = Ctx(i, L2[j])
  <2>1. \A r : r \in A1 <=> \E p \in Bridged : r = Ctx(p[1], L2[p[2]]) OBVIOUS
  <2> HIDE DEF A1
  <2> QED BY <1>2, <2>1
<1>7. \A r : r \in A2 <=> \E i \in Meshed : r = Ctx(i, Intra) OBVIOUS
<1>8. \A r : r \in A3 <=> \E i \in Up : \E j \in m_iface[i].peers, c \in m_iface[i].clients :
                            r = Rt(i, c, L2[j])
  <2>1. \A r : r \in A3 <=> \E p \in Bridged : \E c \in m_iface[p[1]].clients :
                              r = Rt(p[1], c, L2[p[2]])
    BY DEF ClientRt
  <2> HIDE DEF A3
  <2> QED BY <1>2, <2>1
<1>9. \A r : r \in A4 <=> \E i \in Meshed : \E c \in m_iface[i].clients : r = Rt(i, c, Intra)
  BY DEF ClientRt
<1>10. \A r : r \in A5 <=> \E i \in Up : \E j \in m_iface[i].peers :
                             \E c \in m_iface[j].clients, f \in m_iface[i].assigned :
                               r = Flt(i, j, c, f)
  <2>1. \A r : r \in A5 <=> \E p \in Bridged :
                 \E c \in m_iface[p[2]].clients, f \in m_iface[p[1]].assigned :
                   r = Flt(p[1], p[2], c, f)
    BY DEF ClientFlt
  <2> HIDE DEF A5
  <2> QED BY <1>2, <2>1
<1>11. \A r : r \in A6 <=> \E i \in Meshed :
                             \E c \in m_iface[i].clients, f \in m_iface[i].assigned :
                               r = Flt(i, i, c, f)
  BY DEF ClientFlt
<1> HIDE DEF A1, A2, A3, A4, A5, A6
<1>12. (\A r \in A1 : IsRule(r)) /\ (\A r \in A2 : IsRule(r)) BY <1>5, <1>6, <1>7
<1>13. (\A r \in A3 : IsRule(r)) /\ (\A r \in A4 : IsRule(r)) BY <1>8, <1>9 DEF IsRule
<1>14. (\A r \in A5 : IsRule(r)) /\ (\A r \in A6 : IsRule(r)) BY <1>10, <1>11 DEF IsRule
<1>15. \A r \in IdealRules : IsRule(r) BY <1>1, <1>12, <1>13, <1>14
<1>16. \A i, t : Ctx(i, t) \in IdealRules <=> Ctx(i, t) \in RulesFor(m_iface)
  <2>1. \A i, t : Ctx(i, t) \in A1 <=> i \in Up /\ \E j \in m_iface[i].peers : t = L2[j]
    BY <1>6, RulesDiffer
  <2>2. \A i, t : Ctx(i, t) \in A2 <=> i \in Meshed /\ t = Intra BY <1>7, RulesDiffer
  <2>3. \A i, t : Ctx(i, t) \notin A3 /\ Ctx(i, t) \notin A4 BY <1>8, <1>9, RulesDiffer
  <2>4. \A i, t : Ctx(i, t) \notin A5 /\ Ctx(i, t) \notin A6 BY <1>10, <1>11, RulesDiffer
  <2>5. \A i, t : Ctx(i, t) \in RulesFor(m_iface) <=> i \in Up /\ t \in Headers(m_iface, i)
    BY <1>4, InRulesFor
  <2> QED BY <1>1, <1>3, <1>4, <2>1, <2>2, <2>3, <2>4, <2>5
<1>17. \A i, c, t : Rt(i, c, t) \in IdealRules <=> Rt(i, c, t) \in RulesFor(m_iface)
  <2>1. \A i, c, t : Rt(i, c, t) \notin A1 /\ Rt(i, c, t) \notin A2 BY <1>6, <1>7, RulesDiffer
  <2>2. \A i, c, t : Rt(i, c, t) \in A3
                       <=> /\ i \in Up /\ c \in m_iface[i].clients
                           /\ \E j \in m_iface[i].peers : t = L2[j]
    BY <1>8, RulesDiffer
  <2>3. \A i, c, t : Rt(i, c, t) \in A4 <=> i \in Meshed /\ c \in m_iface[i].clients /\ t = Intra
    BY <1>9, RulesDiffer
  <2>4. \A i, c, t : Rt(i, c, t) \notin A5 /\ Rt(i, c, t) \notin A6 BY <1>10, <1>11, RulesDiffer
  <2>5. \A i, c, t : Rt(i, c, t) \in RulesFor(m_iface)
                       <=> i \in Up /\ c \in m_iface[i].clients /\ t \in Headers(m_iface, i)
    BY <1>4, InRulesFor
  <2> QED BY <1>1, <1>3, <1>4, <2>1, <2>2, <2>3, <2>4, <2>5
<1>18. \A i, j, c, f : Flt(i, j, c, f) \in IdealRules <=> Flt(i, j, c, f) \in RulesFor(m_iface)
  <2>1. \A i, j, c, f : Flt(i, j, c, f) \notin A1 /\ Flt(i, j, c, f) \notin A2
    BY <1>6, <1>7, RulesDiffer
  <2>2. \A i, j, c, f : Flt(i, j, c, f) \notin A3 /\ Flt(i, j, c, f) \notin A4
    BY <1>8, <1>9, RulesDiffer
  <2>3. \A i, j, c, f : Flt(i, j, c, f) \in A5
                          <=> /\ i \in Up /\ j \in m_iface[i].peers
                              /\ c \in m_iface[j].clients /\ f \in m_iface[i].assigned
    BY <1>10, RulesDiffer
  <2>4. \A i, j, c, f : Flt(i, j, c, f) \in A6
                          <=> /\ i \in Meshed /\ j = i
                              /\ c \in m_iface[i].clients /\ f \in m_iface[i].assigned
    BY <1>11, RulesDiffer
  <2>5. \A i, j, c, f : Flt(i, j, c, f) \in RulesFor(m_iface)
                          <=> /\ i \in Up /\ j \in Reached(m_iface, i)
                              /\ c \in m_iface[j].clients /\ f \in m_iface[i].assigned
    BY <1>4, InRulesFor
  <2> QED BY <1>1, <1>3, <1>4, <2>1, <2>2, <2>3, <2>4, <2>5
<1>19. \A r \in RulesFor(m_iface) : IsRule(r) BY InRulesFor
<1> QED BY <1>15, <1>16, <1>17, <1>18, <1>19, SameRules

\* Installing new rules and removing rules held keep the hardware in step with the handles.
LEMMA InstalledAgrees ==
  ASSUME NEW new, hw = SetToBag(held), new \cap held = {}, Installed(new)
  PROVE  held' = held \cup new /\ hw' = SetToBag(held')
BY DEF Installed, SetToBag, (+)

LEMMA RemovedAgrees ==
  ASSUME NEW old, NEW lost, hw = SetToBag(held), lost \subseteq held, lost \subseteq old,
         Removed(old, lost)
  PROVE  held' = held \ old /\ hw' = SetToBag(held')
<1>1. held' = held \ old BY DEF Removed
<1>2. held \ old = held \ (old \cap held) /\ old \cap held \subseteq held OBVIOUS
<1>3. hw' = SetToBag(held) (-) SetToBag(old \cap held) BY DEF Removed
<1> DEFINE gone == old \cap held
<1>4. gone \subseteq held OBVIOUS
<1>5. hw' = SetToBag(held) (-) SetToBag(gone) BY <1>3
<1>6. held' = held \ gone BY <1>1
<1> HIDE DEF gone
<1>7. SetToBag(held) (-) SetToBag(gone) = SetToBag(held \ gone) BY <1>4 DEF SetToBag, (-)
<1> QED BY <1>1, <1>5, <1>6, <1>7

\* The rules that come with an address, and those of an interface's clients.
LEMMA InFamilyRules ==
  ASSUME NEW i \in Up, NEW f, Links(m_iface)
  PROVE  \A r : r \in FamilyRules(i, f) <=>
                  \E j \in Reached(m_iface, i) : \E c \in m_iface[j].clients : r = Flt(i, j, c, f)
<1> DEFINE A1 == IF m_iface[i].inter
                 THEN UNION {ClientFlt(i, j, m_iface[j].clients, {f}) : j \in m_iface[i].peers}
                 ELSE {}
           A2 == IF m_iface[i].intra THEN ClientFlt(i, i, m_iface[i].clients, {f}) ELSE {}
<1>1. FamilyRules(i, f) = A1 \cup A2 BY DEF FamilyRules
<1>2. ~m_iface[i].inter => m_iface[i].peers = {} BY DEF Links, Up
<1>3. \A r : r \in A1 <=> \E j \in m_iface[i].peers : \E c \in m_iface[j].clients : r = Flt(i, j, c, f)
  <2>1. CASE m_iface[i].inter BY <2>1 DEF ClientFlt
  <2>2. CASE ~m_iface[i].inter BY <2>2, <1>2
  <2> QED BY <2>1, <2>2
<1>4. \A r : r \in A2 <=> m_iface[i].intra /\ \E c \in m_iface[i].clients : r = Flt(i, i, c, f)
  BY DEF ClientFlt
<1>5. \A j : j \in Reached(m_iface, i) <=> j \in m_iface[i].peers \/ (j = i /\ m_iface[i].intra)
  BY DEF Reached
<1> HIDE DEF A1, A2
<1> QED BY <1>1, <1>3, <1>4, <1>5

LEMMA InClientRules ==
  ASSUME NEW m, NEW i, NEW cs, ~m[i].inter => m[i].peers = {}
  PROVE  \A r : r \in ClientRules(m, i, cs) <=>
                  \E c \in cs : \/ \E t \in Headers(m, i) : r = Rt(i, c, t)
                                \/ \E j \in Reached(m, i) : \E f \in m[j].assigned : r = Flt(j, i, c, f)
<1> DEFINE A1 == IF m[i].inter THEN ClientRt(i, cs, {L2[j] : j \in m[i].peers}) ELSE {}
           A2 == IF m[i].inter THEN UNION {ClientFlt(j, i, cs, m[j].assigned) : j \in m[i].peers}
                 ELSE {}
           A3 == IF m[i].intra THEN ClientRt(i, cs, {Intra}) ELSE {}
           A4 == IF m[i].intra THEN ClientFlt(i, i, cs, m[i].assigned) ELSE {}
<1>1. ClientRules(m, i, cs) = A1 \cup A2 \cup A3 \cup A4
  <2>1. CASE m[i].inter /\ m[i].intra BY <2>1 DEF ClientRules
  <2>2. CASE m[i].inter /\ ~m[i].intra BY <2>2 DEF ClientRules
  <2>3. CASE ~m[i].inter /\ m[i].intra BY <2>3 DEF ClientRules
  <2>4. CASE ~m[i].inter /\ ~m[i].intra BY <2>4 DEF ClientRules
  <2> QED BY <2>1, <2>2, <2>3, <2>4
<1>2. \A r : r \in A1 <=> \E c \in cs : \E j \in m[i].peers : r = Rt(i, c, L2[j])
  <2>1. CASE m[i].inter BY <2>1 DEF ClientRt
  <2>2. CASE ~m[i].inter BY <2>2
  <2> QED BY <2>1, <2>2
<1>3. \A r : r \in A2 <=> \E c \in cs : \E j \in m[i].peers : \E f \in m[j].assigned : r = Flt(j, i, c, f)
  <2>1. CASE m[i].inter BY <2>1 DEF ClientFlt
  <2>2. CASE ~m[i].inter BY <2>2
  <2> QED BY <2>1, <2>2
<1>4. \A r : r \in A3 <=> m[i].intra /\ \E c \in cs : r = Rt(i, c, Intra) BY DEF ClientRt
<1>5. \A r : r \in A4 <=> m[i].intra /\ \E c \in cs : \E f \in m[i].assigned : r = Flt(i, i, c, f)
  BY DEF ClientFlt
<1>6. \A t : t \in Headers(m, i) <=> (\E j \in m[i].peers : t = L2[j]) \/ (t = Intra /\ m[i].intra)
  BY DEF Headers
<1>7. \A j : j \in Reached(m, i) <=> j \in m[i].peers \/ (j = i /\ m[i].intra) BY DEF Reached
<1> HIDE DEF A1, A2, A3, A4
<1> QED BY <1>1, <1>2, <1>3, <1>4, <1>5, <1>6, <1>7

\* A second address brings the rules that are missing, and only those.
LEMMA FamilyCompletes ==
  ASSUME Links(m_iface), NEW i \in Up, NEW f, f \notin m_iface[i].assigned, NEW n,
         Changed(m_iface, n, i, m_iface[i].assigned \cup {f}, m_iface[i].clients)
  PROVE  /\ RulesFor(n) = RulesFor(m_iface) \cup FamilyRules(i, f)
         /\ FamilyRules(i, f) \cap RulesFor(m_iface) = {}
<1> DEFINE new == FamilyRules(i, f)
           old == RulesFor(m_iface)
<1>1. \A r : r \in new <=>
        \E j \in Reached(m_iface, i) : \E c \in m_iface[j].clients : r = Flt(i, j, c, f)
  BY InFamilyRules
<1>2. /\ DOMAIN n = DOMAIN m_iface /\ i \in DOMAIN m_iface
      /\ n[i].assigned = m_iface[i].assigned \cup {f}
      /\ \A j \in DOMAIN m_iface : j # i => n[j].assigned = m_iface[j].assigned
      /\ \A j \in DOMAIN m_iface : n[j].clients = m_iface[j].clients
      /\ \A j \in DOMAIN m_iface : n[j].intra = m_iface[j].intra /\ n[j].peers = m_iface[j].peers
  BY DEF Changed
<1>3. \A j \in DOMAIN m_iface : /\ Headers(n, j) = Headers(m_iface, j)
                                /\ Reached(n, j) = Reached(m_iface, j)
                                /\ Reached(m_iface, j) \subseteq DOMAIN m_iface
  <2>1. \A j \in DOMAIN m_iface : m_iface[j].peers \subseteq DOMAIN m_iface BY DEF Links
  <2> QED BY <1>2, <2>1 DEF Headers, Reached
<1> HIDE DEF new
<1>4. \A r \in new : IsRule(r) BY <1>1 DEF IsRule
<1>5. \A k, t : Ctx(k, t) \notin new BY <1>1, RulesDiffer
<1>6. \A k, c, t : Rt(k, c, t) \notin new BY <1>1, RulesDiffer
<1>7. \A k, j, c, g : Flt(k, j, c, g) \in new
        <=> k = i /\ g = f /\ j \in Reached(m_iface, i) /\ c \in m_iface[j].clients
  BY <1>1, RulesDiffer
<1>8. \A k, j, c, g : Flt(k, j, c, g) \in old
        <=> /\ k \in DOMAIN m_iface /\ j \in Reached(m_iface, k)
            /\ c \in m_iface[j].clients /\ g \in m_iface[k].assigned
  BY InRulesFor
<1> HIDE DEF old
<1>9. RulesFor(n) = old \cup new
  <2>1. \A r \in RulesFor(n) : IsRule(r) BY InRulesFor
  <2>2. \A r \in old \cup new : IsRule(r) BY <1>4, InRulesFor DEF old
  <2>3. \A k, t : Ctx(k, t) \in RulesFor(n) <=> Ctx(k, t) \in old \cup new
    BY <1>2, <1>3, <1>5, InRulesFor DEF old
  <2>4. \A k, c, t : Rt(k, c, t) \in RulesFor(n) <=> Rt(k, c, t) \in old \cup new
    BY <1>2, <1>3, <1>6, InRulesFor DEF old
  <2>5. \A k, j, c, g : Flt(k, j, c, g) \in RulesFor(n) <=> Flt(k, j, c, g) \in old \cup new
    <3>1. \A k, j, c, g : Flt(k, j, c, g) \in RulesFor(n)
            <=> k \in DOMAIN n /\ j \in Reached(n, k) /\ c \in n[j].clients /\ g \in n[k].assigned
      BY InRulesFor
    <3> QED BY <3>1, <1>2, <1>3, <1>7, <1>8
  <2> HIDE DEF IsRule
  <2> QED BY <2>1, <2>2, <2>3, <2>4, <2>5, SameRules
<1>10. new \cap old = {}
  <2>1. \A k, j, c, g : ~(Flt(k, j, c, g) \in new /\ Flt(k, j, c, g) \in old) BY <1>7, <1>8
  <2> QED BY <1>4, <1>5, <1>6, <2>1, NoCommonRule
<1> QED BY <1>9, <1>10 DEF new, old

\* The rules of one client of an interface are those that come and go with it.
LEMMA OneClient ==
  ASSUME NEW m, NEW n, Links(m), NEW i \in DOMAIN m, NEW c, c \notin m[i].clients,
         Changed(m, n, i, m[i].assigned, m[i].clients \cup {c})
  PROVE  /\ RulesFor(n) = RulesFor(m) \cup ClientRules(m, i, {c})
         /\ ClientRules(m, i, {c}) \cap RulesFor(m) = {}
<1> DEFINE new == ClientRules(m, i, {c})
           old == RulesFor(m)
<1>0. ~m[i].inter => m[i].peers = {} BY DEF Links
<1>1. \A r : r \in new <=> \/ \E t \in Headers(m, i) : r = Rt(i, c, t)
                           \/ \E j \in Reached(m, i) : \E f \in m[j].assigned : r = Flt(j, i, c, f)
  <2> DEFINE cs == {c}
  <2>1. \A d : d \in cs <=> d = c OBVIOUS
  <2> HIDE DEF cs
  <2>2. \A r : r \in ClientRules(m, i, cs) <=>
           \E d \in cs : \/ \E t \in Headers(m, i) : r = Rt(i, d, t)
                         \/ \E j \in Reached(m, i) : \E f \in m[j].assigned : r = Flt(j, i, d, f)
    BY <1>0, InClientRules
  <2>3. new = ClientRules(m, i, cs) BY DEF cs
  <2> HIDE DEF new
  <2> QED BY <2>1, <2>2, <2>3
<1>2. /\ DOMAIN n = DOMAIN m /\ n[i].clients = m[i].clients \cup {c}
      /\ \A j \in DOMAIN m : j # i => n[j].clients = m[j].clients
      /\ \A j \in DOMAIN m : n[j].assigned = m[j].assigned
      /\ \A j \in DOMAIN m : n[j].intra = m[j].intra /\ n[j].peers = m[j].peers
  BY DEF Changed
<1>3. \A j \in DOMAIN m : Headers(n, j) = Headers(m, j) /\ Reached(n, j) = Reached(m, j)
  BY <1>2 DEF Headers, Reached
<1>4. \A j \in DOMAIN m : \A k \in Reached(m, j) : k \in DOMAIN m /\ j \in Reached(m, k)
  <2>1. \A j \in DOMAIN m : \A k \in m[j].peers : k \in DOMAIN m /\ j \in m[k].peers BY MutualPeers
  <2> QED BY <2>1 DEF Reached
<1> HIDE DEF new
<1>5. \A r \in new : IsRule(r) BY <1>1 DEF IsRule
<1>6. \A k, t : Ctx(k, t) \notin new BY <1>1, RulesDiffer
<1>7. \A k, d, t : Rt(k, d, t) \in new <=> k = i /\ d = c /\ t \in Headers(m, i)
  BY <1>1, RulesDiffer
<1>8. \A k, j, d, f : Flt(k, j, d, f) \in new
        <=> j = i /\ d = c /\ k \in Reached(m, i) /\ f \in m[k].assigned
  BY <1>1, RulesDiffer
<1>9. \A k, d, t : Rt(k, d, t) \in old
        <=> k \in DOMAIN m /\ d \in m[k].clients /\ t \in Headers(m, k)
  BY InRulesFor
<1>10. \A k, j, d, f : Flt(k, j, d, f) \in old
         <=> k \in DOMAIN m /\ j \in Reached(m, k) /\ d \in m[j].clients /\ f \in m[k].assigned
  BY InRulesFor
<1> HIDE DEF old
<1>11. RulesFor(n) = old \cup new
  <2>1. \A r \in RulesFor(n) : IsRule(r) BY InRulesFor
  <2>2. \A r \in old \cup new : IsRule(r) BY <1>5, InRulesFor DEF old
  <2>3. \A k, t : Ctx(k, t) \in RulesFor(n) <=> Ctx(k, t) \in old \cup new
    BY <1>2, <1>3, <1>6, InRulesFor DEF old
  <2>4. \A k, d, t : Rt(k, d, t) \in RulesFor(n) <=> Rt(k, d, t) \in old \cup new
    <3>1. \A k, d, t : Rt(k, d, t) \in RulesFor(n)
            <=> k \in DOMAIN n /\ d \in n[k].clients /\ t \in Headers(n, k)
      BY InRulesFor
    <3> QED BY <3>1, <1>2, <1>3, <1>7, <1>9
  <2>5. \A k, j, d, f : Flt(k, j, d, f) \in RulesFor(n) <=> Flt(k, j, d, f) \in old \cup new
    <3>1. \A k, j, d, f : Flt(k, j, d, f) \in RulesFor(n)
            <=> k \in DOMAIN n /\ j \in Reached(n, k) /\ d \in n[j].clients /\ f \in n[k].assigned
      BY InRulesFor
    <3> QED BY <3>1, <1>2, <1>3, <1>4, <1>8, <1>10
  <2> HIDE DEF IsRule
  <2> QED BY <2>1, <2>2, <2>3, <2>4, <2>5, SameRules
<1>12. new \cap old = {}
  <2>1. \A k, d, t : ~(Rt(k, d, t) \in new /\ Rt(k, d, t) \in old) BY <1>7, <1>9
  <2>2. \A k, j, d, f : ~(Flt(k, j, d, f) \in new /\ Flt(k, j, d, f) \in old) BY <1>8, <1>10
  <2> QED BY <1>5, <1>6, <2>1, <2>2, NoCommonRule
<1> QED BY <1>11, <1>12 DEF new, old

LEMMA ClientGoes ==
  ASSUME NEW m, NEW n, Links(m), NEW i \in DOMAIN m, NEW c \in m[i].clients,
         Changed(m, n, i, m[i].assigned, m[i].clients \ {c})
  PROVE  /\ RulesFor(n) = RulesFor(m) \ ClientRules(m, i, {c})
         /\ {r \in RtRules(RulesFor(m)) : r.on = i /\ r.client = c} \subseteq ClientRules(m, i, {c})
<1>1. Links(n) BY ChangingLinks
<1>2. i \in DOMAIN n /\ c \notin n[i].clients BY DEF Changed
<1>3. Changed(n, m, i, n[i].assigned, n[i].clients \cup {c})
  <2>1. m[i].clients = n[i].clients \cup {c} /\ m[i].assigned = n[i].assigned BY DEF Changed
  <2> QED BY <2>1 DEF Changed
<1>4. /\ RulesFor(m) = RulesFor(n) \cup ClientRules(n, i, {c})
      /\ ClientRules(n, i, {c}) \cap RulesFor(n) = {}
  BY <1>1, <1>2, <1>3, OneClient
<1>5. ClientRules(n, i, {c}) = ClientRules(m, i, {c})
  <2>1. /\ n[i].inter = m[i].inter /\ n[i].intra = m[i].intra /\ n[i].peers = m[i].peers
        /\ n[i].assigned = m[i].assigned
    BY DEF Changed
  <2>2. \A j \in m[i].peers : n[j].assigned = m[j].assigned BY MutualPeers DEF Changed
  <2>3. UNION {ClientFlt(j, i, {c}, n[j].assigned) : j \in m[i].peers}
        = UNION {ClientFlt(j, i, {c}, m[j].assigned) : j \in m[i].peers}
    BY <2>2
  <2> QED BY <2>1, <2>3 DEF ClientRules
<1>6. ASSUME NEW r \in RtRules(RulesFor(m)), r.on = i, r.client = c
      PROVE  r \in ClientRules(m, i, {c})
  <2>1. r \in RulesFor(m) /\ r.what = "rt" BY DEF RtRules
  <2>2. IsRule(r) BY <2>1, InRulesFor
  <2>3. PICK k, d, t : r = Rt(k, d, t) BY <2>1, <2>2, RuleFields DEF IsRule
  <2>4. k = i /\ d = c BY <1>6, <2>3, RuleFields
  <2>5. Rt(k, d, t) \notin RulesFor(n) BY <1>2, <2>4, InRulesFor
  <2> QED BY <1>4, <1>5, <2>1, <2>3, <2>5
<1> QED BY <1>4, <1>5, <1>6

\* Whether an interface has a peer of a header is told by its count.
LEMMA CountTells ==
  ASSUME NEW m, Typed(m), Links(m), NEW j \in DOMAIN m, NEW i \in Ifaces
  PROVE  /\ m[j].ref[L2[i]] \in Nat
         /\ m[j].ref[L2[i]] = 0 <=> L2[i] \notin Headers(m, j)
<1>1. L2[i] \in Types /\ L2[i] # Intra BY IfacesAssumption DEF Types
<1>2. m[j].ref[L2[i]] = Cardinality(PeersOfType(m, j, L2[i])) BY <1>1 DEF Links
<1>3. IsFiniteSet(PeersOfType(m, j, L2[i])) BY FinitePeers
<1>4. Cardinality(PeersOfType(m, j, L2[i])) = 0 <=> PeersOfType(m, j, L2[i]) = {}
  BY <1>3, FS_EmptySet
<1>5. PeersOfType(m, j, L2[i]) = {} <=> L2[i] \notin Headers(m, j)
  BY <1>1 DEF PeersOfType, Headers
<1>6. Cardinality(PeersOfType(m, j, L2[i])) \in Nat BY FinitePeers
<1> QED BY <1>2, <1>4, <1>5, <1>6

\* What changes for the others when an interface comes.
LEMMA ComingReaches ==
  ASSUME NEW m, NEW n, NEW i, NEW f, NEW cs, Links(m), Came(m, n, i, f, cs)
  PROVE  /\ n[i].peers \subseteq DOMAIN m
         /\ \A j \in DOMAIN m :
              /\ \A t : t \in Headers(n, j)
                          <=> t \in Headers(m, j) \/ (j \in n[i].peers /\ t = L2[i])
              /\ \A k : k \in Reached(n, j)
                          <=> k \in Reached(m, j) \/ (j \in n[i].peers /\ k = i)
              /\ Reached(m, j) \subseteq DOMAIN m
<1>1. n[i].peers = (IF i \in guests THEN {} ELSE DOMAIN m) BY DEF Came
<1>2. \A j \in DOMAIN m : n[j].intra = m[j].intra
                          /\ (i \in guests => n[j].peers = m[j].peers)
                          /\ (i \notin guests => n[j].peers = m[j].peers \cup {i})
  BY DEF Came
<1>3. \A j \in DOMAIN m : m[j].peers \subseteq DOMAIN m BY DEF Links
<1>4. \A j \in DOMAIN m : \A k : k \in n[j].peers <=> k \in m[j].peers \/ (j \in n[i].peers /\ k = i)
  BY <1>1, <1>2
<1>5. n[i].peers \subseteq DOMAIN m BY <1>1
<1> SUFFICES ASSUME NEW j \in DOMAIN m
             PROVE  /\ \A t : t \in Headers(n, j)
                                <=> t \in Headers(m, j) \/ (j \in n[i].peers /\ t = L2[i])
                    /\ \A k : k \in Reached(n, j)
                                <=> k \in Reached(m, j) \/ (j \in n[i].peers /\ k = i)
                    /\ Reached(m, j) \subseteq DOMAIN m
  BY <1>5
<1>6. \A t : t \in Headers(n, j) <=> (\E k \in n[j].peers : t = L2[k]) \/ (t = Intra /\ n[j].intra)
  BY DEF Headers
<1>7. \A t : t \in Headers(m, j) <=> (\E k \in m[j].peers : t = L2[k]) \/ (t = Intra /\ m[j].intra)
  BY DEF Headers
<1>8. \A k : k \in Reached(n, j) <=> k \in n[j].peers \/ (k = j /\ n[j].intra) BY DEF Reached
<1>9. \A k : k \in Reached(m, j) <=> k \in m[j].peers \/ (k = j /\ m[j].intra) BY DEF Reached
<1>10. n[j].intra = m[j].intra BY <1>2
<1>11. Reached(m, j) \subseteq DOMAIN m BY <1>3, <1>9
<1> QED BY <1>4, <1>6, <1>7, <1>8, <1>9, <1>10, <1>11

LEMMA InLinkRules ==
  ASSUME NEW m, NEW i, NEW f
  PROVE  \A r : r \in LinkRules(m, i, f) <=>
           \/ \E j \in Others(i) :
                \/ m[j].ref[L2[i]] = 1 /\ \/ r = Ctx(j, L2[i])
                                          \/ \E c \in m[j].clients : r = Rt(j, c, L2[i])
                \/ r = Ctx(i, L2[j])
                \/ \E c \in m[j].clients : r = Flt(i, j, c, f)
           \/ m[i].intra /\ r = Ctx(i, Intra)
<1> DEFINE first == {j \in Others(i) : m[j].ref[L2[i]] = 1}
           A1 == {Ctx(j, L2[i]) : j \in first}
           A2 == {Ctx(i, L2[j]) : j \in Others(i)}
           A3 == UNION {ClientRt(j, m[j].clients, {L2[i]}) : j \in first}
           A4 == UNION {ClientFlt(i, j, m[j].clients, {f}) : j \in Others(i)}
           A5 == IF m[i].intra THEN {Ctx(i, Intra)} ELSE {}
<1>1. LinkRules(m, i, f) = A1 \cup A2 \cup A3 \cup A4 \cup A5 BY DEF LinkRules
<1>2. \A j : j \in first <=> j \in Others(i) /\ m[j].ref[L2[i]] = 1 OBVIOUS
<1> HIDE DEF first
<1>3. \A r : r \in A1 <=> \E j \in first : r = Ctx(j, L2[i]) OBVIOUS
<1>4. \A r : r \in A2 <=> \E j \in Others(i) : r = Ctx(i, L2[j]) OBVIOUS
<1>5. \A r : r \in A3 <=> \E j \in first : \E c \in m[j].clients : r = Rt(j, c, L2[i])
  BY DEF ClientRt
<1>6. \A r : r \in A4 <=> \E j \in Others(i) : \E c \in m[j].clients : r = Flt(i, j, c, f)
  BY DEF ClientFlt
<1>7. \A r : r \in A5 <=> m[i].intra /\ r = Ctx(i, Intra) OBVIOUS
<1> HIDE DEF A1, A2, A3, A4, A5
<1> QED BY <1>1, <1>2, <1>3, <1>4, <1>5, <1>6, <1>7

\* An interface that comes brings the rules that are missing, and only those.
LEMMA ComingCompletes ==
  ASSUME NEW n, NEW i \in Ifaces, NEW f, NEW cs, NEW l,
         Typed(m_iface), Links(m_iface), Came(m_iface, n, i, f, cs),
         \A j \in Up : l[j] = n[j],
         l[i].inter = n[i].inter, l[i].intra = n[i].intra, l[i].peers = n[i].peers,
         l[i].assigned = n[i].assigned,
         NEW new, new = LinkRules(l, i, f) \cup ClientRules(l, i, cs)
  PROVE  RulesFor(n) = RulesFor(m_iface) \cup new /\ new \cap RulesFor(m_iface) = {}
<1> DEFINE m == m_iface
           old == RulesFor(m)
<1>1. /\ i \notin DOMAIN m /\ DOMAIN n = DOMAIN m \cup {i}
      /\ n[i].assigned = {f} /\ n[i].clients = cs /\ n[i].inter = (i \notin guests)
      /\ n[i].peers = (IF i \in guests THEN {} ELSE DOMAIN m)
      /\ \A j \in DOMAIN m : n[j].assigned = m[j].assigned /\ n[j].clients = m[j].clients
  BY DEF Came
<1>2. Others(i) = n[i].peers /\ Up = DOMAIN m BY <1>1 DEF Others, Up
<1>3. /\ n[i].peers \subseteq DOMAIN m
      /\ \A j \in DOMAIN m :
           /\ \A t : t \in Headers(n, j)
                       <=> t \in Headers(m, j) \/ (j \in n[i].peers /\ t = L2[i])
           /\ \A k : k \in Reached(n, j)
                       <=> k \in Reached(m, j) \/ (j \in n[i].peers /\ k = i)
           /\ Reached(m, j) \subseteq DOMAIN m
  BY ComingReaches
<1>4. \A j \in n[i].peers : l[j].ref[L2[i]] = 1 <=> L2[i] \notin Headers(m, j)
  <2> SUFFICES ASSUME NEW j \in n[i].peers
               PROVE  l[j].ref[L2[i]] = 1 <=> L2[i] \notin Headers(m, j)
    OBVIOUS
  <2>1. j \in DOMAIN m /\ i \notin guests BY <1>1
  <2>2. n[j].ref[L2[i]] = m[j].ref[L2[i]] + 1 BY <2>1 DEF Came, Types
  <2>3. m[j].ref[L2[i]] \in Nat /\ (m[j].ref[L2[i]] = 0 <=> L2[i] \notin Headers(m, j))
    BY <2>1, CountTells
  <2>4. l[j].ref[L2[i]] = m[j].ref[L2[i]] + 1 BY <2>1, <2>2, <1>2
  <2> QED BY <2>3, <2>4
<1>5. /\ Headers(l, i) = Headers(n, i) /\ Reached(l, i) = Reached(n, i)
      /\ \A t : t \in Headers(n, i) <=> (\E j \in n[i].peers : t = L2[j]) \/ (t = Intra /\ n[i].intra)
      /\ \A k : k \in Reached(n, i) <=> k \in n[i].peers \/ (k = i /\ n[i].intra)
  BY DEF Headers, Reached
<1>6. ~l[i].inter => l[i].peers = {} BY <1>1
<1>7. \A r : r \in new <=>
        \/ \E j \in n[i].peers :
             \/ L2[i] \notin Headers(m, j) /\ \/ r = Ctx(j, L2[i])
                                              \/ \E c \in m[j].clients : r = Rt(j, c, L2[i])
             \/ r = Ctx(i, L2[j])
             \/ \E c \in m[j].clients : r = Flt(i, j, c, f)
        \/ n[i].intra /\ r = Ctx(i, Intra)
        \/ \E c \in cs : \/ \E t \in Headers(n, i) : r = Rt(i, c, t)
                         \/ \E j \in Reached(n, i) : \E g \in n[j].assigned : r = Flt(j, i, c, g)
  <2>1. \A r : r \in LinkRules(l, i, f) <=>
          \/ \E j \in n[i].peers :
               \/ L2[i] \notin Headers(m, j) /\ \/ r = Ctx(j, L2[i])
                                                \/ \E c \in m[j].clients : r = Rt(j, c, L2[i])
               \/ r = Ctx(i, L2[j])
               \/ \E c \in m[j].clients : r = Flt(i, j, c, f)
          \/ n[i].intra /\ r = Ctx(i, Intra)
    <3>1. \A j \in n[i].peers : l[j].clients = m[j].clients BY <1>1, <1>2, <1>3
    <3>2. \A r : r \in LinkRules(l, i, f) <=>
            \/ \E j \in n[i].peers :
                 \/ l[j].ref[L2[i]] = 1 /\ \/ r = Ctx(j, L2[i])
                                           \/ \E c \in l[j].clients : r = Rt(j, c, L2[i])
                 \/ r = Ctx(i, L2[j])
                 \/ \E c \in l[j].clients : r = Flt(i, j, c, f)
            \/ n[i].intra /\ r = Ctx(i, Intra)
      BY <1>2, InLinkRules
    <3> QED BY <3>1, <3>2, <1>4
  <2>2. \A r : r \in ClientRules(l, i, cs) <=>
          \E c \in cs : \/ \E t \in Headers(n, i) : r = Rt(i, c, t)
                        \/ \E j \in Reached(n, i) : \E g \in n[j].assigned : r = Flt(j, i, c, g)
    <3>1. \A j \in Reached(n, i) : l[j].assigned = n[j].assigned BY <1>2, <1>3, <1>5
    <3>2. \A r : r \in ClientRules(l, i, cs) <=>
            \E c \in cs : \/ \E t \in Headers(l, i) : r = Rt(i, c, t)
                          \/ \E j \in Reached(l, i) : \E g \in l[j].assigned : r = Flt(j, i, c, g)
      BY <1>6, InClientRules
    <3> QED BY <3>1, <3>2, <1>5
  <2> QED BY <2>1, <2>2
<1> HIDE DEF old, m
<1>8. \A r \in new : IsRule(r) BY <1>7 DEF IsRule
<1>9. \A k, t : Ctx(k, t) \in new
        <=> \/ k \in n[i].peers /\ L2[i] \notin Headers(m, k) /\ t = L2[i]
            \/ k = i /\ t \in Headers(n, i)
  <2>1. \A k, t : Ctx(k, t) \in new
          <=> \/ k \in n[i].peers /\ L2[i] \notin Headers(m, k) /\ t = L2[i]
              \/ k = i /\ \E j \in n[i].peers : t = L2[j]
              \/ n[i].intra /\ k = i /\ t = Intra
    BY <1>7, RulesDiffer
  <2> QED BY <2>1, <1>5
<1>10. \A k, c, t : Rt(k, c, t) \in new
         <=> \/ /\ k \in n[i].peers /\ L2[i] \notin Headers(m, k)
                /\ c \in m[k].clients /\ t = L2[i]
             \/ k = i /\ c \in cs /\ t \in Headers(n, i)
  BY <1>7, RulesDiffer
<1>11. \A k, j, c, g : Flt(k, j, c, g) \in new
         <=> \/ k = i /\ j \in n[i].peers /\ c \in m[j].clients /\ g = f
             \/ j = i /\ c \in cs /\ k \in Reached(n, i) /\ g \in n[k].assigned
  BY <1>7, RulesDiffer
<1>12. \A k, t : Ctx(k, t) \in old <=> k \in DOMAIN m /\ t \in Headers(m, k) BY InRulesFor DEF old
<1>13. \A k, c, t : Rt(k, c, t) \in old
         <=> k \in DOMAIN m /\ c \in m[k].clients /\ t \in Headers(m, k)
  BY InRulesFor DEF old
<1>14. \A k, j, c, g : Flt(k, j, c, g) \in old
         <=> k \in DOMAIN m /\ j \in Reached(m, k) /\ c \in m[j].clients /\ g \in m[k].assigned
  BY InRulesFor DEF old
<1>15. RulesFor(n) = old \cup new
  <2>1. \A r \in RulesFor(n) : IsRule(r) BY InRulesFor
  <2>2. \A r \in old \cup new : IsRule(r) BY <1>8, InRulesFor DEF old
  <2>3. \A k, t : Ctx(k, t) \in RulesFor(n) <=> Ctx(k, t) \in old \cup new
    <3>1. \A k, t : Ctx(k, t) \in RulesFor(n) <=> k \in DOMAIN n /\ t \in Headers(n, k)
      BY InRulesFor
    <3> QED BY <3>1, <1>1, <1>3, <1>9, <1>12
  <2>4. \A k, c, t : Rt(k, c, t) \in RulesFor(n) <=> Rt(k, c, t) \in old \cup new
    <3>1. \A k, c, t : Rt(k, c, t) \in RulesFor(n)
            <=> k \in DOMAIN n /\ c \in n[k].clients /\ t \in Headers(n, k)
      BY InRulesFor
    <3> QED BY <3>1, <1>1, <1>3, <1>10, <1>13
  <2>5. \A k, j, c, g : Flt(k, j, c, g) \in RulesFor(n) <=> Flt(k, j, c, g) \in old \cup new
    <3>1. \A k, j, c, g : Flt(k, j, c, g) \in RulesFor(n)
            <=> k \in DOMAIN n /\ j \in Reached(n, k) /\ c \in n[j].clients /\ g \in n[k].assigned
      BY InRulesFor
    <3> QED BY <3>1, <1>1, <1>3, <1>5, <1>11, <1>14
  <2> HIDE DEF IsRule
  <2> QED BY <2>1, <2>2, <2>3, <2>4, <2>5, SameRules
<1>16. new \cap old = {}
  <2>1. \A k, t : ~(Ctx(k, t) \in new /\ Ctx(k, t) \in old) BY <1>1, <1>9, <1>12
  <2>2. \A k, c, t : ~(Rt(k, c, t) \in new /\ Rt(k, c, t) \in old) BY <1>1, <1>10, <1>13
  <2>3. \A k, j, c, g : ~(Flt(k, j, c, g) \in new /\ Flt(k, j, c, g) \in old)
    BY <1>1, <1>3, <1>11, <1>14
  <2> QED BY <1>8, <2>1, <2>2, <2>3, NoCommonRule
<1> QED BY <1>15, <1>16 DEF old, m

\* What changes for the others when an interface goes.
LEMMA LeavingReaches ==
  ASSUME NEW m, NEW n, NEW i, Links(m), Left(m, n, i)
  PROVE  /\ m[i].peers \subseteq DOMAIN n
         /\ \A j \in DOMAIN n :
              /\ \A t : t \in Headers(m, j)
                          <=> t \in Headers(n, j) \/ (j \in m[i].peers /\ t = L2[i])
              /\ \A k : k \in Reached(m, j)
                          <=> k \in Reached(n, j) \/ (j \in m[i].peers /\ k = i)
              /\ Reached(n, j) \subseteq DOMAIN n
<1>1. i \in DOMAIN m /\ DOMAIN n = DOMAIN m \ {i} BY DEF Left
<1>2. \A j \in DOMAIN n :
        /\ n[j].intra = m[j].intra
        /\ ~(j \in m[i].peers /\ m[i].inter) => n[j].peers = m[j].peers
        /\ j \in m[i].peers /\ m[i].inter => n[j].peers = m[j].peers \ {i}
  BY DEF Left
<1>3. \A j \in DOMAIN m : \A k \in m[j].peers : /\ k \in DOMAIN m /\ k # j /\ j \in m[k].peers
                                                /\ m[j].inter
  BY MutualPeers
<1>4. \A j \in DOMAIN n : \A k : k \in m[j].peers <=> k \in n[j].peers \/ (j \in m[i].peers /\ k = i)
  BY <1>1, <1>2, <1>3
<1>5. \A j \in DOMAIN n : n[j].peers \subseteq DOMAIN n
  BY <1>1, <1>2, <1>3
<1>6. m[i].peers \subseteq DOMAIN n BY <1>1, <1>3
<1> SUFFICES ASSUME NEW j \in DOMAIN n
             PROVE  /\ \A t : t \in Headers(m, j)
                                <=> t \in Headers(n, j) \/ (j \in m[i].peers /\ t = L2[i])
                    /\ \A k : k \in Reached(m, j)
                                <=> k \in Reached(n, j) \/ (j \in m[i].peers /\ k = i)
                    /\ Reached(n, j) \subseteq DOMAIN n
  BY <1>6
<1>7. \A t : t \in Headers(n, j) <=> (\E k \in n[j].peers : t = L2[k]) \/ (t = Intra /\ n[j].intra)
  BY DEF Headers
<1>8. \A t : t \in Headers(m, j) <=> (\E k \in m[j].peers : t = L2[k]) \/ (t = Intra /\ m[j].intra)
  BY DEF Headers
<1>9. \A k : k \in Reached(n, j) <=> k \in n[j].peers \/ (k = j /\ n[j].intra) BY DEF Reached
<1>10. \A k : k \in Reached(m, j) <=> k \in m[j].peers \/ (k = j /\ m[j].intra) BY DEF Reached
<1>11. n[j].intra = m[j].intra BY <1>2
<1>12. Reached(n, j) \subseteq DOMAIN n BY <1>5, <1>9
<1> QED BY <1>4, <1>7, <1>8, <1>9, <1>10, <1>11, <1>12

LEMMA InDownRules ==
  ASSUME NEW n, NEW i \in Up, Typed(m_iface), Links(m_iface), Typed(n), Links(n),
         Left(m_iface, n, i)
  PROVE  \A r : r \in DownRules(n, i, L2[i]) <=>
           \/ \E j \in m_iface[i].peers :
                \/ r \in Filters(i, j) \/ r \in Filters(j, i)
                \/ L2[i] \notin Headers(n, j) /\ \/ r = Ctx(j, L2[i])
                                                 \/ \E c \in n[j].clients : r = Rt(j, c, L2[i])
                \/ r = Ctx(i, L2[j])
                \/ \E c \in m_iface[i].clients : r = Rt(i, c, L2[j])
           \/ m_iface[i].intra /\ \/ r \in Filters(i, i) \/ r = Ctx(i, Intra)
                                  \/ \E c \in m_iface[i].clients : r = Rt(i, c, Intra)
<1> DEFINE ps   == IF m_iface[i].inter THEN m_iface[i].peers ELSE {}
           last == {j \in ps : n[j].ref[L2[i]] = 0}
           gone == {u \in {L2[j] : j \in ps} :
                      m_iface[i].ref[u] = Cardinality({j \in ps : L2[j] = u})}
           A1 == UNION {Filters(i, j) \cup Filters(j, i) : j \in ps}
           A2 == UNION {ClientRt(j, n[j].clients, {L2[i]}) \cup {Ctx(j, L2[i])} : j \in last}
           A3 == ClientRt(i, m_iface[i].clients, gone)
           A4 == {Ctx(i, u) : u \in gone}
           A5 == IF m_iface[i].intra
                 THEN Filters(i, i) \cup ClientRt(i, m_iface[i].clients, {Intra}) \cup {Ctx(i, Intra)}
                 ELSE {}
<1>1. DownRules(n, i, L2[i]) = A1 \cup A2 \cup A3 \cup A4 \cup A5 BY DEF DownRules
<1>2. ps = m_iface[i].peers BY DEF Links, Up
<1>3. \A t : t \in gone <=> \E j \in m_iface[i].peers : t = L2[j]
  <2>1. ASSUME NEW j \in m_iface[i].peers
        PROVE  m_iface[i].ref[L2[j]] = Cardinality({k \in ps : L2[k] = L2[j]})
    <3>1. L2[j] \in Types BY DEF Typed, IfaceRec, Types, Up
    <3>2. m_iface[i].ref[L2[j]] = Cardinality(PeersOfType(m_iface, i, L2[j])) BY <3>1 DEF Links, Up
    <3>3. PeersOfType(m_iface, i, L2[j]) = {k \in ps : L2[k] = L2[j]} BY <1>2 DEF PeersOfType
    <3> QED BY <3>2, <3>3
  <2>2. \A t : t \in gone <=> /\ \E j \in ps : t = L2[j]
                              /\ m_iface[i].ref[t] = Cardinality({k \in ps : L2[k] = t})
    OBVIOUS
  <2> HIDE DEF gone, ps
  <2> QED BY <1>2, <2>1, <2>2
<1>4. \A j : j \in last <=> j \in m_iface[i].peers /\ L2[i] \notin Headers(n, j)
  <2>1. ASSUME NEW j \in m_iface[i].peers
        PROVE  n[j].ref[L2[i]] = 0 <=> L2[i] \notin Headers(n, j)
    <3>1. j \in DOMAIN n BY LeavingReaches
    <3>2. i \in Ifaces BY DEF Typed, Up
    <3> QED BY <3>1, <3>2, CountTells
  <2>2. \A j : j \in last <=> j \in ps /\ n[j].ref[L2[i]] = 0 OBVIOUS
  <2> HIDE DEF last, ps
  <2> QED BY <1>2, <2>1, <2>2
<1> HIDE DEF last, gone, ps
<1>5. \A r : r \in A1 <=> \E j \in m_iface[i].peers : r \in Filters(i, j) \/ r \in Filters(j, i)
  BY <1>2
<1>6. \A r : r \in A2 <=> \E j \in last : \/ r = Ctx(j, L2[i])
                                          \/ \E c \in n[j].clients : r = Rt(j, c, L2[i])
  BY DEF ClientRt
<1>7. \A r : r \in A3 <=> \E t \in gone : \E c \in m_iface[i].clients : r = Rt(i, c, t)
  BY DEF ClientRt
<1>8. \A r : r \in A4 <=> \E t \in gone : r = Ctx(i, t) OBVIOUS
<1>9. \A r : r \in A5 <=> m_iface[i].intra /\ \/ r \in Filters(i, i) \/ r = Ctx(i, Intra)
                                              \/ \E c \in m_iface[i].clients : r = Rt(i, c, Intra)
  <2>1. CASE m_iface[i].intra BY <2>1 DEF ClientRt
  <2>2. CASE ~m_iface[i].intra BY <2>2
  <2> QED BY <2>1, <2>2
<1> HIDE DEF A1, A2, A3, A4, A5
<1> QED BY <1>1, <1>3, <1>4, <1>5, <1>6, <1>7, <1>8, <1>9

\* An interface that goes takes with it the rules nobody needs any more, and only those;
\* the handles forgotten are among them.
LEMMA LeavingLeaves ==
  ASSUME NEW n, NEW i \in Up, Typed(m_iface), Links(m_iface), Typed(n), Links(n),
         Left(m_iface, n, i), held = RulesFor(m_iface)
  PROVE  RulesFor(n) = held \ DownRules(n, i, L2[i]) /\ {r \in held : r.on = i} \subseteq DownRules(n, i, L2[i])
<1> DEFINE m == m_iface
           old == DownRules(n, i, L2[i])
           ps == m[i].peers
<1>1. /\ i \in DOMAIN m /\ DOMAIN n = DOMAIN m \ {i}
      /\ \A j \in DOMAIN n : n[j].assigned = m[j].assigned /\ n[j].clients = m[j].clients
  BY DEF Left
<1>2. /\ ps \subseteq DOMAIN n
      /\ \A j \in DOMAIN n :
           /\ \A t : t \in Headers(m, j) <=> t \in Headers(n, j) \/ (j \in ps /\ t = L2[i])
           /\ \A k : k \in Reached(m, j) <=> k \in Reached(n, j) \/ (j \in ps /\ k = i)
           /\ Reached(n, j) \subseteq DOMAIN n
  BY LeavingReaches
<1>3. /\ \A t : t \in Headers(m, i) <=> (\E j \in ps : t = L2[j]) \/ (t = Intra /\ m[i].intra)
      /\ \A k : k \in Reached(m, i) <=> k \in ps \/ (k = i /\ m[i].intra)
  BY DEF Headers, Reached
<1>4. \A r : r \in old <=>
        \/ \E j \in ps :
             \/ r \in Filters(i, j) \/ r \in Filters(j, i)
             \/ L2[i] \notin Headers(n, j) /\ \/ r = Ctx(j, L2[i])
                                              \/ \E c \in n[j].clients : r = Rt(j, c, L2[i])
             \/ r = Ctx(i, L2[j])
             \/ \E c \in m[i].clients : r = Rt(i, c, L2[j])
        \/ m[i].intra /\ \/ r \in Filters(i, i) \/ r = Ctx(i, Intra)
                         \/ \E c \in m[i].clients : r = Rt(i, c, Intra)
  BY InDownRules
<1>5. \A k, t : Ctx(k, t) \in held <=> k \in DOMAIN m /\ t \in Headers(m, k) BY InRulesFor
<1>6. \A k, c, t : Rt(k, c, t) \in held
        <=> k \in DOMAIN m /\ c \in m[k].clients /\ t \in Headers(m, k)
  BY InRulesFor
<1>7. \A k, j, c, f : Flt(k, j, c, f) \in held
        <=> k \in DOMAIN m /\ j \in Reached(m, k) /\ c \in m[j].clients /\ f \in m[k].assigned
  BY InRulesFor
<1> HIDE DEF old, m
<1>8. \A k, j, r : r \in Filters(k, j) =>
        /\ r \in held /\ r.what = "flt" /\ r.on = k /\ r.peer = j
  BY DEF Filters
<1>9. \A k, t, p, j : Ctx(k, t) \notin Filters(p, j) BY <1>8, RuleFields
<1>10. \A k, c, t, p, j : Rt(k, c, t) \notin Filters(p, j) BY <1>8, RuleFields
<1>11. \A k, j, c, f, p, q : Flt(k, j, c, f) \in Filters(p, q)
         <=> Flt(k, j, c, f) \in held /\ k = p /\ j = q
  <2>1. \A k, j, c, f, p, q : Flt(k, j, c, f) \in Filters(p, q)
          <=> /\ Flt(k, j, c, f) \in held /\ k = p /\ j = q /\ f \in m_iface[p].assigned
    BY RuleFields DEF Filters
  <2> QED BY <2>1, <1>7 DEF m
<1>12. \A k, t : Ctx(k, t) \in old
         <=> \/ k \in ps /\ L2[i] \notin Headers(n, k) /\ t = L2[i]
             \/ k = i /\ t \in Headers(m, i)
  <2>1. \A k, t : Ctx(k, t) \in old
          <=> \/ k \in ps /\ L2[i] \notin Headers(n, k) /\ t = L2[i]
              \/ k = i /\ \E j \in ps : t = L2[j]
              \/ m[i].intra /\ k = i /\ t = Intra
    BY <1>4, <1>9, RulesDiffer
  <2> QED BY <2>1, <1>3
<1>13. \A k, c, t : Rt(k, c, t) \in old
         <=> \/ k \in ps /\ L2[i] \notin Headers(n, k) /\ c \in n[k].clients /\ t = L2[i]
             \/ k = i /\ c \in m[i].clients /\ t \in Headers(m, i)
  <2>1. \A k, c, t : Rt(k, c, t) \in old
          <=> \/ k \in ps /\ L2[i] \notin Headers(n, k) /\ c \in n[k].clients /\ t = L2[i]
              \/ k = i /\ c \in m[i].clients /\ \E j \in ps : t = L2[j]
              \/ m[i].intra /\ k = i /\ c \in m[i].clients /\ t = Intra
    BY <1>4, <1>10, RulesDiffer
  <2> QED BY <2>1, <1>3
<1>14. \A k, j, c, f : Flt(k, j, c, f) \in old
         <=> Flt(k, j, c, f) \in held /\ \/ k = i /\ j \in Reached(m, i)
                                         \/ j = i /\ k \in ps
  <2>1. \A k, j, c, f : Flt(k, j, c, f) \in old
          <=> \/ \E p \in ps : Flt(k, j, c, f) \in Filters(i, p) \/ Flt(k, j, c, f) \in Filters(p, i)
              \/ m[i].intra /\ Flt(k, j, c, f) \in Filters(i, i)
    BY <1>4, RulesDiffer
  <2> QED BY <2>1, <1>3, <1>11
<1>15. RulesFor(n) = held \ old
  <2>1. \A r \in RulesFor(n) : IsRule(r) BY InRulesFor
  <2>2. \A r \in held \ old : IsRule(r) BY InRulesFor
  <2>3. \A k, t : Ctx(k, t) \in RulesFor(n) <=> Ctx(k, t) \in held \ old
    <3>1. \A k, t : Ctx(k, t) \in RulesFor(n) <=> k \in DOMAIN n /\ t \in Headers(n, k)
      BY InRulesFor
    <3> QED BY <3>1, <1>1, <1>2, <1>5, <1>12
  <2>4. \A k, c, t : Rt(k, c, t) \in RulesFor(n) <=> Rt(k, c, t) \in held \ old
    <3>1. \A k, c, t : Rt(k, c, t) \in RulesFor(n)
            <=> k \in DOMAIN n /\ c \in n[k].clients /\ t \in Headers(n, k)
      BY InRulesFor
    <3> QED BY <3>1, <1>1, <1>2, <1>6, <1>13
  <2>5. \A k, j, c, f : Flt(k, j, c, f) \in RulesFor(n) <=> Flt(k, j, c, f) \in held \ old
    <3>1. \A k, j, c, f : Flt(k, j, c, f) \in RulesFor(n)
            <=> k \in DOMAIN n /\ j \in Reached(n, k) /\ c \in n[j].clients /\ f \in n[k].assigned
      BY InRulesFor
    <3> QED BY <3>1, <1>1, <1>2, <1>7, <1>14
  <2> HIDE DEF IsRule
  <2> QED BY <2>1, <2>2, <2>3, <2>4, <2>5, SameRules
<1>16. ASSUME NEW r \in held, r.on = i PROVE r \in old
  <2>1. IsRule(r) BY InRulesFor
  <2>2. CASE \E k, t : r = Ctx(k, t)
    <3>1. PICK k, t : r = Ctx(k, t) BY <2>2
    <3>2. k = i BY <1>16, <3>1, RuleFields
    <3> QED BY <3>1, <3>2, <1>5, <1>12
  <2>3. CASE \E k, c, t : r = Rt(k, c, t)
    <3>1. PICK k, c, t : r = Rt(k, c, t) BY <2>3
    <3>2. k = i BY <1>16, <3>1, RuleFields
    <3> QED BY <3>1, <3>2, <1>6, <1>13
  <2>4. CASE \E k, j, c, f : r = Flt(k, j, c, f)
    <3>1. PICK k, j, c, f : r = Flt(k, j, c, f) BY <2>4
    <3>2. k = i BY <1>16, <3>1, RuleFields
    <3> QED BY <3>1, <3>2, <1>7, <1>14
  <2> QED BY <2>1, <2>2, <2>3, <2>4 DEF IsRule
<1> QED BY <1>15, <1>16 DEF old

-----------------------------------------------------------------------------
(* What the handlers of the controller do *)

\* The controller's interfaces are linked, and the rules are theirs.
InStep == /\ Typed(m_iface) /\ Links(m_iface)
          /\ held = RulesFor(m_iface) /\ hw = SetToBag(held)

\* Routing rules that have a pipe to choose; those that name the alternative one are such.
WlanRt(rules) == {r \in RtRules(rules) : r.on \in Wlans}
PipesOfRules  == alt \subseteq WlanRt(held)

\* A rule keeps its pipe, or has the one of the mode; a new one has that of the mode.
PipesKept ==
  /\ PipesOfRules'
  /\ \A r \in WlanRt(held)' : \/ r \in WlanRt(held) /\ (r \in alt' <=> r \in alt)
                              \/ r \in alt' <=> mcc

LEMMA InWlanRt == \A S, r : r \in WlanRt(S) <=> r \in S /\ r.what = "rt" /\ r.on \in Wlans
BY DEF WlanRt, RtRules

LEMMA WlanRtConstant == WlanRt(held)' = WlanRt(held')
BY DEF WlanRt, RtRules

LEMMA PipesOfNewRules ==
  ASSUME PipesOfRules, NEW new, held' = held \cup new, new \cap held = {},
         alt' = Piped(RtRules(new))
  PROVE  PipesKept
<1>1. \A r : r \in alt' <=> IF mcc THEN r \in alt \/ r \in WlanRt(new)
                                   ELSE r \in alt /\ r \notin WlanRt(new)
  BY DEF Piped, WlanRt
<1>2. \A r : r \in WlanRt(held') <=> r \in WlanRt(held) \/ r \in WlanRt(new) BY InWlanRt
<1>3. \A r : ~(r \in WlanRt(held) /\ r \in WlanRt(new)) BY InWlanRt
<1>4. alt \subseteq WlanRt(held) BY DEF PipesOfRules
<1>5. alt' \subseteq WlanRt(held') BY <1>1, <1>2, <1>4
<1>6. \A r \in WlanRt(held') : \/ r \in WlanRt(held) /\ (r \in alt' <=> r \in alt)
                               \/ r \in alt' <=> mcc
  BY <1>1, <1>2, <1>3, <1>4
<1> QED BY <1>5, <1>6, WlanRtConstant DEF PipesKept, PipesOfRules

LEMMA PipesOfRulesLeft ==
  ASSUME PipesOfRules, NEW old, held' = held \ old, alt' = alt \ old
  PROVE  PipesKept
<1>1. \A r : r \in WlanRt(held') <=> r \in WlanRt(held) /\ r \notin old BY InWlanRt
<1>2. alt \subseteq WlanRt(held) BY DEF PipesOfRules
<1> QED BY <1>1, <1>2, WlanRtConstant DEF PipesKept, PipesOfRules

LEMMA PipesStay ==
  ASSUME PipesOfRules, WlanRt(held') = WlanRt(held), alt' = alt
  PROVE  PipesKept
BY WlanRtConstant DEF PipesKept, PipesOfRules

\* What a handler did to the interfaces other than i.
OthersKept(i) == /\ Up' \ {i} = Up \ {i}
                 /\ \A j \in Up \cap Up' : m_iface'[j].inter = m_iface[j].inter
                 /\ \A j \in (Up \cap Up') \ {i} : m_iface'[j].clients = m_iface[j].clients

LEMMA InStepNext ==
  ASSUME Typed(m_iface'), Links(m_iface'), held' = RulesFor(m_iface'), hw' = SetToBag(held')
  PROVE  InStep'
BY DEF InStep, Typed, Links, RulesFor, RulesOf, Headers, Reached, SetToBag, PeersOfType,
       ClientRt, ClientFlt, Rt, Flt, Ctx

LEMMA InStepStays ==
  ASSUME InStep, m_iface' = m_iface, held' = held, hw' = hw
  PROVE  InStep'
BY InStepNext DEF InStep

LEMMA UpKeeps ==
  ASSUME InStep, PipesOfRules, NEW i \in Ifaces, NEW f \in Fams, CachedOf(i) \subseteq Macs,
         i \notin Up /\ i \notin guests => \A j \in Up : m_iface[j].inter,
         handle_iface_up(i, f)
  PROVE  /\ InStep' /\ PipesKept /\ Up' = Up \cup {i} /\ OthersKept(i)
         /\ m_iface'[i].clients = IF i \in Up THEN m_iface[i].clients ELSE CachedOf(i)
<1>1. Typed(m_iface) /\ Links(m_iface) /\ held = RulesFor(m_iface) /\ hw = SetToBag(held)
  BY DEF InStep
<1>2. CASE i \in Up /\ UNCHANGED bridge
  <2>1. m_iface' = m_iface /\ held' = held /\ hw' = hw /\ alt' = alt BY <1>2 DEF bridge
  <2> QED BY <1>2, <2>1, InStepStays, PipesStay DEF OthersKept, Up
<1>3. CASE /\ i \in Up /\ f \notin m_iface[i].assigned
           /\ m_iface' = [m_iface EXCEPT ![i].assigned = @ \cup {f}]
           /\ Installed(FamilyRules(i, f))
           /\ UNCHANGED <<cached, alt, refused>>
  <2> DEFINE fs == m_iface[i].assigned \cup {f}
             cs == m_iface[i].clients
             new == FamilyRules(i, f)
  <2>1. fs \in SUBSET Fams /\ cs \in SUBSET Macs BY <1>1, <1>3 DEF Typed, IfaceRec, Up
  <2>2. m_iface' = [m_iface EXCEPT ![i].assigned = fs] BY <1>1, <1>3 DEF Typed, IfaceRec, Up
  <2>3. i \in Up BY <1>3
  <2> HIDE DEF fs, cs
  <2>4. cs = m_iface[i].clients BY DEF cs
  <2>5. Typed(m_iface') /\ Changed(m_iface, m_iface', i, fs, cs)
    BY <1>1, <2>1, <2>2, <2>3, <2>4, ChangedInPlace
  <2>6. Links(m_iface') BY <1>1, <2>5, ChangingLinks
  <2>7. Changed(m_iface, m_iface', i, m_iface[i].assigned \cup {f}, m_iface[i].clients)
    BY <2>5 DEF fs, cs
  <2>8. RulesFor(m_iface') = RulesFor(m_iface) \cup new /\ new \cap RulesFor(m_iface) = {}
    BY <1>1, <1>3, <2>3, <2>7, FamilyCompletes
  <2>9. held' = held \cup new /\ hw' = SetToBag(held')
    BY <1>1, <1>3, <2>8, InstalledAgrees
  <2>10. \A r \in new : r.what = "flt" BY <1>1, <2>3, InFamilyRules, RuleFields
  <2>11. WlanRt(held') = WlanRt(held)
    <3>1. \A r : r \in WlanRt(held') <=> r \in held' /\ r.what = "rt" /\ r.on \in Wlans BY InWlanRt
    <3>2. \A r : r \in WlanRt(held) <=> r \in held /\ r.what = "rt" /\ r.on \in Wlans BY InWlanRt
    <3>3. \A r \in new : r.what # "rt" BY <2>10
    <3> HIDE DEF new
    <3>4. \A r : r \in WlanRt(held') <=> r \in WlanRt(held) BY <2>9, <3>1, <3>2, <3>3
    <3> QED BY <3>4
  <2>12. PipesKept BY <1>3, <2>11, PipesStay
  <2>13. InStep' BY <1>1, <2>5, <2>6, <2>8, <2>9, InStepNext
  <2>14. Up' = Up \cup {i} /\ OthersKept(i) BY <2>3, <2>5 DEF Changed, OthersKept, Up
  <2>15. m_iface'[i].clients = m_iface[i].clients BY <2>4, <2>5 DEF Changed
  <2> QED BY <2>3, <2>12, <2>13, <2>14, <2>15
<1>4. CASE /\ i \notin Up
           /\ LET m   == Linked(i, f)
                  new == LinkRules(m, i, f) \cup ClientRules(m, i, CachedOf(i))
              IN /\ m_iface' = [m EXCEPT ![i].clients = CachedOf(i)]
                 /\ Installed(new)
                 /\ alt' = Piped(RtRules(new))
  <2> DEFINE m   == Linked(i, f)
             cs  == CachedOf(i)
             new == LinkRules(m, i, f) \cup ClientRules(m, i, cs)
  <2>1. /\ m_iface' = [m EXCEPT ![i].clients = cs] /\ Installed(new)
        /\ alt' = Piped(RtRules(new)) /\ cs \in SUBSET Macs
    BY <1>4
  <2>2. i \in DOMAIN m BY DEF Linked
  <2> HIDE DEF cs
  <2>3. Typed(m_iface') /\ Came(m_iface, m_iface', i, f, cs) BY <1>1, <1>4, <2>1, LinkedComes
  <2>4. i \notin guests => \A j \in DOMAIN m_iface : m_iface[j].inter BY <1>4 DEF Up
  <2>5. Links(m_iface') BY <1>1, <2>3, <2>4, ComingLinks
  <2>6. /\ \A j \in Up : m[j] = m_iface'[j]
        /\ m[i].inter = m_iface'[i].inter /\ m[i].intra = m_iface'[i].intra
        /\ m[i].peers = m_iface'[i].peers /\ m[i].assigned = m_iface'[i].assigned
    <3>1. DOMAIN m = Up \cup {i} BY DEF Linked
    <3>2. \A j \in Up : m_iface'[j] = m[j] BY <1>4, <2>1, <3>1
    <3>3. m_iface'[i] = [m[i] EXCEPT !.clients = cs] BY <2>1, <2>2
    <3>4. m[i] = [assigned |-> {f}, clients |-> {}, peers |-> Others(i), inter |-> i \notin guests,
                  intra |-> i \in Wlans,
                  ref |-> [t \in Types |-> Cardinality({k \in Others(i) : L2[k] = t})]]
      BY DEF Linked
    <3> HIDE DEF m
    <3> QED BY <3>2, <3>3, <3>4
  <2> HIDE DEF m
  <2>7. new = LinkRules(m, i, f) \cup ClientRules(m, i, cs) OBVIOUS
  <2> HIDE DEF new
  <2>8. RulesFor(m_iface') = RulesFor(m_iface) \cup new /\ new \cap RulesFor(m_iface) = {}
    BY <1>1, <2>3, <2>6, <2>7, ComingCompletes
  <2>9. held' = held \cup new /\ hw' = SetToBag(held')
    BY <1>1, <2>1, <2>8, InstalledAgrees
  <2>10. PipesKept BY <1>1, <2>1, <2>8, <2>9, PipesOfNewRules
  <2>11. InStep' BY <1>1, <2>3, <2>5, <2>8, <2>9, InStepNext
  <2>12. Up' = Up \cup {i} /\ OthersKept(i) BY <1>4, <2>3 DEF Came, OthersKept, Up
  <2>13. m_iface'[i].clients = CachedOf(i) BY <2>3 DEF Came, cs
  <2> QED BY <1>4, <2>10, <2>11, <2>12, <2>13
<1> QED BY <1>2, <1>3, <1>4 DEF handle_iface_up

LEMMA DownKeeps ==
  ASSUME InStep, PipesOfRules, NEW i \in Ifaces, handle_iface_down(i, L2[i])
  PROVE  InStep' /\ PipesKept /\ Up' = Up \ {i} /\ OthersKept(i)
<1>1. Typed(m_iface) /\ Links(m_iface) /\ held = RulesFor(m_iface) /\ hw = SetToBag(held)
  BY DEF InStep
<1>2. CASE i \notin Up /\ UNCHANGED <<m_iface, held, hw, alt>>
  <2>1. m_iface' = m_iface /\ held' = held /\ hw' = hw /\ alt' = alt BY <1>2
  <2> QED BY <1>2, <2>1, InStepStays, PipesStay DEF OthersKept, Up
<1>3. CASE /\ i \in Up
           /\ m_iface' = Unlinked(i, L2[i])
           /\ Removed(DownRules(Unlinked(i, L2[i]), i, L2[i]), {r \in held : r.on = i})
           /\ alt' = alt \ DownRules(Unlinked(i, L2[i]), i, L2[i])
  <2> DEFINE n   == m_iface'
             old == DownRules(n, i, L2[i])
             lost == {r \in held : r.on = i}
  <2>1. Typed(n) /\ Left(m_iface, n, i) BY <1>1, <1>3, UnlinkedLeaves
  <2>2. Links(n) BY <1>1, <2>1, LeavingLinks
  <2>3. RulesFor(n) = held \ old /\ lost \subseteq old
    BY <1>1, <1>3, <2>1, <2>2, LeavingLeaves
  <2>4. Removed(old, lost) /\ alt' = alt \ old /\ lost \subseteq held BY <1>3
  <2>5. Up' = Up \ {i} /\ OthersKept(i) BY <1>3, <2>1 DEF Left, OthersKept, Up
  <2> HIDE DEF old, lost
  <2>6. held' = held \ old /\ hw' = SetToBag(held')
    BY <1>1, <2>3, <2>4, RemovedAgrees
  <2>7. PipesKept BY <2>4, <2>6, PipesOfRulesLeft
  <2>8. InStep' BY <2>1, <2>2, <2>3, <2>6, InStepNext
  <2> QED BY <2>5, <2>7, <2>8
<1> QED BY <1>2, <1>3 DEF handle_iface_down

LEMMA AddKeeps ==
  ASSUME InStep, PipesOfRules, NEW e, e.i \in Ifaces, e.mac \in Macs, handle_client_add(e)
  PROVE  InStep' /\ PipesKept /\ Up' = Up /\ OthersKept(e.i)
<1>1. Typed(m_iface) /\ Links(m_iface) /\ held = RulesFor(m_iface) /\ hw = SetToBag(held)
  BY DEF InStep
<1> DEFINE i == e.i
           c == e.mac
<1>2. CASE UNCHANGED <<m_iface, held, hw, alt>>
  <2>1. m_iface' = m_iface /\ held' = held /\ hw' = hw /\ alt' = alt BY <1>2
  <2> QED BY <2>1, InStepStays, PipesStay DEF OthersKept, Up
<1>3. CASE /\ i \in Up /\ c \notin m_iface[i].clients
           /\ m_iface' = [m_iface EXCEPT ![i].clients = @ \cup {c}]
           /\ Installed(ClientRules(m_iface, i, {c}))
           /\ alt' = Piped(RtRules(ClientRules(m_iface, i, {c})))
  <2> DEFINE fs == m_iface[i].assigned
             cs == m_iface[i].clients \cup {c}
             new == ClientRules(m_iface, i, {c})
  <2>1. fs \in SUBSET Fams /\ cs \in SUBSET Macs BY <1>1, <1>3 DEF Typed, IfaceRec, Up
  <2>2. m_iface' = [m_iface EXCEPT ![i].clients = cs] BY <1>1, <1>3 DEF Typed, IfaceRec, Up
  <2>3. i \in Up /\ i \in DOMAIN m_iface BY <1>3 DEF Up
  <2> HIDE DEF fs, cs, i, c
  <2>4. fs = m_iface[i].assigned BY DEF fs
  <2>5. Typed(m_iface') /\ Changed(m_iface, m_iface', i, fs, cs)
    BY <1>1, <2>1, <2>2, <2>3, <2>4, ChangedInPlace
  <2>6. Links(m_iface') BY <1>1, <2>5, ChangingLinks
  <2>7. Changed(m_iface, m_iface', i, m_iface[i].assigned, m_iface[i].clients \cup {c})
    BY <2>5 DEF fs, cs
  <2>8. RulesFor(m_iface') = RulesFor(m_iface) \cup new /\ new \cap RulesFor(m_iface) = {}
    <3>1. c \notin m_iface[i].clients BY <1>3
    <3> QED BY <1>1, <2>3, <2>7, <3>1, OneClient
  <2> HIDE DEF new
  <2>9. Installed(new) /\ alt' = Piped(RtRules(new)) BY <1>3 DEF new
  <2>10. held' = held \cup new /\ hw' = SetToBag(held')
    BY <1>1, <2>8, <2>9, InstalledAgrees
  <2>11. PipesKept BY <1>1, <2>8, <2>9, <2>10, PipesOfNewRules
  <2>12. InStep' BY <1>1, <2>5, <2>6, <2>8, <2>10, InStepNext
  <2>13. Up' = Up /\ OthersKept(i) BY <2>3, <2>5 DEF Changed, OthersKept, Up
  <2> QED BY <2>11, <2>12, <2>13 DEF i, c
<1>4. \/ UNCHANGED <<m_iface, held, hw, alt>>
      \/ /\ i \in Up /\ c \notin m_iface[i].clients
         /\ m_iface' = [m_iface EXCEPT ![i].clients = @ \cup {c}]
         /\ Installed(ClientRules(m_iface, i, {c}))
         /\ alt' = Piped(RtRules(ClientRules(m_iface, i, {c})))
  BY DEF handle_client_add, bridge
<1> QED BY <1>2, <1>3, <1>4

LEMMA DelKeeps ==
  ASSUME InStep, PipesOfRules, NEW i \in Ifaces, NEW c \in Macs, handle_client_del(i, c)
  PROVE  InStep' /\ PipesKept /\ Up' = Up /\ OthersKept(i)
<1>1. Typed(m_iface) /\ Links(m_iface) /\ held = RulesFor(m_iface) /\ hw = SetToBag(held)
  BY DEF InStep
<1>2. CASE UNCHANGED <<m_iface, held, hw, alt>>
  <2>1. m_iface' = m_iface /\ held' = held /\ hw' = hw /\ alt' = alt BY <1>2
  <2> QED BY <2>1, InStepStays, PipesStay DEF OthersKept, Up
<1>3. CASE /\ i \in Up /\ c \in m_iface[i].clients
           /\ m_iface' = Unlisted(i, c)
           /\ Removed(ClientRules(m_iface, i, {c}),
                      {r \in RtRules(held) : r.on = i /\ r.client = c})
           /\ alt' = alt \ ClientRules(m_iface, i, {c})
  <2> DEFINE fs == m_iface[i].assigned
             cs == m_iface[i].clients \ {c}
             old == ClientRules(m_iface, i, {c})
             lost == {r \in RtRules(held) : r.on = i /\ r.client = c}
  <2>1. fs \in SUBSET Fams /\ cs \in SUBSET Macs BY <1>1, <1>3 DEF Typed, IfaceRec, Up
  <2>2. m_iface' = [m_iface EXCEPT ![i].clients = cs]
    BY <1>1, <1>3 DEF Typed, IfaceRec, Up, Unlisted
  <2>3. i \in Up /\ i \in DOMAIN m_iface BY <1>3 DEF Up
  <2> HIDE DEF fs, cs
  <2>4. fs = m_iface[i].assigned BY DEF fs
  <2>5. Typed(m_iface') /\ Changed(m_iface, m_iface', i, fs, cs)
    BY <1>1, <2>1, <2>2, <2>3, <2>4, ChangedInPlace
  <2>6. Links(m_iface') BY <1>1, <2>5, ChangingLinks
  <2>7. Changed(m_iface, m_iface', i, m_iface[i].assigned, m_iface[i].clients \ {c})
    BY <2>5 DEF fs, cs
  <2>8. RulesFor(m_iface') = held \ old /\ lost \subseteq old
    BY <1>1, <1>3, <2>3, <2>7, ClientGoes
  <2>9. Removed(old, lost) /\ alt' = alt \ old /\ lost \subseteq held BY <1>3 DEF RtRules
  <2> HIDE DEF old, lost
  <2>10. held' = held \ old /\ hw' = SetToBag(held')
    BY <1>1, <2>8, <2>9, RemovedAgrees
  <2>11. PipesKept BY <2>9, <2>10, PipesOfRulesLeft
  <2>12. InStep' BY <2>5, <2>6, <2>8, <2>10, InStepNext
  <2>13. Up' = Up /\ OthersKept(i) BY <2>3, <2>5 DEF Changed, OthersKept, Up
  <2> QED BY <2>11, <2>12, <2>13
<1> QED BY <1>2, <1>3 DEF handle_client_del

\* The rules of an access point get the pipe of the mode.
LEMMA SwitchKeeps ==
  ASSUME InStep, PipesOfRules, NEW i \in Ifaces, handle_wlan_scc_mcc_switch(i)
  PROVE  /\ InStep' /\ PipesKept /\ Up' = Up /\ OthersKept(i)
         /\ \A r \in WlanRt(held)' : r.on = i => (r \in alt' <=> mcc)
<1>1. Typed(m_iface) /\ Links(m_iface) /\ held = RulesFor(m_iface) /\ hw = SetToBag(held)
  BY DEF InStep
<1>2. m_iface' = m_iface /\ held' = held /\ hw' = hw BY DEF handle_wlan_scc_mcc_switch
<1>3. InStep' /\ Up' = Up /\ OthersKept(i) BY <1>2, InStepStays DEF OthersKept, Up
<1>4. alt \subseteq WlanRt(held) /\ WlanRt(held)' = WlanRt(held)
  BY <1>2, WlanRtConstant DEF PipesOfRules
<1>5. \A r \in WlanRt(held) : \E k, c, t : /\ r = Rt(k, c, t) /\ k = r.on /\ k \in DOMAIN m_iface
                                           /\ c \in m_iface[k].clients
                                           /\ t \in Headers(m_iface, k)
  <2> SUFFICES ASSUME NEW r \in WlanRt(held)
               PROVE  \E k, c, t : /\ r = Rt(k, c, t) /\ k = r.on /\ k \in DOMAIN m_iface
                                   /\ c \in m_iface[k].clients
                                   /\ t \in Headers(m_iface, k)
    OBVIOUS
  <2>1. r \in held /\ r.what = "rt" BY InWlanRt
  <2>2. IsRule(r) BY <1>1, <2>1, InRulesFor
  <2>3. PICK k, c, t : r = Rt(k, c, t) BY <2>1, <2>2, RuleFields DEF IsRule
  <2> QED BY <1>1, <2>1, <2>3, InRulesFor, RuleFields
<1>6. CASE i \in Up /\ alt' = Piped(SwitchRules(i))
  <2>1. \A r : r \in SwitchRules(i) <=>
                 \E c \in m_iface[i].clients, t \in Headers(m_iface, i) : r = Rt(i, c, t)
    <3>1. ~m_iface[i].inter => m_iface[i].peers = {} BY <1>1, <1>6 DEF Links, Up
    <3>2. \A t : t \in Headers(m_iface, i)
                   <=> t \in PeerTypes(i) \/ (t = Intra /\ m_iface[i].intra)
      BY DEF Headers, PeerTypes
    <3>3. ~m_iface[i].inter => PeerTypes(i) = {} BY <3>1 DEF PeerTypes
    <3>4. \A r : r \in SwitchRules(i) <=>
                   \/ m_iface[i].inter /\ \E c \in m_iface[i].clients, t \in PeerTypes(i) : r = Rt(i, c, t)
                   \/ m_iface[i].intra /\ \E c \in m_iface[i].clients : r = Rt(i, c, Intra)
      BY DEF SwitchRules, ClientRt
    <3> QED BY <3>2, <3>3, <3>4
  <2>2. \A r \in WlanRt(held) : r \in SwitchRules(i) <=> r.on = i
    BY <1>5, <2>1, RuleFields
  <2>3. \A r \in SwitchRules(i) : r \in held /\ r.what = "rt"
    BY <1>1, <1>6, <2>1, InRulesFor, RuleFields DEF Up
  <2>4. \A r : r \in alt' <=> IF mcc THEN r \in alt \/ (r \in SwitchRules(i) /\ r.on \in Wlans)
                                     ELSE r \in alt /\ ~(r \in SwitchRules(i) /\ r.on \in Wlans)
    BY <1>6 DEF Piped
  <2>5. alt' \subseteq WlanRt(held) BY <1>4, <2>3, <2>4, InWlanRt
  <2>6. \A r \in WlanRt(held) : IF r.on = i THEN r \in alt' <=> mcc ELSE r \in alt' <=> r \in alt
    BY <2>2, <2>4, InWlanRt
  <2>7. PipesKept BY <1>4, <2>5, <2>6 DEF PipesKept, PipesOfRules
  <2> QED BY <1>3, <1>4, <2>6, <2>7
<1>7. CASE i \notin Up /\ alt' = alt
  <2>1. \A r \in WlanRt(held) : r.on # i BY <1>5, <1>7 DEF Up
  <2>2. PipesKept BY <1>2, <1>7, PipesStay
  <2> QED BY <1>3, <1>4, <2>1, <2>2
<1> QED BY <1>6, <1>7 DEF handle_wlan_scc_mcc_switch

-----------------------------------------------------------------------------
(* The queue *)

Event == [event : {"IFACE_UP"}, i : Ifaces, ip : Fams]
         \cup [event : {"IFACE_DOWN", "LAN_DELETE_SELF", "WLAN_SCC_MCC_SWITCH"}, i : Ifaces]
         \cup [event : {"CLIENT_ADD", "CLIENT_DEL"}, i : Ifaces, mac : Macs]

LEMMA EventFields ==
  ASSUME NEW e \in Event
  PROVE  /\ e.i \in Ifaces
         /\ e.event = "IFACE_UP" => e.ip \in Fams
         /\ e.event \in {"CLIENT_ADD", "CLIENT_DEL"} => e.mac \in Macs
         /\ e.event \in {"IFACE_UP", "IFACE_DOWN", "LAN_DELETE_SELF", "WLAN_SCC_MCC_SWITCH",
                         "CLIENT_ADD", "CLIENT_DEL"}
BY DEF Event

LEMMA Events ==
  ASSUME NEW i \in Ifaces
  PROVE  /\ \A f \in Fams : /\ IfaceUp(i, f) \in Event /\ IfaceUp(i, f).event = "IFACE_UP"
                            /\ IfaceUp(i, f).i = i /\ IfaceUp(i, f).ip = f
         /\ \A ev \in {"IFACE_DOWN", "LAN_DELETE_SELF", "WLAN_SCC_MCC_SWITCH"} :
              /\ Evt(ev, i) \in Event /\ Evt(ev, i).event = ev /\ Evt(ev, i).i = i
         /\ \A ev \in {"CLIENT_ADD", "CLIENT_DEL"}, c \in Macs :
              /\ ClientEvt(ev, i, c) \in Event /\ ClientEvt(ev, i, c).event = ev
              /\ ClientEvt(ev, i, c).i = i /\ ClientEvt(ev, i, c).mac = c
BY DEF Event, IfaceUp, Evt, ClientEvt

\* Taking the first event leaves the others, in their order.
LEMMA TailIs ==
  ASSUME NEW S, NEW q \in Seq(S), q # <<>>
  PROVE  /\ Head(q) = q[1] /\ 1 \in DOMAIN q /\ Head(q) \in S /\ Tail(q) \in Seq(S)
         /\ \A k \in DOMAIN Tail(q) : /\ k + 1 \in DOMAIN q /\ k + 1 # 1
                                      /\ Tail(q)[k] = q[k + 1]
         /\ \A k \in DOMAIN q : \/ k = 1
                                \/ /\ k - 1 \in DOMAIN Tail(q) /\ Tail(q)[k - 1] = q[k]
OBVIOUS

\* An event of an interface, or of a client of it, waits.
Waits(q, ev, i) == \E k \in DOMAIN q : q[k].event = ev /\ q[k].i = i
ClientWaits(q, ev, i, c) == \E k \in DOMAIN q : q[k].event = ev /\ q[k].i = i /\ q[k].mac = c

LEMMA TailWaits ==
  ASSUME NEW S, NEW q \in Seq(S), q # <<>>
  PROVE  \A ev, i : /\ Waits(Tail(q), ev, i) => Waits(q, ev, i)
                    /\ Waits(q, ev, i) => \/ Waits(Tail(q), ev, i)
                                          \/ Head(q).event = ev /\ Head(q).i = i
                    /\ \A c : /\ ClientWaits(Tail(q), ev, i, c) => ClientWaits(q, ev, i, c)
                              /\ ClientWaits(q, ev, i, c) =>
                                   \/ ClientWaits(Tail(q), ev, i, c)
                                   \/ /\ Head(q).event = ev /\ Head(q).i = i
                                      /\ Head(q).mac = c
<1>1. /\ Head(q) = q[1]
      /\ \A k \in DOMAIN Tail(q) : k + 1 \in DOMAIN q /\ Tail(q)[k] = q[k + 1]
      /\ \A k \in DOMAIN q : \/ k = 1
                             \/ /\ k - 1 \in DOMAIN Tail(q) /\ Tail(q)[k - 1] = q[k]
  BY TailIs
<1>2. ASSUME NEW ev, NEW i
      PROVE  /\ Waits(Tail(q), ev, i) => Waits(q, ev, i)
             /\ Waits(q, ev, i) => \/ Waits(Tail(q), ev, i)
                                   \/ Head(q).event = ev /\ Head(q).i = i
  <2> DEFINE t == Tail(q)
             h == Head(q)
  <2>1. /\ h = q[1]
        /\ \A k \in DOMAIN t : k + 1 \in DOMAIN q /\ t[k] = q[k + 1]
        /\ \A k \in DOMAIN q : k = 1 \/ (k - 1 \in DOMAIN t /\ t[k - 1] = q[k])
    BY <1>1
  <2> HIDE DEF t, h
  <2>2. /\ Waits(t, ev, i) => Waits(q, ev, i)
        /\ Waits(q, ev, i) => Waits(t, ev, i) \/ (h.event = ev /\ h.i = i)
    BY <2>1 DEF Waits
  <2> QED BY <2>2 DEF t, h
<1>3. ASSUME NEW ev, NEW i, NEW c
      PROVE  /\ ClientWaits(Tail(q), ev, i, c) => ClientWaits(q, ev, i, c)
             /\ ClientWaits(q, ev, i, c) =>
                  \/ ClientWaits(Tail(q), ev, i, c)
                  \/ Head(q).event = ev /\ Head(q).i = i /\ Head(q).mac = c
  <2> DEFINE t == Tail(q)
             h == Head(q)
  <2>1. /\ h = q[1]
        /\ \A k \in DOMAIN t : k + 1 \in DOMAIN q /\ t[k] = q[k + 1]
        /\ \A k \in DOMAIN q : k = 1 \/ (k - 1 \in DOMAIN t /\ t[k - 1] = q[k])
    BY <1>1
  <2> HIDE DEF t, h
  <2>2. /\ ClientWaits(t, ev, i, c) => ClientWaits(q, ev, i, c)
        /\ ClientWaits(q, ev, i, c) =>
             ClientWaits(t, ev, i, c) \/ (h.event = ev /\ h.i = i /\ h.mac = c)
    BY <2>1 DEF ClientWaits
  <2> QED BY <2>2 DEF t, h
<1> QED BY <1>2, <1>3

\* A set written out in any order is there with every member.
LEMMA Listed ==
  ASSUME NEW S, IsFiniteSet(S), NEW s \in SetToSeqs(S)
  PROVE  s \in Seq(S) /\ \A x \in S : \E k \in DOMAIN s : s[k] = x
<1> DEFINE D == 1..Cardinality(S)
<1>1. Cardinality(S) \in Nat BY FS_CardinalityType
<1>2. s \in [D -> S] /\ \A k, l \in D : k # l => s[k] # s[l] BY DEF SetToSeqs
<1>3. s \in Injection(D, S) BY <1>2 DEF Injection, IsInjective
<1>4. Cardinality(D) = Cardinality(S)
  <2>1. 1 \in Int /\ Cardinality(S) \in Int BY <1>1
  <2>2. Cardinality(1..Cardinality(S))
        = IF 1 > Cardinality(S) THEN 0 ELSE Cardinality(S) - 1 + 1
    BY <2>1, FS_Interval
  <2> QED BY <1>1, <2>2
<1>5. s \in Surjection(D, S) BY <1>3, <1>4, FS_Injection
<1>6. \A x \in S : \E k \in D : s[k] = x BY <1>5 DEF Surjection
<1>7. s \in Seq(S) BY <1>1, <1>2
<1> QED BY <1>2, <1>6, <1>7

-----------------------------------------------------------------------------
(* The invariant *)

ObjectsTyped ==
  /\ world \in Worlds /\ alive \subseteq Ifaces /\ active \subseteq alive
  /\ ip \in [Ifaces -> SUBSET Fams]
  /\ guests \subseteq Wlans /\ at \in [Macs -> Ifaces \cup {Nobody}] /\ mcc \in BOOLEAN
  /\ switches \in 0..MaxSwitches /\ queue \in Seq(Event)

CacheTyped == /\ DOMAIN cached \subseteq Places
              /\ \A s \in DOMAIN cached : cached[s].i \in Ifaces /\ cached[s].mac \in Macs

\* The properties of i are there to be read, or i is what the controller takes down next.
Readable(i) == i \in active \/ (queue # <<>> /\ Head(queue) = Evt("IFACE_DOWN", i))

\* An interface that is up has an object, and that object has an address.
UpAreAlive == \A i \in Up : i \in alive /\ ip[i] # {} /\ Readable(i)

\* An interface that will be up has an object with that address, nobody deletes it, and if
\* it will be linked with the others, they may be bridged.
UpsInOrder ==
  \A k \in DOMAIN queue : queue[k].event = "IFACE_UP" =>
    LET i == queue[k].i IN
    /\ i \in alive \cap active /\ queue[k].ip \in ip[i]
    /\ \A l \in DOMAIN queue : /\ queue[l].event # "LAN_DELETE_SELF"
                               /\ queue[l].event = "IFACE_UP" => queue[l].i = i
    /\ i \notin guests /\ (i \notin Up \/ Waits(queue, "IFACE_DOWN", i))
         => \A j \in Up \ {i} : m_iface[j].inter

\* An object is deleted when it is active no more, and after the controller heard that the
\* interface went down.
DownBeforeEnd ==
  \A k \in DOMAIN queue : queue[k].event = "LAN_DELETE_SELF" =>
    /\ queue[k].i \notin active
    /\ \/ queue[k].i \notin Up
       \/ \E l \in DOMAIN queue : l < k /\ queue[l].event = "IFACE_DOWN" /\ queue[l].i = queue[k].i

\* A rule without the pipe of the mode has an event coming.
PipesInTime ==
  \A r \in WlanRt(held) : \/ r \in alt <=> mcc
                          \/ switches > 0 \/ Waits(queue, "WLAN_SCC_MCC_SWITCH", r.on)

RulesInv == /\ ObjectsTyped /\ CacheTyped /\ InStep /\ PipesOfRules
            /\ UpAreAlive /\ UpsInOrder /\ DownBeforeEnd /\ PipesInTime

\* What an event taken from the queue does.
Served ==
  LET e == Head(queue) IN
  /\ queue' = Tail(queue) /\ e \in Event /\ UNCHANGED <<world, active, ip, guests, at, mcc, switches>>
  /\ InStep' /\ PipesKept /\ OthersKept(e.i)
  /\ Up' = (IF e.event = "IFACE_UP" THEN Up \cup {e.i}
            ELSE IF e.event = "IFACE_DOWN" THEN Up \ {e.i} ELSE Up)
  /\ alive' = (IF e.event = "LAN_DELETE_SELF" THEN alive \ {e.i} ELSE alive)
  /\ e.event = "WLAN_SCC_MCC_SWITCH" =>
       \A r \in WlanRt(held)' : r.on = e.i => (r \in alt' <=> mcc)

LEMMA CachedTyped == CacheTyped => \A i : CachedOf(i) \subseteq Macs
BY DEF CacheTyped, CachedOf, CachedAt

LEMMA ServeIs ==
  ASSUME "freed" \notin Allowed, RulesInv, Serve
  PROVE  Served
<1> DEFINE e == Head(queue)
<1>1. queue \in Seq(Event) /\ queue # <<>> /\ queue' = Tail(queue)
  BY DEF RulesInv, ObjectsTyped, Serve
<1>2. e = queue[1] /\ 1 \in DOMAIN queue /\ e \in Event BY <1>1, TailIs
<1>3. /\ e.i \in Ifaces
      /\ e.event = "IFACE_UP" => e.ip \in Fams
      /\ e.event \in {"CLIENT_ADD", "CLIENT_DEL"} => e.mac \in Macs
  BY <1>2, EventFields
<1>4. InStep /\ PipesOfRules /\ UpsInOrder /\ CachedOf(e.i) \subseteq Macs
  BY CachedTyped DEF RulesInv
<1>5. \/ e.event = "IFACE_UP" /\ handle_iface_up(e.i, e.ip) /\ UNCHANGED objects
      \/ e.event = "IFACE_DOWN" /\ handle_iface_down(e.i, L2[e.i]) /\ UNCHANGED objects
      \/ e.event = "CLIENT_ADD" /\ handle_client_add(e) /\ UNCHANGED objects
      \/ e.event = "CLIENT_DEL" /\ handle_client_del(e.i, e.mac) /\ UNCHANGED objects
      \/ e.event = "WLAN_SCC_MCC_SWITCH" /\ handle_wlan_scc_mcc_switch(e.i) /\ UNCHANGED objects
      \/ /\ e.event = "LAN_DELETE_SELF" /\ alive' = alive \ {e.i}
         /\ UNCHANGED <<bridge, world, active, ip, guests, at, mcc, switches>>
  BY DEF Serve, TypesRead
<1>6. /\ UNCHANGED <<world, active, ip, guests, at, mcc, switches>>
      /\ alive' = (IF e.event = "LAN_DELETE_SELF" THEN alive \ {e.i} ELSE alive)
  BY <1>5 DEF objects
<1> HIDE DEF e
<1>7. CASE e.event = "IFACE_UP"
  <2>1. handle_iface_up(e.i, e.ip) BY <1>5, <1>7
  <2>2. e.i \notin Up /\ e.i \notin guests => \A j \in Up : m_iface[j].inter
    BY <1>2, <1>4, <1>7 DEF UpsInOrder
  <2>3. InStep' /\ PipesKept /\ Up' = Up \cup {e.i} /\ OthersKept(e.i)
    BY <1>3, <1>4, <1>7, <2>1, <2>2, UpKeeps
  <2>4. e.event # "WLAN_SCC_MCC_SWITCH" BY <1>7
  <2> QED BY <1>1, <1>2, <1>6, <1>7, <2>3, <2>4 DEF Served, e
<1>8. CASE e.event = "IFACE_DOWN"
  <2>1. handle_iface_down(e.i, L2[e.i]) BY <1>5, <1>8
  <2>2. InStep' /\ PipesKept /\ Up' = Up \ {e.i} /\ OthersKept(e.i)
    BY <1>3, <1>4, <2>1, DownKeeps
  <2>3. e.event # "WLAN_SCC_MCC_SWITCH" /\ e.event # "IFACE_UP" BY <1>8
  <2> QED BY <1>1, <1>2, <1>6, <1>8, <2>2, <2>3 DEF Served, e
<1>9. CASE e.event \in {"CLIENT_ADD", "CLIENT_DEL"}
  <2>1. InStep' /\ PipesKept /\ Up' = Up /\ OthersKept(e.i)
    <3>1. CASE handle_client_add(e) BY <1>3, <1>4, <1>9, <3>1, AddKeeps
    <3>2. CASE handle_client_del(e.i, e.mac) BY <1>3, <1>4, <1>9, <3>2, DelKeeps
    <3> QED BY <1>5, <1>9, <3>1, <3>2
  <2>2. e.event \notin {"WLAN_SCC_MCC_SWITCH", "IFACE_UP", "IFACE_DOWN"} BY <1>9
  <2> QED BY <1>1, <1>2, <1>6, <2>1, <2>2 DEF Served, e
<1>10. CASE e.event = "WLAN_SCC_MCC_SWITCH"
  <2>1. handle_wlan_scc_mcc_switch(e.i) BY <1>5, <1>10
  <2>2. /\ InStep' /\ PipesKept /\ Up' = Up /\ OthersKept(e.i)
        /\ \A r \in WlanRt(held)' : r.on = e.i => (r \in alt' <=> mcc)
    BY <1>3, <1>4, <2>1, SwitchKeeps
  <2>3. e.event \notin {"IFACE_UP", "IFACE_DOWN"} BY <1>10
  <2> QED BY <1>1, <1>2, <1>6, <2>2, <2>3 DEF Served, e
<1>11. CASE e.event = "LAN_DELETE_SELF"
  <2>1. m_iface' = m_iface /\ held' = held /\ hw' = hw /\ alt' = alt
    BY <1>5, <1>11 DEF bridge
  <2>2. InStep' /\ PipesKept BY <1>4, <2>1, InStepStays, PipesStay
  <2>3. Up' = Up /\ OthersKept(e.i) BY <2>1 DEF OthersKept, Up
  <2>4. e.event \notin {"WLAN_SCC_MCC_SWITCH", "IFACE_UP", "IFACE_DOWN"} BY <1>11
  <2> QED BY <1>1, <1>2, <1>6, <2>2, <2>3, <2>4 DEF Served, e
<1> QED BY <1>5, <1>7, <1>8, <1>9, <1>10, <1>11

\* Cached events are of interfaces and clients.
LEMMA ServeCache == RulesInv /\ Serve => CacheTyped'
<1> SUFFICES ASSUME RulesInv, Serve PROVE CacheTyped' OBVIOUS
<1> DEFINE e == Head(queue)
<1>1. e \in Event BY TailIs DEF RulesInv, ObjectsTyped, Serve
<1>2. CacheTyped BY DEF RulesInv
<1>3. \/ cached' = cached
      \/ \E i : cached' = Uncached(i)
      \/ /\ e.event = "CLIENT_ADD"
         /\ \E s \in Places \ DOMAIN cached :
              cached' = [p \in DOMAIN cached \cup {s} |-> IF p = s THEN e ELSE cached[p]]
  BY DEF Serve, handle_iface_up, handle_iface_down, handle_client_add, handle_client_del,
         handle_wlan_scc_mcc_switch, bridge
<1>4. e.event = "CLIENT_ADD" => e.i \in Ifaces /\ e.mac \in Macs BY <1>1, EventFields
<1> HIDE DEF e
<1>5. CASE cached' = cached BY <1>2, <1>5 DEF CacheTyped, Places
<1>6. CASE \E i : cached' = Uncached(i) BY <1>2, <1>6 DEF CacheTyped, Uncached, Places
<1>7. CASE /\ e.event = "CLIENT_ADD"
           /\ \E s \in Places \ DOMAIN cached :
                cached' = [p \in DOMAIN cached \cup {s} |-> IF p = s THEN e ELSE cached[p]]
  BY <1>2, <1>4, <1>7 DEF CacheTyped, Places
<1> QED BY <1>3, <1>5, <1>6, <1>7

LEMMA ServeRules ==
  ASSUME "freed" \notin Allowed, RulesInv, Serve
  PROVE  RulesInv'
<1> DEFINE e == Head(queue)
           q == queue'
<1>1. /\ q = Tail(queue) /\ e \in Event /\ UNCHANGED <<world, active, ip, guests, at, mcc, switches>>
      /\ InStep' /\ PipesKept /\ OthersKept(e.i)
      /\ Up' = (IF e.event = "IFACE_UP" THEN Up \cup {e.i}
                ELSE IF e.event = "IFACE_DOWN" THEN Up \ {e.i} ELSE Up)
      /\ alive' = (IF e.event = "LAN_DELETE_SELF" THEN alive \ {e.i} ELSE alive)
      /\ e.event = "WLAN_SCC_MCC_SWITCH" =>
           \A r \in WlanRt(held)' : r.on = e.i => (r \in alt' <=> mcc)
  BY ServeIs DEF Served
<1>2. queue \in Seq(Event) /\ queue # <<>> BY DEF RulesInv, ObjectsTyped, Serve
<1>3. /\ e = queue[1] /\ 1 \in DOMAIN queue /\ q \in Seq(Event)
      /\ \A k \in DOMAIN q : k + 1 \in DOMAIN queue /\ k + 1 # 1 /\ q[k] = queue[k + 1]
      /\ \A k \in DOMAIN queue : k = 1 \/ (k - 1 \in DOMAIN q /\ q[k - 1] = queue[k])
  BY <1>1, <1>2, TailIs
<1>4. \A ev, i : /\ Waits(q, ev, i) => Waits(queue, ev, i)
                 /\ Waits(queue, ev, i) => Waits(q, ev, i) \/ (e.event = ev /\ e.i = i)
  BY <1>1, <1>2, TailWaits
<1>5. /\ ObjectsTyped /\ UpAreAlive /\ UpsInOrder /\ DownBeforeEnd /\ PipesInTime
  BY DEF RulesInv
<1> HIDE DEF e, q
<1>6. ObjectsTyped'
  <2>1. queue' \in Seq(Event) BY <1>3 DEF q
  <2>2. e.event = "LAN_DELETE_SELF" => e.i \notin active BY <1>3, <1>5 DEF DownBeforeEnd
  <2>3. alive' \subseteq Ifaces /\ active' \subseteq alive' BY <1>1, <1>5, <2>2 DEF ObjectsTyped
  <2> QED BY <1>1, <1>5, <2>1, <2>3 DEF ObjectsTyped, Event
<1>7. CacheTyped' BY ServeCache
<1>8. UpAreAlive'
  <2>1. e.event = "IFACE_UP" => e.i \in alive \cap active /\ ip[e.i] # {}
    BY <1>3, <1>5 DEF UpsInOrder
  <2>2. e.event = "LAN_DELETE_SELF" => e.i \notin Up
    <3> SUFFICES ASSUME e.event = "LAN_DELETE_SELF", e.i \in Up PROVE FALSE OBVIOUS
    <3>1. PICK l \in DOMAIN queue : l < 1 BY <1>3, <1>5 DEF DownBeforeEnd
    <3>2. l \in 1..Len(queue) /\ Len(queue) \in Nat BY <1>2
    <3> QED BY <3>1, <3>2
  <2>3. ASSUME NEW i \in Up \ active PROVE e.event = "IFACE_DOWN" /\ e.i = i
    BY <1>5 DEF UpAreAlive, Readable, Evt, e
  <2>4. ASSUME NEW i \in Up' PROVE i \in active'
    BY <1>1, <2>1, <2>3
  <2>5. ASSUME NEW i \in Up' PROVE i \in alive' /\ ip'[i] # {}
    <3>1. CASE e.event = "IFACE_UP" BY <1>1, <1>5, <2>1, <3>1 DEF UpAreAlive
    <3>2. CASE e.event = "IFACE_DOWN" BY <1>1, <1>5, <3>2 DEF UpAreAlive
    <3>3. CASE e.event = "LAN_DELETE_SELF" BY <1>1, <1>5, <2>2, <3>3 DEF UpAreAlive
    <3>4. CASE e.event \notin {"IFACE_UP", "IFACE_DOWN", "LAN_DELETE_SELF"}
      BY <1>1, <1>5, <3>4 DEF UpAreAlive
    <3> QED BY <3>1, <3>2, <3>3, <3>4
  <2> QED BY <2>4, <2>5 DEF UpAreAlive, Readable
<1>9. UpsInOrder'
  <2> SUFFICES ASSUME NEW k \in DOMAIN q, q[k].event = "IFACE_UP"
               PROVE  LET i == q[k].i IN
                      /\ i \in alive' \cap active' /\ q[k].ip \in ip'[i]
                      /\ \A l \in DOMAIN q : /\ q[l].event # "LAN_DELETE_SELF"
                                             /\ q[l].event = "IFACE_UP" => q[l].i = i
                      /\ i \notin guests' /\ (i \notin Up' \/ Waits(q, "IFACE_DOWN", i))
                           => \A j \in Up' \ {i} : m_iface'[j].inter
    BY DEF UpsInOrder, q, Waits
  <2> DEFINE i == q[k].i
  <2>1. /\ i \in alive \cap active /\ q[k].ip \in ip[i]
        /\ \A l \in DOMAIN queue : /\ queue[l].event # "LAN_DELETE_SELF"
                                   /\ queue[l].event = "IFACE_UP" => queue[l].i = i
        /\ i \notin guests /\ (i \notin Up \/ Waits(queue, "IFACE_DOWN", i))
             => \A j \in Up \ {i} : m_iface[j].inter
    <3>1. k + 1 \in DOMAIN queue /\ q[k] = queue[k + 1] BY <1>3
    <3>2. queue[k + 1].event = "IFACE_UP" BY <3>1
    <3> QED BY <1>5, <3>1, <3>2 DEF UpsInOrder
  <2>2. /\ e.event # "LAN_DELETE_SELF" /\ (e.event = "IFACE_UP" => e.i = i)
        /\ \A l \in DOMAIN q : /\ q[l].event # "LAN_DELETE_SELF"
                               /\ q[l].event = "IFACE_UP" => q[l].i = i
    BY <1>3, <2>1
  <2>3. i \in alive' \cap active' /\ q[k].ip \in ip'[i] BY <1>1, <2>1, <2>2
  <2>4. ASSUME i \notin guests', i \notin Up' \/ Waits(q, "IFACE_DOWN", i), NEW j \in Up' \ {i}
        PROVE  m_iface'[j].inter
    <3>1. i \notin guests BY <1>1, <2>4
    <3>2. i \notin Up \/ Waits(queue, "IFACE_DOWN", i)
      <4>1. CASE Waits(q, "IFACE_DOWN", i) BY <1>4, <4>1
      <4>2. CASE i \notin Up'
        <5>1. CASE e.event = "IFACE_DOWN" /\ e.i = i BY <1>3, <5>1 DEF Waits
        <5>2. CASE ~(e.event = "IFACE_DOWN" /\ e.i = i) BY <1>1, <4>2, <5>2
        <5> QED BY <5>1, <5>2
      <4> QED BY <2>4, <4>1, <4>2
    <3>3. \A p \in Up \ {i} : m_iface[p].inter BY <2>1, <3>1, <3>2
    <3>4. j \in Up \ {i} BY <1>1, <2>2, <2>4
    <3>5. m_iface'[j].inter = m_iface[j].inter
      <4>1. OthersKept(e.i) BY <1>1
      <4>2. \A p \in Up \cap Up' : m_iface'[p].inter = m_iface[p].inter BY <4>1 DEF OthersKept
      <4>3. j \in Up \cap Up' BY <2>4, <3>4
      <4> QED BY <4>2, <4>3
    <3> QED BY <3>3, <3>4, <3>5
  <2> QED BY <2>2, <2>3, <2>4
<1>10. DownBeforeEnd'
  <2> SUFFICES ASSUME NEW k \in DOMAIN q, q[k].event = "LAN_DELETE_SELF"
               PROVE  /\ q[k].i \notin active'
                      /\ \/ q[k].i \notin Up'
                         \/ \E l \in DOMAIN q : /\ l < k /\ q[l].event = "IFACE_DOWN"
                                                /\ q[l].i = q[k].i
    BY DEF DownBeforeEnd, q
  <2>1. k + 1 \in DOMAIN queue /\ q[k] = queue[k + 1] BY <1>3
  <2>2. e.event # "IFACE_UP" BY <1>3, <1>5, <2>1 DEF UpsInOrder
  <2>3. q[k].i \notin active' BY <1>1, <1>5, <2>1 DEF DownBeforeEnd
  <2>4. \/ q[k].i \notin Up
        \/ \E l \in DOMAIN queue : /\ l < k + 1 /\ queue[l].event = "IFACE_DOWN"
                                   /\ queue[l].i = q[k].i
    BY <1>5, <2>1 DEF DownBeforeEnd
  <2>5. CASE q[k].i \notin Up BY <1>1, <2>2, <2>3, <2>5
  <2>6. CASE \E l \in DOMAIN queue : /\ l < k + 1 /\ queue[l].event = "IFACE_DOWN"
                                     /\ queue[l].i = q[k].i
    <3>1. PICK l \in DOMAIN queue : /\ l < k + 1 /\ queue[l].event = "IFACE_DOWN"
                                    /\ queue[l].i = q[k].i
      BY <2>6
    <3>2. CASE l = 1 BY <1>1, <1>3, <2>3, <3>1, <3>2
    <3>3. CASE l # 1
      <4>1. l - 1 \in DOMAIN q /\ q[l - 1] = queue[l] BY <1>3, <3>3
      <4>2. l \in Int /\ k \in Int
        <5>1. DOMAIN queue = 1..Len(queue) /\ DOMAIN q = 1..Len(q) BY <1>2, <1>3
        <5> QED BY <5>1
      <4>3. l - 1 < k BY <3>1, <4>2
      <4> QED BY <2>3, <3>1, <4>1, <4>3
    <3> QED BY <3>2, <3>3
  <2> QED BY <2>3, <2>4, <2>5, <2>6
<1>11. PipesOfRules' BY <1>1 DEF PipesKept
<1>12. PipesInTime'
  <2> SUFFICES ASSUME NEW r \in WlanRt(held)'
               PROVE  \/ r \in alt' <=> mcc'
                      \/ switches' > 0 \/ Waits(q, "WLAN_SCC_MCC_SWITCH", r.on)
    BY DEF PipesInTime, q, Waits
  <2>1. mcc' = mcc /\ switches' = switches BY <1>1
  <2>2. \/ r \in WlanRt(held) /\ (r \in alt' <=> r \in alt)
        \/ r \in alt' <=> mcc
    BY <1>1 DEF PipesKept
  <2>3. CASE r \in WlanRt(held) /\ (r \in alt' <=> r \in alt)
    <3>1. \/ r \in alt <=> mcc
          \/ switches > 0 \/ Waits(queue, "WLAN_SCC_MCC_SWITCH", r.on)
      BY <1>5, <2>3 DEF PipesInTime
    <3>2. Waits(queue, "WLAN_SCC_MCC_SWITCH", r.on) =>
            \/ Waits(q, "WLAN_SCC_MCC_SWITCH", r.on)
            \/ e.event = "WLAN_SCC_MCC_SWITCH" /\ e.i = r.on
      BY <1>4
    <3>3. CASE e.event = "WLAN_SCC_MCC_SWITCH" /\ e.i = r.on BY <1>1, <2>1, <3>3
    <3> QED BY <2>1, <2>3, <3>1, <3>2, <3>3
  <2> QED BY <2>1, <2>2, <2>3
<1> QED BY <1>1, <1>6, <1>7, <1>8, <1>9, <1>10, <1>11, <1>12 DEF RulesInv

\* An event of an interface object leaves the controller as it is.
LEMMA BridgeStays ==
  ASSUME RulesInv, UNCHANGED bridge
  PROVE  /\ InStep' /\ CacheTyped' /\ PipesOfRules' /\ Up' = Up /\ m_iface' = m_iface
         /\ WlanRt(held)' = WlanRt(held) /\ alt' = alt
<1>1. m_iface' = m_iface /\ cached' = cached /\ held' = held /\ hw' = hw /\ alt' = alt
  BY DEF bridge
<1>2. InStep /\ CacheTyped /\ PipesOfRules BY DEF RulesInv
<1>3. InStep' BY <1>1, <1>2, InStepStays
<1>4. WlanRt(held)' = WlanRt(held) BY <1>1, WlanRtConstant
<1>5. CacheTyped' BY <1>1, <1>2 DEF CacheTyped, Places
<1>6. Up' = Up BY <1>1 DEF Up
<1> QED BY <1>1, <1>2, <1>3, <1>4, <1>5, <1>6 DEF PipesOfRules

\* While no event waits, a rule without the pipe of the mode is due to an external event.
LEMMA PipesAtRest ==
  ASSUME RulesInv, UNCHANGED bridge, queue = <<>>, mcc' = mcc, switches' = switches
  PROVE  PipesInTime'
<1>1. PipesInTime BY DEF RulesInv
<1>2. \A ev, i : ~Waits(queue, ev, i) BY DEF Waits
<1>3. \A r \in WlanRt(held) : (r \in alt <=> mcc) \/ switches > 0 BY <1>1, <1>2 DEF PipesInTime
<1> QED BY <1>3, BridgeStays DEF PipesInTime

LEMMA LinkUpRules == ASSUME RulesInv, NEW i \in Ifaces, LinkUp(i) PROVE RulesInv'
<1>1. ObjectsTyped /\ UpAreAlive BY DEF RulesInv
<1>2. /\ i \notin alive /\ alive' = alive \cup {i} /\ active' = active \cup {i}
      /\ ip' = [ip EXCEPT ![i] = {}]
      /\ queue = <<>> /\ queue' = <<>> /\ UNCHANGED <<world, guests, at, mcc, switches>>
      /\ UNCHANGED bridge
  BY DEF LinkUp, Posted
<1>3. ObjectsTyped' BY <1>1, <1>2 DEF ObjectsTyped, Event
<1>4. UpAreAlive'
  <2>1. Up' = Up BY <1>2, BridgeStays
  <2> QED BY <1>1, <1>2, <2>1 DEF UpAreAlive, Readable, ObjectsTyped
<1>5. UpsInOrder' /\ DownBeforeEnd' BY <1>2 DEF UpsInOrder, DownBeforeEnd
<1> QED BY <1>2, <1>3, <1>4, <1>5, BridgeStays, PipesAtRest DEF RulesInv

\* No event of the queue brings an interface up or ends an object.
NoUpNorEnd(q) == \A k \in DOMAIN q : q[k].event \notin {"IFACE_UP", "LAN_DELETE_SELF"}

LEMMA NothingUp ==
  ASSUME NoUpNorEnd(queue')
  PROVE  UpsInOrder' /\ DownBeforeEnd'
BY DEF NoUpNorEnd, UpsInOrder, DownBeforeEnd

LEMMA ClientRulesKept ==
  ASSUME RulesInv, NEW i \in Ifaces, NEW c \in Macs, Join(i, c) \/ Leave(i, c)
  PROVE  RulesInv'
<1>1. ObjectsTyped /\ UpAreAlive BY DEF RulesInv
<1>2. PICK ev \in {"CLIENT_ADD", "CLIENT_DEL"} : queue' = <<ClientEvt(ev, i, c)>>
  BY DEF Join, Leave, Posted
<1>3. /\ queue = <<>> /\ UNCHANGED <<world, alive, active, ip, guests, mcc, switches>>
      /\ UNCHANGED bridge /\ at' \in [Macs -> Ifaces \cup {Nobody}]
  BY <1>1 DEF Join, Leave, Posted, ObjectsTyped
<1>4. ClientEvt(ev, i, c) \in Event /\ ClientEvt(ev, i, c).event = ev BY Events
<1>5. queue' \in Seq(Event) /\ NoUpNorEnd(queue') BY <1>2, <1>4 DEF NoUpNorEnd
<1>6. ObjectsTyped' BY <1>1, <1>3, <1>5 DEF ObjectsTyped, Event
<1>7. UpAreAlive'
  <2>1. Up' = Up BY <1>3, BridgeStays
  <2> QED BY <1>1, <1>3, <2>1 DEF UpAreAlive, Readable
<1> QED BY <1>3, <1>5, <1>6, <1>7, NothingUp, BridgeStays, PipesAtRest DEF RulesInv

LEMMA AddrAddRules ==
  ASSUME RulesInv, "guest" \notin Allowed, NEW i \in Ifaces, NEW f \in Fams, AddrAdd(i, f)
  PROVE  RulesInv'
<1>1. ObjectsTyped /\ UpAreAlive BY DEF RulesInv
<1>2. /\ i \in active /\ ip' = [ip EXCEPT ![i] = @ \cup {f}]
      /\ i \notin Up /\ i \notin guests => \A j \in Up : m_iface[j].inter
      /\ queue = <<>> /\ queue' = <<IfaceUp(i, f)>>
      /\ UNCHANGED <<world, alive, active, guests, at, mcc, switches>> /\ UNCHANGED bridge
  BY DEF AddrAdd, Posted, NewLink
<1>3. IfaceUp(i, f) \in Event /\ IfaceUp(i, f).event = "IFACE_UP" /\ IfaceUp(i, f).i = i
      /\ IfaceUp(i, f).ip = f
  BY Events
<1>4. Up' = Up /\ m_iface' = m_iface BY <1>2, BridgeStays
<1>5. ObjectsTyped'
  <2>1. ip' \in [Ifaces -> SUBSET Fams] BY <1>1, <1>2 DEF ObjectsTyped
  <2>2. queue' \in Seq(Event) BY <1>2, <1>3
  <2> QED BY <1>1, <1>2, <2>1, <2>2 DEF ObjectsTyped, Event
<1>6. UpAreAlive' BY <1>1, <1>2, <1>4 DEF UpAreAlive, Readable, ObjectsTyped
<1>7. DOMAIN queue' = {1} /\ queue'[1] = IfaceUp(i, f) BY <1>2
<1>8. UpsInOrder'
  <2>1. ~Waits(queue', "IFACE_DOWN", i) BY <1>3, <1>7 DEF Waits
  <2>2. i \in alive' \cap active' /\ f \in ip'[i] BY <1>1, <1>2 DEF ObjectsTyped
  <2>3. i \notin guests' /\ i \notin Up' => \A j \in Up' \ {i} : m_iface'[j].inter
    BY <1>2, <1>4
  <2> QED BY <1>3, <1>7, <2>1, <2>2, <2>3 DEF UpsInOrder, Waits
<1>9. DownBeforeEnd' BY <1>3, <1>7 DEF DownBeforeEnd
<1> QED BY <1>2, <1>5, <1>6, <1>8, <1>9, BridgeStays, PipesAtRest DEF RulesInv

LEMMA LinkDownRules == ASSUME RulesInv, NEW i \in Ifaces, LinkDown(i) PROVE RulesInv'
<1>1. ObjectsTyped /\ UpAreAlive BY DEF RulesInv
<1>2. /\ at' = [c \in Macs |-> IF at[c] = i THEN Nobody ELSE at[c]]
      /\ queue = <<>> /\ queue' = DownEvents(i) /\ active' = active \ {i}
      /\ UNCHANGED <<world, alive, ip, guests, mcc, switches>> /\ UNCHANGED bridge
  BY DEF LinkDown, Posted
<1>3. \A ev \in {"IFACE_DOWN", "LAN_DELETE_SELF", "WLAN_SCC_MCC_SWITCH"} :
        Evt(ev, i) \in Event /\ Evt(ev, i).event = ev /\ Evt(ev, i).i = i
  BY Events
<1>4. Up' = Up BY <1>2, BridgeStays
<1>5. ObjectsTyped'
  <2>1. at' \in [Macs -> Ifaces \cup {Nobody}] BY <1>1, <1>2 DEF ObjectsTyped
  <2>2. queue' \in Seq(Event) BY <1>2, <1>3 DEF DownEvents
  <2> QED BY <1>1, <1>2, <2>1, <2>2 DEF ObjectsTyped, Event
<1>6. UpAreAlive'
  <2>1. ip[i] # {} => queue' # <<>> /\ Head(queue') = Evt("IFACE_DOWN", i)
    BY <1>2 DEF DownEvents
  <2>2. \A j \in Up : j \in alive /\ ip[j] # {} /\ j \in active
    BY <1>1, <1>2 DEF UpAreAlive, Readable
  <2> QED BY <1>2, <1>4, <2>1, <2>2 DEF UpAreAlive, Readable
<1>7. UpsInOrder' BY <1>2, <1>3 DEF UpsInOrder, DownEvents
<1>8. DownBeforeEnd'
  <2>1. CASE ip[i] = {}
    <3>1. i \notin Up' /\ i \notin active' BY <1>1, <1>2, <1>4, <2>1 DEF UpAreAlive
    <3>2. \A k \in DOMAIN queue' : queue'[k].i = i BY <1>2, <1>3, <2>1 DEF DownEvents
    <3> QED BY <3>1, <3>2 DEF DownBeforeEnd
  <2>2. CASE ip[i] # {}
    <3>1. /\ DOMAIN queue' = 1..2
          /\ queue'[1] = Evt("IFACE_DOWN", i) /\ queue'[2] = Evt("LAN_DELETE_SELF", i)
      BY <1>2, <2>2 DEF DownEvents
    <3>2. i \notin active' BY <1>2
    <3> QED BY <1>3, <3>1, <3>2 DEF DownBeforeEnd
  <2> QED BY <2>1, <2>2
<1> QED BY <1>2, <1>5, <1>6, <1>7, <1>8, BridgeStays, PipesAtRest DEF RulesInv

LEMMA ChannelSwitchRules == ASSUME RulesInv, ChannelSwitch PROVE RulesInv'
<1>1. ObjectsTyped /\ UpAreAlive /\ UpsInOrder /\ DownBeforeEnd BY DEF RulesInv
<1>2. /\ switches < MaxSwitches /\ mcc' = ~mcc /\ switches' = switches + 1
      /\ UNCHANGED <<world, alive, active, ip, guests, at, queue>> /\ UNCHANGED bridge
  BY DEF ChannelSwitch
<1>3. switches \in Nat /\ MaxSwitches \in Nat BY <1>1, BoundsAssumption DEF ObjectsTyped
<1>4. switches' \in 0..MaxSwitches /\ switches' > 0 BY <1>2, <1>3
<1>5. ObjectsTyped' BY <1>1, <1>2, <1>4 DEF ObjectsTyped, Event
<1>6. Up' = Up /\ m_iface' = m_iface BY <1>2, BridgeStays
<1>7. UpAreAlive' BY <1>1, <1>2, <1>6 DEF UpAreAlive, Readable
<1>8. UpsInOrder' BY <1>1, <1>2, <1>6 DEF UpsInOrder, Waits
<1>9. DownBeforeEnd' BY <1>1, <1>2, <1>6 DEF DownBeforeEnd
<1>10. PipesInTime' BY <1>4 DEF PipesInTime
<1> QED BY <1>2, <1>5, <1>7, <1>8, <1>9, <1>10, BridgeStays DEF RulesInv

\* Every access point there is hears of the mode, and no other event is posted.
LEMMA SwitchHeard ==
  ASSUME RulesInv, SwitchEvent
  PROVE  /\ queue' \in Seq(Event)
         /\ \A k \in DOMAIN queue' : queue'[k].event = "WLAN_SCC_MCC_SWITCH"
         /\ \A i \in Wlans \cap active : Waits(queue', "WLAN_SCC_MCC_SWITCH", i)
<1> DEFINE A == Wlans \cap active
           S == {Evt("WLAN_SCC_MCC_SWITCH", i) : i \in A}
           g == [i \in A |-> Evt("WLAN_SCC_MCC_SWITCH", i)]
<1>1. queue' \in SetToSeqs(S) BY DEF SwitchEvent, Posted
<1>2. IsFiniteSet(S)
  <2>1. IsFiniteSet(A) BY FiniteAssumption, FS_Subset DEF Ifaces
  <2>2. g \in Surjection(A, S) BY DEF Surjection
  <2> QED BY <2>1, <2>2, FS_Surjection
<1>3. S \subseteq Event /\ \A e \in S : e.event = "WLAN_SCC_MCC_SWITCH" BY Events DEF Ifaces
<1>4. \A i \in A : Evt("WLAN_SCC_MCC_SWITCH", i) \in S OBVIOUS
<1> HIDE DEF S
<1>5. queue' \in Seq(S) /\ \A x \in S : \E k \in DOMAIN queue' : queue'[k] = x
  BY <1>1, <1>2, Listed
<1>6. ASSUME NEW i \in A PROVE Waits(queue', "WLAN_SCC_MCC_SWITCH", i)
  <2>1. PICK k \in DOMAIN queue' : queue'[k] = Evt("WLAN_SCC_MCC_SWITCH", i) BY <1>4, <1>5
  <2> QED BY <2>1 DEF Waits, Evt
<1> QED BY <1>3, <1>5, <1>6

LEMMA SwitchEventRules == ASSUME RulesInv, SwitchEvent PROVE RulesInv'
<1>1. ObjectsTyped /\ UpAreAlive /\ InStep BY DEF RulesInv
<1>2. /\ switches > 0 /\ switches' = switches - 1 /\ queue = <<>>
      /\ UNCHANGED <<world, alive, active, ip, guests, at, mcc>> /\ UNCHANGED bridge
  BY DEF SwitchEvent, Posted
<1>3. queue' \in Seq(Event) /\ NoUpNorEnd(queue') BY SwitchHeard DEF NoUpNorEnd
<1>4. Up' = Up /\ m_iface' = m_iface BY <1>2, BridgeStays
<1>5. ObjectsTyped'
  <2>1. switches' \in 0..MaxSwitches BY <1>1, <1>2, BoundsAssumption DEF ObjectsTyped
  <2> QED BY <1>1, <1>2, <1>3, <2>1 DEF ObjectsTyped, Event
<1>6. UpAreAlive' BY <1>1, <1>2, <1>4 DEF UpAreAlive, Readable
<1>7. PipesInTime'
  <2> SUFFICES ASSUME NEW r \in WlanRt(held) PROVE Waits(queue', "WLAN_SCC_MCC_SWITCH", r.on)
    BY <1>2, BridgeStays DEF PipesInTime, Waits
  <2>1. r \in held /\ r.what = "rt" /\ r.on \in Wlans BY InWlanRt
  <2>2. r.on \in Up
    <3>1. Links(m_iface) /\ held = RulesFor(m_iface) BY <1>1 DEF InStep
    <3>2. IsRule(r) BY <2>1, <3>1, InRulesFor
    <3>3. PICK k, c, t : r = Rt(k, c, t) BY <2>1, <3>2, RuleFields DEF IsRule
    <3> QED BY <2>1, <3>1, <3>3, InRulesFor, RuleFields DEF Up
  <2>3. r.on \in Wlans \cap active BY <1>1, <1>2, <2>1, <2>2 DEF UpAreAlive, Readable
  <2> QED BY <2>3, SwitchHeard
<1> QED BY <1>2, <1>3, <1>5, <1>6, <1>7, NothingUp, BridgeStays DEF RulesInv

\* The events posted when the mode of an access point changes.
ModeEvent(e, i) == /\ e \in Event /\ e.i = i
                   /\ e.event \in {"IFACE_UP", "IFACE_DOWN", "CLIENT_ADD"}
                   /\ e.event = "IFACE_UP" => e.ip \in ip[i]
                   /\ e.event = "CLIENT_ADD" => at[e.mac] = i

LEMMA ModeEventsAre ==
  ASSUME RulesInv, NEW i \in Ifaces, NEW st \in Seq({c \in Macs : at[c] = i})
  PROVE  /\ ModeEvents(i, st) \in Seq(Event)
         /\ \A k \in DOMAIN ModeEvents(i, st) : ModeEvent(ModeEvents(i, st)[k], i)
<1> DEFINE S == {e \in Event : ModeEvent(e, i)}
           a == <<Evt("IFACE_DOWN", i)>>
           b == IF "v4" \in ip[i] THEN <<IfaceUp(i, "v4")>> ELSE <<>>
           c == IF "v6" \in ip[i] THEN <<IfaceUp(i, "v6")>> ELSE <<>>
           d == [k \in DOMAIN st |-> ClientEvt("CLIENT_ADD", i, st[k])]
<1>1. a \in Seq(S)
  <2>1. ModeEvent(Evt("IFACE_DOWN", i), i) BY Events DEF ModeEvent
  <2>2. Evt("IFACE_DOWN", i) \in S BY <2>1 DEF ModeEvent
  <2> QED BY <2>2
<1>2. \A f \in Fams : f \in ip[i] => IfaceUp(i, f) \in S BY Events DEF ModeEvent
<1>3. b \in Seq(S)
  <2>1. "v4" \in ip[i] => IfaceUp(i, "v4") \in S BY <1>2 DEF Fams
  <2> HIDE DEF S
  <2> QED BY <2>1
<1>4. c \in Seq(S)
  <2>1. "v6" \in ip[i] => IfaceUp(i, "v6") \in S BY <1>2 DEF Fams
  <2> HIDE DEF S
  <2> QED BY <2>1
<1>5. d \in Seq(S)
  <2>1. \A m \in Macs : at[m] = i => ClientEvt("CLIENT_ADD", i, m) \in S
    <3> SUFFICES ASSUME NEW m \in Macs, at[m] = i PROVE ClientEvt("CLIENT_ADD", i, m) \in S
      OBVIOUS
    <3>1. /\ ClientEvt("CLIENT_ADD", i, m) \in Event
          /\ ClientEvt("CLIENT_ADD", i, m).event = "CLIENT_ADD"
          /\ ClientEvt("CLIENT_ADD", i, m).i = i /\ ClientEvt("CLIENT_ADD", i, m).mac = m
      BY Events
    <3> QED BY <3>1 DEF ModeEvent
  <2>2. /\ DOMAIN st = 1..Len(st) /\ Len(st) \in Nat
        /\ \A k \in DOMAIN st : st[k] \in Macs /\ at[st[k]] = i
    OBVIOUS
  <2> HIDE DEF S
  <2> QED BY <2>1, <2>2
<1> HIDE DEF S, a, b, c, d
<1>6. a \o b \in Seq(S) BY <1>1, <1>3
<1>7. a \o b \o c \in Seq(S) BY <1>6, <1>4
<1>8. a \o b \o c \o d \in Seq(S) BY <1>7, <1>5
<1>9. ModeEvents(i, st) \in Seq(S) BY <1>8 DEF ModeEvents, a, b, c, d
<1>10. S \subseteq Event /\ \A e \in S : ModeEvent(e, i) BY DEF S
<1> QED BY <1>9, <1>10

LEMMA ModeSwitchRules ==
  ASSUME RulesInv, "guest" \notin Allowed, NEW i \in Ifaces, ModeSwitch(i)
  PROVE  RulesInv'
<1>1. ObjectsTyped /\ UpAreAlive BY DEF RulesInv
<1> DEFINE C == {c \in Macs : at[c] = i}
<1>2. /\ i \in Wlans /\ guests' = (IF i \in guests THEN guests \ {i} ELSE guests \cup {i})
      /\ i \in guests => \A j \in Up \ {i} : m_iface[j].inter
      /\ queue = <<>> /\ UNCHANGED <<world, alive, active, ip, at, mcc, switches>> /\ UNCHANGED bridge
  BY DEF ModeSwitch, Posted
<1>3. PICK st \in SetToSeqs(C) : queue' = (IF i \in active THEN ModeEvents(i, st) ELSE <<>>)
  BY DEF ModeSwitch, Posted
<1>4. st \in Seq(C)
  <2>1. IsFiniteSet(C) BY FiniteAssumption, FS_Subset
  <2> QED BY <1>3, <2>1, Listed
<1>5. /\ queue' \in Seq(Event)
      /\ \A k \in DOMAIN queue' : i \in active /\ ModeEvent(queue'[k], i)
  <2>1. CASE i \in active BY <1>3, <1>4, <2>1, ModeEventsAre
  <2>2. CASE i \notin active BY <1>3, <2>2
  <2> QED BY <2>1, <2>2
<1>6. ObjectsTyped'
  <2>1. guests' \subseteq Wlans BY <1>1, <1>2 DEF ObjectsTyped
  <2> QED BY <1>1, <1>2, <1>5, <2>1 DEF ObjectsTyped, Event
<1>7. Up' = Up /\ m_iface' = m_iface BY <1>2, BridgeStays
<1>8. UpAreAlive' BY <1>1, <1>2, <1>7 DEF UpAreAlive, Readable
<1>9. UpsInOrder'
  <2>1. i \notin guests' => \A j \in Up \ {i} : m_iface[j].inter BY <1>2
  <2>2. \A k \in DOMAIN queue' : /\ i \in alive' \cap active' /\ queue'[k].i = i
                                 /\ queue'[k].event # "LAN_DELETE_SELF"
                                 /\ queue'[k].event = "IFACE_UP" => queue'[k].ip \in ip'[i]
    BY <1>1, <1>2, <1>5 DEF ModeEvent, ObjectsTyped
  <2> QED BY <1>7, <2>1, <2>2 DEF UpsInOrder
<1>10. DownBeforeEnd' BY <1>5 DEF DownBeforeEnd, ModeEvent
<1> QED BY <1>2, <1>6, <1>8, <1>9, <1>10, BridgeStays, PipesAtRest DEF RulesInv

-----------------------------------------------------------------------------
(* The rules are the ideal ones *)

LEMMA InitRules == Init => RulesInv
<1> SUFFICES ASSUME Init PROVE RulesInv OBVIOUS
<1>1. ObjectsTyped
  <2>1. switches \in 0..MaxSwitches BY BoundsAssumption DEF Init
  <2>2. queue \in Seq(Event) BY DEF Init
  <2>3. at \in [Macs -> Ifaces \cup {Nobody}] /\ ip \in [Ifaces -> SUBSET Fams] BY DEF Init
  <2> QED BY <2>1, <2>2, <2>3 DEF Init, ObjectsTyped
<1>2. Up = {} /\ DOMAIN cached = {} /\ held = {} /\ hw = EmptyBag /\ alt = {} /\ queue = <<>>
  BY DEF Init, Up
<1>3. Typed(m_iface) /\ Links(m_iface)
  BY <1>2 DEF Typed, Links, Up
<1>4. RulesFor(m_iface) = {} BY <1>2 DEF RulesFor, Up
<1>5. hw = SetToBag(held) BY <1>2 DEF SetToBag, EmptyBag
<1>6. InStep BY <1>2, <1>3, <1>4, <1>5 DEF InStep
<1>7. PipesOfRules /\ PipesInTime BY <1>2 DEF PipesOfRules, PipesInTime, WlanRt, RtRules
<1>8. CacheTyped /\ UpAreAlive BY <1>2 DEF CacheTyped, UpAreAlive
<1>9. UpsInOrder /\ DownBeforeEnd BY <1>2 DEF UpsInOrder, DownBeforeEnd
<1> QED BY <1>1, <1>6, <1>7, <1>8, <1>9 DEF RulesInv

LEMMA NextRules ==
  ASSUME "guest" \notin Allowed, "freed" \notin Allowed, RulesInv, [Next]_vars
  PROVE  RulesInv'
<1>1. CASE Serve BY <1>1, ServeRules
<1>2. CASE ChannelSwitch BY <1>2, ChannelSwitchRules
<1>3. CASE SwitchEvent BY <1>3, SwitchEventRules
<1>4. ASSUME NEW i \in Ifaces, LinkUp(i) \/ LinkDown(i) \/ ModeSwitch(i) PROVE RulesInv'
  BY <1>4, LinkUpRules, LinkDownRules, ModeSwitchRules
<1>5. ASSUME NEW i \in Ifaces, NEW f \in Fams, AddrAdd(i, f) PROVE RulesInv'
  BY <1>5, AddrAddRules
<1>6. ASSUME NEW i \in Ifaces, NEW c \in Macs, Join(i, c) \/ Leave(i, c) PROVE RulesInv'
  BY <1>6, ClientRulesKept
<1>7. CASE UNCHANGED vars
  <2>1. UNCHANGED <<world, alive, active, ip, guests, at, mcc, switches, queue>> /\ UNCHANGED bridge
    BY <1>7 DEF vars, objects
  <2>2. /\ ObjectsTyped /\ UpAreAlive /\ UpsInOrder /\ DownBeforeEnd /\ PipesInTime
    BY DEF RulesInv
  <2>3. ObjectsTyped' BY <2>1, <2>2 DEF ObjectsTyped, Event
  <2>4. Up' = Up /\ m_iface' = m_iface BY <2>1, BridgeStays
  <2>5. UpAreAlive' BY <2>1, <2>2, <2>4 DEF UpAreAlive, Readable
  <2>6. UpsInOrder' BY <2>1, <2>2, <2>4 DEF UpsInOrder, Waits
  <2>7. DownBeforeEnd' BY <2>1, <2>2, <2>4 DEF DownBeforeEnd
  <2>8. PipesInTime' BY <2>1, <2>2, BridgeStays DEF PipesInTime, Waits
  <2> QED BY <2>1, <2>3, <2>5, <2>6, <2>7, <2>8, BridgeStays DEF RulesInv
<1> QED BY <1>1, <1>2, <1>3, <1>4, <1>5, <1>6, <1>7 DEF Next

\* No interface has a peer that is not there, or that does not know it; the controller has
\* no interface whose object is gone, and none whose tx_prop is freed but the one whose
\* IFACE_DOWN it handles next.  This holds in every course of events but two: an interface
\* comes up while another is in guest mode, and freed memory holds another type.
THEOREM Mutual ==
  ASSUME "guest" \notin Allowed, "freed" \notin Allowed
  PROVE  Spec => []PeersAreMutual
<1>1. RulesInv => PeersAreMutual
  BY MutualPeers DEF RulesInv, InStep, UpAreAlive, Readable, PeersAreMutual, Up
<1>2. RulesInv /\ [Next]_vars => RulesInv' BY NextRules
<1> QED BY <1>1, <1>2, InitRules, PTL DEF Spec

\* In the same courses the hardware holds exactly the rules the bridge promises, and those
\* to stations name the pipe of the channel mode once it settled.
THEOREM Ideal ==
  ASSUME "guest" \notin Allowed, "freed" \notin Allowed
  PROVE  Spec => []BridgeIsIdeal
<1>1. RulesInv => BridgeIsIdeal
  <2> SUFFICES ASSUME RulesInv PROVE BridgeIsIdeal OBVIOUS
  <2>1. /\ Links(m_iface) /\ held = RulesFor(m_iface) /\ hw = SetToBag(held) /\ PipesInTime
        /\ alt \subseteq WlanRt(held)
    BY DEF RulesInv, InStep, PipesOfRules
  <2>2. held = IdealRules BY <2>1, IdealIs
  <2>3. ASSUME switches = 0, queue = <<>>
        PROVE  alt = IF mcc THEN {r \in RtRules(held) : r.on \in Wlans} ELSE {}
    <3>1. \A ev, i : ~Waits(queue, ev, i) BY <2>3 DEF Waits
    <3>2. \A r \in WlanRt(held) : r \in alt <=> mcc BY <2>1, <2>3, <3>1 DEF PipesInTime
    <3>3. alt = IF mcc THEN WlanRt(held) ELSE {} BY <2>1, <3>2
    <3> QED BY <3>3 DEF WlanRt
  <2> QED BY <2>1, <2>2, <2>3 DEF BridgeIsIdeal
<1>2. RulesInv /\ [Next]_vars => RulesInv' BY NextRules
<1> QED BY <1>1, <1>2, InitRules, PTL DEF Spec

-----------------------------------------------------------------------------
(* The clients the controller knows *)

\* The clients the controller lists for an interface, or keeps for it in the cache.
KnownTo(i) == IF i \in Up THEN m_iface[i].clients ELSE CachedOf(i)

\* An interface that is up has no more clients than there is room for, and none in the cache.
Room == \A i \in Up : CachedOf(i) = {} /\ Cardinality(m_iface[i].clients) <= world.room

LEMMA CachedFit ==
  ASSUME RulesInv, NEW i
  PROVE  IsFiniteSet(CachedOf(i)) /\ Cardinality(CachedOf(i)) <= world.room
<1>1. CacheSize \in Nat /\ world.room \in Nat /\ CacheSize <= world.room
  BY BoundsAssumption, WorldsAssumption DEF RulesInv, ObjectsTyped
<1>2. IsFiniteSet(1..CacheSize) /\ Cardinality(1..CacheSize) = CacheSize
  <2>1. 1 \in Int /\ CacheSize \in Int BY <1>1
  <2>2. /\ IsFiniteSet(1..CacheSize)
        /\ Cardinality(1..CacheSize) = IF 1 > CacheSize THEN 0 ELSE CacheSize - 1 + 1
    BY <2>1, FS_Interval
  <2> QED BY <1>1, <2>2
<1> DEFINE A == CachedAt(i)
           g == [s \in A |-> cached[s].mac]
<1>3. A \in SUBSET (1..CacheSize) BY DEF CachedAt, RulesInv, CacheTyped, Places
<1>4. g \in Surjection(A, CachedOf(i)) BY DEF Surjection, CachedOf
<1> HIDE DEF A, g
<1>5. IsFiniteSet(A) /\ Cardinality(A) <= CacheSize BY <1>2, <1>3, FS_Subset
<1>6. IsFiniteSet(CachedOf(i)) /\ Cardinality(CachedOf(i)) <= Cardinality(A)
  BY <1>4, <1>5, FS_Surjection
<1>7. Cardinality(A) \in Nat /\ Cardinality(CachedOf(i)) \in Nat
  BY <1>5, <1>6, FS_CardinalityType
<1> QED BY <1>1, <1>5, <1>6, <1>7

LEMMA UncachedIs ==
  ASSUME NEW i, cached' = Uncached(i)
  PROVE  CachedOf(i)' = {} /\ \A j : j # i => CachedOf(j)' = CachedOf(j)
<1>1. DOMAIN cached' = DOMAIN cached \ CachedAt(i) BY DEF Uncached
<1>2. \A s \in DOMAIN cached' : cached'[s] = cached[s] BY DEF Uncached
<1>3. \A s \in DOMAIN cached' : cached'[s].i # i BY <1>1, <1>2 DEF CachedAt
<1>4. CachedOf(i)' = {} BY <1>3 DEF CachedOf, CachedAt
<1>5. ASSUME NEW j, j # i PROVE CachedOf(j)' = CachedOf(j)
  <2>1. CachedAt(j)' = CachedAt(j) BY <1>1, <1>2, <1>5 DEF CachedAt
  <2>2. \A s \in CachedAt(j) : s \in DOMAIN cached' BY <1>1, <1>5 DEF CachedAt
  <2>3. \A s \in CachedAt(j) : cached'[s] = cached[s] BY <1>2, <2>2
  <2> QED BY <2>1, <2>3 DEF CachedOf
<1> QED BY <1>4, <1>5

LEMMA CachedMore ==
  ASSUME NEW e, NEW s, s \notin DOMAIN cached,
         cached' = [p \in DOMAIN cached \cup {s} |-> IF p = s THEN e ELSE cached[p]]
  PROVE  /\ CachedOf(e.i)' = CachedOf(e.i) \cup {e.mac}
         /\ \A j : j # e.i => CachedOf(j)' = CachedOf(j)
<1>1. /\ DOMAIN cached' = DOMAIN cached \cup {s} /\ cached'[s] = e
      /\ \A p \in DOMAIN cached : p # s /\ cached'[p] = cached[p]
  OBVIOUS
<1>2. CachedAt(e.i)' = CachedAt(e.i) \cup {s} BY <1>1 DEF CachedAt
<1>3. \A j : j # e.i => CachedAt(j)' = CachedAt(j) BY <1>1 DEF CachedAt
<1>4. \A j : \A p \in CachedAt(j) : cached'[p] = cached[p] BY <1>1 DEF CachedAt
<1>5. CachedOf(e.i)' = CachedOf(e.i) \cup {e.mac}
  <2>1. \A c : c \in CachedOf(e.i)' <=> \E p \in CachedAt(e.i)' : cached'[p].mac = c
    BY DEF CachedOf
  <2>2. \A c : c \in CachedOf(e.i) <=> \E p \in CachedAt(e.i) : cached[p].mac = c
    BY DEF CachedOf
  <2>3. cached'[s].mac = e.mac BY <1>1
  <2>4. \A p \in CachedAt(e.i) : cached'[p].mac = cached[p].mac BY <1>4
  <2>5. \A c : c \in CachedOf(e.i)' <=> c \in CachedOf(e.i) \/ c = e.mac
    BY <1>2, <2>1, <2>2, <2>3, <2>4
  <2> QED BY <2>5
<1>6. ASSUME NEW j, j # e.i PROVE CachedOf(j)' = CachedOf(j)
  <2>1. CachedAt(j)' = CachedAt(j) BY <1>3, <1>6
  <2>2. \A p \in CachedAt(j) : cached'[p].mac = cached[p].mac BY <1>4
  <2> QED BY <2>1, <2>2 DEF CachedOf
<1> QED BY <1>5, <1>6

LEMMA CachedStay ==
  ASSUME cached' = cached
  PROVE  \A j : CachedOf(j)' = CachedOf(j)
BY DEF CachedOf, CachedAt

\* The clients of the interfaces an event is not about.
LEMMA OthersKnown ==
  ASSUME NEW i, OthersKept(i), Room, world' = world,
         \A j : j # i => CachedOf(j)' = CachedOf(j)
  PROVE  /\ \A j : j # i => KnownTo(j)' = KnownTo(j)
         /\ \A j \in Up' \ {i} : CachedOf(j)' = {} /\ Cardinality(m_iface'[j].clients) <= world'.room
<1>1. /\ Up' \ {i} = Up \ {i}
      /\ \A j \in (Up \cap Up') \ {i} : m_iface'[j].clients = m_iface[j].clients
  BY DEF OthersKept
<1>2. ASSUME NEW j, j # i PROVE KnownTo(j)' = KnownTo(j)
  <2>1. j \in Up' <=> j \in Up BY <1>1, <1>2
  <2>2. CachedOf(j)' = CachedOf(j) BY <1>2
  <2>3. j \in Up => m_iface'[j].clients = m_iface[j].clients BY <1>1, <1>2, <2>1
  <2> QED BY <2>1, <2>2, <2>3 DEF KnownTo
<1>3. ASSUME NEW j \in Up' \ {i}
      PROVE  CachedOf(j)' = {} /\ Cardinality(m_iface'[j].clients) <= world'.room
  <2>1. j \in Up /\ m_iface'[j].clients = m_iface[j].clients BY <1>1, <1>3
  <2> QED BY <1>3, <2>1 DEF Room
<1> QED BY <1>2, <1>3

LEMMA UpClients ==
  ASSUME RulesInv, Room, NEW i \in Ifaces, NEW f \in Fams, handle_iface_up(i, f),
         i \notin Up /\ i \notin guests => \A j \in Up : m_iface[j].inter,
         world' = world
  PROVE  Room' /\ refused' = refused /\ \A j : KnownTo(j)' = KnownTo(j)
<1>1. InStep /\ PipesOfRules /\ CachedOf(i) \subseteq Macs BY CachedTyped DEF RulesInv
<1>2. /\ Up' = Up \cup {i} /\ OthersKept(i)
      /\ m_iface'[i].clients = IF i \in Up THEN m_iface[i].clients ELSE CachedOf(i)
  BY <1>1, UpKeeps
<1>3. refused' = refused BY DEF handle_iface_up, bridge
<1>4. \/ i \in Up /\ cached' = cached
      \/ i \notin Up /\ cached' = Uncached(i)
  BY DEF handle_iface_up, bridge
<1>5. CachedOf(i)' = {} /\ \A j : j # i => CachedOf(j)' = CachedOf(j)
  <2>1. CASE i \in Up /\ cached' = cached BY <2>1, CachedStay DEF Room
  <2>2. CASE i \notin Up /\ cached' = Uncached(i) BY <2>2, UncachedIs
  <2> QED BY <1>4, <2>1, <2>2
<1>6. /\ \A j : j # i => KnownTo(j)' = KnownTo(j)
      /\ \A j \in Up' \ {i} : CachedOf(j)' = {} /\ Cardinality(m_iface'[j].clients) <= world'.room
  BY <1>2, <1>5, OthersKnown
<1>7. KnownTo(i)' = KnownTo(i) BY <1>2 DEF KnownTo
<1>8. Cardinality(m_iface'[i].clients) <= world'.room
  <2>1. CASE i \in Up BY <1>2, <2>1 DEF Room
  <2>2. CASE i \notin Up BY <1>2, <2>2, CachedFit
  <2> QED BY <2>1, <2>2
<1>9. Room' BY <1>2, <1>5, <1>6, <1>8 DEF Room
<1> QED BY <1>3, <1>6, <1>7, <1>9

LEMMA DownClients ==
  ASSUME RulesInv, Room, NEW i \in Ifaces, handle_iface_down(i, L2[i]), world' = world
  PROVE  /\ Room' /\ KnownTo(i)' = {} /\ \A j : j # i => KnownTo(j)' = KnownTo(j)
         /\ refused' = {p \in refused : p[1] # i}
<1>1. InStep /\ PipesOfRules BY DEF RulesInv
<1>2. Up' = Up \ {i} /\ OthersKept(i) BY <1>1, DownKeeps
<1>3. refused' = {p \in refused : p[1] # i} BY DEF handle_iface_down
<1>4. \/ i \in Up /\ cached' = cached
      \/ i \notin Up /\ cached' = Uncached(i)
  BY DEF handle_iface_down
<1>5. CachedOf(i)' = {} /\ \A j : j # i => CachedOf(j)' = CachedOf(j)
  <2>1. CASE i \in Up /\ cached' = cached BY <2>1, CachedStay DEF Room
  <2>2. CASE i \notin Up /\ cached' = Uncached(i) BY <2>2, UncachedIs
  <2> QED BY <1>4, <2>1, <2>2
<1>6. /\ \A j : j # i => KnownTo(j)' = KnownTo(j)
      /\ \A j \in Up' \ {i} : CachedOf(j)' = {} /\ Cardinality(m_iface'[j].clients) <= world'.room
  BY <1>2, <1>5, OthersKnown
<1>7. KnownTo(i)' = {} BY <1>2, <1>5 DEF KnownTo
<1>8. Room' BY <1>2, <1>6 DEF Room
<1> QED BY <1>3, <1>6, <1>7, <1>8

LEMMA AddClients ==
  ASSUME RulesInv, Room, NEW e, e.i \in Ifaces, e.mac \in Macs, handle_client_add(e),
         world' = world
  PROVE  /\ Room' /\ \A j : j # e.i => KnownTo(j)' = KnownTo(j)
         /\ KnownTo(e.i)' \subseteq KnownTo(e.i) \cup {e.mac}
         /\ KnownTo(e.i) \subseteq KnownTo(e.i)'
         /\ e.mac \in KnownTo(e.i)' \/ <<e.i, e.mac>> \in refused'
         /\ refused \subseteq refused' \cup {<<e.i, e.mac>>}
<1> DEFINE i == e.i
           c == e.mac
<1>1. InStep /\ PipesOfRules /\ Typed(m_iface) BY DEF RulesInv, InStep
<1>2. Up' = Up /\ OthersKept(i) BY <1>1, AddKeeps
<1>3. refused \subseteq refused' \cup {<<i, c>>} BY DEF handle_client_add, bridge, Refused
<1>4. world.room \in Nat BY WorldsAssumption DEF RulesInv, ObjectsTyped
<1>5. \/ i \in Up /\ c \in m_iface[i].clients /\ m_iface' = m_iface /\ cached' = cached
      \/ /\ m_iface' = m_iface /\ cached' = cached
         /\ refused' = refused \cup {<<i, c>>}
      \/ /\ i \in Up /\ cached' = cached /\ Cardinality(m_iface[i].clients) < world.room
         /\ m_iface' = [m_iface EXCEPT ![i].clients = @ \cup {c}]
      \/ /\ i \notin Up /\ m_iface' = m_iface
         /\ \E s \in Places \ DOMAIN cached :
              cached' = [p \in DOMAIN cached \cup {s} |-> IF p = s THEN e ELSE cached[p]]
  BY DEF handle_client_add, bridge, Refused
<1> HIDE DEF i, c
<1>6. ASSUME m_iface' = m_iface, cached' = cached
      PROVE  Room' /\ \A j : KnownTo(j)' = KnownTo(j)
  BY <1>2, <1>6, CachedStay DEF Room, KnownTo
<1>7. CASE i \in Up /\ c \in m_iface[i].clients /\ m_iface' = m_iface /\ cached' = cached
  <2>1. c \in KnownTo(i) BY <1>7 DEF KnownTo
  <2> QED BY <1>3, <1>6, <1>7, <2>1 DEF i, c
<1>8. CASE /\ m_iface' = m_iface /\ cached' = cached
           /\ refused' = refused \cup {<<i, c>>}
  BY <1>3, <1>6, <1>8 DEF i, c
<1>9. CASE /\ i \in Up /\ cached' = cached /\ Cardinality(m_iface[i].clients) < world.room
           /\ m_iface' = [m_iface EXCEPT ![i].clients = @ \cup {c}]
  <2> DEFINE cs == m_iface[i].clients
  <2>1. m_iface'[i].clients = cs \cup {c} BY <1>1, <1>9 DEF Typed, IfaceRec, Up
  <2>2. \A j : CachedOf(j)' = CachedOf(j) BY <1>9, CachedStay
  <2>3. /\ \A j : j # i => KnownTo(j)' = KnownTo(j)
        /\ \A j \in Up' \ {i} : /\ CachedOf(j)' = {}
                                /\ Cardinality(m_iface'[j].clients) <= world'.room
    BY <1>2, <2>2, OthersKnown
  <2>4. KnownTo(i) = cs /\ KnownTo(i)' = cs \cup {c} BY <1>2, <1>9, <2>1 DEF KnownTo
  <2>5. IsFiniteSet(cs)
    <3>1. cs \subseteq Macs BY <1>1, <1>9 DEF Typed, IfaceRec, Up
    <3> QED BY <3>1, FiniteAssumption, FS_Subset
  <2>6. Cardinality(cs) < world.room BY <1>9
  <2> HIDE DEF cs
  <2>7. Cardinality(cs \cup {c}) <= world.room
    <3>1. Cardinality(cs) \in Nat BY <2>5, FS_CardinalityType
    <3>2. Cardinality(cs \cup {c}) = IF c \in cs THEN Cardinality(cs) ELSE Cardinality(cs) + 1
      BY <2>5, FS_AddElement
    <3> QED BY <1>4, <2>6, <3>1, <3>2
  <2>8. Room'
    <3>1. CachedOf(i)' = {} BY <1>9, <2>2 DEF Room
    <3>2. Cardinality(m_iface'[i].clients) <= world'.room BY <2>1, <2>7
    <3> QED BY <2>3, <3>1, <3>2 DEF Room
  <2> QED BY <1>3, <2>3, <2>4, <2>8 DEF i, c
<1>10. CASE /\ i \notin Up /\ m_iface' = m_iface
            /\ \E s \in Places \ DOMAIN cached :
                 cached' = [p \in DOMAIN cached \cup {s} |-> IF p = s THEN e ELSE cached[p]]
  <2>1. CachedOf(i)' = CachedOf(i) \cup {c} /\ \A j : j # i => CachedOf(j)' = CachedOf(j)
    BY <1>10, CachedMore DEF i, c
  <2>2. /\ \A j : j # i => KnownTo(j)' = KnownTo(j)
        /\ \A j \in Up' \ {i} : /\ CachedOf(j)' = {}
                                /\ Cardinality(m_iface'[j].clients) <= world'.room
    BY <1>2, <2>1, OthersKnown
  <2>3. KnownTo(i)' = KnownTo(i) \cup {c} BY <1>2, <1>10, <2>1 DEF KnownTo
  <2>4. Room' BY <1>2, <1>10, <2>2 DEF Room
  <2> QED BY <1>3, <2>2, <2>3, <2>4 DEF i, c
<1> QED BY <1>5, <1>7, <1>8, <1>9, <1>10 DEF i, c

LEMMA DelClients ==
  ASSUME RulesInv, Room, NEW i \in Up, NEW c \in Macs, handle_client_del(i, c), world' = world
  PROVE  /\ Room' /\ KnownTo(i)' = KnownTo(i) \ {c} /\ \A j : j # i => KnownTo(j)' = KnownTo(j)
         /\ refused' = refused \ {<<i, c>>}
<1>1. InStep /\ PipesOfRules /\ Typed(m_iface) /\ i \in Ifaces
  BY DEF RulesInv, InStep, Typed, Up
<1>2. Up' = Up /\ OthersKept(i) BY <1>1, DelKeeps
<1>3. refused' = refused \ {<<i, c>>} /\ cached' = cached BY DEF handle_client_del
<1>4. \A j : CachedOf(j)' = CachedOf(j) BY <1>3, CachedStay
<1>5. /\ \A j : j # i => KnownTo(j)' = KnownTo(j)
      /\ \A j \in Up' \ {i} : CachedOf(j)' = {} /\ Cardinality(m_iface'[j].clients) <= world'.room
  BY <1>2, <1>4, OthersKnown
<1> DEFINE cs == m_iface[i].clients
<1>6. m_iface'[i].clients = cs \ {c}
  <2>1. CASE c \notin cs /\ m_iface' = m_iface BY <2>1
  <2>2. CASE m_iface' = Unlisted(i, c) BY <1>1, <2>2 DEF Typed, IfaceRec, Up, Unlisted
  <2> QED BY <2>1, <2>2 DEF handle_client_del
<1>7. KnownTo(i)' = KnownTo(i) \ {c} BY <1>2, <1>6 DEF KnownTo
<1>8. Cardinality(m_iface'[i].clients) <= world'.room
  <2>1. cs \subseteq Macs BY <1>1 DEF Typed, IfaceRec, Up
  <2>2. IsFiniteSet(cs) BY <2>1, FiniteAssumption, FS_Subset
  <2>3. Cardinality(cs) <= world.room BY DEF Room
  <2>4. world.room \in Nat BY WorldsAssumption DEF RulesInv, ObjectsTyped
  <2> HIDE DEF cs
  <2>5. Cardinality(cs \ {c}) <= Cardinality(cs) BY <2>2, FS_Subset
  <2>6. Cardinality(cs) \in Nat /\ Cardinality(cs \ {c}) \in Nat
    <3>1. IsFiniteSet(cs \ {c}) BY <2>2, FS_Subset
    <3> QED BY <2>2, <3>1, FS_CardinalityType
  <2> QED BY <1>6, <2>3, <2>4, <2>5, <2>6
<1>9. Room'
  <2>1. CachedOf(i)' = {} BY <1>4 DEF Room
  <2> QED BY <1>5, <1>8, <2>1 DEF Room
<1> QED BY <1>3, <1>5, <1>7, <1>9

\* Whom the controller knows is there, or the event of its leaving waits.
KnownAreThere ==
  \A i \in Ifaces : \A c \in KnownTo(i) :
    at[c] = i \/ Waits(queue, "IFACE_DOWN", i) \/ ClientWaits(queue, "CLIENT_DEL", i, c)

\* Who is there is known or was refused, unless the event of its coming waits; while the
\* interface is about to go down, it must wait.
ThereAreKnown ==
  \A i \in Ifaces, c \in Macs : at[c] = i =>
    \/ ClientWaits(queue, "CLIENT_ADD", i, c)
    \/ /\ ~Waits(queue, "IFACE_DOWN", i)
       /\ c \in KnownTo(i) \/ <<i, c>> \in refused

\* A client that is announced is there, and its interface does not go down afterwards.
AddsInOrder ==
  \A k \in DOMAIN queue : queue[k].event = "CLIENT_ADD" =>
    /\ at[queue[k].mac] = queue[k].i
    /\ \A l \in DOMAIN queue : queue[l].event = "IFACE_DOWN" => l < k

\* One that is taken back is gone, from an interface that is up and stays so.
DelsInOrder ==
  \A k \in DOMAIN queue : queue[k].event = "CLIENT_DEL" =>
    /\ at[queue[k].mac] # queue[k].i /\ queue[k].i \in Up
    /\ \A l \in DOMAIN queue : queue[l].event # "IFACE_DOWN"

ClientsInv == Room /\ KnownAreThere /\ ThereAreKnown /\ AddsInOrder /\ DelsInOrder

\* What an event taken from the queue does to the clients the controller knows.
ServedClients(e) ==
  /\ Room'
  /\ \A j : j # e.i => KnownTo(j)' = KnownTo(j)
  /\ \A p \in refused : p[1] # e.i => p \in refused'
  /\ CASE e.event = "IFACE_DOWN" -> KnownTo(e.i)' = {}
       [] e.event = "CLIENT_ADD" ->
            /\ KnownTo(e.i)' \subseteq KnownTo(e.i) \cup {e.mac}
            /\ KnownTo(e.i) \subseteq KnownTo(e.i)'
            /\ e.mac \in KnownTo(e.i)' \/ <<e.i, e.mac>> \in refused'
            /\ refused \subseteq refused' \cup {<<e.i, e.mac>>}
       [] e.event = "CLIENT_DEL" ->
            /\ KnownTo(e.i)' = KnownTo(e.i) \ {e.mac}
            /\ refused \subseteq refused' \cup {<<e.i, e.mac>>}
       [] OTHER -> KnownTo(e.i)' = KnownTo(e.i) /\ refused' = refused

LEMMA ServeClients ==
  ASSUME "freed" \notin Allowed, RulesInv, ClientsInv, Serve, NEW e, e = Head(queue)
  PROVE  ServedClients(e)
<1>1. queue \in Seq(Event) /\ queue # <<>> BY DEF RulesInv, ObjectsTyped, Serve
<1>2. e = queue[1] /\ 1 \in DOMAIN queue /\ e \in Event BY <1>1, TailIs
<1>3. /\ e.i \in Ifaces
      /\ e.event = "IFACE_UP" => e.ip \in Fams
      /\ e.event \in {"CLIENT_ADD", "CLIENT_DEL"} => e.mac \in Macs
      /\ e.event \in {"IFACE_UP", "IFACE_DOWN", "LAN_DELETE_SELF", "WLAN_SCC_MCC_SWITCH",
                      "CLIENT_ADD", "CLIENT_DEL"}
  BY <1>2, EventFields
<1>4. UpsInOrder /\ Room /\ DelsInOrder BY DEF RulesInv, ClientsInv
<1>5. world' = world BY DEF Serve, objects
<1>6. \/ e.event = "IFACE_UP" /\ handle_iface_up(e.i, e.ip)
      \/ e.event = "IFACE_DOWN" /\ handle_iface_down(e.i, L2[e.i])
      \/ e.event = "CLIENT_ADD" /\ handle_client_add(e)
      \/ e.event = "CLIENT_DEL" /\ handle_client_del(e.i, e.mac)
      \/ e.event = "WLAN_SCC_MCC_SWITCH" /\ handle_wlan_scc_mcc_switch(e.i)
      \/ e.event = "LAN_DELETE_SELF" /\ UNCHANGED bridge
  BY DEF Serve, TypesRead, bridge
<1>7. \A p \in refused : p[1] # e.i => p # <<e.i, e.mac>> OBVIOUS
<1>8. CASE e.event = "IFACE_UP"
  <2>1. handle_iface_up(e.i, e.ip) BY <1>6, <1>8
  <2>2. e.i \notin Up /\ e.i \notin guests => \A j \in Up : m_iface[j].inter
    BY <1>2, <1>4, <1>8 DEF UpsInOrder
  <2>3. Room' /\ refused' = refused /\ \A j : KnownTo(j)' = KnownTo(j)
    BY <1>3, <1>4, <1>5, <1>8, <2>1, <2>2, UpClients
  <2>4. e.event \notin {"IFACE_DOWN", "CLIENT_ADD", "CLIENT_DEL"} BY <1>8
  <2> QED BY <2>3, <2>4 DEF ServedClients
<1>9. CASE e.event = "IFACE_DOWN"
  <2>1. handle_iface_down(e.i, L2[e.i]) BY <1>6, <1>9
  <2>2. /\ Room' /\ KnownTo(e.i)' = {} /\ \A j : j # e.i => KnownTo(j)' = KnownTo(j)
        /\ refused' = {p \in refused : p[1] # e.i}
    BY <1>3, <1>4, <1>5, <2>1, DownClients
  <2>3. e.event \notin {"CLIENT_ADD", "CLIENT_DEL"} BY <1>9
  <2> QED BY <1>9, <2>2, <2>3 DEF ServedClients
<1>10. CASE e.event = "CLIENT_ADD"
  <2>1. handle_client_add(e) BY <1>6, <1>10
  <2>2. /\ Room' /\ \A j : j # e.i => KnownTo(j)' = KnownTo(j)
        /\ KnownTo(e.i)' \subseteq KnownTo(e.i) \cup {e.mac}
        /\ KnownTo(e.i) \subseteq KnownTo(e.i)'
        /\ e.mac \in KnownTo(e.i)' \/ <<e.i, e.mac>> \in refused'
        /\ refused \subseteq refused' \cup {<<e.i, e.mac>>}
    BY <1>3, <1>4, <1>5, <1>10, <2>1, AddClients
  <2>3. \A p \in refused : p[1] # e.i => p \in refused' BY <1>7, <2>2
  <2>4. e.event \notin {"IFACE_DOWN", "CLIENT_DEL"} BY <1>10
  <2> QED BY <1>10, <2>2, <2>3, <2>4 DEF ServedClients
<1>11. CASE e.event = "CLIENT_DEL"
  <2>1. handle_client_del(e.i, e.mac) /\ e.mac \in Macs BY <1>3, <1>6, <1>11
  <2>2. e.i \in Up BY <1>2, <1>4, <1>11 DEF DelsInOrder
  <2>3. /\ Room' /\ KnownTo(e.i)' = KnownTo(e.i) \ {e.mac}
        /\ \A j : j # e.i => KnownTo(j)' = KnownTo(j)
        /\ refused' = refused \ {<<e.i, e.mac>>}
    BY <1>4, <1>5, <2>1, <2>2, DelClients
  <2>4. \A p \in refused : p[1] # e.i => p \in refused' BY <1>7, <2>3
  <2>5. e.event \notin {"IFACE_DOWN", "CLIENT_ADD"} BY <1>11
  <2> QED BY <1>11, <2>3, <2>4, <2>5 DEF ServedClients
<1>12. CASE e.event \in {"WLAN_SCC_MCC_SWITCH", "LAN_DELETE_SELF"}
  <2>1. m_iface' = m_iface /\ cached' = cached /\ refused' = refused
    BY <1>6, <1>12 DEF handle_wlan_scc_mcc_switch, bridge
  <2>2. Room' /\ \A j : KnownTo(j)' = KnownTo(j)
    BY <1>4, <1>5, <2>1, CachedStay DEF Room, KnownTo, Up
  <2>3. e.event \notin {"IFACE_DOWN", "CLIENT_ADD", "CLIENT_DEL"} BY <1>12
  <2> QED BY <2>1, <2>2, <2>3 DEF ServedClients
<1> QED BY <1>3, <1>8, <1>9, <1>10, <1>11, <1>12

LEMMA ServeClientsInv ==
  ASSUME "freed" \notin Allowed, RulesInv, ClientsInv, Serve
  PROVE  ClientsInv'
<1>1. PICK e \in Event : e = Head(queue) BY TailIs DEF RulesInv, ObjectsTyped, Serve
<1> DEFINE q == queue'
<1>2. ServedClients(e) BY <1>1, ServeClients
<1>3. /\ q = Tail(queue) /\ at' = at
      /\ Up' = (IF e.event = "IFACE_UP" THEN Up \cup {e.i}
                ELSE IF e.event = "IFACE_DOWN" THEN Up \ {e.i} ELSE Up)
  BY <1>1, ServeIs DEF Served
<1>4. queue \in Seq(Event) /\ queue # <<>> BY DEF RulesInv, ObjectsTyped, Serve
<1>5. /\ e = queue[1] /\ 1 \in DOMAIN queue /\ q \in Seq(Event)
      /\ \A k \in DOMAIN q : k + 1 \in DOMAIN queue /\ k + 1 # 1 /\ q[k] = queue[k + 1]
      /\ \A k \in DOMAIN queue : k = 1 \/ (k - 1 \in DOMAIN q /\ q[k - 1] = queue[k])
  BY <1>1, <1>3, <1>4, TailIs
<1>6. \A ev, i : /\ Waits(q, ev, i) => Waits(queue, ev, i)
                 /\ Waits(queue, ev, i) => Waits(q, ev, i) \/ (e.event = ev /\ e.i = i)
                 /\ \A c : /\ ClientWaits(q, ev, i, c) => ClientWaits(queue, ev, i, c)
                           /\ ClientWaits(queue, ev, i, c) =>
                                \/ ClientWaits(q, ev, i, c)
                                \/ e.event = ev /\ e.i = i /\ e.mac = c
  BY <1>1, <1>3, <1>4, TailWaits
<1>7. Room /\ KnownAreThere /\ ThereAreKnown /\ AddsInOrder /\ DelsInOrder BY DEF ClientsInv
<1>8. DOMAIN queue \subseteq Int /\ DOMAIN q \subseteq Int /\ \A k \in DOMAIN queue : k >= 1
  BY <1>4, <1>5
<1> HIDE DEF q
<1>9. e.event = "CLIENT_ADD" => at[e.mac] = e.i /\ \A i : ~Waits(queue, "IFACE_DOWN", i)
  <2> SUFFICES ASSUME e.event = "CLIENT_ADD"
               PROVE  at[e.mac] = e.i /\ \A i : ~Waits(queue, "IFACE_DOWN", i)
    OBVIOUS
  <2>1. at[e.mac] = e.i /\ \A l \in DOMAIN queue : queue[l].event = "IFACE_DOWN" => l < 1
    BY <1>5, <1>7 DEF AddsInOrder
  <2> QED BY <1>8, <2>1 DEF Waits
<1>10. e.event = "CLIENT_DEL" => at[e.mac] # e.i BY <1>5, <1>7 DEF DelsInOrder
<1>11. Room' BY <1>2 DEF ServedClients
<1>12. KnownAreThere'
  <2> SUFFICES ASSUME NEW i \in Ifaces, NEW c \in KnownTo(i)'
               PROVE  at[c] = i \/ Waits(q, "IFACE_DOWN", i) \/ ClientWaits(q, "CLIENT_DEL", i, c)
    BY <1>3 DEF KnownAreThere, Waits, ClientWaits, q
  <2>1. \/ c \in KnownTo(i)
        \/ e.event = "CLIENT_ADD" /\ e.i = i /\ e.mac = c
    BY <1>2 DEF ServedClients
  <2>2. CASE e.event = "CLIENT_ADD" /\ e.i = i /\ e.mac = c BY <1>9, <2>2
  <2>3. CASE c \in KnownTo(i)
    <3>1. \/ at[c] = i
          \/ Waits(queue, "IFACE_DOWN", i) \/ ClientWaits(queue, "CLIENT_DEL", i, c)
      BY <1>7, <2>3 DEF KnownAreThere
    <3>2. ~(e.event = "IFACE_DOWN" /\ e.i = i) BY <1>2 DEF ServedClients
    <3>3. ~(e.event = "CLIENT_DEL" /\ e.i = i /\ e.mac = c) BY <1>2 DEF ServedClients
    <3> QED BY <1>6, <3>1, <3>2, <3>3
  <2> QED BY <2>1, <2>2, <2>3
<1>13. ThereAreKnown'
  <2> SUFFICES ASSUME NEW i \in Ifaces, NEW c \in Macs, at[c] = i
               PROVE  \/ ClientWaits(q, "CLIENT_ADD", i, c)
                      \/ /\ ~Waits(q, "IFACE_DOWN", i)
                         /\ c \in KnownTo(i)' \/ <<i, c>> \in refused'
    BY <1>3 DEF ThereAreKnown, Waits, ClientWaits, q
  <2>1. \/ ClientWaits(queue, "CLIENT_ADD", i, c)
        \/ /\ ~Waits(queue, "IFACE_DOWN", i)
           /\ c \in KnownTo(i) \/ <<i, c>> \in refused
    BY <1>7 DEF ThereAreKnown
  <2>2. CASE ClientWaits(queue, "CLIENT_ADD", i, c)
    <3>1. CASE e.event = "CLIENT_ADD" /\ e.i = i /\ e.mac = c
      <4>1. ~Waits(q, "IFACE_DOWN", i) BY <1>6, <1>9, <3>1
      <4>2. c \in KnownTo(i)' \/ <<i, c>> \in refused' BY <1>2, <3>1 DEF ServedClients
      <4> QED BY <4>1, <4>2
    <3>2. CASE ~(e.event = "CLIENT_ADD" /\ e.i = i /\ e.mac = c) BY <1>6, <2>2, <3>2
    <3> QED BY <3>1, <3>2
  <2>3. CASE ~Waits(queue, "IFACE_DOWN", i) /\ (c \in KnownTo(i) \/ <<i, c>> \in refused)
    <3>1. ~Waits(q, "IFACE_DOWN", i) BY <1>6, <2>3
    <3>2. ~(e.event = "IFACE_DOWN" /\ e.i = i) BY <1>5, <2>3 DEF Waits
    <3>3. ~(e.event = "CLIENT_DEL" /\ e.i = i /\ e.mac = c) BY <1>10
    <3>4. c \in KnownTo(i)' \/ <<i, c>> \in refused'
      <4>1. CASE e.i # i
        <5>1. KnownTo(i)' = KnownTo(i) BY <1>2, <4>1 DEF ServedClients
        <5>2. \A p \in refused : p[1] # e.i => p \in refused' BY <1>2 DEF ServedClients
        <5> QED BY <2>3, <4>1, <5>1, <5>2
      <4>2. CASE e.i = i /\ e.event = "CLIENT_ADD"
        <5>1. /\ KnownTo(i) \subseteq KnownTo(i)'
              /\ e.mac \in KnownTo(i)' \/ <<i, e.mac>> \in refused'
              /\ refused \subseteq refused' \cup {<<i, e.mac>>}
          BY <1>2, <4>2 DEF ServedClients
        <5> QED BY <2>3, <5>1
      <4>3. CASE e.i = i /\ e.event = "CLIENT_DEL"
        <5>1. /\ KnownTo(i)' = KnownTo(i) \ {e.mac} /\ c # e.mac
              /\ refused \subseteq refused' \cup {<<i, e.mac>>}
          BY <1>2, <3>3, <4>3 DEF ServedClients
        <5> QED BY <2>3, <5>1
      <4>4. CASE e.i = i /\ e.event \notin {"IFACE_DOWN", "CLIENT_ADD", "CLIENT_DEL"}
        <5>1. KnownTo(i)' = KnownTo(i) /\ refused' = refused BY <1>2, <4>4 DEF ServedClients
        <5> QED BY <2>3, <5>1
      <4> QED BY <3>2, <4>1, <4>2, <4>3, <4>4
    <3> QED BY <3>1, <3>4
  <2> QED BY <2>1, <2>2, <2>3
<1>14. AddsInOrder'
  <2> SUFFICES ASSUME NEW k \in DOMAIN q, q[k].event = "CLIENT_ADD"
               PROVE  /\ at[q[k].mac] = q[k].i
                      /\ \A l \in DOMAIN q : q[l].event = "IFACE_DOWN" => l < k
    BY <1>3 DEF AddsInOrder, q
  <2>1. k + 1 \in DOMAIN queue /\ q[k] = queue[k + 1] BY <1>5
  <2>2. /\ at[q[k].mac] = q[k].i
        /\ \A l \in DOMAIN queue : queue[l].event = "IFACE_DOWN" => l < k + 1
    BY <1>7, <2>1 DEF AddsInOrder
  <2>3. ASSUME NEW l \in DOMAIN q, q[l].event = "IFACE_DOWN" PROVE l < k
    <3>1. l + 1 \in DOMAIN queue /\ q[l] = queue[l + 1] BY <1>5
    <3>2. l + 1 < k + 1 BY <2>2, <2>3, <3>1
    <3>3. l \in Int /\ k \in Int BY <1>8
    <3> QED BY <3>2, <3>3
  <2> QED BY <2>2, <2>3
<1>15. DelsInOrder'
  <2> SUFFICES ASSUME NEW k \in DOMAIN q, q[k].event = "CLIENT_DEL"
               PROVE  /\ at[q[k].mac] # q[k].i /\ q[k].i \in Up'
                      /\ \A l \in DOMAIN q : q[l].event # "IFACE_DOWN"
    BY <1>3 DEF DelsInOrder, q
  <2>1. k + 1 \in DOMAIN queue /\ q[k] = queue[k + 1] BY <1>5
  <2>2. /\ at[q[k].mac] # q[k].i /\ q[k].i \in Up
        /\ \A l \in DOMAIN queue : queue[l].event # "IFACE_DOWN"
    BY <1>7, <2>1 DEF DelsInOrder
  <2>3. e.event # "IFACE_DOWN" BY <1>5, <2>2
  <2>4. q[k].i \in Up' BY <1>3, <2>2, <2>3
  <2>5. \A l \in DOMAIN q : q[l].event # "IFACE_DOWN" BY <1>5, <2>2
  <2> QED BY <2>2, <2>4, <2>5
<1> QED BY <1>11, <1>12, <1>13, <1>14, <1>15 DEF ClientsInv

\* An event of an interface object leaves the clients the controller knows as they are.
LEMMA ClientsStay ==
  ASSUME RulesInv, Room, UNCHANGED bridge, world' = world
  PROVE  Room' /\ refused' = refused /\ Up' = Up /\ \A j : KnownTo(j)' = KnownTo(j)
<1>1. m_iface' = m_iface /\ cached' = cached /\ refused' = refused BY DEF bridge
<1>2. \A j : CachedOf(j)' = CachedOf(j) BY <1>1, CachedStay
<1>3. Up' = Up BY <1>1 DEF Up
<1>4. Room' BY <1>1, <1>2, <1>3 DEF Room
<1>5. \A j : KnownTo(j)' = KnownTo(j) BY <1>1, <1>2, <1>3 DEF KnownTo
<1> QED BY <1>1, <1>3, <1>4, <1>5

\* While no event waits, the clients known or refused are those there.
LEMMA AtRest ==
  ASSUME ClientsInv, queue = <<>>
  PROVE  /\ \A i \in Ifaces : \A c \in KnownTo(i) : at[c] = i
         /\ \A i \in Ifaces, c \in Macs : at[c] = i => c \in KnownTo(i) \/ <<i, c>> \in refused
<1>1. \A ev, i, c : ~Waits(queue, ev, i) /\ ~ClientWaits(queue, ev, i, c)
  BY DEF Waits, ClientWaits
<1> QED BY <1>1 DEF ClientsInv, KnownAreThere, ThereAreKnown

\* No event of a client, nor one that takes an interface down.
NoClients(q) == \A k \in DOMAIN q : q[k].event \notin {"CLIENT_ADD", "CLIENT_DEL", "IFACE_DOWN"}

\* An event that moves no client and posts none of those.
LEMMA ClientsRest ==
  ASSUME RulesInv, ClientsInv, queue = <<>>, UNCHANGED bridge, world' = world, at' = at,
         NoClients(queue')
  PROVE  ClientsInv'
<1>1. Room' /\ refused' = refused /\ Up' = Up /\ \A j : KnownTo(j)' = KnownTo(j)
  BY ClientsStay DEF ClientsInv
<1>2. \A i : ~Waits(queue', "IFACE_DOWN", i) BY DEF NoClients, Waits
<1>3. /\ \A i \in Ifaces : \A c \in KnownTo(i)' : at'[c] = i
      /\ \A i \in Ifaces, c \in Macs :
           at'[c] = i => c \in KnownTo(i)' \/ <<i, c>> \in refused'
  BY <1>1, AtRest
<1>4. KnownAreThere' BY <1>3 DEF KnownAreThere
<1>5. ThereAreKnown'
  <2>1. \A i : ~Waits(queue, "IFACE_DOWN", i)' BY <1>2 DEF Waits
  <2> QED BY <1>3, <2>1 DEF ThereAreKnown
<1>6. AddsInOrder' /\ DelsInOrder' BY DEF NoClients, AddsInOrder, DelsInOrder
<1> QED BY <1>1, <1>4, <1>5, <1>6 DEF ClientsInv

\* The interface goes down first, and nothing else takes it down.
DownFirst(q, i) == /\ q \in Seq(Event) /\ Len(q) >= 1 /\ q[1].event = "IFACE_DOWN" /\ q[1].i = i
                   /\ \A k \in DOMAIN q : q[k].event = "IFACE_DOWN" => k = 1

LEMMA DownStaysFirst ==
  ASSUME NEW i, NEW q, DownFirst(q, i), NEW t \in Seq(Event),
         \A k \in DOMAIN t : t[k].event # "IFACE_DOWN"
  PROVE  DownFirst(q \o t, i)
<1>1. /\ q \in Seq(Event) /\ Len(q) >= 1 /\ q[1].event = "IFACE_DOWN" /\ q[1].i = i
      /\ \A k \in DOMAIN q : q[k].event = "IFACE_DOWN" => k = 1
  BY DEF DownFirst
<1>2. /\ q \o t \in Seq(Event) /\ Len(q \o t) = Len(q) + Len(t)
      /\ \A k \in 1..Len(q) : (q \o t)[k] = q[k]
      /\ \A k \in (Len(q) + 1)..(Len(q) + Len(t)) : (q \o t)[k] = t[k - Len(q)]
  BY <1>1
<1>3. Len(q) \in Nat /\ Len(t) \in Nat /\ DOMAIN q = 1..Len(q) /\ DOMAIN t = 1..Len(t)
  BY <1>1
<1>4. DOMAIN (q \o t) = 1..(Len(q) + Len(t)) BY <1>2
<1>5. ASSUME NEW k \in DOMAIN (q \o t), (q \o t)[k].event = "IFACE_DOWN" PROVE k = 1
  <2>1. CASE k \in 1..Len(q) BY <1>1, <1>2, <1>3, <1>5, <2>1
  <2>2. CASE k \in (Len(q) + 1)..(Len(q) + Len(t))
    <3>1. k - Len(q) \in DOMAIN t BY <1>3, <2>2
    <3> QED BY <1>2, <1>5, <2>2, <3>1
  <2> QED BY <1>3, <1>4, <2>1, <2>2
<1>6. (q \o t)[1] = q[1] /\ Len(q \o t) >= 1 BY <1>1, <1>2, <1>3
<1> QED BY <1>1, <1>2, <1>5, <1>6 DEF DownFirst

LEMMA ModeEventsOrder ==
  ASSUME NEW i \in Ifaces, NEW st \in Seq(Macs)
  PROVE  /\ DownFirst(ModeEvents(i, st), i)
         /\ \A n \in DOMAIN st : ClientWaits(ModeEvents(i, st), "CLIENT_ADD", i, st[n])
<1> DEFINE a == <<Evt("IFACE_DOWN", i)>>
           b == IF "v4" \in ip[i] THEN <<IfaceUp(i, "v4")>> ELSE <<>>
           c == IF "v6" \in ip[i] THEN <<IfaceUp(i, "v6")>> ELSE <<>>
           d == [k \in DOMAIN st |-> ClientEvt("CLIENT_ADD", i, st[k])]
<1>1. DownFirst(a, i)
  <2>1. Evt("IFACE_DOWN", i) \in Event /\ Evt("IFACE_DOWN", i).event = "IFACE_DOWN"
        /\ Evt("IFACE_DOWN", i).i = i
    BY Events
  <2> QED BY <2>1 DEF DownFirst
<1>2. \A f \in Fams : IfaceUp(i, f) \in Event /\ IfaceUp(i, f).event = "IFACE_UP" BY Events
<1>3. b \in Seq(Event) /\ \A k \in DOMAIN b : b[k].event # "IFACE_DOWN"
  <2>1. IfaceUp(i, "v4") \in Event /\ IfaceUp(i, "v4").event # "IFACE_DOWN" BY <1>2 DEF Fams
  <2> HIDE DEF IfaceUp
  <2> QED BY <2>1
<1>4. c \in Seq(Event) /\ \A k \in DOMAIN c : c[k].event # "IFACE_DOWN"
  <2>1. IfaceUp(i, "v6") \in Event /\ IfaceUp(i, "v6").event # "IFACE_DOWN" BY <1>2 DEF Fams
  <2> QED BY <2>1
<1>5. \A k \in DOMAIN st : /\ ClientEvt("CLIENT_ADD", i, st[k]) \in Event
                           /\ ClientEvt("CLIENT_ADD", i, st[k]).event = "CLIENT_ADD"
                           /\ ClientEvt("CLIENT_ADD", i, st[k]).i = i
                           /\ ClientEvt("CLIENT_ADD", i, st[k]).mac = st[k]
  BY Events
<1>6. /\ d \in Seq(Event) /\ DOMAIN d = DOMAIN st /\ DOMAIN d = 1..Len(d)
      /\ \A k \in DOMAIN d : d[k].event = "CLIENT_ADD" /\ d[k].i = i /\ d[k].mac = st[k]
  BY <1>5
<1> HIDE DEF a, b, c, d
<1>7. DownFirst(a \o b, i) BY <1>1, <1>3, DownStaysFirst
<1> DEFINE p == a \o b \o c
<1>8. DownFirst(p, i) BY <1>7, <1>4, DownStaysFirst
<1> HIDE DEF p
<1>9. DownFirst(p \o d, i) BY <1>6, <1>8, DownStaysFirst
<1>10. ModeEvents(i, st) = p \o d BY DEF ModeEvents, a, b, c, d, p
<1>11. ASSUME NEW n \in DOMAIN st PROVE ClientWaits(p \o d, "CLIENT_ADD", i, st[n])
  <2>1. p \in Seq(Event) BY <1>8 DEF DownFirst
  <2>2. Len(p) \in Nat /\ n \in 1..Len(d) /\ Len(d) \in Nat BY <1>6, <2>1
  <2>3. Len(p) + n \in DOMAIN (p \o d) /\ (p \o d)[Len(p) + n] = d[n] BY <1>6, <2>1, <2>2
  <2> QED BY <1>6, <2>3 DEF ClientWaits
<1> QED BY <1>9, <1>10, <1>11

LEMMA ModeSwitchClients ==
  ASSUME RulesInv, ClientsInv, NEW i \in Ifaces, ModeSwitch(i)
  PROVE  ClientsInv'
<1> DEFINE C == {c \in Macs : at[c] = i}
<1>1. queue = <<>> /\ world' = world /\ at' = at /\ UNCHANGED bridge
  BY DEF ModeSwitch, Posted
<1>2. PICK st \in SetToSeqs(C) : queue' = (IF i \in active THEN ModeEvents(i, st) ELSE <<>>)
  BY DEF ModeSwitch, Posted
<1>3. st \in Seq(C) /\ \A x \in C : \E k \in DOMAIN st : st[k] = x
  <2>1. IsFiniteSet(C) BY FiniteAssumption, FS_Subset
  <2> QED BY <1>2, <2>1, Listed
<1>4. CASE i \notin active
  <2>1. NoClients(queue') BY <1>2, <1>4 DEF NoClients
  <2> QED BY <1>1, <2>1, ClientsRest
<1>5. CASE i \in active
  <2>1. queue' = ModeEvents(i, st) /\ st \in Seq(Macs) BY <1>2, <1>3, <1>5
  <2>2. DownFirst(queue', i) /\ \A n \in DOMAIN st : ClientWaits(queue', "CLIENT_ADD", i, st[n])
    BY <2>1, ModeEventsOrder
  <2>3. \A k \in DOMAIN queue' : ModeEvent(queue'[k], i) BY <1>3, <2>1, ModeEventsAre
  <2>4. Room' /\ refused' = refused /\ Up' = Up /\ \A j : KnownTo(j)' = KnownTo(j)
    BY <1>1, ClientsStay DEF ClientsInv
  <2>5. /\ \A j \in Ifaces : \A c \in KnownTo(j) : at[c] = j
        /\ \A j \in Ifaces, c \in Macs : at[c] = j => c \in KnownTo(j) \/ <<j, c>> \in refused
    BY <1>1, AtRest
  <2>6. KnownAreThere' BY <1>1, <2>4, <2>5 DEF KnownAreThere
  <2>7. \A j : j # i => ~Waits(queue', "IFACE_DOWN", j) BY <2>3 DEF Waits, ModeEvent
  <2>8. \A c \in C : ClientWaits(queue', "CLIENT_ADD", i, c) BY <1>3, <2>2
  <2>9. ThereAreKnown'
    <3> SUFFICES ASSUME NEW j \in Ifaces, NEW c \in Macs, at[c] = j
                 PROVE  \/ ClientWaits(queue', "CLIENT_ADD", j, c)
                        \/ /\ ~Waits(queue', "IFACE_DOWN", j)
                           /\ c \in KnownTo(j)' \/ <<j, c>> \in refused'
      BY <1>1 DEF ThereAreKnown, Waits, ClientWaits
    <3>1. CASE j = i BY <2>8, <3>1
    <3>2. CASE j # i BY <2>4, <2>5, <2>7, <3>2
    <3> QED BY <3>1, <3>2
  <2>10. AddsInOrder'
    <3> SUFFICES ASSUME NEW k \in DOMAIN queue', queue'[k].event = "CLIENT_ADD"
                 PROVE  /\ at[queue'[k].mac] = queue'[k].i
                        /\ \A l \in DOMAIN queue' : queue'[l].event = "IFACE_DOWN" => l < k
      BY <1>1 DEF AddsInOrder
    <3>1. at[queue'[k].mac] = queue'[k].i BY <2>3 DEF ModeEvent
    <3>2. \A l \in DOMAIN queue' : queue'[l].event = "IFACE_DOWN" => l = 1
      BY <2>2 DEF DownFirst
    <3>3. queue'[1].event = "IFACE_DOWN" /\ k \in 1..Len(queue') BY <2>2 DEF DownFirst
    <3>4. k > 1
      <4>1. k # 1 BY <3>3
      <4>2. k \in 1..Len(queue') /\ Len(queue') \in Nat BY <2>2, <3>3 DEF DownFirst
      <4> QED BY <4>1, <4>2
    <3> QED BY <3>1, <3>2, <3>4
  <2>11. DelsInOrder' BY <2>3 DEF DelsInOrder, ModeEvent
  <2> QED BY <2>4, <2>6, <2>9, <2>10, <2>11 DEF ClientsInv
<1> QED BY <1>4, <1>5

LEMMA JoinClients ==
  ASSUME RulesInv, ClientsInv, NEW i \in Ifaces, NEW c \in Macs, Join(i, c)
  PROVE  ClientsInv'
<1>1. /\ at[c] \in {Nobody, i} /\ at' = [at EXCEPT ![c] = i] /\ queue = <<>>
      /\ queue' = <<ClientEvt("CLIENT_ADD", i, c)>> /\ world' = world /\ UNCHANGED bridge
  BY DEF Join, Posted
<1>2. /\ ClientEvt("CLIENT_ADD", i, c).event = "CLIENT_ADD"
      /\ ClientEvt("CLIENT_ADD", i, c).i = i /\ ClientEvt("CLIENT_ADD", i, c).mac = c
  BY Events
<1>3. DOMAIN queue' = {1} /\ queue'[1] = ClientEvt("CLIENT_ADD", i, c) BY <1>1
<1>4. Room' /\ refused' = refused /\ Up' = Up /\ \A j : KnownTo(j)' = KnownTo(j)
  BY <1>1, ClientsStay DEF ClientsInv
<1>5. /\ \A j \in Ifaces : \A m \in KnownTo(j) : at[m] = j
      /\ \A j \in Ifaces, m \in Macs : at[m] = j => m \in KnownTo(j) \/ <<j, m>> \in refused
  BY <1>1, AtRest
<1>6. \A m \in Macs : at'[m] = IF m = c THEN i ELSE at[m]
  BY <1>1 DEF RulesInv, ObjectsTyped
<1>7. ClientWaits(queue', "CLIENT_ADD", i, c) /\ \A j : ~Waits(queue', "IFACE_DOWN", j)
  BY <1>2, <1>3 DEF ClientWaits, Waits
<1>8. KnownAreThere'
  <2>1. ASSUME NEW j \in Ifaces, NEW m \in KnownTo(j) PROVE at'[m] = j
    <3>1. at[m] = j BY <1>5, <2>1
    <3>2. j # Nobody BY IfacesAssumption
    <3>3. DOMAIN at = Macs /\ at' = [at EXCEPT ![c] = i]
      BY <1>1 DEF RulesInv, ObjectsTyped
    <3>4. m = c => i = j BY <1>1, <3>1, <3>2
    <3>5. m # c => at'[m] = at[m] BY <3>3
    <3>6. at'[c] = i BY <3>3
    <3> QED BY <3>1, <3>4, <3>5, <3>6
  <2> QED BY <1>4, <2>1 DEF KnownAreThere
<1>9. ThereAreKnown'
  <2> SUFFICES ASSUME NEW j \in Ifaces, NEW m \in Macs, at'[m] = j
               PROVE  \/ ClientWaits(queue', "CLIENT_ADD", j, m)
                      \/ /\ ~Waits(queue', "IFACE_DOWN", j)
                         /\ m \in KnownTo(j)' \/ <<j, m>> \in refused'
    BY DEF ThereAreKnown, Waits, ClientWaits
  <2>1. CASE m = c BY <1>6, <1>7, <2>1
  <2>2. CASE m # c BY <1>4, <1>5, <1>6, <1>7, <2>2
  <2> QED BY <2>1, <2>2
<1>10. AddsInOrder' BY <1>2, <1>3, <1>6 DEF AddsInOrder
<1>11. DelsInOrder' BY <1>2, <1>3 DEF DelsInOrder
<1> QED BY <1>4, <1>8, <1>9, <1>10, <1>11 DEF ClientsInv

LEMMA LeaveClients ==
  ASSUME RulesInv, ClientsInv, "early" \notin Allowed, NEW i \in Ifaces, NEW c \in Macs,
         Leave(i, c)
  PROVE  ClientsInv'
<1>1. /\ at[c] = i /\ i \in Up /\ at' = [at EXCEPT ![c] = Nobody] /\ queue = <<>>
      /\ queue' = <<ClientEvt("CLIENT_DEL", i, c)>> /\ world' = world /\ UNCHANGED bridge
  BY DEF Leave, Posted
<1>2. /\ ClientEvt("CLIENT_DEL", i, c).event = "CLIENT_DEL"
      /\ ClientEvt("CLIENT_DEL", i, c).i = i /\ ClientEvt("CLIENT_DEL", i, c).mac = c
  BY Events
<1>3. DOMAIN queue' = {1} /\ queue'[1] = ClientEvt("CLIENT_DEL", i, c) BY <1>1
<1>4. Room' /\ refused' = refused /\ Up' = Up /\ \A j : KnownTo(j)' = KnownTo(j)
  BY <1>1, ClientsStay DEF ClientsInv
<1>5. /\ \A j \in Ifaces : \A m \in KnownTo(j) : at[m] = j
      /\ \A j \in Ifaces, m \in Macs : at[m] = j => m \in KnownTo(j) \/ <<j, m>> \in refused
  BY <1>1, AtRest
<1>6. /\ \A m : m # c => at'[m] = at[m]
      /\ at'[c] = Nobody
  BY <1>1 DEF RulesInv, ObjectsTyped
<1>7. ClientWaits(queue', "CLIENT_DEL", i, c) /\ \A j : ~Waits(queue', "IFACE_DOWN", j)
  BY <1>2, <1>3 DEF ClientWaits, Waits
<1>8. KnownAreThere'
  <2>1. ASSUME NEW j \in Ifaces, NEW m \in KnownTo(j)
        PROVE  at'[m] = j \/ ClientWaits(queue', "CLIENT_DEL", j, m)
    <3>1. CASE m = c BY <1>1, <1>5, <1>7, <3>1
    <3>2. CASE m # c BY <1>5, <1>6, <3>2
    <3> QED BY <3>1, <3>2
  <2> QED BY <1>4, <2>1 DEF KnownAreThere, ClientWaits
<1>9. ThereAreKnown'
  <2> SUFFICES ASSUME NEW j \in Ifaces, NEW m \in Macs, at'[m] = j
               PROVE  /\ ~Waits(queue', "IFACE_DOWN", j)
                      /\ m \in KnownTo(j)' \/ <<j, m>> \in refused'
    BY DEF ThereAreKnown, Waits
  <2>1. m # c BY <1>6, IfacesAssumption
  <2> QED BY <1>4, <1>5, <1>6, <1>7, <2>1
<1>10. AddsInOrder' BY <1>2, <1>3 DEF AddsInOrder
<1>11. DelsInOrder'
  <2>1. at'[c] # i /\ i \in Up' BY <1>1, <1>4, <1>6, IfacesAssumption
  <2> QED BY <1>2, <1>3, <2>1 DEF DelsInOrder
<1> QED BY <1>4, <1>8, <1>9, <1>10, <1>11 DEF ClientsInv

LEMMA LinkDownClients ==
  ASSUME RulesInv, ClientsInv, "bare" \notin Allowed, NEW i \in Ifaces, LinkDown(i)
  PROVE  ClientsInv'
<1>1. /\ ip[i] # {} \/ CachedOf(i) = {}
      /\ at' = [c \in Macs |-> IF at[c] = i THEN Nobody ELSE at[c]]
      /\ queue = <<>> /\ queue' = DownEvents(i) /\ world' = world /\ UNCHANGED bridge
  BY DEF LinkDown, Posted
<1>2. \A ev \in {"IFACE_DOWN", "LAN_DELETE_SELF"} : Evt(ev, i).event = ev /\ Evt(ev, i).i = i
  BY Events
<1>3. Room' /\ refused' = refused /\ Up' = Up /\ \A j : KnownTo(j)' = KnownTo(j)
  BY <1>1, ClientsStay DEF ClientsInv
<1>4. /\ \A j \in Ifaces : \A m \in KnownTo(j) : at[m] = j
      /\ \A j \in Ifaces, m \in Macs : at[m] = j => m \in KnownTo(j) \/ <<j, m>> \in refused
  BY <1>1, AtRest
<1>5. \A k \in DOMAIN queue' : /\ queue'[k].event \notin {"CLIENT_ADD", "CLIENT_DEL"}
                               /\ queue'[k].i = i
  BY <1>1, <1>2 DEF DownEvents
<1>6. ip[i] # {} => Waits(queue', "IFACE_DOWN", i)
  <2> SUFFICES ASSUME ip[i] # {} PROVE Waits(queue', "IFACE_DOWN", i) OBVIOUS
  <2>1. 1 \in DOMAIN queue' /\ queue'[1] = Evt("IFACE_DOWN", i) BY <1>1 DEF DownEvents
  <2> QED BY <1>2, <2>1 DEF Waits
<1>7. ip[i] = {} => KnownTo(i) = {} BY <1>1 DEF RulesInv, UpAreAlive, KnownTo
<1>8. KnownAreThere'
  <2>1. ASSUME NEW j \in Ifaces, NEW m \in KnownTo(j)
        PROVE  at'[m] = j \/ Waits(queue', "IFACE_DOWN", j)
    <3>1. CASE j = i BY <1>6, <1>7, <2>1, <3>1
    <3>2. CASE j # i
      <4>1. at[m] = j BY <1>4, <2>1
      <4>2. m \in Macs
        <5>1. Typed(m_iface) /\ CachedOf(j) \subseteq Macs BY CachedTyped DEF RulesInv, InStep
        <5> QED BY <2>1, <5>1 DEF KnownTo, Typed, IfaceRec, Up
      <4> QED BY <1>1, <3>2, <4>1, <4>2
    <3> QED BY <3>1, <3>2
  <2> QED BY <1>3, <2>1 DEF KnownAreThere, Waits
<1>9. ThereAreKnown'
  <2> SUFFICES ASSUME NEW j \in Ifaces, NEW m \in Macs, at'[m] = j
               PROVE  /\ ~Waits(queue', "IFACE_DOWN", j)
                      /\ m \in KnownTo(j)' \/ <<j, m>> \in refused'
    BY DEF ThereAreKnown, Waits
  <2>1. at[m] = j /\ j # i
    <3>1. at'[m] = IF at[m] = i THEN Nobody ELSE at[m] BY <1>1
    <3> QED BY <3>1, IfacesAssumption
  <2>2. ~Waits(queue', "IFACE_DOWN", j) BY <1>5, <2>1 DEF Waits
  <2> QED BY <1>3, <1>4, <2>1, <2>2
<1>10. AddsInOrder' /\ DelsInOrder' BY <1>5 DEF AddsInOrder, DelsInOrder
<1> QED BY <1>3, <1>8, <1>9, <1>10 DEF ClientsInv

\* Clients, interfaces and events stay as they are.
LEMMA ClientsSame ==
  ASSUME RulesInv, ClientsInv, UNCHANGED bridge, world' = world, at' = at, queue' = queue
  PROVE  ClientsInv'
<1>1. Room' /\ refused' = refused /\ Up' = Up /\ \A j : KnownTo(j)' = KnownTo(j)
  BY ClientsStay DEF ClientsInv
<1>2. KnownAreThere /\ ThereAreKnown /\ AddsInOrder /\ DelsInOrder BY DEF ClientsInv
<1>3. KnownAreThere' BY <1>1, <1>2 DEF KnownAreThere, Waits, ClientWaits
<1>4. ThereAreKnown' BY <1>1, <1>2 DEF ThereAreKnown, Waits, ClientWaits
<1>5. AddsInOrder' BY <1>2 DEF AddsInOrder
<1>6. DelsInOrder' BY <1>1, <1>2 DEF DelsInOrder
<1> QED BY <1>1, <1>3, <1>4, <1>5, <1>6 DEF ClientsInv

-----------------------------------------------------------------------------
(* The clients known are those there *)

LEMMA InitClients == Init => ClientsInv
<1> SUFFICES ASSUME Init PROVE ClientsInv OBVIOUS
<1>1. /\ Up = {} /\ DOMAIN cached = {} /\ queue = <<>> /\ at = [c \in Macs |-> Nobody]
  BY DEF Init, Up
<1>2. \A i : KnownTo(i) = {} BY <1>1 DEF KnownTo, CachedOf, CachedAt
<1>3. Room /\ KnownAreThere BY <1>1, <1>2 DEF Room, KnownAreThere
<1>4. ThereAreKnown BY <1>1, IfacesAssumption DEF ThereAreKnown
<1>5. AddsInOrder /\ DelsInOrder BY <1>1 DEF AddsInOrder, DelsInOrder
<1> QED BY <1>3, <1>4, <1>5 DEF ClientsInv

LEMMA NextClients ==
  ASSUME "early" \notin Allowed, "bare" \notin Allowed, "freed" \notin Allowed, RulesInv,
         ClientsInv, [Next]_vars
  PROVE  ClientsInv'
<1>1. CASE Serve BY <1>1, ServeClientsInv
<1>2. CASE ChannelSwitch
  <2>1. UNCHANGED bridge /\ world' = world /\ at' = at /\ queue' = queue
    BY <1>2 DEF ChannelSwitch
  <2> QED BY <2>1, ClientsSame
<1>3. CASE SwitchEvent
  <2>1. queue = <<>> /\ UNCHANGED bridge /\ world' = world /\ at' = at
    BY <1>3 DEF SwitchEvent, Posted
  <2>2. NoClients(queue') BY <1>3, SwitchHeard DEF NoClients
  <2> QED BY <2>1, <2>2, ClientsRest
<1>4. ASSUME NEW i \in Ifaces, LinkUp(i) \/ LinkDown(i) \/ ModeSwitch(i) PROVE ClientsInv'
  <2>1. CASE LinkUp(i)
    <3>1. /\ queue = <<>> /\ queue' = <<>> /\ UNCHANGED bridge /\ world' = world /\ at' = at
      BY <2>1 DEF LinkUp, Posted
    <3>2. NoClients(queue') BY <3>1 DEF NoClients
    <3> QED BY <3>1, <3>2, ClientsRest
  <2>2. CASE LinkDown(i) BY <2>2, LinkDownClients
  <2>3. CASE ModeSwitch(i) BY <2>3, ModeSwitchClients
  <2> QED BY <1>4, <2>1, <2>2, <2>3
<1>5. ASSUME NEW i \in Ifaces, NEW f \in Fams, AddrAdd(i, f) PROVE ClientsInv'
  <2>1. /\ queue = <<>> /\ queue' = <<IfaceUp(i, f)>> /\ UNCHANGED bridge /\ world' = world
        /\ at' = at
    BY <1>5 DEF AddrAdd, Posted
  <2>2. IfaceUp(i, f).event = "IFACE_UP" BY Events
  <2>3. NoClients(queue') BY <2>1, <2>2 DEF NoClients
  <2> QED BY <2>1, <2>3, ClientsRest
<1>6. ASSUME NEW i \in Ifaces, NEW c \in Macs, Join(i, c) \/ Leave(i, c) PROVE ClientsInv'
  BY <1>6, JoinClients, LeaveClients
<1>7. CASE UNCHANGED vars
  <2>1. UNCHANGED bridge /\ world' = world /\ at' = at /\ queue' = queue
    BY <1>7 DEF vars, objects
  <2> QED BY <2>1, ClientsSame
<1> QED BY <1>1, <1>2, <1>3, <1>4, <1>5, <1>6, <1>7 DEF Next

LEMMA TypesFollow == RulesInv /\ Room => TypeOK
<1> SUFFICES ASSUME RulesInv, Room PROVE TypeOK OBVIOUS
<1>1. ObjectsTyped /\ CacheTyped /\ Typed(m_iface) /\ Links(m_iface) /\ alt \subseteq WlanRt(held)
  BY DEF RulesInv, InStep, PipesOfRules
<1>2. alt \subseteq held BY <1>1, InWlanRt
<1>3. ASSUME NEW i \in Up
      PROVE  /\ m_iface[i].assigned \subseteq Fams /\ m_iface[i].clients \subseteq Macs
             /\ m_iface[i].ref \in [Types -> Nat] /\ m_iface[i].peers \subseteq Ifaces
  <2>1. m_iface[i] \in IfaceRec BY <1>1 DEF Typed, Up
  <2>2. \A t \in Types : m_iface[i].ref[t] \in Nat
    <3> TAKE t \in Types
    <3>1. m_iface[i].ref[t] = Cardinality(PeersOfType(m_iface, i, t)) BY <1>1 DEF Links, Up
    <3>2. Cardinality(PeersOfType(m_iface, i, t)) \in Nat BY <1>1, FinitePeers DEF Up
    <3> QED BY <3>1, <3>2
  <2> QED BY <2>1, <2>2 DEF IfaceRec
<1>4. Up \subseteq Ifaces BY <1>1 DEF Typed, Up
<1> QED BY <1>1, <1>2, <1>3, <1>4 DEF TypeOK, ObjectsTyped, CacheTyped, Room

\* In every course of events but the four named, every variable has its type, the lists of
\* clients fit their bound, and once no event waits the controller knows of the clients of
\* each interface, in its list or in the cache, all but those it had no room for, and of
\* nobody else.
THEOREM Agree ==
  ASSUME "guest" \notin Allowed, "early" \notin Allowed, "bare" \notin Allowed,
         "freed" \notin Allowed
  PROVE  Spec => []ClientsAgree
<1>1. RulesInv /\ ClientsInv => ClientsAgree
  <2> SUFFICES ASSUME RulesInv, ClientsInv PROVE ClientsAgree OBVIOUS
  <2>1. TypeOK BY TypesFollow DEF ClientsInv
  <2>2. ASSUME queue = <<>>, NEW i \in Ifaces, NEW c \in Macs
        PROVE  /\ c \in KnownTo(i) => at[c] = i
               /\ at[c] = i => c \in KnownTo(i) \/ <<i, c>> \in refused
    BY <2>2, AtRest
  <2> QED BY <2>1, <2>2 DEF ClientsAgree, KnownTo
<1>2. RulesInv /\ [Next]_vars => RulesInv' BY NextRules
<1>3. RulesInv /\ ClientsInv /\ [Next]_vars => ClientsInv' BY NextClients
<1> QED BY <1>1, <1>2, <1>3, InitRules, InitClients, PTL DEF Spec

=============================================================================
