---------------------------- MODULE IpaNatProofs ----------------------------
(* Theorems about IpaNat, for every table size, hash and number of refused  *)
(* requests: the types, and that a rule handle keeps naming the rule of the *)
(* flow it was given for; while no DMA request is refused, that the hardware *)
(* finds each established rule after every write, no chain runs in a circle, *)
(* and nothing is left behind; and that the tables implement the abstract   *)
(* NAT service, refusals included.                                          *)
EXTENDS IpaNat, FiniteSetTheorems, SequenceTheorems, WellFoundedInduction, TLAPS

-----------------------------------------------------------------------------
(* Lemmas on the operators *)

\* A non-empty set of numbers has a least element, so FirstFree picks one.
LEMMA LeastExists ==
  ASSUME NEW S \in SUBSET Nat, S # {}
  PROVE  \E x \in S : \A y \in S : x <= y
<1>1. \E x \in S : \A y \in S : <<y, x>> \notin OpToRel(<, Nat)
  BY NatLessThanWellFounded, WFMin
<1>2. PICK x \in S : \A y \in S : <<y, x>> \notin OpToRel(<, Nat)
  BY <1>1
<1>3. ASSUME NEW y \in S PROVE x <= y
  <2>1. <<y, x>> \notin OpToRel(<, Nat)
    BY <1>2
  <2>2. x \in Nat /\ y \in Nat
    OBVIOUS
  <2>3. ~(y < x)
    BY <2>1, <2>2 DEF OpToRel
  <2> QED BY <2>2, <2>3
<1> QED BY <1>3

\* FirstFree returns 0 when there is no free entry, otherwise the first one.
LEMMA FirstFreeIsLeast ==
  ASSUME NEW S \in SUBSET Nat
  PROVE  /\ S = {} => FirstFree(S) = 0
         /\ S # {} => FirstFree(S) \in S /\ \A y \in S : FirstFree(S) <= y
BY LeastExists DEF FirstFree

\* The encoding of a table entry in rule_id_array is exact.
LEMMA RuleIdExact ==
  ASSUME NEW e \in Entries
  PROVE  /\ EntryOf(RuleId(e)) = e
         /\ RuleId(e) \in 0 .. 2 * (TableEntries + ExpnEntries)
         /\ (e \notin {0, TableEntries} => RuleId(e) # 0)
<1> USE SizesAssumption
<1>1. CASE e >= TableEntries
  BY <1>1 DEF EntryOf, RuleId, Entries
<1>2. CASE e < TableEntries
  BY <1>2 DEF EntryOf, RuleId, Entries
<1> QED BY <1>1, <1>2 DEF Entries

\* The hash picks a bucket other than 0.
LEMMA DstHashType ==
  ASSUME NEW f \in Flows
  PROVE  dst_hash(f) \in Entries \ {0, TableEntries}
BY SizesAssumption, HashAssumption DEF dst_hash, Entries
LEMMA SrcHashType ==
  ASSUME NEW f \in Flows
  PROVE  src_hash(f) \in Entries \ {0, TableEntries}
BY SizesAssumption, HashAssumption DEF src_hash, Entries

\* An entry chosen for a new rule is a usable one that no rule in force occupies.
LEMMA GeneratedEntryIsFree ==
  ASSUME NEW f \in Flows, TypeOK, generate_tbl_rule(f).ent # 0
  PROVE  /\ generate_tbl_rule(f).ent \in Entries \ {0, TableEntries}
         /\ ~tbl[generate_tbl_rule(f).ent].enable
         /\ generate_tbl_rule(f).prev \in Entries
<1> DEFINE S == {x \in ExpnUsable : ~tbl[x].enable}
<1>1. S \in SUBSET Nat
  BY SizesAssumption DEF ExpnUsable
<1>2. expn_tbl_free_entry = FirstFree(S)
  BY DEF expn_tbl_free_entry
<1>3. expn_tbl_free_entry # 0 => expn_tbl_free_entry \in S
  BY <1>1, <1>2, FirstFreeIsLeast
<1>4. S \subseteq Entries \ {0, TableEntries}
  BY SizesAssumption DEF ExpnUsable, Entries
<1>5. Tails(tbl, dst_hash(f)) # {} => (CHOOSE x \in Tails(tbl, dst_hash(f)) : TRUE) \in Entries
  <2>1. Tails(tbl, dst_hash(f)) \subseteq Entries
    BY DEF Tails, Walk
  <2> QED BY <2>1
<1>6. 0 \in Entries
  BY SizesAssumption DEF Entries
<1>7. CASE ~tbl[dst_hash(f)].enable
  <2>1. generate_tbl_rule(f) = [ent |-> dst_hash(f), prev |-> 0]
    BY <1>7 DEF generate_tbl_rule
  <2> QED BY <2>1, <1>6, <1>7, DstHashType
<1>8. CASE tbl[dst_hash(f)].enable
  <2>1. Tails(tbl, dst_hash(f)) # {}
    BY <1>8 DEF generate_tbl_rule
  <2>2. generate_tbl_rule(f) = [ent |-> expn_tbl_free_entry,
                                prev |-> CHOOSE x \in Tails(tbl, dst_hash(f)) : TRUE]
    BY <1>8, <2>1 DEF generate_tbl_rule
  <2> QED BY <2>1, <2>2, <1>3, <1>4, <1>5
<1> QED BY <1>7, <1>8

\* The index node chosen for a new rule and the node it hangs from.
LEMMA GeneratedIndexType ==
  ASSUME NEW f \in Flows, generate_index_rule(f).ent # 0
  PROVE  generate_index_rule(f).ent \in Entries /\ generate_index_rule(f).prev \in Entries
<1> DEFINE S == {x \in ExpnUsable : indx[x].ent = 0}
           p == CHOOSE x \in Tails(indx, src_hash(f)) : TRUE
<1>1. S \in SUBSET Nat
  BY SizesAssumption DEF ExpnUsable
<1>2. index_expn_get_free_entry = FirstFree(S)
  BY DEF index_expn_get_free_entry
<1>3. index_expn_get_free_entry # 0 => index_expn_get_free_entry \in S
  BY <1>1, <1>2, FirstFreeIsLeast
<1>4. S \subseteq Entries
  BY SizesAssumption DEF ExpnUsable, Entries
<1>6. 0 \in Entries
  BY SizesAssumption DEF Entries
<1>7. CASE indx[src_hash(f)].ent = 0
  <2>1. generate_index_rule(f) = [ent |-> src_hash(f), prev |-> 0]
    BY <1>7 DEF generate_index_rule
  <2> QED BY <2>1, <1>6, SrcHashType
<1>8. CASE indx[src_hash(f)].ent # 0
  <2>1. Tails(indx, src_hash(f)) # {}
    BY <1>8 DEF generate_index_rule
  <2>2. generate_index_rule(f) = [ent |-> IF index_expn_get_free_entry = p THEN 0
                                          ELSE index_expn_get_free_entry, prev |-> p]
    BY <1>8, <2>1 DEF generate_index_rule
  <2>3. Tails(indx, src_hash(f)) \subseteq Entries
    BY DEF Tails, Walk
  <2>4. p \in Entries
    BY <2>1, <2>3
  <2>5. index_expn_get_free_entry # 0
    BY <2>2
  <2> HIDE DEF p
  <2> QED BY <2>2, <2>4, <2>5, <1>3, <1>4
<1> QED BY <1>7, <1>8

\* There are more slots in rule_id_array than usable entries, so a slot below the
\* last one is always free: every handle given out can be parsed again.
LEMMA FreeSlotExists ==
  ASSUME TypeOK, SlotsNameLiveEntries, SlotsAreDistinct
  PROVE  \E h \in Handles : h < TableEntries + ExpnEntries /\ ruleIds[h] = 0
<1> DEFINE n == TableEntries + ExpnEntries
           S == 1 .. (n - 1)
           T == (Entries \ {0}) \ {TableEntries}
           g == [h \in S |-> EntryOf(ruleIds[h])]
<1> USE SizesAssumption
<1>1. SUFFICES ASSUME \A h \in S : ruleIds[h] # 0 PROVE FALSE
  BY DEF Handles
<1>2. S \subseteq Handles
  BY DEF Handles
<1>3. g \in [S -> T]
  BY <1>1, <1>2 DEF SlotsNameLiveEntries
<1>4. IsFiniteSet(S) /\ Cardinality(S) = n - 1
  BY FS_Interval
<1>5. IsFiniteSet(Entries) /\ Cardinality(Entries) = n
  BY FS_Interval DEF Entries
<1>6. 0 \in Entries /\ TableEntries \in Entries \ {0}
  BY DEF Entries
<1>7. IsFiniteSet(Entries \ {0}) /\ Cardinality(Entries \ {0}) = n - 1
  BY <1>5, <1>6, FS_RemoveElement
<1>8. IsFiniteSet(T) /\ Cardinality(T) = (n - 1) - 1
  BY <1>6, <1>7, FS_RemoveElement
<1>9. \E x, y \in S : x # y /\ g[x] = g[y]
  <2>1. Cardinality(T) < Cardinality(S)
    BY <1>4, <1>8
  <2> HIDE DEF S, T, g
  <2> QED BY <2>1, <1>3, <1>4, <1>8, FS_PigeonHole
<1> QED BY <1>1, <1>2, <1>9 DEF SlotsAreDistinct

-----------------------------------------------------------------------------
(* Type correctness *)

LEMMA InitType == Init => TypeOK
<1> SUFFICES ASSUME Init PROVE TypeOK
  OBVIOUS
<1>1. 0 \in Entries
  BY SizesAssumption DEF Entries
<1>2. NoRule \in RuleType
  BY <1>1 DEF NoRule, RuleType
<1>3. NoOp \in OpType
  BY <1>1 DEF NoOp, OpType, Positions
<1>4. 0 \in 0 .. 2 * (TableEntries + ExpnEntries) /\ 0 \in 0 .. MaxFail
  BY SizesAssumption, FailAssumption
<1> QED BY <1>1, <1>2, <1>3, <1>4 DEF Init, TypeOK, NoIndx

\* A write of the hardware keeps both tables well typed.
LEMMA PokeType ==
  ASSUME TypeOK, NEW c \in CmdType, Poke(c)
  PROVE  /\ tbl' \in [Entries -> RuleType]
         /\ indx' \in [Entries -> [ent : Entries, next : Entries]]
<1>1. CASE c.tab = "rule"
  <2>1. c.at \in Entries /\ (c.fld = "next" => c.val \in Entries)
    BY <1>1 DEF CmdType
  <2>2. tbl \in [Entries -> RuleType] /\ indx \in [Entries -> [ent : Entries, next : Entries]]
    BY DEF TypeOK
  <2>3. tbl[c.at] \in RuleType
    BY <2>1, <2>2
  <2>4. /\ \A v \in Entries : [tbl[c.at] EXCEPT !.next = v] \in RuleType
        /\ \A b \in BOOLEAN : [tbl[c.at] EXCEPT !.enable = b] \in RuleType
        /\ [tbl[c.at] EXCEPT !.dead = TRUE] \in RuleType
    BY <2>3 DEF RuleType
  <2>5. (c.val = 1) \in BOOLEAN
    OBVIOUS
  <2>6. indx' = indx /\ \E r \in RuleType : tbl' = [tbl EXCEPT ![c.at] = r]
    BY <1>1, <2>1, <2>4, <2>5, Zenon DEF Poke
  <2> QED BY <2>1, <2>2, <2>6
<1>2. CASE c.tab = "indx"
  <2>1. c.at \in Entries /\ c.val \in Entries
    BY <1>2 DEF CmdType
  <2> QED BY <1>2, <2>1 DEF Poke, TypeOK
<1> QED BY <1>1, <1>2 DEF Poke

\* The commands of a deletion are well typed, and the only commands that change
\* whether a rule is in force are for the rule that is deleted.
LEMMA DeleteCommands ==
  ASSUME TypeOK, NEW e \in Entries, NEW x \in Entries
  PROVE  /\ ReorderCmds(RuleCmds(e), IndexCmds(x)) \in Seq(CmdType)
         /\ \A i \in DOMAIN ReorderCmds(RuleCmds(e), IndexCmds(x)) :
              ReorderCmds(RuleCmds(e), IndexCmds(x))[i].fld \in {"enable", "proto"} =>
                ReorderCmds(RuleCmds(e), IndexCmds(x))[i].at = e
<1> DEFINE R == RuleCmds(e)
           X == IndexCmds(x)
           Own == {c \in CmdType : c.fld \in {"enable", "proto"} => c.at = e}
<1>0. 0 \in Entries
  BY SizesAssumption DEF Entries
<1>1. tbl[e].prev \in Entries /\ tbl[e].next \in Entries
  BY DEF TypeOK, RuleType
<1>2. indx[x].next \in Entries /\ meta[x] \in Entries
  BY DEF TypeOK
<1>3. indx[indx[x].next].ent \in Entries /\ indx[indx[x].next].next \in Entries
  BY <1>2 DEF TypeOK
<1>4. R \in Seq(Own)
  <2>1. Cmd("rule", e, "enable", 0) \in Own
    BY DEF Cmd, CmdType
  <2>2. Cmd("rule", e, "proto", 255) \in Own
    BY DEF Cmd, CmdType
  <2>3. Cmd("rule", tbl[e].prev, "next", tbl[e].next) \in Own
    BY <1>1 DEF Cmd, CmdType
  <2>4. Cmd("rule", tbl[e].prev, "next", 0) \in Own
    BY <1>0, <1>1 DEF Cmd, CmdType
  <2> HIDE DEF Own
  <2> QED BY <2>1, <2>2, <2>3, <2>4 DEF RuleCmds, rule_pos
<1>5. X \in Seq(Own)
  <2>1. Cmd("indx", x, "ent", 0) \in Own
    BY <1>0 DEF Cmd, CmdType
  <2>2. Cmd("indx", x, "ent", indx[indx[x].next].ent) \in Own
    BY <1>3 DEF Cmd, CmdType
  <2>3. Cmd("indx", x, "next", indx[indx[x].next].next) \in Own
    BY <1>3 DEF Cmd, CmdType
  <2>4. Cmd("indx", meta[x], "next", indx[x].next) \in Own
    BY <1>2 DEF Cmd, CmdType
  <2>5. Cmd("indx", meta[x], "next", 0) \in Own
    BY <1>0, <1>2 DEF Cmd, CmdType
  <2> HIDE DEF Own
  <2> QED BY <2>1, <2>2, <2>3, <2>4, <2>5 DEF IndexCmds, rule_pos
<1>6. X \o R \in Seq(Own)
  <2> HIDE DEF X, R, Own
  <2> QED BY <1>4, <1>5
<1> HIDE DEF X, R
<1>7. \A i \in DOMAIN (X \o R) : (X \o R)[i] \in Own
  <2> HIDE DEF Own
  <2> QED BY <1>6
<1>8. X \o R \in Seq(CmdType)
  <2>1. Own \subseteq CmdType
    OBVIOUS
  <2> HIDE DEF Own
  <2> QED BY <1>6, <2>1
<1> QED BY <1>7, <1>8 DEF ReorderCmds, X, R

-----------------------------------------------------------------------------
(* HandleInv is inductive: one lemma per action *)

LEMMA InitHandles == Init => HandleInv
<1> SUFFICES ASSUME Init PROVE HandleInv
  OBVIOUS
<1>1. TypeOK
  BY InitType
<1>2. op.kind = "none" /\ pc = "idle"
  BY DEF Init, NoOp
<1>3. \A h \in Handles : ruleIds[h] = 0
  BY DEF Init
<1>4. \A f \in Flows : held[f] = 0
  BY DEF Init
<1> QED BY <1>1, <1>2, <1>3, <1>4
        DEF HandleInv, OpAgrees, SlotsNameLiveEntries, SlotsAreDistinct, HeldAgree, AddSteps

LEMMA GenerateRuleStep ==
  ASSUME HandleInv, NEW f \in Flows, generate_rule(f)
  PROVE  HandleInv'
<1> DEFINE r == generate_tbl_rule(f)
           x == generate_index_rule(f)
<1>1. TypeOK
  BY DEF HandleInv
<1>2. /\ r.ent \in Entries \ {0, TableEntries}
      /\ ~tbl[r.ent].enable
      /\ r.prev \in Entries
  BY <1>1, GeneratedEntryIsFree DEF generate_rule
<1>3. x.ent \in Entries /\ x.prev \in Entries
  BY GeneratedIndexType DEF generate_rule
<1>4. /\ pc = "idle" /\ pc' = "copy_rule" /\ held[f] = 0
      /\ op' = [NoOp EXCEPT !.kind = "add", !.flow = f, !.ent = r.ent,
                            !.prev = r.prev, !.indx = x.ent, !.iprev = x.prev]
      /\ meta' = IF x.ent >= TableEntries THEN [meta EXCEPT ![x.ent] = x.prev] ELSE meta
      /\ UNCHANGED <<tbl, indx, ruleIds, held, fails>>
  BY DEF generate_rule
<1> HIDE DEF r, x
<1>5. op' = [kind |-> "add", flow |-> f, ent |-> r.ent, prev |-> r.prev, indx |-> x.ent,
             iprev |-> x.prev, inext |-> 0, pos |-> "none", ipos |-> "none", cmds |-> <<>>]
  BY <1>4 DEF NoOp
<1>6. op' \in OpType
  <2>1. 0 \in Entries
    BY SizesAssumption DEF Entries
  <2>2. <<>> \in Seq(CmdType)
    OBVIOUS
  <2> QED BY <1>2, <1>3, <1>5, <2>1, <2>2 DEF OpType, Positions
<1>7. TypeOK'
  BY <1>1, <1>3, <1>4, <1>6 DEF TypeOK
<1>8. OpAgrees'
  BY <1>2, <1>4, <1>5 DEF OpAgrees, AddSteps
<1>9. SlotsNameLiveEntries'
  BY <1>2, <1>4, <1>5 DEF HandleInv, SlotsNameLiveEntries
<1>10. SlotsAreDistinct' /\ HeldAgree'
  BY <1>4 DEF HandleInv, SlotsAreDistinct, HeldAgree, NamedEntry
<1> QED BY <1>7, <1>8, <1>9, <1>10 DEF HandleInv

LEMMA SpinsStep ==
  ASSUME HandleInv, NEW f \in Flows, generate_rule_spins(f)
  PROVE  HandleInv'
<1>1. pc = "idle" /\ pc' = "spinning" /\ UNCHANGED <<tbl, indx, meta, ruleIds, held, op, fails>>
  BY DEF generate_rule_spins
<1> QED BY <1>1 DEF HandleInv, TypeOK, OpAgrees, SlotsNameLiveEntries, SlotsAreDistinct,
              HeldAgree, NamedEntry, AddSteps

\* An addition writes only its own entry, and no slot names that one.
LEMMA CopyRuleStep ==
  ASSUME HandleInv, copy_ipv4_rule_to_hw
  PROVE  HandleInv'
<1> DEFINE new == [flow |-> op.flow, enable |-> FALSE, dead |-> FALSE, next |-> 0,
                    prev |-> op.prev, indx |-> op.indx]
<1>1. TypeOK /\ op.ent \in Entries /\ op.prev \in Entries /\ op.indx \in Entries /\ op.flow \in Flows
  BY DEF HandleInv, TypeOK, OpType, OpAgrees, AddSteps, copy_ipv4_rule_to_hw
<1>2. new.flow = op.flow /\ ~new.enable /\ ~new.dead
  OBVIOUS
<1>3. new \in RuleType
  <2>1. 0 \in Entries
    BY SizesAssumption DEF Entries
  <2> QED BY <1>1, <2>1 DEF RuleType
<1>4. /\ pc = "copy_rule" /\ pc' \in {"copy_indx", "link_rule"}
      /\ tbl' = [tbl EXCEPT ![op.ent] = new]
      /\ UNCHANGED <<indx, meta, ruleIds, held, op, fails>>
  BY DEF copy_ipv4_rule_to_hw
<1> HIDE DEF new
<1>5. TypeOK'
  BY <1>1, <1>3, <1>4 DEF TypeOK
<1>6. tbl'[op.ent] = new /\ \A e \in Entries : e # op.ent => tbl'[e] = tbl[e]
  BY <1>1, <1>4 DEF TypeOK
<1>7. OpAgrees'
  BY <1>1, <1>2, <1>4, <1>6 DEF HandleInv, OpAgrees, AddSteps
<1>8. SlotsNameLiveEntries'
  BY <1>4, <1>6 DEF HandleInv, SlotsNameLiveEntries, AddSteps
<1>9. SlotsAreDistinct'
  BY <1>4 DEF HandleInv, SlotsAreDistinct
<1>10. HeldAgree'
  <2> SUFFICES ASSUME NEW g \in Flows, held[g] # 0 PROVE tbl'[NamedEntry(g)].flow = g
    BY <1>4 DEF HandleInv, HeldAgree, NamedEntry
  <2>1. held[g] \in Handles
    BY <1>1 DEF TypeOK
  <2>2. ruleIds[held[g]] # 0 /\ tbl[NamedEntry(g)].flow = g
    BY DEF HandleInv, HeldAgree
  <2>3. NamedEntry(g) \in Entries /\ NamedEntry(g) # op.ent
    BY <1>4, <2>1, <2>2 DEF HandleInv, SlotsNameLiveEntries, AddSteps, NamedEntry
  <2> QED BY <1>6, <2>2, <2>3
<1> QED BY <1>5, <1>7, <1>8, <1>9, <1>10 DEF HandleInv

LEMMA CopyIndexStep ==
  ASSUME HandleInv, copy_ipv4_index_rule_to_hw
  PROVE  HandleInv'
<1>1. TypeOK /\ op.ent \in Entries /\ op.indx \in Entries
  BY DEF HandleInv, TypeOK, OpType
<1>2. /\ pc = "copy_indx" /\ pc' \in {"enable", "link_indx"}
      /\ indx' = [indx EXCEPT ![op.indx] = [ent |-> op.ent, next |-> 0]]
      /\ UNCHANGED <<tbl, meta, ruleIds, held, op, fails>>
  BY DEF copy_ipv4_index_rule_to_hw
<1>3. 0 \in Entries
  BY SizesAssumption DEF Entries
<1>4. TypeOK'
  BY <1>1, <1>2, <1>3 DEF TypeOK
<1> QED BY <1>2, <1>4 DEF HandleInv, OpAgrees, SlotsNameLiveEntries, SlotsAreDistinct,
              HeldAgree, NamedEntry, AddSteps

\* Linking changes a next field only: what an entry holds stays.
LEMMA WriteNextStep ==
  ASSUME HandleInv, write_next_index
  PROVE  HandleInv'
<1> DEFINE c == Cmd("rule", op.prev, "next", op.ent)
           d == Cmd("indx", op.iprev, "next", op.indx)
<1>1. TypeOK /\ op.ent \in Entries /\ op.prev \in Entries /\ op.indx \in Entries /\ op.iprev \in Entries
  BY DEF HandleInv, TypeOK, OpType
<1>2. c \in CmdType /\ d \in CmdType
  BY <1>1 DEF Cmd, CmdType
<1>3. /\ pc \in {"link_rule", "link_indx"} /\ pc' \in {"copy_indx", "enable"}
      /\ UNCHANGED <<meta, ruleIds, held, op>>
      /\ \/ Poke(c) /\ UNCHANGED fails
         \/ Poke(d) /\ UNCHANGED fails
         \/ DmaFails /\ UNCHANGED <<tbl, indx>>
  BY DEF write_next_index
<1>4. fails' \in 0 .. MaxFail
  BY <1>1, <1>3, FailAssumption DEF TypeOK, DmaFails
<1>5. /\ tbl' \in [Entries -> RuleType]
      /\ indx' \in [Entries -> [ent : Entries, next : Entries]]
  <2>1. CASE Poke(c)
    BY <1>1, <1>2, <2>1, PokeType
  <2>2. CASE Poke(d)
    BY <1>1, <1>2, <2>2, PokeType
  <2>3. CASE UNCHANGED <<tbl, indx>>
    BY <1>1, <2>3 DEF TypeOK
  <2> QED BY <1>3, <2>1, <2>2, <2>3
<1>6. TypeOK'
  BY <1>1, <1>3, <1>4, <1>5 DEF TypeOK
<1>7. \A e \in Entries : /\ tbl'[e].flow = tbl[e].flow
                         /\ tbl'[e].enable = tbl[e].enable
                         /\ tbl'[e].dead = tbl[e].dead
  <2>1. CASE Poke(c)
    <3>1. tbl' = [tbl EXCEPT ![op.prev].next = op.ent]
      BY <2>1 DEF Poke, Cmd
    <3> QED BY <1>1, <3>1 DEF TypeOK, RuleType
  <2>2. CASE Poke(d)
    BY <2>2 DEF Poke, Cmd
  <2>3. CASE UNCHANGED <<tbl, indx>>
    BY <2>3
  <2> QED BY <1>3, <2>1, <2>2, <2>3
<1>8. OpAgrees'
  BY <1>1, <1>3, <1>7 DEF HandleInv, OpAgrees, AddSteps
<1>9. SlotsNameLiveEntries'
  BY <1>3, <1>7 DEF HandleInv, SlotsNameLiveEntries, AddSteps
<1>10. SlotsAreDistinct'
  BY <1>3 DEF HandleInv, SlotsAreDistinct
<1>11. HeldAgree'
  <2> SUFFICES ASSUME NEW g \in Flows, held[g] # 0 PROVE tbl'[NamedEntry(g)].flow = g
    BY <1>3 DEF HandleInv, HeldAgree, NamedEntry
  <2>1. held[g] \in Handles /\ ruleIds[held[g]] # 0 /\ tbl[NamedEntry(g)].flow = g
    BY <1>1 DEF HandleInv, HeldAgree, TypeOK
  <2>2. NamedEntry(g) \in Entries
    BY <2>1 DEF HandleInv, SlotsNameLiveEntries, NamedEntry
  <2> QED BY <1>7, <2>1, <2>2
<1> QED BY <1>6, <1>8, <1>9, <1>10, <1>11 DEF HandleInv

\* Enabling puts the addition's own entry in use.
LEMMA EnableStep ==
  ASSUME HandleInv, post_ipv4_dma_cmd
  PROVE  HandleInv'
<1> DEFINE c == Cmd("rule", op.ent, "enable", 1)
<1>1. /\ TypeOK /\ pc = "enable" /\ UNCHANGED <<meta, ruleIds, held>>
      /\ op.ent \in Entries
  BY DEF HandleInv, post_ipv4_dma_cmd, TypeOK, OpType
<1>2. CASE Poke(c) /\ pc' = "make_hdl" /\ UNCHANGED <<op, fails>>
  <2>1. c \in CmdType
    BY <1>1 DEF Cmd, CmdType
  <2>2. TypeOK'
    <3>1. /\ tbl' \in [Entries -> RuleType]
          /\ indx' \in [Entries -> [ent : Entries, next : Entries]]
      BY <1>1, <1>2, <2>1, PokeType
    <3> QED BY <1>1, <1>2, <3>1 DEF TypeOK
  <2>3. tbl' = [tbl EXCEPT ![op.ent].enable = (1 = 1)]
    BY <1>2 DEF Poke, Cmd
  <2>4. /\ \A e \in Entries : e # op.ent => tbl'[e] = tbl[e]
        /\ tbl'[op.ent].flow = tbl[op.ent].flow
        /\ tbl'[op.ent].dead = tbl[op.ent].dead
        /\ tbl'[op.ent].enable
    <3>1. tbl[op.ent] \in RuleType /\ tbl \in [Entries -> RuleType]
      BY <1>1 DEF TypeOK
    <3>2. tbl'[op.ent] = [tbl[op.ent] EXCEPT !.enable = (1 = 1)]
      BY <1>1, <2>3, <3>1, Zenon
    <3>3. \A e \in Entries : e # op.ent => tbl'[e] = tbl[e]
      BY <1>1, <2>3, <3>1, Zenon
    <3> QED BY <3>1, <3>2, <3>3 DEF RuleType
  <2>5. OpAgrees'
    BY <1>1, <1>2, <2>4 DEF HandleInv, OpAgrees, AddSteps
  <2>6. SlotsNameLiveEntries'
    BY <1>1, <1>2, <2>4 DEF HandleInv, SlotsNameLiveEntries, AddSteps
  <2>7. SlotsAreDistinct'
    BY <1>1 DEF HandleInv, SlotsAreDistinct
  <2>8. HeldAgree'
    <3> SUFFICES ASSUME NEW g \in Flows, held[g] # 0 PROVE tbl'[NamedEntry(g)].flow = g
      BY <1>1 DEF HandleInv, HeldAgree, NamedEntry
    <3>1. held[g] \in Handles /\ ruleIds[held[g]] # 0 /\ tbl[NamedEntry(g)].flow = g
      BY <1>1 DEF HandleInv, HeldAgree, TypeOK
    <3>2. NamedEntry(g) \in Entries
      BY <3>1 DEF HandleInv, SlotsNameLiveEntries, NamedEntry
    <3> QED BY <2>4, <3>1, <3>2
  <2> QED BY <2>2, <2>5, <2>6, <2>7, <2>8 DEF HandleInv
<1>3. CASE DmaFails /\ pc' = "idle" /\ op' = NoOp /\ UNCHANGED <<tbl, indx>>
  <2>1. 0 \in Entries
    BY SizesAssumption DEF Entries
  <2>2. op'.kind = "none" /\ op' \in OpType
    BY <1>3, <2>1 DEF NoOp, OpType, Positions
  <2>3. fails' \in 0 .. MaxFail
    BY <1>1, <1>3, FailAssumption DEF TypeOK, DmaFails
  <2>4. TypeOK'
    BY <1>1, <1>3, <2>2, <2>3 DEF TypeOK
  <2> QED BY <1>1, <1>3, <2>2, <2>4 DEF HandleInv, OpAgrees, SlotsNameLiveEntries,
                SlotsAreDistinct, HeldAgree, NamedEntry, AddSteps
<1> QED BY <1>2, <1>3 DEF post_ipv4_dma_cmd

\* A new handle names the entry just put in force, in a slot below the last.
LEMMA MakeHandleStep ==
  ASSUME HandleInv, make_rule_hdl
  PROVE  HandleInv'
<1> DEFINE S == {i \in Handles : ruleIds[i] = 0}
           h == FirstFree(S)
<1>1. /\ TypeOK /\ pc = "make_hdl" /\ pc' = "idle" /\ op' = NoOp
      /\ UNCHANGED <<tbl, indx, meta, fails>>
  BY DEF HandleInv, make_rule_hdl
<1>2. /\ op.ent \in Entries \ {0, TableEntries} /\ op.flow \in Flows
      /\ tbl[op.ent].enable /\ ~tbl[op.ent].dead /\ tbl[op.ent].flow = op.flow
  BY <1>1 DEF HandleInv, OpAgrees, AddSteps, TypeOK, OpType
<1>3. h \in S /\ h < TableEntries + ExpnEntries
  <2>1. S \in SUBSET Nat
    BY DEF Handles
  <2>2. PICK k \in S : k < TableEntries + ExpnEntries
    BY FreeSlotExists DEF HandleInv
  <2>3. h \in S /\ h <= k
    BY <2>1, <2>2, FirstFreeIsLeast
  <2> QED BY <2>1, <2>2, <2>3, SizesAssumption
<1>4. h \in Handles /\ ruleIds[h] = 0 /\ h # 0
  BY <1>3 DEF Handles
<1> HIDE DEF S, h
<1>5. /\ ruleIds' = [ruleIds EXCEPT ![h] = RuleId(op.ent)]
      /\ held' = [held EXCEPT ![op.flow] = h]
  BY <1>4 DEF make_rule_hdl, h, S
<1>6. /\ EntryOf(RuleId(op.ent)) = op.ent /\ RuleId(op.ent) # 0
      /\ RuleId(op.ent) \in 0 .. 2 * (TableEntries + ExpnEntries)
  BY <1>2, RuleIdExact
<1>7. op'.kind = "none" /\ op' \in OpType
  <2>1. 0 \in Entries
    BY SizesAssumption DEF Entries
  <2> QED BY <1>1, <2>1 DEF NoOp, OpType, Positions
<1>8. TypeOK'
  BY <1>1, <1>2, <1>4, <1>5, <1>6, <1>7 DEF TypeOK
<1>9. /\ ruleIds'[h] = RuleId(op.ent)
      /\ \A k \in Handles : k # h => ruleIds'[k] = ruleIds[k]
  BY <1>1, <1>4, <1>5 DEF TypeOK
<1>10. OpAgrees'
  BY <1>1, <1>7 DEF OpAgrees, AddSteps
<1>11. SlotsNameLiveEntries'
  BY <1>1, <1>2, <1>6, <1>9 DEF HandleInv, SlotsNameLiveEntries, AddSteps
<1>12. SlotsAreDistinct'
  BY <1>1, <1>6, <1>9 DEF HandleInv, SlotsNameLiveEntries, SlotsAreDistinct, AddSteps
<1>13. HeldAgree'
  <2> SUFFICES ASSUME NEW g \in Flows, held'[g] # 0
               PROVE  /\ held'[g] < TableEntries + ExpnEntries
                      /\ ruleIds'[held'[g]] # 0
                      /\ tbl'[EntryOf(ruleIds'[held'[g]])].flow = g
    BY DEF HeldAgree, NamedEntry
  <2>1. CASE g = op.flow
    <3>1. held'[g] = h
      BY <1>1, <1>2, <1>5, <2>1 DEF TypeOK
    <3> QED BY <1>1, <1>2, <1>3, <1>6, <1>9, <2>1, <3>1
  <2>2. CASE g # op.flow
    <3>1. held'[g] = held[g]
      BY <1>1, <1>5, <2>2 DEF TypeOK
    <3>2. held[g] \in Handles /\ ruleIds[held[g]] # 0 /\ held[g] < TableEntries + ExpnEntries
          /\ tbl[EntryOf(ruleIds[held[g]])].flow = g
      BY <1>1, <3>1 DEF HandleInv, HeldAgree, TypeOK, NamedEntry
    <3> QED BY <1>1, <1>4, <1>9, <3>1, <3>2
  <2> QED BY <2>1, <2>2
<1> QED BY <1>8, <1>10, <1>11, <1>12, <1>13 DEF HandleInv

\* What a held handle names, as the steps of a deletion use it.
LEMMA HeldFacts ==
  ASSUME HandleInv, NEW f \in Flows, held[f] # 0
  PROVE  /\ held[f] \in Handles /\ held[f] < TableEntries + ExpnEntries
         /\ ruleIds[held[f]] # 0
         /\ NamedEntry(f) \in Entries \ {0, TableEntries}
         /\ tbl[NamedEntry(f)].flow = f
         /\ parse_ipv4_rule_hdl(held[f]) = NamedEntry(f)
         /\ Established(f) => tbl[NamedEntry(f)].enable /\ ~tbl[NamedEntry(f)].dead
<1>1. /\ held[f] \in Handles /\ held[f] < TableEntries + ExpnEntries
      /\ ruleIds[held[f]] # 0 /\ tbl[NamedEntry(f)].flow = f
  BY DEF HandleInv, HeldAgree, TypeOK
<1>2. /\ NamedEntry(f) \in Entries \ {0, TableEntries}
      /\ (pc = "dma" /\ NamedEntry(f) = op.ent)
         \/ (tbl[NamedEntry(f)].enable /\ ~tbl[NamedEntry(f)].dead)
  BY <1>1 DEF HandleInv, SlotsNameLiveEntries, NamedEntry
<1>3. pc = "dma" /\ NamedEntry(f) = op.ent => op.kind = "del" /\ op.flow = f
  BY <1>1 DEF HandleInv, OpAgrees, HeldAgree
<1>4. parse_ipv4_rule_hdl(held[f]) = NamedEntry(f)
  BY <1>1 DEF parse_ipv4_rule_hdl, NamedEntry
<1> QED BY <1>1, <1>2, <1>3, <1>4 DEF Established

LEMMA PostDeleteStep ==
  ASSUME HandleInv, NEW f \in Flows, post_del_dma_cmd(f)
  PROVE  HandleInv'
<1> DEFINE e == parse_ipv4_rule_hdl(held[f])
           x == tbl[e].indx
           cs == ReorderCmds(RuleCmds(e), IndexCmds(x))
<1>1. /\ TypeOK /\ pc = "idle" /\ held[f] # 0 /\ op.kind = "none"
      /\ UNCHANGED <<tbl, indx, meta, ruleIds>>
  BY DEF HandleInv, OpAgrees, post_del_dma_cmd
<1>2. e = NamedEntry(f) /\ e \in Entries \ {0, TableEntries}
  BY <1>1, HeldFacts
<1>3. x \in Entries
  BY <1>1, <1>2 DEF TypeOK, RuleType
<1>4. /\ cs \in Seq(CmdType)
      /\ \A i \in DOMAIN cs : cs[i].fld \in {"enable", "proto"} => cs[i].at = e
  BY <1>1, <1>2, <1>3, DeleteCommands
<1>5. /\ rule_pos(tbl, e) \in Positions /\ rule_pos(indx, x) \in Positions
      /\ indx[x].next \in Entries /\ 0 \in Entries
  <2>1. rule_pos(tbl, e) \in Positions /\ rule_pos(indx, x) \in Positions
    BY Zenon DEF rule_pos, Positions
  <2>2. 0 \in Entries
    BY SizesAssumption DEF Entries
  <2>3. indx[x].next \in Entries
    BY <1>1, <1>3 DEF TypeOK
  <2> QED BY <2>1, <2>2, <2>3
<1>6. CASE /\ op' = [NoOp EXCEPT !.kind = "del", !.flow = f, !.ent = e, !.indx = x,
                            !.inext = indx[x].next, !.pos = rule_pos(tbl, e),
                            !.ipos = rule_pos(indx, x), !.cmds = cs]
           /\ pc' = "dma"
           /\ UNCHANGED <<held, fails>>
  <2> HIDE DEF e, x, cs
  <2>1. op' = [kind |-> "del", flow |-> f, ent |-> e, prev |-> 0, indx |-> x, iprev |-> 0,
               inext |-> indx[x].next, pos |-> rule_pos(tbl, e),
               ipos |-> rule_pos(indx, x), cmds |-> cs]
    BY <1>6 DEF NoOp
  <2>2. op' \in OpType
    BY <1>2, <1>3, <1>4, <1>5, <2>1 DEF OpType
  <2>3. TypeOK'
    BY <1>1, <1>6, <2>2 DEF TypeOK
  <2>4. OpAgrees'
    BY <1>1, <1>2, <1>4, <1>6, <2>1 DEF OpAgrees, AddSteps, NamedEntry
  <2> QED BY <1>1, <1>6, <2>3, <2>4 DEF HandleInv, SlotsNameLiveEntries, SlotsAreDistinct,
                HeldAgree, NamedEntry, AddSteps
<1>7. CASE /\ DmaFails
           /\ held' \in {held, [held EXCEPT ![f] = 0]}
           /\ UNCHANGED <<op, pc>>
  <2>1. fails' \in 0 .. MaxFail
    BY <1>1, <1>7, FailAssumption DEF TypeOK, DmaFails
  <2>2. TypeOK'
    BY <1>1, <1>7, <2>1 DEF TypeOK
  <2>3. \A g \in Flows : held'[g] # 0 => held'[g] = held[g]
    BY <1>1, <1>7 DEF TypeOK
  <2>4. HeldAgree'
    BY <1>1, <2>3 DEF HandleInv, HeldAgree, NamedEntry
  <2> QED BY <1>1, <1>7, <2>2, <2>4 DEF HandleInv, OpAgrees, SlotsNameLiveEntries,
                SlotsAreDistinct, AddSteps
<1> QED BY <1>6, <1>7 DEF post_del_dma_cmd

\* A command of a deletion changes what is in force in the deleted entry only.
LEMMA DmaStep ==
  ASSUME HandleInv, dma_step
  PROVE  HandleInv'
<1> DEFINE c == Head(op.cmds)
<1>1. /\ TypeOK /\ pc = "dma" /\ Poke(c) /\ op.cmds # <<>>
      /\ op' = [op EXCEPT !.cmds = Tail(@)]
      /\ UNCHANGED <<meta, ruleIds, held, pc, fails>>
  BY DEF HandleInv, dma_step
<1>2. /\ op \in OpType /\ op.flow \in Flows /\ held[op.flow] # 0 /\ op.kind = "del"
      /\ op.ent = NamedEntry(op.flow)
      /\ \A i \in DOMAIN op.cmds : op.cmds[i].fld \in {"enable", "proto"} => op.cmds[i].at = op.ent
  BY <1>1 DEF HandleInv, OpAgrees, TypeOK
<1>3. op.cmds \in Seq(CmdType)
  BY <1>2 DEF OpType
<1>4. /\ c \in CmdType
      /\ c.fld \in {"enable", "proto"} => c.at = op.ent
      /\ Tail(op.cmds) \in Seq(CmdType)
      /\ \A i \in DOMAIN Tail(op.cmds) :
           i + 1 \in DOMAIN op.cmds /\ Tail(op.cmds)[i] = op.cmds[i + 1]
  BY <1>1, <1>2, <1>3
<1> HIDE DEF c
<1>5. /\ op'.kind = "del" /\ op'.flow = op.flow /\ op'.ent = op.ent
      /\ op'.cmds = Tail(op.cmds) /\ op' \in OpType
  BY <1>1, <1>2, <1>4 DEF OpType
<1>6. TypeOK'
  <2>1. /\ tbl' \in [Entries -> RuleType]
        /\ indx' \in [Entries -> [ent : Entries, next : Entries]]
    BY <1>1, <1>4, PokeType
  <2> QED BY <1>1, <1>5, <2>1 DEF TypeOK
<1>7. \A e \in Entries : /\ tbl'[e].flow = tbl[e].flow
                         /\ e # op.ent => tbl'[e].enable = tbl[e].enable /\ tbl'[e].dead = tbl[e].dead
  <2>1. CASE c.tab = "rule"
    <3>1. c.at \in Entries
      BY <1>4, <2>1 DEF CmdType
    <3>2. tbl \in [Entries -> RuleType] /\ tbl[c.at] \in RuleType
      BY <1>1, <3>1 DEF TypeOK
    <3>3. CASE c.fld = "next" /\ tbl' = [tbl EXCEPT ![c.at].next = c.val]
      <4>1. tbl'[c.at].flow = tbl[c.at].flow /\ tbl'[c.at].enable = tbl[c.at].enable
            /\ tbl'[c.at].dead = tbl[c.at].dead
        BY <3>1, <3>2, <3>3 DEF RuleType
      <4>2. \A e \in Entries : e # c.at => tbl'[e] = tbl[e]
        BY <3>1, <3>2, <3>3, Zenon
      <4> QED BY <4>1, <4>2
    <3>4. CASE c.fld = "enable" /\ tbl' = [tbl EXCEPT ![c.at].enable = (c.val = 1)]
      <4>1. tbl'[c.at] = [tbl[c.at] EXCEPT !.enable = (c.val = 1)]
        BY <3>1, <3>2, <3>4, Zenon
      <4>2. tbl'[c.at].flow = tbl[c.at].flow
        BY <3>2, <4>1 DEF RuleType
      <4>3. \A e \in Entries : e # c.at => tbl'[e] = tbl[e]
        BY <3>1, <3>2, <3>4, Zenon
      <4>4. c.at = op.ent
        BY <1>4, <3>4
      <4> QED BY <4>2, <4>3, <4>4
    <3>5. CASE c.fld = "proto" /\ tbl' = [tbl EXCEPT ![c.at].dead = TRUE]
      <4>1. tbl'[c.at].flow = tbl[c.at].flow
        BY <3>1, <3>2, <3>5 DEF RuleType
      <4>2. \A e \in Entries : e # c.at => tbl'[e] = tbl[e]
        BY <3>1, <3>2, <3>5, Zenon
      <4>3. c.at = op.ent
        BY <1>4, <3>5
      <4> QED BY <4>1, <4>2, <4>3
    <3> QED BY <1>1, <2>1, <3>3, <3>4, <3>5 DEF Poke
  <2>2. CASE c.tab = "indx"
    BY <1>1, <2>2 DEF Poke
  <2> QED BY <1>1, <2>1, <2>2 DEF Poke
<1>8. OpAgrees'
  BY <1>1, <1>2, <1>4, <1>5 DEF OpAgrees, AddSteps, NamedEntry
<1>9. SlotsNameLiveEntries'
  BY <1>1, <1>5, <1>7 DEF HandleInv, SlotsNameLiveEntries, AddSteps
<1>10. SlotsAreDistinct'
  BY <1>1 DEF HandleInv, SlotsAreDistinct
<1>11. HeldAgree'
  <2> SUFFICES ASSUME NEW g \in Flows, held[g] # 0 PROVE tbl'[NamedEntry(g)].flow = g
    BY <1>1 DEF HandleInv, HeldAgree, NamedEntry
  <2> QED BY <1>7, HeldFacts
<1> QED BY <1>6, <1>8, <1>9, <1>10, <1>11 DEF HandleInv

\* The driver's own writes at the end of a deletion: for every other entry only
\* its back links change, and a dead head that is reset is named by no slot.
LEMMA UpdatedRulesFields ==
  ASSUME TypeOK
  PROVE  /\ UpdatedRules \in [Entries -> RuleType]
         /\ \A e \in Entries : e # op.ent =>
              /\ UpdatedRules[e].flow = tbl[e].flow
              /\ UpdatedRules[e].enable = tbl[e].enable
              /\ UpdatedRules[e].dead = tbl[e].dead
<1> DEFINE d == op.ent
           n == tbl[d].next
           t1 == IF op.pos = "middle" THEN [tbl EXCEPT ![n].prev = tbl[d].prev] ELSE tbl
           t2 == IF op.pos # "head" THEN [t1 EXCEPT ![d] = NoRule] ELSE t1
           m == indx[op.indx].ent
           Same(t) == \A e \in Entries : e # d =>
                        /\ t[e].flow = tbl[e].flow
                        /\ t[e].enable = tbl[e].enable
                        /\ t[e].dead = tbl[e].dead
<1>1. /\ tbl \in [Entries -> RuleType] /\ d \in Entries /\ op.indx \in Entries
      /\ m \in Entries /\ 0 \in Entries
  <2>1. 0 \in Entries
    BY SizesAssumption DEF Entries
  <2>2. op \in OpType /\ tbl \in [Entries -> RuleType]
        /\ indx \in [Entries -> [ent : Entries, next : Entries]]
    BY DEF TypeOK
  <2>3. op.ent \in Entries /\ op.indx \in Entries
    BY <2>2 DEF OpType
  <2> QED BY <2>1, <2>2, <2>3
<1>2. n \in Entries /\ tbl[d].prev \in Entries
  BY <1>1 DEF RuleType
<1>3. NoRule \in RuleType
  BY <1>1 DEF NoRule, RuleType
<1>4. t1 \in [Entries -> RuleType] /\ Same(t1)
  <2>1. CASE op.pos = "middle"
    <3>1. t1 = [tbl EXCEPT ![n].prev = tbl[d].prev]
      BY <2>1
    <3> HIDE DEF t1
    <3> QED BY <1>1, <1>2, <3>1 DEF RuleType
  <2>2. CASE op.pos # "middle"
    BY <1>1, <2>2
  <2> QED BY <2>1, <2>2
<1> HIDE DEF t1
<1>5. t2 \in [Entries -> RuleType] /\ Same(t2)
  <2>1. CASE op.pos # "head"
    <3>1. t2 = [t1 EXCEPT ![d] = NoRule]
      BY <2>1
    <3> HIDE DEF t2
    <3>2. t2 \in [Entries -> RuleType] /\ \A e \in Entries : e # d => t2[e] = t1[e]
      BY <1>1, <1>3, <1>4, <3>1
    <3> QED BY <1>4, <3>2
  <2>2. CASE op.pos = "head"
    BY <1>4, <2>2
  <2> QED BY <2>1, <2>2
<1>6. UpdatedRules = IF op.ipos = "head" THEN [t2 EXCEPT ![m].indx = op.indx] ELSE t2
  BY Zenon DEF UpdatedRules, t1
<1> HIDE DEF t2
<1>7. CASE op.ipos = "head"
  <2>1. UpdatedRules = [t2 EXCEPT ![m].indx = op.indx]
    BY <1>6, <1>7
  <2>2. UpdatedRules \in [Entries -> RuleType]
    BY <1>1, <1>5, <2>1 DEF RuleType
  <2>3. \A e \in Entries : /\ UpdatedRules[e].flow = t2[e].flow
                           /\ UpdatedRules[e].enable = t2[e].enable
                           /\ UpdatedRules[e].dead = t2[e].dead
    BY <1>1, <1>5, <2>1 DEF RuleType
  <2> QED BY <1>5, <2>2, <2>3
<1>8. CASE op.ipos # "head"
  BY <1>5, <1>6, <1>8
<1> QED BY <1>7, <1>8

LEMMA FinishStep ==
  ASSUME HandleInv, del_ipv4_rule_finish
  PROVE  HandleInv'
<1> DEFINE k == held[op.flow]
<1>1. /\ TypeOK /\ pc = "dma" /\ pc' = "idle" /\ op' = NoOp
      /\ tbl' = del_dead_ipv4_head_nodes(UpdatedRules)
      /\ indx' = [indx EXCEPT ![IF op.ipos = "head" THEN op.inext ELSE op.indx] = NoIndx]
      /\ meta' = UpdatedMeta
      /\ ruleIds' = [ruleIds EXCEPT ![k] = 0]
      /\ held' = [held EXCEPT ![op.flow] = 0]
      /\ fails' = fails
  BY DEF HandleInv, del_ipv4_rule_finish
<1>2. /\ op \in OpType /\ op.flow \in Flows /\ k # 0 /\ op.ent = EntryOf(ruleIds[k])
      /\ k \in Handles /\ ruleIds[k] # 0
  BY <1>1, HeldFacts DEF HandleInv, OpAgrees, TypeOK, NamedEntry
<1>3. 0 \in Entries /\ NoRule \in RuleType /\ NoIndx \in [ent : Entries, next : Entries]
  <2>1. 0 \in Entries
    BY SizesAssumption DEF Entries
  <2> QED BY <2>1 DEF NoRule, RuleType, NoIndx
<1>4. UpdatedRules \in [Entries -> RuleType]
  BY <1>1, UpdatedRulesFields
<1>5. /\ tbl' \in [Entries -> RuleType]
      /\ \A e \in Entries : e # op.ent /\ ~tbl[e].dead =>
           /\ tbl'[e].flow = tbl[e].flow
           /\ tbl'[e].enable = tbl[e].enable
           /\ tbl'[e].dead = tbl[e].dead
  <2>1. tbl' = [i \in Entries |-> IF i \in BaseEntries /\ UpdatedRules[i].dead
                                     /\ UpdatedRules[i].next = 0
                                  THEN NoRule ELSE UpdatedRules[i]]
    BY <1>1 DEF del_dead_ipv4_head_nodes
  <2>2. \A e \in Entries : e # op.ent =>
              /\ UpdatedRules[e].flow = tbl[e].flow
              /\ UpdatedRules[e].enable = tbl[e].enable
              /\ UpdatedRules[e].dead = tbl[e].dead
    BY <1>1, UpdatedRulesFields
  <2>3. tbl' \in [Entries -> RuleType]
    BY <1>3, <1>4, <2>1
  <2>4. ASSUME NEW e \in Entries, e # op.ent, ~tbl[e].dead
        PROVE  tbl'[e] = UpdatedRules[e]
    BY <2>1, <2>2, <2>4
  <2> QED BY <2>2, <2>3, <2>4
<1>6. op'.kind = "none" /\ op' \in OpType
  BY <1>1, <1>3 DEF NoOp, OpType, Positions
<1>7. meta' \in [Entries -> Entries]
  <2>1. /\ op.indx \in Entries /\ op.inext \in Entries /\ meta[op.indx] \in Entries
        /\ indx[op.inext].next \in Entries /\ meta \in [Entries -> Entries]
    BY <1>1, <1>2 DEF OpType, TypeOK
  <2> QED BY <1>1, <1>3, <2>1 DEF UpdatedMeta
<1>8. TypeOK'
  <2>1. (IF op.ipos = "head" THEN op.inext ELSE op.indx) \in Entries
    BY <1>2 DEF OpType
  <2>2. indx' \in [Entries -> [ent : Entries, next : Entries]]
    BY <1>1, <1>3, <2>1 DEF TypeOK
  <2>3. 0 \in 0 .. 2 * (TableEntries + ExpnEntries)
    BY SizesAssumption
  <2>4. ruleIds' \in [Handles -> 0 .. 2 * (TableEntries + ExpnEntries)]
        /\ held' \in [Flows -> Handles \cup {0}]
    BY <1>1, <1>2, <2>3 DEF TypeOK
  <2> QED BY <1>1, <1>5, <1>6, <1>7, <2>2, <2>4 DEF TypeOK
<1>9. /\ ruleIds'[k] = 0
      /\ \A h \in Handles : h # k => ruleIds'[h] = ruleIds[h]
  BY <1>1, <1>2 DEF TypeOK
<1> HIDE DEF k
<1>10. \A h \in Handles : ruleIds'[h] # 0 =>
         /\ ruleIds'[h] = ruleIds[h]
         /\ EntryOf(ruleIds[h]) \in Entries \ {0, TableEntries}
         /\ EntryOf(ruleIds[h]) # op.ent
         /\ tbl[EntryOf(ruleIds[h])].enable /\ ~tbl[EntryOf(ruleIds[h])].dead
  BY <1>1, <1>2, <1>9 DEF HandleInv, SlotsNameLiveEntries, SlotsAreDistinct
<1>11. OpAgrees'
  BY <1>1, <1>6 DEF OpAgrees, AddSteps
<1>12. SlotsNameLiveEntries'
  BY <1>1, <1>5, <1>10 DEF SlotsNameLiveEntries, AddSteps
<1>13. SlotsAreDistinct'
  BY <1>10 DEF HandleInv, SlotsAreDistinct
<1>14. HeldAgree'
  <2> SUFFICES ASSUME NEW g \in Flows, held'[g] # 0
               PROVE  /\ held'[g] < TableEntries + ExpnEntries
                      /\ ruleIds'[held'[g]] # 0
                      /\ tbl'[EntryOf(ruleIds'[held'[g]])].flow = g
    BY DEF HeldAgree, NamedEntry
  <2>1. g # op.flow /\ held'[g] = held[g]
    BY <1>1, <1>2 DEF TypeOK
  <2>2. /\ held[g] \in Handles /\ held[g] < TableEntries + ExpnEntries
        /\ ruleIds[held[g]] # 0 /\ tbl[EntryOf(ruleIds[held[g]])].flow = g
    BY <2>1, HeldFacts DEF NamedEntry
  <2>3. held[g] # k
    BY <1>2, <2>1, <2>2, HeldFacts DEF NamedEntry, k
  <2>4. ruleIds'[held[g]] = ruleIds[held[g]]
    BY <1>9, <2>2, <2>3
  <2> QED BY <1>5, <1>10, <2>1, <2>2, <2>4
<1> QED BY <1>8, <1>11, <1>12, <1>13, <1>14 DEF HandleInv

LEMMA HandleInvStep == HandleInv /\ [Next]_vars => HandleInv'
<1> SUFFICES ASSUME HandleInv, [Next]_vars PROVE HandleInv'
  OBVIOUS
<1>1. ASSUME NEW f \in Flows, generate_rule(f) PROVE HandleInv'
  BY <1>1, GenerateRuleStep
<1>2. ASSUME NEW f \in Flows, generate_rule_spins(f) PROVE HandleInv'
  BY <1>2, SpinsStep
<1>3. ASSUME NEW f \in Flows, post_del_dma_cmd(f) PROVE HandleInv'
  BY <1>3, PostDeleteStep
<1>4. CASE UNCHANGED vars
  BY <1>4 DEF vars, HandleInv, TypeOK, OpAgrees, SlotsNameLiveEntries, SlotsAreDistinct,
              HeldAgree, NamedEntry, AddSteps
<1> QED BY <1>1, <1>2, <1>3, <1>4, CopyRuleStep, CopyIndexStep, WriteNextStep, EnableStep,
           MakeHandleStep, DmaStep, FinishStep DEF Next

-----------------------------------------------------------------------------
(* The theorems *)

\* HandleInv holds in every reachable state, whatever the kernel refuses.
THEOREM HandleInvariant == Spec => []HandleInv
BY InitHandles, HandleInvStep, PTL DEF Spec

\* Links stay inside the tables and handles inside rule_id_array.
THEOREM TypeCorrect == Spec => []TypeOK
<1>1. HandleInv => TypeOK
  BY DEF HandleInv
<1> QED BY <1>1, HandleInvariant, PTL

\* Deleting by a handle removes the rule of the flow that handle was given for.
THEOREM HandlesAreExact == Spec => []HandlesNameTheirRule
<1>1. HandleInv => HandlesNameTheirRule
  BY HeldFacts DEF HandlesNameTheirRule, Matches, Established
<1> QED BY <1>1, HandleInvariant, PTL

-----------------------------------------------------------------------------
(* Chains *)

Usable == Entries \ {0, TableEntries}
Base(i) == i < TableEntries

\* The entries of U are in chains: each chain starts in the base half, at the bucket that is
\* the home of its entries, goes on in the expansion half, and back is its reverse.
Chained(U, next, back, home) ==
  /\ U \subseteq Usable
  /\ \A i \in U : next[i] # 0 => /\ next[i] \in U /\ ~Base(next[i])
                                 /\ back[next[i]] = i /\ home[next[i]] = home[i]
  /\ \A i \in U : ~Base(i) => back[i] \in U /\ next[back[i]] = i
  /\ \A i \in U : Base(i) => home[i] = i

\* Following next one meets larger and larger ranks.
RankedBy(r, next) ==
  r \in [Entries -> Nat] /\ \A i \in Entries : next[i] # 0 => r[i] < r[next[i]]
Ranked(next) == \E r : RankedBy(r, next)

\* Writes that leave the links and the homes of the entries of a chain.
LEMMA ChainedAlike ==
  ASSUME NEW U, NEW n, NEW b, NEW h, Chained(U, n, b, h), NEW n2, NEW b2, NEW h2,
         \A i \in U : n2[i] = n[i] /\ h2[i] = h[i],
         \A i \in U : ~Base(i) => b2[i] = b[i]
  PROVE  Chained(U, n2, b2, h2)
BY DEF Chained

\* A new entry in an empty bucket.
LEMMA ChainedHead ==
  ASSUME NEW U, NEW n, NEW b, NEW h, Chained(U, n, b, h), NEW n2, NEW b2, NEW h2,
         NEW e \in Usable \ U, Base(e), n2[e] = 0, h2[e] = e,
         \A i \in U : n2[i] = n[i] /\ h2[i] = h[i] /\ b2[i] = b[i]
  PROVE  Chained(U \cup {e}, n2, b2, h2)
BY DEF Chained

\* A new entry behind the last one of a chain.
LEMMA ChainedLink ==
  ASSUME NEW U, NEW n, NEW b, NEW h, Chained(U, n, b, h), NEW n2, NEW b2, NEW h2,
         NEW e \in Usable \ U, ~Base(e), n2[e] = 0,
         NEW p \in U, n[p] = 0, n2[p] = e, b2[e] = p, h2[e] = h[p],
         \A i \in U : h2[i] = h[i] /\ b2[i] = b[i],
         \A i \in U : i # p => n2[i] = n[i]
  PROVE  Chained(U \cup {e}, n2, b2, h2)
<1> DEFINE V == U \cup {e}
<1>0. e # 0 /\ U \subseteq Usable
  BY DEF Usable, Chained
<1>1. ASSUME NEW i \in V, n2[i] # 0
      PROVE  n2[i] \in V /\ ~Base(n2[i]) /\ b2[n2[i]] = i /\ h2[n2[i]] = h2[i]
  <2>1. i \in U
    BY <1>1
  <2>2. CASE i = p
    BY <2>2
  <2>3. CASE i # p
    <3>1. n2[i] = n[i] /\ n[i] \in U /\ ~Base(n[i]) /\ b[n[i]] = i /\ h[n[i]] = h[i]
      BY <1>1, <2>1, <2>3 DEF Chained
    <3> QED BY <2>1, <3>1
  <2> QED BY <2>2, <2>3
<1>2. ASSUME NEW i \in V, ~Base(i)
      PROVE  b2[i] \in V /\ n2[b2[i]] = i
  <2>1. CASE i = e
    BY <2>1
  <2>2. CASE i \in U
    <3>1. b2[i] = b[i] /\ b[i] \in U /\ n[b[i]] = i
      BY <1>2, <2>2 DEF Chained
    <3>2. i # 0 /\ b[i] # p
      BY <1>0, <2>2, <3>1 DEF Usable
    <3> QED BY <3>1, <3>2
  <2> QED BY <2>1, <2>2
<1>3. ASSUME NEW i \in V, Base(i) PROVE h2[i] = i
  BY <1>3 DEF Chained
<1>4. V \subseteq Usable
  BY <1>0
<1> QED BY <1>1, <1>2, <1>3, <1>4 DEF Chained

\* An entry of the expansion half is bypassed.
Bypassed(U, n, b, h, n2, b2, h2, e) ==
  /\ e \in U /\ ~Base(e) /\ n[e] # e /\ n2[b[e]] = n[e]
  /\ n[e] # 0 => b2[n[e]] = b[e]
  /\ \A i \in U \ {e} : h2[i] = h[i] /\ (i # b[e] => n2[i] = n[i])
  /\ \A i \in U \ {e} : i # n[e] /\ ~Base(i) => b2[i] = b[i]
LEMMA ChainedBypass ==
  ASSUME NEW U, NEW n, NEW b, NEW h, Chained(U, n, b, h), NEW n2, NEW b2, NEW h2, NEW e,
         Bypassed(U, n, b, h, n2, b2, h2, e)
  PROVE  Chained(U \ {e}, n2, b2, h2)
<1> USE DEF Bypassed
<1> DEFINE V == U \ {e}
<1>0. U \subseteq Usable /\ b[e] \in U /\ n[b[e]] = e /\ e # 0
  BY DEF Usable, Chained
<1>1. b[e] # e
  BY <1>0
<1>2. ASSUME NEW i \in V, n2[i] # 0
      PROVE  n2[i] \in V /\ ~Base(n2[i]) /\ b2[n2[i]] = i /\ h2[n2[i]] = h2[i]
  <2>1. CASE i = b[e]
    <3>1. n2[i] = n[e] /\ n[e] \in U /\ ~Base(n[e]) /\ h[n[e]] = h[e]
      BY <1>2, <2>1 DEF Chained
    <3>2. h[e] = h[i]
      BY <1>0, <2>1 DEF Chained
    <3>3. n[e] \in V /\ b2[n[e]] = i
      BY <1>2, <2>1, <3>1
    <3> QED BY <3>1, <3>2, <3>3
  <2>2. CASE i # b[e]
    <3>1. n2[i] = n[i] /\ n[i] \in U /\ ~Base(n[i]) /\ b[n[i]] = i /\ h[n[i]] = h[i]
      BY <1>2, <2>2 DEF Chained
    <3>2. n[i] # e
      BY <2>2, <3>1
    <3>3. n[i] # n[e]
      BY <1>2, <3>1 DEF Chained
    <3>4. b2[n[i]] = i
      BY <3>1, <3>2, <3>3
    <3> QED BY <3>1, <3>2, <3>4
  <2> QED BY <2>1, <2>2
<1>3. ASSUME NEW i \in V, ~Base(i)
      PROVE  b2[i] \in V /\ n2[b2[i]] = i
  <2>1. b[i] \in U /\ n[b[i]] = i /\ i # 0
    BY <1>0, <1>3 DEF Chained, Usable
  <2>2. CASE i = n[e]
    BY <1>0, <1>1, <2>1, <2>2
  <2>3. CASE i # n[e]
    <3>1. b2[i] = b[i] /\ b[i] # e
      BY <1>3, <2>1, <2>3
    <3>2. b[i] # b[e]
      BY <1>0, <1>3, <2>1
    <3> QED BY <2>1, <3>1, <3>2
  <2> QED BY <2>2, <2>3
<1>4. ASSUME NEW i \in V, Base(i) PROVE h2[i] = i
  BY <1>4 DEF Chained
<1>5. V \subseteq Usable
  BY <1>0
<1> QED BY <1>2, <1>3, <1>4, <1>5 DEF Chained

\* Base entries that nothing hangs from go.
Cleared(U, n, b, h, n2, b2, h2, D) ==
  /\ D \in SUBSET U /\ \A i \in D : Base(i) /\ n[i] = 0
  /\ \A i \in U \ D : n2[i] = n[i] /\ h2[i] = h[i]
  /\ \A i \in U \ D : ~Base(i) => b2[i] = b[i]
LEMMA ChainedLess ==
  ASSUME NEW U, NEW n, NEW b, NEW h, Chained(U, n, b, h), NEW n2, NEW b2, NEW h2, NEW D,
         Cleared(U, n, b, h, n2, b2, h2, D)
  PROVE  Chained(U \ D, n2, b2, h2)
<1> USE DEF Cleared
<1> DEFINE V == U \ D
<1>1. ASSUME NEW i \in V, n2[i] # 0
      PROVE  n2[i] \in V /\ ~Base(n2[i]) /\ b2[n2[i]] = i /\ h2[n2[i]] = h2[i]
  <2>1. n2[i] = n[i] /\ n[i] \in U /\ ~Base(n[i]) /\ b[n[i]] = i /\ h[n[i]] = h[i]
    BY <1>1 DEF Chained
  <2>2. n[i] \in V
    BY <2>1
  <2> QED BY <2>1, <2>2
<1>2. ASSUME NEW i \in V, ~Base(i) PROVE b2[i] \in V /\ n2[b2[i]] = i
  <2>1. b2[i] = b[i] /\ b[i] \in U /\ n[b[i]] = i /\ i # 0
    BY <1>2 DEF Chained, Usable
  <2>2. b[i] \in V
    BY <2>1
  <2> QED BY <2>1, <2>2
<1>3. V \subseteq Usable /\ \A i \in V : Base(i) => h2[i] = i
  BY DEF Chained
<1> QED BY <1>1, <1>2, <1>3 DEF Chained

\* Links that are kept, cleared or led past an entry keep the ranks.
LEMMA RankedKept ==
  ASSUME NEW n \in [Entries -> Entries], NEW n2, Ranked(n),
         \A i \in Entries : n2[i] # 0 => \/ n2[i] = n[i]
                                         \/ n[i] # 0 /\ n2[i] = n[n[i]]
  PROVE  Ranked(n2)
<1>1. PICK r : RankedBy(r, n)
  BY DEF Ranked
<1>2. ASSUME NEW i \in Entries, n2[i] # 0 PROVE r[i] < r[n2[i]]
  <2>1. CASE n2[i] = n[i]
    BY <1>1, <1>2, <2>1 DEF RankedBy
  <2>2. CASE n[i] # 0 /\ n2[i] = n[n[i]]
    <3>1. n[i] \in Entries /\ n[n[i]] \in Entries
      OBVIOUS
    <3>2. r[i] < r[n[i]] /\ r[n[i]] < r[n[n[i]]]
      BY <1>1, <1>2, <2>2, <3>1 DEF RankedBy
    <3>3. r[i] \in Nat /\ r[n[i]] \in Nat /\ r[n[n[i]]] \in Nat
      BY <1>1, <3>1 DEF RankedBy
    <3> QED BY <2>2, <3>2, <3>3
  <2> QED BY <1>2, <2>1, <2>2
<1>3. RankedBy(r, n2)
  BY <1>1, <1>2 DEF RankedBy
<1> QED BY <1>3 DEF Ranked

\* A last entry may be linked behind any other.
LEMMA RankedLink ==
  ASSUME NEW n \in [Entries -> Entries], NEW n2, Ranked(n),
         NEW p \in Entries, NEW e \in Entries, p # e, n2[p] = e, n2[e] = 0,
         \A i \in Entries : i \notin {p, e} => n2[i] = n[i]
  PROVE  Ranked(n2)
<1>1. PICK r : RankedBy(r, n)
  BY DEF Ranked
<1> DEFINE q == [i \in Entries |-> IF i = e THEN r[e] + r[p] + 1 ELSE r[i]]
<1>2. \A i \in Entries : r[i] \in Nat
  BY <1>1 DEF RankedBy
<1>3. q \in [Entries -> Nat] /\ q[e] = r[e] + r[p] + 1 /\ \A i \in Entries : i # e => q[i] = r[i]
  BY <1>2
<1> HIDE DEF q
<1>4. ASSUME NEW i \in Entries, n2[i] # 0 PROVE q[i] < q[n2[i]]
  <2>1. CASE i = p
    BY <1>2, <1>3, <2>1
  <2>2. CASE i # p
    <3>1. i # e /\ n2[i] = n[i] /\ n[i] \in Entries /\ r[i] < r[n[i]]
      BY <1>1, <1>4, <2>2 DEF RankedBy
    <3>2. CASE n[i] = e
      BY <1>2, <1>3, <3>1, <3>2
    <3>3. CASE n[i] # e
      BY <1>3, <3>1, <3>3
    <3> QED BY <3>2, <3>3
  <2> QED BY <2>1, <2>2
<1>5. RankedBy(q, n2)
  BY <1>3, <1>4 DEF RankedBy
<1> QED BY <1>5 DEF Ranked

-----------------------------------------------------------------------------
(* Walks *)

Last == TableEntries + ExpnEntries - 1

\* Following the next fields of t from i.
Steps(t, i, w) ==
  DOMAIN w = Entries /\ w[0] = i /\ \A n \in Entries : n # 0 => w[n] = t[w[n - 1]].next

\* A set that has 0 and, with a number, the one after it has all entries.
LEMMA AllEntries ==
  ASSUME NEW P \in SUBSET Entries, 0 \in P, \A k \in P : k # Last => k + 1 \in P
  PROVE  P = Entries
<1> SUFFICES ASSUME Entries \ P # {} PROVE FALSE
  OBVIOUS
<1>1. Entries \ P \in SUBSET Nat
  BY SizesAssumption DEF Entries
<1>2. PICK x \in Entries \ P : \A y \in Entries \ P : x <= y
  BY <1>1, LeastExists
<1>3. x - 1 \in Entries /\ x - 1 # Last /\ (x - 1) + 1 = x /\ x - 1 < x
  BY <1>2, SizesAssumption DEF Entries, Last
<1>4. x - 1 \in P
  <2>1. x \in Nat
    BY <1>1, <1>2
  <2>2. ~(x <= x - 1)
    BY <1>3, <2>1
  <2>3. x - 1 \notin Entries \ P
    BY <1>2, <2>2
  <2> QED BY <1>3, <2>3
<1> QED BY <1>2, <1>3, <1>4

\* The function Walk is defined by exists.
LEMMA WalkExists ==
  ASSUME NEW t, NEW i
  PROVE  \E w : Steps(t, i, w) /\ Walk(t, i) = {w[n] : n \in Entries} \cap (Entries \ {0})
<1> DEFINE Upto(k, w) == /\ DOMAIN w = 0 .. k /\ w = [n \in 0 .. k |-> w[n]] /\ w[0] = i
                         /\ \A n \in 0 .. k : n # 0 => w[n] = t[w[n - 1]].next
           P == {k \in Entries : \E w : Upto(k, w)}
           Is(w) == w = [n \in Entries |-> IF n = 0 THEN i ELSE t[w[n - 1]].next]
<1>0. 0 \in Entries /\ Last \in Entries /\ Entries = 0 .. Last /\ Entries \subseteq Nat
  BY SizesAssumption DEF Entries, Last
<1>1. 0 \in P
  <2> DEFINE w == [n \in 0 .. 0 |-> i]
  <2>1. Upto(0, w)
    OBVIOUS
  <2> QED BY <1>0, <2>1
<1>2. ASSUME NEW k \in P, k # Last PROVE k + 1 \in P
  <2>1. PICK w : Upto(k, w)
    BY <1>2
  <2>2. k \in Nat /\ k + 1 \in Entries
    BY <1>0, <1>2
  <2> DEFINE v == [n \in 0 .. k + 1 |-> IF n = k + 1 THEN t[w[k]].next ELSE w[n]]
  <2>3. DOMAIN v = 0 .. k + 1 /\ v = [n \in 0 .. k + 1 |-> v[n]] /\ v[0] = i
    BY <2>1, <2>2
  <2>4. ASSUME NEW n \in 0 .. k + 1, n # 0 PROVE v[n] = t[v[n - 1]].next
    <3>1. CASE n = k + 1
      <4>1. n - 1 = k /\ k \in 0 .. k + 1 /\ k # k + 1
        BY <2>2, <3>1
      <4>2. v[n] = t[w[k]].next /\ v[n - 1] = w[k]
        BY <3>1, <4>1
      <4> QED BY <4>2
    <3>2. CASE n # k + 1
      <4>1. n \in 0 .. k /\ n - 1 \in 0 .. k /\ n - 1 # k + 1
        BY <2>2, <2>4, <3>2
      <4>2. v[n] = w[n] /\ v[n - 1] = w[n - 1]
        BY <2>2, <3>2, <4>1
      <4> QED BY <2>1, <2>4, <4>1, <4>2
    <3> QED BY <3>1, <3>2
  <2> HIDE DEF v
  <2>5. Upto(k + 1, v)
    BY <2>3, <2>4
  <2> QED BY <2>2, <2>5
<1>3. \E w : Is(w)
  <2>1. P = Entries
    <3> HIDE DEF P
    <3>1. P \subseteq Entries
      BY DEF P
    <3> QED BY <1>1, <1>2, <3>1, AllEntries
  <2>2. PICK w : Upto(Last, w)
    BY <1>0, <2>1
  <2>3. DOMAIN w = Entries /\ w = [n \in Entries |-> w[n]]
    BY <1>0, <2>2
  <2>4. \A n \in Entries : w[n] = IF n = 0 THEN i ELSE t[w[n - 1]].next
    BY <1>0, <2>2
  <2>5. Is(w)
    BY <2>3, <2>4
  <2> QED BY <2>5
<1> DEFINE w[n \in Entries] == IF n = 0 THEN i ELSE t[w[n - 1]].next
<1>4. Is(w)
  BY <1>3
<1>5. Walk(t, i) = {w[n] : n \in Entries} \cap (Entries \ {0})
  BY DEF Walk
<1> HIDE DEF w
<1>6. Steps(t, i, w)
  BY <1>0, <1>4 DEF Steps
<1> QED BY <1>5, <1>6

\* The next fields of a table.
Links(t) == [i \in Entries |-> t[i].next]

\* A table whose links stay inside it and lead to larger and larger ranks.
Walkable(t) ==
  Links(t) \in [Entries -> Entries] /\ Ranked(Links(t)) /\ t[0].next = 0

\* The entries met on the way are distinct, so within the size of the table the end is met.
LEMMA WalkEnds ==
  ASSUME NEW t, Walkable(t), NEW i \in Entries \ {0}, NEW w, Steps(t, i, w)
  PROVE  /\ \A n \in Entries : w[n] \in Entries
         /\ \E n \in Entries : /\ n # 0 /\ w[n] = 0 /\ w[n - 1] # 0
                               /\ \A k \in Entries : k >= n => w[k] = 0
<1>0. /\ 0 \in Entries /\ Last \in Entries /\ Entries = 0 .. Last /\ Entries \subseteq Nat
      /\ \A j \in Entries : t[j].next \in Entries /\ t[j].next = Links(t)[j]
  <2>1. \A j \in Entries : t[j].next = Links(t)[j] /\ Links(t)[j] \in Entries
    BY DEF Walkable, Links
  <2> QED BY <2>1, SizesAssumption DEF Entries, Last
<1>1. \A n \in Entries : w[n] \in Entries
  <2> DEFINE P == {n \in Entries : w[n] \in Entries}
  <2>1. 0 \in P
    BY <1>0 DEF Steps
  <2>2. ASSUME NEW k \in P, k # Last PROVE k + 1 \in P
    <3>1. k + 1 \in Entries /\ k + 1 # 0 /\ (k + 1) - 1 = k
      BY <1>0, <2>2
    <3>2. w[k + 1] = t[w[k]].next
      BY <3>1 DEF Steps
    <3> QED BY <1>0, <2>2, <3>1, <3>2
  <2> HIDE DEF P
  <2>3. P \subseteq Entries
    BY DEF P
  <2>4. P = Entries
    BY <2>1, <2>2, <2>3, AllEntries
  <2> QED BY <2>4 DEF P
<1>2. PICK r : RankedBy(r, Links(t))
  BY DEF Walkable, Ranked
<1>3. \A j \in Entries : r[j] \in Nat /\ (t[j].next # 0 => r[j] < r[t[j].next])
  BY <1>0, <1>2 DEF RankedBy
<1>4. \E n \in Entries : w[n] = 0
  <2> SUFFICES ASSUME \A n \in Entries : w[n] # 0 PROVE FALSE
    OBVIOUS
  <2>1. ASSUME NEW a \in Entries PROVE \A k \in Entries : k > a => r[w[a]] < r[w[k]]
    <3> DEFINE P == {k \in Entries : k > a => r[w[a]] < r[w[k]]}
    <3>1. 0 \in P
      BY <1>0
    <3>2. ASSUME NEW k \in P, k # Last PROVE k + 1 \in P
      <4>1. k \in Nat /\ a \in Nat /\ k + 1 \in Entries /\ k + 1 # 0 /\ (k + 1) - 1 = k
        BY <1>0, <3>2
      <4>2. w[k + 1] = t[w[k]].next /\ w[k + 1] # 0
        BY <4>1 DEF Steps
      <4>3. r[w[k]] < r[w[k + 1]]
        BY <1>1, <1>3, <3>2, <4>2
      <4>4. r[w[a]] \in Nat /\ r[w[k]] \in Nat /\ r[w[k + 1]] \in Nat
        BY <1>1, <1>3, <3>2, <4>1
      <4>5. k + 1 > a => r[w[a]] < r[w[k + 1]]
        <5>1. CASE k = a
          BY <4>3, <5>1
        <5>2. CASE k > a
          <6>1. r[w[a]] < r[w[k]]
            BY <3>2, <5>2
          <6> QED BY <4>3, <4>4, <6>1
        <5>3. CASE k < a
          BY <4>1, <5>3
        <5> QED BY <4>1, <5>1, <5>2, <5>3
      <4> QED BY <4>1, <4>5
    <3> HIDE DEF P
    <3>3. P \subseteq Entries
      BY DEF P
    <3>4. P = Entries
      BY <3>1, <3>2, <3>3, AllEntries
    <3> QED BY <3>4 DEF P
  <2> DEFINE T == Entries \ {0}
             g == [n \in Entries |-> w[n]]
  <2>2. g \in [Entries -> T]
    BY <1>1
  <2>3. IsFiniteSet(Entries) /\ Cardinality(Entries) = Last + 1
    BY FS_Interval, SizesAssumption DEF Entries, Last
  <2>4. IsFiniteSet(T) /\ Cardinality(T) = (Last + 1) - 1
    BY <1>0, <2>3, FS_RemoveElement
  <2>5. Cardinality(T) < Cardinality(Entries)
    BY <2>3, <2>4, SizesAssumption DEF Last
  <2>6. PICK a, b \in Entries : a # b /\ g[a] = g[b]
    <3> HIDE DEF T, g
    <3> QED BY <2>2, <2>3, <2>4, <2>5, FS_PigeonHole
  <2>7. w[a] = w[b] /\ r[w[a]] \in Nat
    BY <1>1, <1>3, <2>6
  <2>8. a < b \/ b < a
    BY <1>0, <2>6
  <2>9. CASE a < b
    <3>1. r[w[a]] < r[w[b]]
      BY <2>1, <2>9
    <3> QED BY <2>7, <3>1
  <2>10. CASE b < a
    <3>1. r[w[b]] < r[w[a]]
      BY <2>1, <2>10
    <3> QED BY <2>7, <3>1
  <2> QED BY <2>8, <2>9, <2>10
<1> DEFINE Z == {n \in Entries : w[n] = 0}
<1>5. PICK n \in Z : \A y \in Z : n <= y
  <2>1. Z \in SUBSET Nat /\ Z # {}
    BY <1>0, <1>4
  <2> HIDE DEF Z
  <2> QED BY <2>1, LeastExists
<1>6. n # 0 /\ n \in Entries /\ w[n] = 0
  BY <1>5 DEF Steps
<1>7. w[n - 1] # 0
  <2>1. n - 1 \in Entries /\ ~(n <= n - 1)
    BY <1>0, <1>6
  <2> QED BY <1>5, <2>1
<1>8. \A k \in Entries : k >= n => w[k] = 0
  <2> DEFINE P == {k \in Entries : k >= n => w[k] = 0}
  <2>1. 0 \in P
    BY <1>0, <1>6
  <2>2. ASSUME NEW k \in P, k # Last PROVE k + 1 \in P
    <3>1. k \in Nat /\ n \in Nat /\ k + 1 \in Entries /\ k + 1 # 0 /\ (k + 1) - 1 = k
      BY <1>0, <1>6, <2>2
    <3>2. w[k + 1] = t[w[k]].next
      BY <3>1 DEF Steps
    <3>3. CASE k >= n
      <4>1. w[k] = 0
        BY <2>2, <3>3
      <4>2. w[k + 1] = 0
        BY <3>2, <4>1 DEF Walkable
      <4> QED BY <3>1, <4>2
    <3>4. CASE k < n
      <4>1. k + 1 >= n => k + 1 = n
        BY <3>1, <3>4
      <4> QED BY <1>6, <3>1, <4>1
    <3> QED BY <3>1, <3>3, <3>4
  <2> HIDE DEF P
  <2>3. P \subseteq Entries
    BY DEF P
  <2>4. P = Entries
    BY <2>1, <2>2, <2>3, AllEntries
  <2> QED BY <2>4 DEF P
<1> QED BY <1>1, <1>6, <1>7, <1>8

\* A walk has its start and, with an entry, the next one; and it has an end.
LEMMA WalkFacts ==
  ASSUME NEW t, Walkable(t), NEW i \in Entries \ {0}
  PROVE  /\ i \in Walk(t, i)
         /\ \A x \in Walk(t, i) : t[x].next # 0 => t[x].next \in Walk(t, i)
         /\ Tails(t, i) # {}
<1>1. PICK w : /\ Steps(t, i, w)
               /\ Walk(t, i) = {w[n] : n \in Entries} \cap (Entries \ {0})
  BY WalkExists
<1>2. \A n \in Entries : w[n] \in Entries
  BY <1>1, WalkEnds
<1>3. PICK n \in Entries : /\ n # 0 /\ w[n] = 0 /\ w[n - 1] # 0
                           /\ \A k \in Entries : k >= n => w[k] = 0
  BY <1>1, WalkEnds
<1>0. 0 \in Entries /\ Entries = 0 .. Last /\ Last \in Nat /\ n - 1 \in Entries
  BY <1>3, SizesAssumption DEF Entries, Last
<1>4. i \in Walk(t, i)
  BY <1>0, <1>1 DEF Steps
<1>5. ASSUME NEW x \in Walk(t, i), t[x].next # 0 PROVE t[x].next \in Walk(t, i)
  <2>1. PICK k \in Entries : x = w[k] /\ x # 0
    BY <1>1, <1>5
  <2>2. ~(k >= n)
    BY <1>3, <2>1
  <2>3. k + 1 \in Entries /\ k + 1 # 0 /\ (k + 1) - 1 = k
    BY <1>0, <2>1, <2>2, <1>3
  <2>4. w[k + 1] = t[x].next
    BY <1>1, <2>1, <2>3 DEF Steps
  <2> QED BY <1>1, <1>2, <1>5, <2>3, <2>4
<1>6. w[n - 1] \in Tails(t, i)
  <2>1. w[n] = t[w[n - 1]].next
    BY <1>1, <1>3 DEF Steps
  <2>2. w[n - 1] \in Walk(t, i)
    BY <1>0, <1>1, <1>2, <1>3
  <2> QED BY <1>3, <2>1, <2>2 DEF Tails
<1> QED BY <1>4, <1>5, <1>6

\* A walk from an entry of a chain stays in that chain.
LEMMA WalkStays ==
  ASSUME NEW t, Walkable(t), NEW U, NEW b, NEW h, Chained(U, Links(t), b, h), NEW i \in U
  PROVE  \A x \in Walk(t, i) : x \in U /\ h[x] = h[i]
<1>1. PICK w : /\ Steps(t, i, w)
               /\ Walk(t, i) = {w[n] : n \in Entries} \cap (Entries \ {0})
  BY WalkExists
<1>0. /\ 0 \in Entries /\ Entries = 0 .. Last /\ Last \in Nat /\ U \subseteq Entries
      /\ \A j \in Entries : t[j].next = Links(t)[j]
  BY SizesAssumption DEF Entries, Last, Chained, Usable, Links
<1> DEFINE In(x) == x = 0 \/ (x \in U /\ h[x] = h[i])
           P == {n \in Entries : In(w[n])}
<1>2. 0 \in P
  BY <1>0, <1>1 DEF Steps
<1>3. ASSUME NEW k \in P, k # Last PROVE k + 1 \in P
  <2>1. k + 1 \in Entries /\ k + 1 # 0 /\ (k + 1) - 1 = k
    BY <1>0, <1>3
  <2>2. w[k + 1] = t[w[k]].next
    BY <1>1, <2>1 DEF Steps
  <2>3. CASE w[k] = 0
    BY <2>1, <2>2, <2>3 DEF Walkable
  <2>4. CASE w[k] \in U /\ h[w[k]] = h[i]
    <3>1. w[k + 1] = Links(t)[w[k]]
      BY <1>0, <2>2, <2>4
    <3>2. w[k + 1] = 0 \/ (w[k + 1] \in U /\ h[w[k + 1]] = h[w[k]])
      BY <2>4, <3>1 DEF Chained
    <3> QED BY <2>1, <2>4, <3>2
  <2> QED BY <1>3, <2>3, <2>4
<1>4. P = Entries
  <2> HIDE DEF P
  <2>1. P \subseteq Entries
    BY DEF P
  <2> QED BY <1>2, <1>3, <2>1, AllEntries
<1>5. ASSUME NEW x \in Walk(t, i) PROVE x \in U /\ h[x] = h[i]
  <2>1. PICK n \in Entries : x = w[n] /\ x # 0
    BY <1>1
  <2>2. n \in P
    BY <1>4
  <2> QED BY <2>1, <2>2
<1> QED BY <1>5

\* A walk from an entry that leads nowhere meets no other.
LEMMA WalkAlone ==
  ASSUME NEW t, Walkable(t), NEW i \in Entries \ {0}, Links(t)[i] = 0
  PROVE  Walk(t, i) = {i}
<1>1. PICK w : /\ Steps(t, i, w)
               /\ Walk(t, i) = {w[n] : n \in Entries} \cap (Entries \ {0})
  BY WalkExists
<1>0. 0 \in Entries /\ Entries = 0 .. Last /\ Last \in Nat /\ t[i].next = 0
  BY SizesAssumption DEF Entries, Last, Links
<1> DEFINE P == {n \in Entries : w[n] = 0 \/ w[n] = i}
<1>2. 0 \in P
  BY <1>0, <1>1 DEF Steps
<1>3. ASSUME NEW k \in P, k # Last PROVE k + 1 \in P
  <2>1. k + 1 \in Entries /\ k + 1 # 0 /\ (k + 1) - 1 = k
    BY <1>0, <1>3
  <2>2. w[k + 1] = t[w[k]].next
    BY <1>1, <2>1 DEF Steps
  <2> QED BY <1>0, <1>3, <2>1, <2>2 DEF Walkable
<1>4. P = Entries
  <2> HIDE DEF P
  <2>1. P \subseteq Entries
    BY DEF P
  <2> QED BY <1>2, <1>3, <2>1, AllEntries
<1>5. \A n \in Entries : w[n] = 0 \/ w[n] = i
  BY <1>4
<1>6. w[0] = i
  BY <1>1 DEF Steps
<1> QED BY <1>0, <1>1, <1>5, <1>6

\* Every entry of a chain is met from its home.
LEMMA Reached ==
  ASSUME NEW t, Walkable(t), NEW U, NEW b, NEW h, Chained(U, Links(t), b, h), NEW e \in U,
         h[e] \in Entries \ {0}
  PROVE  e \in Walk(t, h[e])
<1> DEFINE Lost == {x \in U : h[x] = h[e] /\ x \notin Walk(t, h[e])}
<1> SUFFICES ASSUME Lost # {} PROVE FALSE
  OBVIOUS
<1>0. U \subseteq Entries \ {0} /\ \A j \in Entries : t[j].next = Links(t)[j]
  BY DEF Chained, Usable, Links
<1>1. PICK r : RankedBy(r, Links(t))
  BY DEF Walkable, Ranked
<1>2. PICK x \in Lost : \A y \in Lost : r[x] <= r[y]
  <2> DEFINE R == {r[y] : y \in Lost}
  <2>1. R \in SUBSET Nat /\ R # {}
    BY <1>0, <1>1 DEF RankedBy
  <2>2. PICK m \in R : \A k \in R : m <= k
    <3> HIDE DEF R
    <3> QED BY <2>1, LeastExists
  <2> QED BY <2>2
<1>3. x \in U /\ h[x] = h[e] /\ x \notin Walk(t, h[e])
  BY <1>2
<1>4. CASE Base(x)
  <2>1. h[x] = x
    BY <1>3, <1>4 DEF Chained
  <2> QED BY <1>3, <2>1, WalkFacts
<1>5. CASE ~Base(x)
  <2>1. b[x] \in U /\ Links(t)[b[x]] = x /\ x # 0
    BY <1>0, <1>3, <1>5 DEF Chained
  <2>2. h[x] = h[b[x]] /\ r[b[x]] < r[x]
    BY <1>0, <1>1, <2>1 DEF Chained, RankedBy
  <2>3. r[x] \in Nat /\ r[b[x]] \in Nat
    BY <1>0, <1>1, <1>3, <2>1 DEF RankedBy
  <2>4. b[x] \notin Lost
    BY <1>2, <2>2, <2>3
  <2>5. b[x] \in Walk(t, h[e])
    BY <1>3, <2>1, <2>2, <2>4
  <2> QED BY <1>0, <1>3, <2>1, <2>5, WalkFacts
<1> QED BY <1>4, <1>5

-----------------------------------------------------------------------------
(* The inductive invariant *)

\* How far the batch of a deletion has been executed.
Deleting   == pc = "dma"
IndexMoved == Deleting /\ op.ipos = "head" /\ Len(op.cmds) <= 2
IndexDone  == Deleting /\ Len(op.cmds) <= 1
RuleDone   == Deleting /\ Len(op.cmds) = 0

\* Entries that are in use and that no chain leads to any more.
GoneR == IF RuleDone /\ op.pos \in {"middle", "last"} THEN {op.ent} ELSE {}
GoneI == IF ~IndexDone \/ op.ipos = "only_one" THEN {}
         ELSE IF op.ipos = "head" THEN {op.inext} ELSE {op.indx}

\* The entries in the chains: an addition links a rule before it enables it, and an index
\* node after it wrote it.
LinkedR == ({i \in Entries : tbl[i].enable}
              \cup (IF pc \in {"copy_indx", "link_indx", "enable"} THEN {op.ent} ELSE {})) \ GoneR
LinkedI == ({x \in Entries : indx[x].ent # 0}
              \ (IF pc = "link_indx" THEN {op.indx} ELSE {})) \ GoneI

NextR == Links(tbl)
NextI == Links(indx)
\* The links back: the driver corrects those past a bypassed entry last.
BackR == [i \in Entries |-> IF tbl[i].prev \in GoneR THEN tbl[tbl[i].prev].prev ELSE tbl[i].prev]
BackI == [x \in Entries |-> IF meta[x] \in GoneI THEN meta[meta[x]] ELSE meta[x]]
HomeR == [i \in Entries |-> dst_hash(tbl[i].flow)]
HomeI == [x \in Entries |-> src_hash(tbl[indx[x].ent].flow)]

Live(e) == tbl[e].enable /\ ~tbl[e].dead
\* The index node of a rule, the one its node moves to included.
Node(e) == IF IndexMoved /\ tbl[e].indx = op.inext THEN op.indx ELSE tbl[e].indx

ChainsOfRules ==
  /\ Chained(LinkedR, NextR, BackR, HomeR)
  /\ Ranked(NextR)
  /\ \A i \in Entries : i \notin LinkedR \cup GoneR => NextR[i] = 0

\* A rule in a chain is the rule of a flow; what is dead is the head of a chain.
RulesInUse ==
  /\ \A i \in LinkedR : tbl[i].flow \in Flows
  /\ \A i \in Entries : tbl[i].dead =>
       tbl[i].enable /\ Base(i) /\ (tbl[i].next = 0 => RuleDone)

ChainsOfNodes ==
  /\ Chained(LinkedI, NextI, BackI, HomeI)
  /\ Ranked(NextI)
  /\ \A x \in Entries : x \notin LinkedI \cup GoneI => NextI[x] = 0

\* Rules and index nodes name each other.
RulesNameNodes ==
  \A e \in Entries : Live(e) /\ ~(Deleting /\ e = op.ent) =>
    Node(e) \in LinkedI /\ indx[Node(e)].ent = e
NodesNameRules ==
  \A x \in LinkedI : ~(IndexMoved /\ x = op.inext) =>
    /\ Node(indx[x].ent) = x
    /\ Live(indx[x].ent) \/ (pc = "enable" /\ indx[x].ent = op.ent)

\* Rules and handles name each other.
Owned ==
  /\ \A e \in Entries : Live(e) /\ ~(pc = "make_hdl" /\ e = op.ent) =>
       held[tbl[e].flow] # 0 /\ NamedEntry(tbl[e].flow) = e
  /\ \A h \in Handles : ruleIds[h] # 0 => \E f \in Flows : held[f] = h

\* The entry and the node an addition has found, and what it hangs them from.
RuleFits ==
  /\ ~Base(op.ent) => /\ op.prev \in LinkedR /\ tbl[op.prev].next = 0
                      /\ HomeR[op.prev] = dst_hash(op.flow)
  /\ Base(op.ent) => op.prev = 0 /\ op.ent = dst_hash(op.flow)
NodeFits ==
  /\ op.indx \in Usable /\ indx[op.indx].next = 0
  /\ ~Base(op.indx) => /\ op.iprev \in LinkedI /\ indx[op.iprev].next = 0
                       /\ HomeI[op.iprev] = src_hash(op.flow) /\ meta[op.indx] = op.iprev
  /\ Base(op.indx) => op.iprev = 0 /\ op.indx = src_hash(op.flow)

\* An addition in progress.
Adding ==
  /\ pc \in {"copy_rule", "link_rule"} => RuleFits
  /\ pc = "link_rule" => /\ op.prev # 0
                         /\ tbl[op.ent].next = 0 /\ tbl[op.ent].prev = op.prev
  /\ pc \in {"link_rule", "copy_indx", "link_indx", "enable"} => tbl[op.ent].indx = op.indx
  /\ pc \in {"copy_rule", "link_rule", "copy_indx", "link_indx"} => NodeFits
  /\ pc \in {"copy_rule", "link_rule", "copy_indx"} => indx[op.indx].ent = 0
  /\ pc = "link_indx" => op.iprev # 0 /\ indx[op.indx].ent = op.ent
  /\ pc = "enable" => op.indx \in LinkedI /\ indx[op.indx].ent = op.ent

TakeCmd == Cmd("indx", op.indx, "ent", indx[op.inext].ent)
SkipCmd == Cmd("indx", op.indx, "next", indx[op.inext].next)
NodeCmd == IF op.ipos = "only_one" THEN Cmd("indx", op.indx, "ent", 0)
           ELSE Cmd("indx", meta[op.indx], "next", op.inext)
RuleCmd == IF op.pos = "only_one" THEN Cmd("rule", op.ent, "enable", 0)
           ELSE IF op.pos = "head" THEN Cmd("rule", op.ent, "proto", 255)
           ELSE Cmd("rule", tbl[op.ent].prev, "next", tbl[op.ent].next)

\* The commands a deletion has yet to execute.
Batch ==
  op.cmds \in IF op.ipos = "head"
              THEN {<<TakeCmd, SkipCmd, RuleCmd>>, <<SkipCmd, RuleCmd>>, <<RuleCmd>>, <<>>}
              ELSE {<<NodeCmd, RuleCmd>>, <<RuleCmd>>, <<>>}

PosAgrees(pos, i, next) ==
  /\ pos \in {"only_one", "head", "middle", "last"}
  /\ pos \in {"only_one", "head"} <=> Base(i)
  /\ pos \in {"only_one", "last"} <=> next = 0

\* The index node and the rule that a deletion takes out of their chains.
NodeLeaves ==
  /\ op.indx \in Usable
  /\ PosAgrees(op.ipos, op.indx, op.inext)
  /\ ~IndexDone => op.indx \in LinkedI /\ indx[op.indx].next = op.inext
  /\ ~IndexDone /\ ~IndexMoved => indx[op.indx].ent = op.ent
  /\ IndexMoved => /\ op.indx \in LinkedI
                   /\ indx[op.indx].ent = indx[op.inext].ent /\ indx[op.indx].ent # op.ent
                   /\ op.inext \in Usable /\ ~Base(op.inext) /\ meta[op.inext] = op.indx
  /\ IndexDone => CASE op.ipos = "head" -> indx[op.indx].next = indx[op.inext].next
                    [] op.ipos = "only_one" -> op.indx \notin LinkedI
                    [] OTHER -> /\ op.indx \notin LinkedI
                                /\ meta[op.indx] \in LinkedI
                                /\ indx[meta[op.indx]].next = op.inext
RuleLeaves ==
  /\ tbl[op.ent].indx = op.indx
  /\ PosAgrees(op.pos, op.ent, tbl[op.ent].next)
  /\ ~RuleDone => Live(op.ent)
  /\ RuleDone => IF op.pos = "only_one" THEN ~tbl[op.ent].enable
                 ELSE IF op.pos = "head" THEN ~Live(op.ent)
                 ELSE /\ tbl[op.ent].prev \in LinkedR
                      /\ tbl[tbl[op.ent].prev].next = tbl[op.ent].next

\* A deletion in progress.
Removing == Deleting => Batch /\ NodeLeaves /\ RuleLeaves

Chains == /\ ChainsOfRules /\ RulesInUse /\ ChainsOfNodes
          /\ RulesNameNodes /\ NodesNameRules /\ Owned /\ Adding /\ Removing

\* While no request was refused.
ChainInv == fails = 0 => Chains

-----------------------------------------------------------------------------
(* Lemmas on the tables *)

LEMMA Numbers ==
  /\ 0 \in Entries /\ Entries \subseteq Nat /\ Usable \subseteq Entries /\ 0 \notin Usable
  /\ Base(0) /\ \A i \in ExpnUsable : i \in Usable /\ ~Base(i)
  /\ \A i \in BaseEntries \ {0} : i \in Usable /\ Base(i)
  /\ \A i \in Entries : Base(i) => i \in BaseEntries
BY SizesAssumption DEF Entries, Usable, Base, ExpnUsable, BaseEntries

LEMMA HashIsBase ==
  ASSUME NEW f \in Flows
  PROVE  /\ dst_hash(f) \in Usable /\ Base(dst_hash(f))
         /\ src_hash(f) \in Usable /\ Base(src_hash(f))
BY SizesAssumption, HashAssumption DEF dst_hash, src_hash, Entries, Usable, Base

\* The types of the fields.
Shape ==
  /\ \A i \in Entries : /\ tbl[i].next \in Entries /\ tbl[i].prev \in Entries
                        /\ tbl[i].indx \in Entries /\ tbl[i].enable \in BOOLEAN
                        /\ tbl[i].dead \in BOOLEAN
  /\ \A x \in Entries : indx[x].ent \in Entries /\ indx[x].next \in Entries /\ meta[x] \in Entries
  /\ op.ent \in Entries /\ op.prev \in Entries /\ op.indx \in Entries /\ op.iprev \in Entries
  /\ op.inext \in Entries
  /\ DOMAIN tbl = Entries /\ DOMAIN indx = Entries
LEMMA Shapes == TypeOK => Shape
<1> SUFFICES ASSUME TypeOK PROVE Shape
  OBVIOUS
<1>1. \A i \in Entries : tbl[i] \in RuleType
  BY DEF TypeOK
<1>2. \A i \in Entries : /\ tbl[i].next \in Entries /\ tbl[i].prev \in Entries
                         /\ tbl[i].indx \in Entries /\ tbl[i].enable \in BOOLEAN
                         /\ tbl[i].dead \in BOOLEAN
  BY <1>1 DEF RuleType
<1>3. \A x \in Entries : indx[x].ent \in Entries /\ indx[x].next \in Entries /\ meta[x] \in Entries
  BY DEF TypeOK
<1>4. op \in OpType
  BY DEF TypeOK
<1>5. /\ op.ent \in Entries /\ op.prev \in Entries /\ op.indx \in Entries /\ op.iprev \in Entries
      /\ op.inext \in Entries
  BY <1>4 DEF OpType
<1>6. DOMAIN tbl = Entries /\ DOMAIN indx = Entries
  BY DEF TypeOK
<1> QED BY <1>2, <1>3, <1>5, <1>6 DEF Shape

LEMMA LinksType == Shape => NextR \in [Entries -> Entries] /\ NextI \in [Entries -> Entries]
BY DEF Shape, NextR, NextI, Links

\* The entry a deletion works on is usable.
LEMMA DeletedEntry ==
  ASSUME HandleInv, Deleting
  PROVE  op.ent \in Usable /\ op.flow \in Flows /\ held[op.flow] # 0
         /\ op.ent = NamedEntry(op.flow) /\ tbl[op.ent].flow = op.flow
BY HeldFacts DEF HandleInv, OpAgrees, Deleting, Usable

\* Both tables can be walked, whatever the call in progress.
LEMMA TablesWalk ==
  ASSUME HandleInv, Chains
  PROVE  Walkable(tbl) /\ Walkable(indx)
<1>1. Shape
  BY Shapes DEF HandleInv
<1>2. 0 \notin LinkedR /\ 0 \notin LinkedI
  BY Numbers DEF Chains, ChainsOfRules, ChainsOfNodes, Chained
<1>3. 0 \notin GoneR
  BY DeletedEntry, Numbers DEF GoneR, RuleDone
<1>4. 0 \notin GoneI
  BY Numbers DEF Chains, Removing, NodeLeaves, GoneI, IndexDone, IndexMoved, PosAgrees
<1>5. NextR[0] = 0 /\ NextI[0] = 0
  BY <1>2, <1>3, <1>4, Numbers DEF Chains, ChainsOfRules, ChainsOfNodes
<1>6. tbl[0].next = 0 /\ indx[0].next = 0
  BY <1>5, Numbers DEF NextR, NextI, Links
<1> QED BY <1>1, <1>6, LinksType DEF Walkable, Chains, ChainsOfRules, ChainsOfNodes, NextR, NextI

\* Steps that leave the chains alone.
LEMMA RulesStay ==
  ASSUME ChainsOfRules, RulesInUse, tbl' = tbl, LinkedR' = LinkedR, GoneR' = GoneR,
         RuleDone => RuleDone'
  PROVE  ChainsOfRules' /\ RulesInUse'
<1>1. NextR' = NextR /\ BackR' = BackR /\ HomeR' = HomeR
  BY DEF NextR, Links, BackR, HomeR
<1>2. ChainsOfRules'
  BY <1>1 DEF ChainsOfRules
<1> QED BY <1>2 DEF RulesInUse

LEMMA NodesStay ==
  ASSUME ChainsOfNodes, indx' = indx, LinkedI' = LinkedI, GoneI' = GoneI,
         \A x \in LinkedI : HomeI'[x] = HomeI[x],
         \A x \in LinkedI : ~Base(x) => BackI'[x] = BackI[x]
  PROVE  ChainsOfNodes'
<1>1. NextI' = NextI
  BY DEF NextI, Links
<1>2. Chained(LinkedI, NextI, BackI', HomeI')
  BY ChainedAlike DEF ChainsOfNodes
<1> QED BY <1>1, <1>2 DEF ChainsOfNodes

-----------------------------------------------------------------------------
(* Additions *)

\* Between calls and during an addition.
Quiet == ~Deleting /\ GoneR = {} /\ GoneI = {} /\ ~IndexMoved /\ ~RuleDone
LEMMA QuietPc == ~Deleting => Quiet
BY DEF Quiet, Deleting, GoneR, GoneI, IndexMoved, IndexDone, RuleDone

\* The entry and the node found for a new rule, and what they are to hang from.
LEMMA FoundRule ==
  ASSUME HandleInv, Chains, NEW f \in Flows, pc = "idle", generate_tbl_rule(f).ent # 0
  PROVE  LET r == generate_tbl_rule(f) IN
         /\ ~Base(r.ent) => /\ r.prev \in LinkedR /\ tbl[r.prev].next = 0
                            /\ HomeR[r.prev] = dst_hash(f)
         /\ Base(r.ent) => r.prev = 0 /\ r.ent = dst_hash(f)
<1> DEFINE h == dst_hash(f)
           r == generate_tbl_rule(f)
           p == CHOOSE x \in Tails(tbl, h) : TRUE
<1>1. h \in Usable /\ Base(h)
  BY HashIsBase
<1>2. CASE ~tbl[h].enable
  <2>1. r = [ent |-> h, prev |-> 0]
    BY <1>2 DEF generate_tbl_rule
  <2> QED BY <1>1, <2>1
<1>3. CASE tbl[h].enable
  <2>1. Tails(tbl, h) # {} /\ r = [ent |-> expn_tbl_free_entry, prev |-> p]
    BY <1>3 DEF generate_tbl_rule
  <2>2. r.ent \in ExpnUsable
    <3>1. {x \in ExpnUsable : ~tbl[x].enable} \in SUBSET Nat
      BY Numbers
    <3>2. expn_tbl_free_entry # 0
      BY <2>1
    <3> QED BY <2>1, <3>1, <3>2, FirstFreeIsLeast DEF expn_tbl_free_entry
  <2>3. ~Base(r.ent)
    BY <2>2, Numbers
  <2>4. h \in LinkedR
    <3>1. GoneR = {}
      BY QuietPc DEF Quiet, Deleting
    <3> QED BY <1>1, <1>3, <3>1, Numbers DEF LinkedR
  <2>5. p \in Tails(tbl, h)
    BY <2>1
  <2>6. p \in Walk(tbl, h) /\ tbl[p].next = 0
    BY <2>5 DEF Tails
  <2>7. Walkable(tbl)
    BY TablesWalk
  <2>8. Chained(LinkedR, Links(tbl), BackR, HomeR)
    BY DEF Chains, ChainsOfRules, NextR
  <2>9. p \in LinkedR /\ HomeR[p] = HomeR[h]
    BY <2>4, <2>6, <2>7, <2>8, WalkStays
  <2>10. HomeR[h] = h
    BY <1>1, <2>4, <2>8 DEF Chained
  <2> QED BY <2>1, <2>3, <2>6, <2>9, <2>10
<1> QED BY <1>2, <1>3

LEMMA FoundNode ==
  ASSUME HandleInv, Chains, NEW f \in Flows, pc = "idle", generate_index_rule(f).ent # 0
  PROVE  LET x == generate_index_rule(f) IN
         /\ x.ent \in Usable /\ indx[x.ent].ent = 0
         /\ ~Base(x.ent) => /\ x.prev \in LinkedI /\ indx[x.prev].next = 0
                            /\ HomeI[x.prev] = src_hash(f)
         /\ Base(x.ent) => x.prev = 0 /\ x.ent = src_hash(f)
<1> DEFINE h == src_hash(f)
           r == generate_index_rule(f)
           p == CHOOSE x \in Tails(indx, h) : TRUE
           e == index_expn_get_free_entry
<1>1. h \in Usable /\ Base(h)
  BY HashIsBase
<1>2. CASE indx[h].ent = 0
  <2>1. r = [ent |-> h, prev |-> 0]
    BY <1>2 DEF generate_index_rule
  <2> QED BY <1>1, <1>2, <2>1
<1>3. CASE indx[h].ent # 0
  <2>1. Tails(indx, h) # {} /\ r = [ent |-> IF e = p THEN 0 ELSE e, prev |-> p]
    BY <1>3 DEF generate_index_rule
  <2>2. r.ent = e /\ e # 0
    BY <2>1
  <2>3. e \in ExpnUsable /\ indx[e].ent = 0
    <3>1. {x \in ExpnUsable : indx[x].ent = 0} \in SUBSET Nat
      BY Numbers
    <3> QED BY <2>2, <3>1, FirstFreeIsLeast DEF index_expn_get_free_entry
  <2>4. h \in LinkedI
    <3>1. GoneI = {}
      BY QuietPc DEF Quiet, Deleting
    <3> QED BY <1>1, <1>3, <3>1, Numbers DEF LinkedI
  <2>5. p \in Tails(indx, h)
    BY <2>1
  <2>6. p \in Walk(indx, h) /\ indx[p].next = 0
    BY <2>5 DEF Tails
  <2>7. Walkable(indx)
    BY TablesWalk
  <2>8. Chained(LinkedI, Links(indx), BackI, HomeI)
    BY DEF Chains, ChainsOfNodes, NextI
  <2>9. p \in LinkedI /\ HomeI[p] = HomeI[h]
    BY <2>4, <2>6, <2>7, <2>8, WalkStays
  <2>10. HomeI[h] = h
    BY <1>1, <2>4, <2>8 DEF Chained
  <2>11. r.prev = p
    BY <2>1
  <2>12. r.ent \in Usable /\ ~Base(r.ent) /\ indx[r.ent].ent = 0
    <3> HIDE DEF r, e
    <3> QED BY <2>2, <2>3, Numbers
  <2>13. r.prev \in LinkedI /\ indx[r.prev].next = 0 /\ HomeI[r.prev] = h
    <3> HIDE DEF r, p, h
    <3> QED BY <2>6, <2>9, <2>10, <2>11
  <2> QED BY <2>12, <2>13
<1> QED BY <1>2, <1>3

LEMMA GenerateChains ==
  ASSUME HandleInv, Chains, NEW f \in Flows, generate_rule(f)
  PROVE  Chains'
<1> DEFINE r == generate_tbl_rule(f)
           x == generate_index_rule(f)
<1>1. /\ pc = "idle" /\ pc' = "copy_rule" /\ r.ent # 0 /\ x.ent # 0
      /\ meta' = IF x.ent >= TableEntries THEN [meta EXCEPT ![x.ent] = x.prev] ELSE meta
      /\ UNCHANGED <<tbl, indx, ruleIds, held>>
  BY DEF generate_rule
<1>2. /\ op'.flow = f /\ op'.ent = r.ent /\ op'.prev = r.prev
      /\ op'.indx = x.ent /\ op'.iprev = x.prev
  BY DEF generate_rule, NoOp
<1>3. /\ ~Base(r.ent) => /\ r.prev \in LinkedR /\ tbl[r.prev].next = 0
                         /\ HomeR[r.prev] = dst_hash(f)
      /\ Base(r.ent) => r.prev = 0 /\ r.ent = dst_hash(f)
  BY <1>1, FoundRule
<1>4. /\ x.ent \in Usable /\ indx[x.ent].ent = 0
      /\ ~Base(x.ent) => /\ x.prev \in LinkedI /\ indx[x.prev].next = 0
                         /\ HomeI[x.prev] = src_hash(f)
      /\ Base(x.ent) => x.prev = 0 /\ x.ent = src_hash(f)
  BY <1>1, FoundNode
<1> HIDE DEF r, x
<1>5. Quiet /\ Quiet'
  <2>1. ~Deleting /\ ~Deleting'
    BY <1>1 DEF Deleting
  <2> QED BY <2>1, QuietPc DEF Quiet, GoneR, GoneI, IndexMoved, IndexDone, RuleDone
<1>6. LinkedR' = LinkedR /\ LinkedI' = LinkedI
  BY <1>1, <1>5 DEF LinkedR, LinkedI, Quiet
<1>7. x.ent \notin LinkedI
  BY <1>4 DEF LinkedI
<1>8. ChainsOfRules' /\ RulesInUse'
  BY <1>1, <1>5, <1>6, RulesStay DEF Chains, Quiet
<1>9. HomeI' = HomeI /\ HomeR' = HomeR
  BY <1>1 DEF HomeI, HomeR
<1>10. meta \in [Entries -> Entries] /\ Shape
  BY Shapes DEF HandleInv, TypeOK
<1>11. \A y \in LinkedI : meta'[y] = meta[y]
  <2>1. \A y \in Entries : y # x.ent => meta'[y] = meta[y]
    BY <1>1, <1>10
  <2> QED BY <1>7, <2>1 DEF LinkedI
<1>12. \A y \in LinkedI : BackI'[y] = BackI[y]
  BY <1>5, <1>11 DEF BackI, Quiet, LinkedI
<1>13. ChainsOfNodes'
  BY <1>1, <1>5, <1>6, <1>9, <1>12, NodesStay DEF Chains, Quiet
<1>14. RulesNameNodes' /\ NodesNameRules'
  BY <1>1, <1>5, <1>6 DEF Chains, RulesNameNodes, NodesNameRules, Live, Node, Quiet
<1>15. Owned'
  BY <1>1 DEF Chains, Owned, Live, NamedEntry
<1>16. RuleFits'
  BY <1>1, <1>2, <1>3, <1>6, <1>9 DEF RuleFits
<1>17. NodeFits'
  <2>1. indx[x.ent].next = 0
    <3>1. NextI[x.ent] = 0
      BY <1>4, <1>5, <1>7, Numbers DEF Chains, ChainsOfNodes, Quiet
    <3> QED BY <1>4, <3>1, Numbers DEF NextI, Links
  <2>2. ~Base(x.ent) => meta'[x.ent] = x.prev
    <3>1. x.ent \in Entries /\ x.ent \in Nat
      BY <1>4, Numbers
    <3>2. ~Base(x.ent) => x.ent >= TableEntries
      BY <3>1, SizesAssumption DEF Base
    <3> QED BY <1>1, <1>10, <3>1, <3>2
  <2> QED BY <1>1, <1>2, <1>4, <1>6, <1>9, <2>1, <2>2 DEF NodeFits
<1>18. Adding'
  BY <1>1, <1>2, <1>4, <1>16, <1>17 DEF Adding
<1>19. Removing'
  BY <1>5 DEF Removing, Quiet
<1> QED BY <1>8, <1>13, <1>14, <1>15, <1>18, <1>19 DEF Chains

LEMMA SpinsChains ==
  ASSUME HandleInv, Chains, NEW f \in Flows, generate_rule_spins(f)
  PROVE  Chains'
<1>1. /\ pc = "idle" /\ pc' = "spinning"
      /\ UNCHANGED <<tbl, indx, meta, ruleIds, held, op>>
  BY DEF generate_rule_spins
<1>2. Quiet /\ Quiet'
  BY <1>1, QuietPc DEF Quiet, Deleting, GoneR, GoneI, IndexMoved, IndexDone, RuleDone
<1>3. LinkedR' = LinkedR /\ LinkedI' = LinkedI
  BY <1>1, <1>2 DEF LinkedR, LinkedI, Quiet
<1>4. ChainsOfRules' /\ RulesInUse'
  BY <1>1, <1>2, <1>3, RulesStay DEF Chains, Quiet
<1>5. HomeI' = HomeI /\ BackI' = BackI
  BY <1>1, <1>2 DEF HomeI, BackI, Quiet
<1>6. ChainsOfNodes'
  BY <1>1, <1>2, <1>3, <1>5, NodesStay DEF Chains, Quiet
<1>7. RulesNameNodes' /\ NodesNameRules'
  BY <1>1, <1>2, <1>3 DEF Chains, RulesNameNodes, NodesNameRules, Live, Node, Quiet
<1>8. Owned' /\ Adding' /\ Removing'
  BY <1>1, <1>2 DEF Chains, Owned, Live, NamedEntry, Adding, Removing, Quiet
<1> QED BY <1>4, <1>6, <1>7, <1>8 DEF Chains

\* The new rule is stored: at the head of an empty bucket it is in its chain at once.
LEMMA CopyRuleChains ==
  ASSUME HandleInv, Chains, copy_ipv4_rule_to_hw
  PROVE  Chains'
<1> DEFINE e == op.ent
<1>1. /\ pc = "copy_rule" /\ pc' = IF op.prev = 0 THEN "copy_indx" ELSE "link_rule"
      /\ UNCHANGED <<indx, meta, ruleIds, held, op>>
      /\ tbl' = [tbl EXCEPT ![e] =
                   [flow |-> op.flow, enable |-> FALSE, dead |-> FALSE, next |-> 0,
                    prev |-> op.prev, indx |-> op.indx]]
  BY DEF copy_ipv4_rule_to_hw
<1>2. /\ e \in Usable /\ ~tbl[e].enable /\ op.flow \in Flows /\ held[op.flow] = 0 /\ Shape
  BY <1>1, Shapes DEF HandleInv, OpAgrees, AddSteps, Shape, Usable
<1>3. /\ tbl'[e].flow = op.flow /\ tbl'[e].enable = FALSE /\ tbl'[e].dead = FALSE
      /\ tbl'[e].next = 0 /\ tbl'[e].prev = op.prev /\ tbl'[e].indx = op.indx
      /\ \A i \in Entries : i # e => tbl'[i] = tbl[i]
  BY <1>1, <1>2 DEF Shape
<1>4. Quiet /\ Quiet'
  BY <1>1, QuietPc DEF Quiet, Deleting, GoneR, GoneI, IndexMoved, IndexDone, RuleDone
<1>5. /\ LinkedR = {i \in Entries : tbl[i].enable} /\ e \notin LinkedR
      /\ LinkedI' = LinkedI
      /\ LinkedR \subseteq Entries /\ LinkedI \subseteq Entries
  BY <1>1, <1>2, <1>4 DEF LinkedR, LinkedI, Quiet
<1>6. LinkedR' = IF op.prev = 0 THEN LinkedR \cup {e} ELSE LinkedR
  BY <1>1, <1>2, <1>3, <1>4, <1>5 DEF LinkedR, Quiet, Shape
<1>7. RuleFits /\ NodeFits
  BY <1>1 DEF Chains, Adding
<1>8. \A i \in Entries : /\ i # e => NextR'[i] = NextR[i] /\ BackR'[i] = BackR[i] /\ HomeR'[i] = HomeR[i]
                         /\ i = e => NextR'[i] = 0 /\ HomeR'[i] = dst_hash(op.flow)
  BY <1>3, <1>4 DEF NextR, Links, BackR, HomeR, Quiet
<1>9. op.prev = 0 <=> Base(e)
  BY <1>7, Numbers DEF RuleFits, Chains, ChainsOfRules, Chained
<1>10. Chained(LinkedR, NextR, BackR, HomeR)
  BY DEF Chains, ChainsOfRules
<1>11. Chained(LinkedR', NextR', BackR', HomeR')
  <2>1. \A i \in LinkedR : /\ NextR'[i] = NextR[i] /\ HomeR'[i] = HomeR[i]
                           /\ BackR'[i] = BackR[i]
    BY <1>5, <1>8
  <2>2. CASE op.prev # 0
    BY <1>6, <1>10, <2>1, <2>2, ChainedAlike
  <2>3. CASE op.prev = 0
    <3>1. e \in Usable \ LinkedR /\ Base(e) /\ NextR'[e] = 0 /\ HomeR'[e] = e
      BY <1>2, <1>5, <1>7, <1>8, <1>9, <2>3, Numbers DEF RuleFits
    <3>2. Chained(LinkedR \cup {e}, NextR', BackR', HomeR')
      <4> HIDE DEF e
      <4> QED BY <1>10, <2>1, <3>1, ChainedHead
    <3> QED BY <1>6, <2>3, <3>2
  <2> QED BY <2>2, <2>3
<1>12. ChainsOfRules'
  <2>1. Ranked(NextR')
    BY <1>2, <1>8, LinksType, RankedKept DEF Chains, ChainsOfRules
  <2>2. \A i \in Entries : i \notin LinkedR' => NextR'[i] = 0
    BY <1>4, <1>6, <1>8 DEF Chains, ChainsOfRules, Quiet
  <2> QED BY <1>4, <1>11, <2>1, <2>2 DEF ChainsOfRules, Quiet
<1>13. RulesInUse'
  BY <1>2, <1>3, <1>4, <1>5, <1>6 DEF Chains, RulesInUse, Quiet
<1>14. \A x \in LinkedI : /\ Live(indx[x].ent) /\ Node(indx[x].ent) = x
                          /\ indx[x].ent \in Entries /\ indx[x].ent # e
  BY <1>1, <1>2, <1>4, <1>5 DEF Chains, NodesNameRules, Live, Quiet, Shape
<1>15. \A x \in LinkedI : HomeI'[x] = HomeI[x] /\ BackI'[x] = BackI[x]
  BY <1>1, <1>3, <1>4, <1>5, <1>14 DEF HomeI, BackI, Quiet
<1>16. ChainsOfNodes'
  BY <1>1, <1>4, <1>5, <1>15, NodesStay DEF Chains, Quiet
<1>17. \A i \in Entries : Live(i)' => i # e /\ Live(i)
  BY <1>3 DEF Live
<1>18. RulesNameNodes'
  BY <1>1, <1>3, <1>4, <1>5, <1>17 DEF Chains, RulesNameNodes, Node, Quiet
<1>19. NodesNameRules'
  BY <1>1, <1>3, <1>4, <1>5, <1>14 DEF NodesNameRules, Live, Node, Quiet
<1>20. Owned'
  BY <1>1, <1>3, <1>17 DEF Chains, Owned, NamedEntry
<1>21. NodeFits'
  BY <1>1, <1>5, <1>7, <1>15 DEF NodeFits
<1>22. pc' = "link_rule" => RuleFits'
  BY <1>1, <1>3, <1>5, <1>6, <1>7, <1>8, <1>9 DEF RuleFits
<1>23. Adding'
  BY <1>1, <1>3, <1>21, <1>22 DEF Adding, Chains
<1>24. Removing'
  BY <1>4 DEF Removing, Quiet
<1> QED BY <1>12, <1>13, <1>16, <1>18, <1>19, <1>20, <1>23, <1>24 DEF Chains

\* What a write to a link of a table changes.
LEMMA RuleLinkWritten ==
  ASSUME NEW t \in [Entries -> RuleType], NEW p \in Entries, NEW v, NEW t2,
         t2 = [t EXCEPT ![p].next = v]
  PROVE  /\ t2[p].next = v
         /\ \A i \in Entries : /\ i # p => t2[i].next = t[i].next
                               /\ t2[i].flow = t[i].flow /\ t2[i].enable = t[i].enable
                               /\ t2[i].dead = t[i].dead /\ t2[i].prev = t[i].prev
                               /\ t2[i].indx = t[i].indx
<1>1. t[p] \in RuleType
  OBVIOUS
<1>2. t2[p] = [t[p] EXCEPT !.next = v]
  BY Zenon
<1>3. \A i \in Entries : i # p => t2[i] = t[i]
  OBVIOUS
<1>4. /\ t2[p].next = v /\ t2[p].flow = t[p].flow /\ t2[p].enable = t[p].enable
      /\ t2[p].dead = t[p].dead /\ t2[p].prev = t[p].prev /\ t2[p].indx = t[p].indx
  BY <1>1, <1>2 DEF RuleType
<1> QED BY <1>3, <1>4

LEMMA NodeLinkWritten ==
  ASSUME NEW t \in [Entries -> [ent : Entries, next : Entries]], NEW p \in Entries, NEW v, NEW t2,
         t2 = [t EXCEPT ![p].next = v]
  PROVE  /\ t2[p].next = v
         /\ \A i \in Entries : /\ i # p => t2[i].next = t[i].next
                               /\ t2[i].ent = t[i].ent
<1>1. t[p] \in [ent : Entries, next : Entries]
  OBVIOUS
<1>2. t2[p] = [t[p] EXCEPT !.next = v]
  BY Zenon
<1>3. \A i \in Entries : i # p => t2[i] = t[i]
  OBVIOUS
<1>4. t2[p].next = v /\ t2[p].ent = t[p].ent
  BY <1>1, <1>2
<1> QED BY <1>3, <1>4

\* The new rule is hung from the last one of its chain.
LEMMA LinkRuleChains ==
  ASSUME HandleInv, Chains, pc = "link_rule", write_next_index, fails' = fails
  PROVE  Chains'
<1> DEFINE e == op.ent
           p == op.prev
<1>1. fails \in Int
  BY FailAssumption DEF HandleInv, TypeOK
<1>2. /\ pc' = "copy_indx" /\ Poke(Cmd("rule", p, "next", e))
      /\ UNCHANGED <<meta, ruleIds, held, op>>
  BY <1>1 DEF write_next_index, DmaFails
<1>3. tbl' = [tbl EXCEPT ![p].next = e] /\ indx' = indx
  BY <1>2 DEF Poke, Cmd
<1>4. /\ e \in Usable /\ ~tbl[e].enable /\ op.flow \in Flows /\ held[op.flow] = 0 /\ Shape
      /\ tbl[e].flow = op.flow /\ ~tbl[e].dead
  BY Shapes DEF HandleInv, OpAgrees, AddSteps, Shape, Usable
<1>5. /\ RuleFits /\ p # 0 /\ tbl[e].next = 0 /\ tbl[e].prev = p /\ tbl[e].indx = op.indx
      /\ NodeFits /\ indx[op.indx].ent = 0
  BY DEF Chains, Adding
<1>6. p \in LinkedR /\ tbl[p].next = 0 /\ HomeR[p] = dst_hash(op.flow) /\ ~Base(e)
  BY <1>5 DEF RuleFits
<1>7. Quiet /\ Quiet'
  BY <1>2, QuietPc DEF Quiet, Deleting, GoneR, GoneI, IndexMoved, IndexDone, RuleDone
<1>8. /\ LinkedR = {i \in Entries : tbl[i].enable} /\ e \notin LinkedR
      /\ LinkedR \subseteq Entries /\ LinkedI \subseteq Entries /\ LinkedI' = LinkedI
  BY <1>2, <1>3, <1>4, <1>7 DEF LinkedR, LinkedI, Quiet
<1>9. /\ tbl'[p].next = e
      /\ \A i \in Entries : /\ i # p => tbl'[i].next = tbl[i].next
                            /\ tbl'[i].flow = tbl[i].flow /\ tbl'[i].enable = tbl[i].enable
                            /\ tbl'[i].dead = tbl[i].dead /\ tbl'[i].prev = tbl[i].prev
                            /\ tbl'[i].indx = tbl[i].indx
  BY <1>3, <1>6, <1>8, RuleLinkWritten DEF HandleInv, TypeOK
<1> HIDE DEF e, p
<1>10. LinkedR' = LinkedR \cup {e}
  BY <1>2, <1>4, <1>7, <1>8, <1>9 DEF LinkedR, Quiet, Usable, e
<1>11. e # p /\ e \in Entries /\ p \in Entries /\ e \in Usable \ LinkedR
  BY <1>4, <1>6, <1>8, Numbers
<1>12. /\ NextR'[p] = e /\ NextR'[e] = 0 /\ NextR[p] = 0 /\ BackR'[e] = p /\ HomeR'[e] = HomeR[p]
       /\ \A i \in Entries : /\ i # p => NextR'[i] = NextR[i]
                             /\ BackR'[i] = BackR[i] /\ HomeR'[i] = HomeR[i]
  BY <1>4, <1>5, <1>6, <1>7, <1>9, <1>11 DEF NextR, Links, BackR, HomeR, Quiet
<1>13. ChainsOfRules'
  <2>1. Chained(LinkedR, NextR, BackR, HomeR)
    BY DEF Chains, ChainsOfRules
  <2>2. \A i \in LinkedR : HomeR'[i] = HomeR[i] /\ BackR'[i] = BackR[i]
    BY <1>8, <1>12
  <2>3. \A i \in LinkedR : i # p => NextR'[i] = NextR[i]
    BY <1>8, <1>12
  <2>4. Chained(LinkedR \cup {e}, NextR', BackR', HomeR')
    BY <1>6, <1>11, <1>12, <2>1, <2>2, <2>3, ChainedLink
  <2>5. Ranked(NextR')
    BY <1>4, <1>11, <1>12, LinksType, RankedLink DEF Chains, ChainsOfRules
  <2>6. \A i \in Entries : i \notin LinkedR' => NextR'[i] = 0
    BY <1>6, <1>7, <1>10, <1>12 DEF Chains, ChainsOfRules, Quiet
  <2> QED BY <1>7, <1>10, <2>4, <2>5, <2>6 DEF ChainsOfRules, Quiet
<1>14. RulesInUse'
  BY <1>4, <1>5, <1>7, <1>8, <1>9, <1>10, <1>11, Numbers DEF Chains, RulesInUse, Quiet, e
<1>15. \A x \in LinkedI : indx[x].ent \in Entries
  BY <1>4, <1>8 DEF Shape
<1>16. ChainsOfNodes'
  <2>1. HomeI' = HomeI /\ BackI' = BackI
    BY <1>2, <1>3, <1>4, <1>7, <1>9 DEF HomeI, BackI, Quiet, Shape
  <2> QED BY <1>3, <1>7, <1>8, <2>1, NodesStay DEF Chains, Quiet
<1>17. RulesNameNodes' /\ NodesNameRules'
  BY <1>2, <1>3, <1>7, <1>8, <1>9, <1>15 DEF Chains, RulesNameNodes, NodesNameRules, Node, Live, Quiet
<1>18. Owned'
  BY <1>2, <1>9 DEF Chains, Owned, NamedEntry, Live
<1>19. NodeFits'
  <2>1. \A x \in LinkedI : HomeI'[x] = HomeI[x]
    BY <1>3, <1>8, <1>9, <1>15 DEF HomeI
  <2> QED BY <1>2, <1>3, <1>5, <1>8, <2>1 DEF NodeFits
<1>20. Adding'
  BY <1>2, <1>3, <1>5, <1>9, <1>11, <1>19 DEF Adding, e
<1>21. Removing'
  BY <1>7 DEF Removing, Quiet
<1> QED BY <1>13, <1>14, <1>16, <1>17, <1>18, <1>20, <1>21 DEF Chains

\* The index node is stored: at the head of an empty bucket it is in its chain at once.
LEMMA CopyIndexChains ==
  ASSUME HandleInv, Chains, copy_ipv4_index_rule_to_hw
  PROVE  Chains'
<1> DEFINE e == op.ent
           n == op.indx
<1>1. /\ pc = "copy_indx" /\ pc' = IF op.iprev = 0 THEN "enable" ELSE "link_indx"
      /\ UNCHANGED <<tbl, meta, ruleIds, held, op>>
      /\ indx' = [indx EXCEPT ![n] = [ent |-> e, next |-> 0]]
  BY DEF copy_ipv4_index_rule_to_hw
<1>2. /\ e \in Usable /\ ~tbl[e].enable /\ op.flow \in Flows /\ Shape
      /\ tbl[e].flow = op.flow
  BY <1>1, Shapes DEF HandleInv, OpAgrees, AddSteps, Shape, Usable
<1>3. NodeFits /\ n \in Usable /\ indx[n].ent = 0 /\ tbl[e].indx = n
  BY <1>1 DEF Chains, Adding, NodeFits
<1>4. /\ indx'[n].ent = e /\ indx'[n].next = 0 /\ e # 0 /\ n \in Entries /\ e \in Entries
      /\ \A x \in Entries : x # n => indx'[x] = indx[x]
  BY <1>1, <1>2, <1>3, Numbers DEF Shape
<1>5. Quiet /\ Quiet'
  BY <1>1, QuietPc DEF Quiet, Deleting, GoneR, GoneI, IndexMoved, IndexDone, RuleDone
<1>6. /\ LinkedI = {x \in Entries : indx[x].ent # 0} /\ n \notin LinkedI /\ LinkedI \subseteq Entries
      /\ LinkedR' = LinkedR
  BY <1>1, <1>3, <1>5 DEF LinkedR, LinkedI, Quiet
<1>7. LinkedI' = IF op.iprev = 0 THEN LinkedI \cup {n} ELSE LinkedI
  BY <1>1, <1>4, <1>5, <1>6 DEF LinkedI, Quiet
<1>8. op.iprev = 0 <=> Base(n)
  BY <1>3, Numbers DEF NodeFits, Chains, ChainsOfNodes, Chained
<1>9. ChainsOfRules' /\ RulesInUse'
  BY <1>1, <1>5, <1>6, RulesStay DEF Chains, Quiet
<1>10. \A x \in Entries : /\ x # n => NextI'[x] = NextI[x] /\ BackI'[x] = BackI[x] /\ HomeI'[x] = HomeI[x]
                          /\ x = n => NextI'[x] = 0 /\ HomeI'[x] = src_hash(op.flow)
  BY <1>1, <1>2, <1>4, <1>5 DEF NextI, Links, BackI, HomeI, Quiet
<1> HIDE DEF e, n
<1>11. Chained(LinkedI', NextI', BackI', HomeI')
  <2>1. Chained(LinkedI, NextI, BackI, HomeI)
    BY DEF Chains, ChainsOfNodes
  <2>2. \A x \in LinkedI : /\ NextI'[x] = NextI[x] /\ HomeI'[x] = HomeI[x]
                           /\ BackI'[x] = BackI[x]
    BY <1>6, <1>10
  <2>3. CASE op.iprev # 0
    BY <1>7, <2>1, <2>2, <2>3, ChainedAlike
  <2>4. CASE op.iprev = 0
    <3>1. n \in Usable \ LinkedI /\ Base(n) /\ NextI'[n] = 0 /\ HomeI'[n] = n
      BY <1>3, <1>4, <1>6, <1>8, <1>10, <2>4 DEF NodeFits, n
    <3>2. Chained(LinkedI \cup {n}, NextI', BackI', HomeI')
      BY <2>1, <2>2, <3>1, ChainedHead
    <3> QED BY <1>7, <2>4, <3>2
  <2> QED BY <2>3, <2>4
<1>12. ChainsOfNodes'
  <2>1. Ranked(NextI')
    BY <1>2, <1>10, LinksType, RankedKept DEF Chains, ChainsOfNodes
  <2>2. \A x \in Entries : x \notin LinkedI' => NextI'[x] = 0
    BY <1>5, <1>7, <1>10 DEF Chains, ChainsOfNodes, Quiet
  <2> QED BY <1>5, <1>11, <2>1, <2>2 DEF ChainsOfNodes, Quiet
<1>13. RulesNameNodes'
  BY <1>1, <1>4, <1>5, <1>6, <1>7 DEF Chains, RulesNameNodes, Live, Node, Quiet
<1>14. NodesNameRules'
  <2>1. \A x \in LinkedI : Node(indx[x].ent) = x /\ Live(indx[x].ent) /\ x # n
    BY <1>1, <1>5, <1>6 DEF Chains, NodesNameRules, Quiet
  <2>2. n \in LinkedI' => pc' = "enable"
    BY <1>1, <1>6, <1>7
  <2> QED BY <1>1, <1>3, <1>4, <1>5, <1>6, <1>7, <2>1, <2>2 DEF NodesNameRules, Live, Node, Quiet, e, n
<1>15. Owned'
  BY <1>1 DEF Chains, Owned, Live, NamedEntry
<1>16. pc' = "link_indx" => NodeFits'
  BY <1>1, <1>3, <1>4, <1>6, <1>7, <1>8, <1>10 DEF NodeFits, n
<1>17. Adding'
  BY <1>1, <1>3, <1>4, <1>6, <1>7, <1>16 DEF Adding, e, n
<1>18. Removing'
  BY <1>5 DEF Removing, Quiet
<1> QED BY <1>9, <1>12, <1>13, <1>14, <1>15, <1>17, <1>18 DEF Chains

\* The index node is hung from the last one of its chain.
LEMMA LinkIndexChains ==
  ASSUME HandleInv, Chains, pc = "link_indx", write_next_index, fails' = fails
  PROVE  Chains'
<1> DEFINE e == op.ent
           n == op.indx
           p == op.iprev
<1>1. fails \in Int
  BY FailAssumption DEF HandleInv, TypeOK
<1>2. /\ pc' = "enable" /\ Poke(Cmd("indx", p, "next", n))
      /\ UNCHANGED <<meta, ruleIds, held, op>>
  BY <1>1 DEF write_next_index, DmaFails
<1>3. indx' = [indx EXCEPT ![p].next = n] /\ tbl' = tbl
  BY <1>2 DEF Poke, Cmd
<1>4. /\ e \in Usable /\ ~tbl[e].enable /\ op.flow \in Flows /\ Shape
      /\ tbl[e].flow = op.flow
  BY Shapes DEF HandleInv, OpAgrees, AddSteps, Shape, Usable
<1>5. NodeFits /\ p # 0 /\ indx[n].ent = e /\ tbl[e].indx = n
  BY DEF Chains, Adding
<1>6. /\ n \in Usable /\ n \in Entries /\ ~Base(n) /\ p \in LinkedI /\ indx[p].next = 0
      /\ indx[n].next = 0 /\ meta[n] = p /\ HomeI[p] = src_hash(op.flow)
  BY <1>5, Numbers DEF NodeFits
<1>7. Quiet /\ Quiet'
  BY <1>2, QuietPc DEF Quiet, Deleting, GoneR, GoneI, IndexMoved, IndexDone, RuleDone
<1>8. /\ LinkedI = {x \in Entries : indx[x].ent # 0} \ {n} /\ LinkedR' = LinkedR
      /\ p \in Entries /\ p # n /\ e # 0
  BY <1>2, <1>3, <1>4, <1>6, <1>7, Numbers DEF LinkedI, LinkedR, Quiet
<1>9. /\ indx'[p].next = n
      /\ \A x \in Entries : /\ x # p => indx'[x].next = indx[x].next
                            /\ indx'[x].ent = indx[x].ent
  BY <1>3, <1>8, NodeLinkWritten DEF HandleInv, TypeOK
<1> HIDE DEF e, n, p
<1>10. LinkedI' = LinkedI \cup {n}
  BY <1>2, <1>5, <1>6, <1>7, <1>8, <1>9 DEF LinkedI, Quiet
<1>11. /\ NextI'[p] = n /\ NextI'[n] = 0 /\ NextI[p] = 0 /\ BackI'[n] = p /\ HomeI'[n] = HomeI[p]
       /\ \A x \in Entries : /\ x # p => NextI'[x] = NextI[x]
                             /\ BackI'[x] = BackI[x] /\ HomeI'[x] = HomeI[x]
  BY <1>2, <1>3, <1>4, <1>5, <1>6, <1>7, <1>8, <1>9 DEF NextI, Links, BackI, HomeI, Quiet
<1>12. ChainsOfRules' /\ RulesInUse'
  BY <1>3, <1>7, <1>8, RulesStay DEF Chains, Quiet
<1>13. ChainsOfNodes'
  <2>1. Chained(LinkedI, NextI, BackI, HomeI)
    BY DEF Chains, ChainsOfNodes
  <2>2. \A x \in LinkedI : HomeI'[x] = HomeI[x] /\ BackI'[x] = BackI[x]
    BY <1>8, <1>11
  <2>3. \A x \in LinkedI : x # p => NextI'[x] = NextI[x]
    BY <1>8, <1>11
  <2>4. n \in Usable \ LinkedI
    BY <1>6, <1>8
  <2>5. Chained(LinkedI \cup {n}, NextI', BackI', HomeI')
    <3>1. /\ ~Base(n) /\ NextI'[n] = 0 /\ p \in LinkedI /\ NextI[p] = 0 /\ NextI'[p] = n
          /\ BackI'[n] = p /\ HomeI'[n] = HomeI[p]
      BY <1>6, <1>11
    <3> QED BY <2>1, <2>2, <2>3, <2>4, <3>1, ChainedLink
  <2>6. Ranked(NextI')
    BY <1>4, <1>6, <1>8, <1>11, LinksType, RankedLink DEF Chains, ChainsOfNodes
  <2>7. \A x \in Entries : x \notin LinkedI' => NextI'[x] = 0
    BY <1>6, <1>7, <1>10, <1>11 DEF Chains, ChainsOfNodes, Quiet
  <2> QED BY <1>7, <1>10, <2>5, <2>6, <2>7 DEF ChainsOfNodes, Quiet
<1>14. RulesNameNodes'
  BY <1>2, <1>3, <1>7, <1>8, <1>9, <1>10 DEF Chains, RulesNameNodes, Live, Node, Quiet
<1>15. NodesNameRules'
  <2>1. \A x \in LinkedI : Node(indx[x].ent) = x /\ Live(indx[x].ent) /\ indx'[x].ent = indx[x].ent
    BY <1>7, <1>8, <1>9 DEF Chains, NodesNameRules, Quiet
  <2> QED BY <1>2, <1>3, <1>5, <1>6, <1>7, <1>9, <1>10, <2>1
        DEF NodesNameRules, Live, Node, Quiet, e
<1>16. Owned'
  BY <1>2, <1>3 DEF Chains, Owned, Live, NamedEntry
<1>17. Adding'
  BY <1>2, <1>3, <1>5, <1>6, <1>9, <1>10 DEF Adding, e, n
<1>18. Removing'
  BY <1>7 DEF Removing, Quiet
<1> QED BY <1>12, <1>13, <1>14, <1>15, <1>16, <1>17, <1>18 DEF Chains

\* The rule is enabled: chains and index nodes were complete before.
LEMMA EnableChains ==
  ASSUME HandleInv, Chains, post_ipv4_dma_cmd, fails' = fails
  PROVE  Chains'
<1> DEFINE e == op.ent
<1>1. fails \in Int
  BY FailAssumption DEF HandleInv, TypeOK
<1>2. /\ pc = "enable" /\ pc' = "make_hdl" /\ Poke(Cmd("rule", e, "enable", 1))
      /\ UNCHANGED <<meta, ruleIds, held, op>>
  BY <1>1 DEF post_ipv4_dma_cmd, DmaFails
<1>3. tbl' = [tbl EXCEPT ![e].enable = (1 = 1)] /\ indx' = indx
  BY <1>2 DEF Poke, Cmd
<1>4. /\ e \in Usable /\ e \in Entries /\ ~tbl[e].enable /\ ~tbl[e].dead /\ Shape
  BY <1>2, Shapes DEF HandleInv, OpAgrees, AddSteps, Shape, Usable
<1>5. op.indx \in LinkedI /\ indx[op.indx].ent = e /\ tbl[e].indx = op.indx
  BY <1>2 DEF Chains, Adding
<1>6. /\ tbl'[e].enable = TRUE /\ tbl'[e].flow = tbl[e].flow /\ tbl'[e].dead = tbl[e].dead
      /\ tbl'[e].next = tbl[e].next /\ tbl'[e].prev = tbl[e].prev /\ tbl'[e].indx = tbl[e].indx
      /\ \A i \in Entries : i # e => tbl'[i] = tbl[i]
  <2>1. tbl \in [Entries -> RuleType] /\ tbl[e] \in RuleType
    BY <1>4 DEF HandleInv, TypeOK
  <2>2. tbl'[e] = [tbl[e] EXCEPT !.enable = (1 = 1)]
    BY <1>3, <1>4, <2>1, Zenon
  <2>3. \A i \in Entries : i # e => tbl'[i] = tbl[i]
    BY <1>3, <2>1, Zenon
  <2> QED BY <2>1, <2>2, <2>3 DEF RuleType
<1> HIDE DEF e
<1>7. \A i \in Entries : /\ tbl'[i].flow = tbl[i].flow /\ tbl'[i].dead = tbl[i].dead
                         /\ tbl'[i].next = tbl[i].next /\ tbl'[i].prev = tbl[i].prev
                         /\ tbl'[i].indx = tbl[i].indx
  BY <1>6
<1>8. Quiet /\ Quiet'
  BY <1>2, QuietPc DEF Quiet, Deleting, GoneR, GoneI, IndexMoved, IndexDone, RuleDone
<1>9. /\ LinkedR' = LinkedR /\ LinkedI' = LinkedI /\ LinkedR \subseteq Entries
      /\ LinkedI \subseteq Entries
  BY <1>2, <1>3, <1>4, <1>6, <1>8 DEF LinkedR, LinkedI, Quiet, e
<1>10. NextR' = NextR /\ BackR' = BackR /\ HomeR' = HomeR /\ HomeI' = HomeI /\ BackI' = BackI
  BY <1>2, <1>3, <1>4, <1>7, <1>8 DEF NextR, Links, BackR, HomeR, HomeI, BackI, Quiet, Shape
<1>11. ChainsOfRules'
  BY <1>8, <1>9, <1>10 DEF Chains, ChainsOfRules, Quiet
<1>12. RulesInUse'
  BY <1>4, <1>6, <1>7, <1>8, <1>9 DEF Chains, RulesInUse, Quiet
<1>13. ChainsOfNodes'
  BY <1>3, <1>8, <1>9, <1>10, NodesStay DEF Chains, Quiet
<1>14. \A i \in Entries : Live(i)' <=> Live(i) \/ i = e
  BY <1>4, <1>6 DEF Live
<1>15. RulesNameNodes'
  BY <1>3, <1>5, <1>7, <1>8, <1>9, <1>14 DEF Chains, RulesNameNodes, Node, Quiet
<1>16. NodesNameRules'
  <2>1. \A x \in LinkedI : /\ Node(indx[x].ent) = x /\ indx[x].ent \in Entries
                           /\ Live(indx[x].ent) \/ indx[x].ent = e
    BY <1>4, <1>8, <1>9 DEF Chains, NodesNameRules, Quiet, Shape, e
  <2> QED BY <1>2, <1>3, <1>7, <1>8, <1>9, <1>14, <2>1 DEF NodesNameRules, Node, Quiet
<1>17. Owned'
  BY <1>2, <1>7, <1>14 DEF Chains, Owned, NamedEntry, e
<1>18. Adding' /\ Removing'
  BY <1>2, <1>8 DEF Adding, Removing, Quiet
<1> QED BY <1>11, <1>12, <1>13, <1>15, <1>16, <1>17, <1>18 DEF Chains

\* The client gets its handle.
LEMMA MakeHandleChains ==
  ASSUME HandleInv, Chains, make_rule_hdl
  PROVE  Chains'
<1> DEFINE e == op.ent
           S == {i \in Handles : ruleIds[i] = 0}
           h == FirstFree(S)
<1>1. /\ pc = "make_hdl" /\ pc' = "idle" /\ held' = [held EXCEPT ![op.flow] = h]
      /\ ruleIds' = IF h = 0 THEN ruleIds ELSE [ruleIds EXCEPT ![h] = RuleId(e)]
      /\ UNCHANGED <<tbl, indx, meta>>
  BY DEF make_rule_hdl
<1>2. /\ e \in Entries /\ op.flow \in Flows /\ held[op.flow] = 0 /\ tbl[e].flow = op.flow
      /\ held \in [Flows -> Handles \cup {0}]
      /\ ruleIds \in [Handles -> 0 .. 2 * (TableEntries + ExpnEntries)]
      /\ op' = NoOp /\ Shape
  BY <1>1, Shapes DEF HandleInv, OpAgrees, AddSteps, TypeOK, make_rule_hdl, Shape
<1>3. h \in Handles /\ ruleIds[h] = 0 /\ h # 0
  <2>1. S \in SUBSET Nat /\ 0 \notin Handles
    BY SizesAssumption DEF Handles
  <2>2. S # {}
    BY FreeSlotExists DEF HandleInv
  <2>3. h \in S
    <3> HIDE DEF S
    <3> QED BY <2>1, <2>2, FirstFreeIsLeast
  <2> QED BY <2>1, <2>3
<1> HIDE DEF h, S
<1>4. Quiet /\ Quiet'
  BY <1>1, QuietPc DEF Quiet, Deleting, GoneR, GoneI, IndexMoved, IndexDone, RuleDone
<1>5. LinkedR' = LinkedR /\ LinkedI' = LinkedI
  BY <1>1, <1>4 DEF LinkedR, LinkedI, Quiet
<1>6. ChainsOfRules' /\ RulesInUse'
  BY <1>1, <1>4, <1>5, RulesStay DEF Chains, Quiet
<1>7. ChainsOfNodes'
  <2>1. HomeI' = HomeI /\ BackI' = BackI
    BY <1>1, <1>4 DEF HomeI, BackI, Quiet
  <2> QED BY <1>1, <1>4, <1>5, <2>1, NodesStay DEF Chains, Quiet
<1>8. RulesNameNodes' /\ NodesNameRules'
  BY <1>1, <1>4, <1>5 DEF Chains, RulesNameNodes, NodesNameRules, Live, Node, Quiet
<1>9. /\ ruleIds'[h] = RuleId(e) /\ held'[op.flow] = h
      /\ \A k \in Handles : k # h => ruleIds'[k] = ruleIds[k]
      /\ \A g \in Flows : g # op.flow => held'[g] = held[g]
  BY <1>1, <1>2, <1>3
<1>10. \A i \in Entries : Live(i) => held'[tbl[i].flow] # 0 /\ NamedEntry(tbl[i].flow)' = i
  <2> SUFFICES ASSUME NEW i \in Entries, Live(i)
               PROVE  held'[tbl[i].flow] # 0 /\ EntryOf(ruleIds'[held'[tbl[i].flow]]) = i
    BY <1>1 DEF NamedEntry
  <2>1. CASE i = e
    BY <1>2, <1>3, <1>9, <2>1, RuleIdExact
  <2>2. CASE i # e
    <3>1. held[tbl[i].flow] # 0 /\ NamedEntry(tbl[i].flow) = i
      BY <2>2 DEF Chains, Owned
    <3>2. tbl[i].flow \in Flows
      BY <1>4 DEF Chains, RulesInUse, LinkedR, Live, Quiet
    <3>3. tbl[i].flow # op.flow
      BY <1>2, <3>1
    <3>4. held[tbl[i].flow] \in Handles /\ ruleIds[held[tbl[i].flow]] # 0
      BY <3>1, <3>2, HeldFacts
    <3> QED BY <1>3, <1>9, <3>1, <3>2, <3>3, <3>4 DEF NamedEntry
  <2> QED BY <2>1, <2>2
<1>11. \A k \in Handles : ruleIds'[k] # 0 => \E f \in Flows : held'[f] = k
  <2> SUFFICES ASSUME NEW k \in Handles, ruleIds'[k] # 0 PROVE \E f \in Flows : held'[f] = k
    OBVIOUS
  <2>1. CASE k = h
    BY <1>2, <1>9, <2>1
  <2>2. CASE k # h
    <3>1. PICK f \in Flows : held[f] = k
      BY <1>9, <2>2 DEF Chains, Owned
    <3>2. k # 0
      BY SizesAssumption DEF Handles
    <3> QED BY <1>2, <1>9, <3>1, <3>2
  <2> QED BY <2>1, <2>2
<1>12. Owned'
  BY <1>1, <1>10, <1>11 DEF Owned, Live
<1>13. Adding' /\ Removing'
  BY <1>1, <1>4 DEF Adding, Removing, Quiet
<1> QED BY <1>6, <1>7, <1>8, <1>12, <1>13 DEF Chains

-----------------------------------------------------------------------------
(* Deletions *)

\* The position of an entry, as rule_pos tells it.
LEMMA PosIsRight ==
  ASSUME NEW t, NEW i \in Entries
  PROVE  PosAgrees(rule_pos(t, i), i, t[i].next)
<1>1. Base(i) <=> ~(i >= TableEntries)
  BY SizesAssumption, Numbers DEF Base
<1> QED BY <1>1 DEF PosAgrees, rule_pos

LEMMA Joined ==
  ASSUME NEW a, NEW b, NEW c
  PROVE  <<a, b>> \o <<c>> = <<a, b, c>> /\ <<a>> \o <<c>> = <<a, c>>
<1> DEFINE S == {a, b, c}
<1>1. <<a, b>> \in Seq(S) /\ <<a>> \in Seq(S) /\ <<c>> \in Seq(S) /\ <<a, b, c>> \in Seq(S)
      /\ <<a, c>> \in Seq(S)
  OBVIOUS
<1>2. <<a, b>> \o <<c>> \in Seq(S) /\ <<a>> \o <<c>> \in Seq(S)
      /\ Len(<<a, b>> \o <<c>>) = 3 /\ Len(<<a>> \o <<c>>) = 2
  BY <1>1, ConcatProperties
<1>3. /\ (<<a, b>> \o <<c>>)[1] = a /\ (<<a, b>> \o <<c>>)[2] = b /\ (<<a, b>> \o <<c>>)[3] = c
      /\ (<<a>> \o <<c>>)[1] = a /\ (<<a>> \o <<c>>)[2] = c
  BY <1>1, ConcatProperties
<1>4. \A i \in 1 .. 3 : (<<a, b>> \o <<c>>)[i] = <<a, b, c>>[i]
  BY <1>3
<1>5. \A i \in 1 .. 2 : (<<a>> \o <<c>>)[i] = <<a, c>>[i]
  BY <1>3
<1>6. <<a, b>> \o <<c>> = <<a, b, c>>
  <2> DEFINE s == <<a, b>> \o <<c>>
             t == <<a, b, c>>
  <2>1. s \in Seq(S) /\ t \in Seq(S) /\ Len(s) = 3 /\ Len(t) = 3
    BY <1>1, <1>2
  <2>2. \A i \in 1 .. 3 : s[i] = t[i]
    BY <1>4
  <2> HIDE DEF s, t, S
  <2>3. s = t
    BY <2>1, <2>2, SeqEqual
  <2> QED BY <2>3 DEF s, t
<1>7. <<a>> \o <<c>> = <<a, c>>
  <2> DEFINE s == <<a>> \o <<c>>
             t == <<a, c>>
  <2>1. s \in Seq(S) /\ t \in Seq(S) /\ Len(s) = 2 /\ Len(t) = 2
    BY <1>1, <1>2
  <2>2. \A i \in 1 .. 2 : s[i] = t[i]
    BY <1>5
  <2> HIDE DEF s, t, S
  <2>3. s = t
    BY <2>1, <2>2, SeqEqual
  <2> QED BY <2>3 DEF s, t
<1> QED BY <1>6, <1>7

\* What is left of a batch after a command.
LEMMA TailOf ==
  ASSUME NEW a, NEW b, NEW c
  PROVE  /\ Head(<<a, b, c>>) = a /\ Tail(<<a, b, c>>) = <<b, c>>
         /\ Head(<<a, b>>) = a /\ Tail(<<a, b>>) = <<b>>
         /\ Head(<<a>>) = a /\ Tail(<<a>>) = <<>>
OBVIOUS

\* The batch of a deletion is composed.
LEMMA PostDeleteChains ==
  ASSUME HandleInv, Chains, NEW f \in Flows, post_del_dma_cmd(f), fails' = fails
  PROVE  Chains'
<1> DEFINE e == parse_ipv4_rule_hdl(held[f])
           x == tbl[e].indx
           n == indx[x].next
           ruleCmd == IF rule_pos(tbl, e) = "only_one" THEN Cmd("rule", e, "enable", 0)
                      ELSE IF rule_pos(tbl, e) = "head" THEN Cmd("rule", e, "proto", 255)
                      ELSE Cmd("rule", tbl[e].prev, "next", tbl[e].next)
           nodeCmd == IF rule_pos(indx, x) = "only_one" THEN Cmd("indx", x, "ent", 0)
                      ELSE Cmd("indx", meta[x], "next", n)
           takeCmd == Cmd("indx", x, "ent", indx[n].ent)
           skipCmd == Cmd("indx", x, "next", indx[n].next)
           cs == ReorderCmds(RuleCmds(e), IndexCmds(x))
<1>1. fails \in Int
  BY FailAssumption DEF HandleInv, TypeOK
<1>2. /\ pc = "idle" /\ pc' = "dma" /\ held[f] # 0
      /\ op' = [NoOp EXCEPT !.kind = "del", !.flow = f, !.ent = e, !.indx = x,
                            !.inext = n, !.pos = rule_pos(tbl, e),
                            !.ipos = rule_pos(indx, x), !.cmds = cs]
      /\ UNCHANGED <<tbl, indx, meta, ruleIds, held>>
  BY <1>1 DEF post_del_dma_cmd, DmaFails
<1>3. op.kind = "none" /\ Shape
  BY <1>2, Shapes DEF HandleInv, OpAgrees
<1>4. e = NamedEntry(f) /\ e \in Usable /\ e \in Entries /\ Live(e)
  BY <1>2, <1>3, HeldFacts DEF Established, Usable, Live
<1>5. Quiet
  BY <1>2, QuietPc DEF Deleting
<1>6. x \in LinkedI /\ indx[x].ent = e /\ x \in Usable /\ x \in Entries
  <2>1. x \in LinkedI /\ indx[x].ent = e
    BY <1>4, <1>5 DEF Chains, RulesNameNodes, Node, Quiet
  <2>2. LinkedI \subseteq Usable
    BY DEF Chains, ChainsOfNodes, Chained
  <2>3. x \in Usable
    BY <2>1, <2>2
  <2> QED BY <2>1, <2>3 DEF Usable
<1>7. RuleCmds(e) = <<ruleCmd>>
  BY DEF RuleCmds
<1>8. IndexCmds(x) = IF rule_pos(indx, x) = "head" THEN <<takeCmd, skipCmd>> ELSE <<nodeCmd>>
  <2>1. "head" # "only_one"
    OBVIOUS
  <2> QED BY <2>1, Zenon DEF IndexCmds
<1> HIDE DEF ruleCmd, nodeCmd, takeCmd, skipCmd
<1>9. cs = IF rule_pos(indx, x) = "head" THEN <<takeCmd, skipCmd, ruleCmd>>
           ELSE <<nodeCmd, ruleCmd>>
  <2>1. cs = IndexCmds(x) \o RuleCmds(e)
    BY DEF ReorderCmds
  <2>2. /\ <<takeCmd, skipCmd>> \o <<ruleCmd>> = <<takeCmd, skipCmd, ruleCmd>>
        /\ <<nodeCmd>> \o <<ruleCmd>> = <<nodeCmd, ruleCmd>>
    BY Joined
  <2> HIDE DEF cs
  <2> QED BY <1>7, <1>8, <2>1, <2>2
<1> HIDE DEF cs, e
<1>10. /\ op'.ent = e /\ op'.indx = x /\ op'.inext = n /\ op'.cmds = cs
       /\ op'.pos = rule_pos(tbl, e) /\ op'.ipos = rule_pos(indx, x)
  <2> HIDE DEF x, n
  <2> QED BY <1>2 DEF NoOp
<1>11. IF op'.ipos = "head" THEN Len(op'.cmds) = 3 ELSE Len(op'.cmds) = 2
  BY <1>9, <1>10
<1>12. /\ ~IndexDone' /\ ~IndexMoved' /\ ~RuleDone' /\ GoneR' = {} /\ GoneI' = {}
  <2> DEFINE m == Len(op'.cmds)
  <2>0. IF op'.ipos = "head" THEN m = 3 ELSE m = 2
    BY <1>11
  <2> HIDE DEF m
  <2>1. op'.ipos = "head" => ~(m <= 2)
    BY <2>0
  <2>2. ~(m <= 1) /\ m # 0
    BY <2>0
  <2> USE DEF m
  <2>3. ~IndexDone' /\ ~IndexMoved' /\ ~RuleDone'
    BY <2>1, <2>2 DEF IndexDone, IndexMoved, RuleDone
  <2> QED BY <2>3 DEF GoneR, GoneI
<1>13. LinkedR' = LinkedR /\ LinkedI' = LinkedI
  BY <1>2, <1>5, <1>12 DEF LinkedR, LinkedI, Quiet
<1>14. ChainsOfRules' /\ RulesInUse'
  BY <1>2, <1>5, <1>12, <1>13, RulesStay DEF Chains, Quiet
<1>15. ChainsOfNodes'
  <2>1. HomeI' = HomeI /\ BackI' = BackI
    BY <1>2, <1>5, <1>12 DEF HomeI, BackI, Quiet
  <2> QED BY <1>2, <1>5, <1>12, <1>13, <2>1, NodesStay DEF Chains, Quiet
<1>16. RulesNameNodes' /\ NodesNameRules'
  BY <1>2, <1>5, <1>12, <1>13 DEF Chains, RulesNameNodes, NodesNameRules, Live, Node, Quiet
<1>17. Owned' /\ Adding'
  BY <1>2 DEF Chains, Owned, Live, NamedEntry, Adding
<1>18. Batch'
  <2>1. RuleCmd' = ruleCmd
    BY <1>2, <1>10 DEF RuleCmd, ruleCmd
  <2>2. NodeCmd' = nodeCmd
    BY <1>2, <1>10 DEF NodeCmd, nodeCmd
  <2>3. TakeCmd' = takeCmd /\ SkipCmd' = skipCmd
    BY <1>2, <1>10 DEF TakeCmd, SkipCmd, takeCmd, skipCmd
  <2> HIDE DEF x, n
  <2> QED BY <1>9, <1>10, <2>1, <2>2, <2>3 DEF Batch
<1>19. NodeLeaves'
  <2>1. PosAgrees(op'.ipos, op'.indx, op'.inext)
    BY <1>6, <1>10, PosIsRight
  <2> QED BY <1>2, <1>6, <1>10, <1>12, <1>13, <2>1 DEF NodeLeaves, PosAgrees
<1>20. RuleLeaves'
  <2>1. PosAgrees(op'.pos, op'.ent, tbl'[op'.ent].next)
    BY <1>2, <1>4, <1>10, PosIsRight
  <2>2. Live(op.ent)'
    BY <1>2, <1>4, <1>10 DEF Live
  <2> QED BY <1>2, <1>4, <1>10, <1>12, <2>1 DEF RuleLeaves, PosAgrees, Live
<1> QED BY <1>14, <1>15, <1>16, <1>17, <1>18, <1>19, <1>20 DEF Chains, Removing

\* What every command of a batch leaves alone.
Executing ==
  /\ pc = "dma" /\ pc' = "dma"
  /\ op'.ent = op.ent /\ op'.indx = op.indx /\ op'.inext = op.inext /\ op'.flow = op.flow
  /\ op'.pos = op.pos /\ op'.ipos = op.ipos
  /\ UNCHANGED <<meta, ruleIds, held>>

LEMMA DmaCommand ==
  ASSUME HandleInv, Chains, dma_step
  PROVE  /\ Executing
         /\ \/ /\ op.ipos = "head" /\ op.cmds = <<TakeCmd, SkipCmd, RuleCmd>>
               /\ op'.cmds = <<SkipCmd, RuleCmd>> /\ Poke(TakeCmd)
            \/ /\ op.ipos = "head" /\ op.cmds = <<SkipCmd, RuleCmd>>
               /\ op'.cmds = <<RuleCmd>> /\ Poke(SkipCmd)
            \/ /\ op.ipos # "head" /\ op.cmds = <<NodeCmd, RuleCmd>>
               /\ op'.cmds = <<RuleCmd>> /\ Poke(NodeCmd)
            \/ /\ op.cmds = <<RuleCmd>> /\ op'.cmds = <<>> /\ Poke(RuleCmd)
<1>1. /\ pc = "dma" /\ op.cmds # <<>> /\ Poke(Head(op.cmds)) /\ op' = [op EXCEPT !.cmds = Tail(@)]
      /\ UNCHANGED <<meta, ruleIds, held, pc>>
  BY DEF dma_step
<1>2. op \in OpType
  BY DEF HandleInv, TypeOK
<1>3. Executing /\ op'.cmds = Tail(op.cmds)
  BY <1>1, <1>2 DEF OpType, Executing
<1>4. Batch
  BY <1>1 DEF Chains, Removing, Deleting
<1>5. CASE op.cmds = <<TakeCmd, SkipCmd, RuleCmd>> /\ op.ipos = "head"
  BY <1>1, <1>3, <1>5, TailOf
<1>6. CASE op.cmds = <<SkipCmd, RuleCmd>> /\ op.ipos = "head"
  BY <1>1, <1>3, <1>6, TailOf
<1>7. CASE op.cmds = <<NodeCmd, RuleCmd>> /\ op.ipos # "head"
  BY <1>1, <1>3, <1>7, TailOf
<1>8. CASE op.cmds = <<RuleCmd>>
  BY <1>1, <1>3, <1>8, TailOf
<1> QED BY <1>1, <1>4, <1>5, <1>6, <1>7, <1>8 DEF Batch

\* The index commands of a batch leave the rules alone.
LEMMA IndexCommandRules ==
  ASSUME HandleInv, Chains, Executing, tbl' = tbl, ~RuleDone, ~RuleDone'
  PROVE  /\ LinkedR' = LinkedR /\ GoneR' = GoneR
         /\ ChainsOfRules' /\ RulesInUse' /\ Owned' /\ Adding' /\ RuleLeaves'
         /\ tbl[op.ent].indx = op.indx /\ Live(op.ent)
<1>1. GoneR = {} /\ GoneR' = {}
  BY DEF GoneR
<1>2. LinkedR' = LinkedR
  BY <1>1 DEF LinkedR, Executing
<1>3. ChainsOfRules' /\ RulesInUse'
  BY <1>1, <1>2, RulesStay DEF Chains
<1>4. Owned' /\ Adding'
  BY DEF Chains, Owned, Live, NamedEntry, Adding, Executing
<1>5. RuleLeaves
  BY DEF Chains, Removing, Deleting, Executing
<1>6. RuleLeaves'
  BY <1>5 DEF RuleLeaves, PosAgrees, Live, Executing
<1> QED BY <1>1, <1>2, <1>3, <1>4, <1>5, <1>6 DEF RuleLeaves

\* The head of the index chain takes over the rule of the node after it.
LEMMA TakeChains ==
  ASSUME HandleInv, Chains, Executing, op.ipos = "head", op.cmds = <<TakeCmd, SkipCmd, RuleCmd>>,
         op'.cmds = <<SkipCmd, RuleCmd>>, Poke(TakeCmd)
  PROVE  Chains'
<1> DEFINE e == op.ent
           x == op.indx
           n == op.inext
           m == indx[n].ent
<1>1. tbl' = tbl /\ indx' = [indx EXCEPT ![x].ent = m]
  BY DEF Poke, TakeCmd, Cmd
<1>2. /\ Deleting /\ Deleting' /\ ~IndexMoved /\ ~IndexDone /\ ~RuleDone
      /\ IndexMoved' /\ ~IndexDone' /\ ~RuleDone'
      /\ GoneI = {} /\ GoneI' = {} /\ GoneR = {} /\ GoneR' = {}
  BY DEF Executing, Deleting, IndexMoved, IndexDone, RuleDone, GoneI, GoneR
<1>3. NodeLeaves /\ Shape
  BY <1>2, Shapes DEF Chains, Removing, HandleInv
<1>4. /\ x \in Usable /\ x \in Entries /\ x \in LinkedI /\ indx[x].next = n /\ indx[x].ent = e
      /\ n # 0 /\ Base(x)
  BY <1>2, <1>3, Numbers DEF NodeLeaves, PosAgrees
<1>5. /\ LinkedR' = LinkedR /\ GoneR' = GoneR
      /\ ChainsOfRules' /\ RulesInUse' /\ Owned' /\ Adding' /\ RuleLeaves'
      /\ tbl[e].indx = x /\ Live(e)
  BY <1>1, <1>2, IndexCommandRules
<1>6. Chained(LinkedI, NextI, BackI, HomeI)
  BY DEF Chains, ChainsOfNodes
<1>7. /\ n \in LinkedI /\ ~Base(n) /\ n \in Usable /\ n \in Entries
      /\ BackI[n] = x /\ HomeI[n] = HomeI[x]
  <2>1. NextI[x] = n
    BY <1>4 DEF NextI, Links
  <2>2. n \in LinkedI /\ ~Base(n) /\ BackI[n] = x /\ HomeI[n] = HomeI[x]
    BY <1>4, <1>6, <2>1 DEF Chained
  <2> QED BY <1>6, <2>2, Numbers DEF Chained
<1>8. meta[n] = x /\ n # x
  BY <1>2, <1>4, <1>7 DEF BackI
<1>9. LinkedI = {y \in Entries : indx[y].ent # 0}
  BY <1>2 DEF LinkedI, Executing
<1>10. m \in Entries /\ m # 0 /\ Node(m) = n /\ Live(m) /\ tbl[m].indx = n
  BY <1>2, <1>3, <1>7, <1>9 DEF Chains, NodesNameRules, Node, Shape, Executing
<1>11. m # e
  BY <1>5, <1>8, <1>10
<1>12. /\ indx'[x].ent = m
       /\ \A y \in Entries : /\ y # x => indx'[y].ent = indx[y].ent
                             /\ indx'[y].next = indx[y].next
  <2>1. indx \in [Entries -> [ent : Entries, next : Entries]]
    BY DEF HandleInv, TypeOK
  <2> HIDE DEF x, m
  <2> QED BY <1>1, <1>4, <2>1
<1> HIDE DEF e, x, n, m
<1>13. LinkedI' = LinkedI
  BY <1>2, <1>4, <1>9, <1>10, <1>12 DEF LinkedI, Executing
<1>14. NextI' = NextI /\ BackI' = BackI
  BY <1>2, <1>12 DEF NextI, Links, BackI, Executing
<1>15. \A y \in Entries : HomeI'[y] = HomeI[y]
  <2>1. \A y \in Entries : y # x => HomeI'[y] = HomeI[y]
    BY <1>1, <1>12 DEF HomeI
  <2>2. HomeI'[x] = src_hash(tbl[m].flow) /\ HomeI[n] = src_hash(tbl[m].flow)
    BY <1>1, <1>4, <1>7, <1>12 DEF HomeI, m
  <2> QED BY <1>7, <2>1, <2>2
<1>16. ChainsOfNodes'
  <2>1. \A y \in LinkedI : y \in Entries
    BY <1>9
  <2>2. Chained(LinkedI, NextI, BackI, HomeI')
    BY <1>6, <1>15, <2>1, ChainedAlike
  <2> QED BY <1>2, <1>13, <1>14, <2>2 DEF Chains, ChainsOfNodes
<1>17. \A i \in Entries : Node(i)' = IF tbl[i].indx = n THEN x ELSE tbl[i].indx
  BY <1>1, <1>2 DEF Node, n, x, Executing
<1>18. RulesNameNodes'
  <2> SUFFICES ASSUME NEW i \in Entries, Live(i), i # e
               PROVE  Node(i)' \in LinkedI /\ indx'[Node(i)'].ent = i
    BY <1>1, <1>2, <1>13 DEF RulesNameNodes, Live, e, Executing
  <2>1. tbl[i].indx \in LinkedI /\ indx[tbl[i].indx].ent = i
    BY <1>2 DEF Chains, RulesNameNodes, Node, e
  <2>2. CASE tbl[i].indx = n
    BY <1>4, <1>12, <1>17, <2>1, <2>2 DEF m
  <2>3. CASE tbl[i].indx # n
    <3>1. Node(i)' = tbl[i].indx /\ tbl[i].indx # x
      BY <1>4, <1>17, <2>1, <2>3
    <3> QED BY <1>9, <1>12, <2>1, <3>1
  <2> QED BY <2>2, <2>3
<1>19. NodesNameRules'
  <2> SUFFICES ASSUME NEW y \in LinkedI, y # n
               PROVE  /\ y = IF tbl[indx'[y].ent].indx = n THEN x ELSE tbl[indx'[y].ent].indx
                      /\ Live(indx'[y].ent)
    BY <1>1, <1>2, <1>13 DEF NodesNameRules, Node, Live, n, x, Executing
  <2>1. CASE y = x
    BY <1>10, <1>12, <2>1
  <2>2. CASE y # x
    <3>1. /\ indx[y].ent \in Entries /\ tbl[indx[y].ent].indx = y /\ Live(indx[y].ent)
          /\ indx'[y].ent = indx[y].ent
      BY <1>2, <1>3, <1>9, <1>12, <2>2 DEF Chains, NodesNameRules, Node, Shape, Executing
    <3> QED BY <3>1
  <2> QED BY <2>1, <2>2
<1>20. NodeLeaves'
  <2>1. /\ op'.indx = x /\ op'.ent = e /\ op'.inext = n /\ op'.ipos = op.ipos /\ meta' = meta
    BY DEF Executing, x, e, n
  <2>2. PosAgrees(op.ipos, x, n)
    BY <1>3 DEF NodeLeaves, x, n
  <2> QED BY <1>2, <1>4, <1>7, <1>8, <1>11, <1>12, <1>13, <2>1, <2>2 DEF NodeLeaves, m, PosAgrees
<1>21. Batch'
  <2>1. SkipCmd' = SkipCmd
    BY <1>7, <1>12 DEF SkipCmd, Executing, n
  <2>2. RuleCmd' = RuleCmd
    BY <1>1 DEF RuleCmd, Executing
  <2> QED BY <2>1, <2>2 DEF Batch, Executing
<1> QED BY <1>5, <1>16, <1>18, <1>19, <1>20, <1>21 DEF Chains, Removing

\* The node after the head is left out.
LEMMA SkipChains ==
  ASSUME HandleInv, Chains, Executing, op.ipos = "head", op.cmds = <<SkipCmd, RuleCmd>>,
         op'.cmds = <<RuleCmd>>, Poke(SkipCmd)
  PROVE  Chains'
<1> DEFINE e == op.ent
           x == op.indx
           n == op.inext
           s == indx[n].next
<1>1. tbl' = tbl /\ indx' = [indx EXCEPT ![x].next = s]
  BY DEF Poke, SkipCmd, Cmd
<1>2. /\ Deleting /\ Deleting' /\ IndexMoved /\ ~IndexDone /\ ~RuleDone
      /\ IndexMoved' /\ IndexDone' /\ ~RuleDone'
      /\ GoneI = {} /\ GoneI' = {n} /\ GoneR = {} /\ GoneR' = {}
  BY DEF Executing, Deleting, IndexMoved, IndexDone, RuleDone, GoneI, GoneR
<1>3. NodeLeaves /\ Shape
  BY <1>2, Shapes DEF Chains, Removing, HandleInv
<1>4. /\ x \in Usable /\ x \in Entries /\ x \in LinkedI /\ indx[x].next = n
      /\ n # 0 /\ n \in Usable /\ n \in Entries /\ ~Base(n) /\ Base(x) /\ meta[n] = x
      /\ indx[x].ent = indx[n].ent /\ indx[x].ent # e
  BY <1>2, <1>3, Numbers DEF NodeLeaves, PosAgrees
<1>5. /\ LinkedR' = LinkedR /\ GoneR' = GoneR
      /\ ChainsOfRules' /\ RulesInUse' /\ Owned' /\ Adding' /\ RuleLeaves'
  BY <1>1, <1>2, IndexCommandRules
<1>6. Chained(LinkedI, NextI, BackI, HomeI)
  BY DEF Chains, ChainsOfNodes
<1>7. n # x /\ s \in Entries
  BY <1>3, <1>4 DEF Shape
<1>8. /\ indx'[x].next = s
      /\ \A y \in Entries : /\ y # x => indx'[y].next = indx[y].next
                            /\ indx'[y].ent = indx[y].ent
  <2> HIDE DEF x, s
  <2> QED BY <1>1, <1>4, NodeLinkWritten DEF HandleInv, TypeOK
<1>9. LinkedI = {y \in Entries : indx[y].ent # 0}
  BY <1>2 DEF LinkedI, Executing
<1> HIDE DEF e, x, n, s
<1>10. LinkedI' = LinkedI \ {n}
  BY <1>2, <1>8, <1>9 DEF LinkedI, Executing
<1>11. /\ NextI[x] = n /\ NextI[n] = s /\ NextI'[x] = s
       /\ \A y \in Entries : /\ y # x => NextI'[y] = NextI[y]
                             /\ HomeI'[y] = HomeI[y]
                             /\ BackI[y] = meta[y]
                             /\ BackI'[y] = IF meta[y] = n THEN x ELSE meta[y]
  BY <1>1, <1>2, <1>3, <1>4, <1>8 DEF NextI, Links, HomeI, BackI, s, Executing, Shape
<1>12. n \in LinkedI
  BY <1>4, <1>6, <1>11 DEF Chained
<1>13. ChainsOfNodes'
  <2>1. BackI[n] = x /\ NextI[n] # n
    BY <1>4, <1>6, <1>7, <1>11, <1>12 DEF Chained
  <2>2. s # 0 => BackI'[s] = x
    BY <1>4, <1>6, <1>7, <1>11, <1>12 DEF Chained
  <2>3. \A y \in LinkedI \ {n} : HomeI'[y] = HomeI[y] /\ (y # x => NextI'[y] = NextI[y])
    BY <1>9, <1>11
  <2>4. \A y \in LinkedI \ {n} : y # s /\ ~Base(y) => BackI'[y] = BackI[y]
    <3> SUFFICES ASSUME NEW y \in LinkedI \ {n}, y # s, ~Base(y) PROVE BackI'[y] = BackI[y]
      OBVIOUS
    <3>1. NextI[BackI[y]] = y
      BY <1>6 DEF Chained
    <3>2. BackI[y] # n
      BY <1>11, <3>1
    <3> QED BY <1>9, <1>11, <3>2
  <2>5. Chained(LinkedI \ {n}, NextI', BackI', HomeI')
    <3>1. NextI'[BackI[n]] = NextI[n] /\ (NextI[n] # 0 => BackI'[NextI[n]] = BackI[n])
      BY <1>11, <2>1, <2>2
    <3>2. \A y \in LinkedI \ {n} : HomeI'[y] = HomeI[y] /\ (y # BackI[n] => NextI'[y] = NextI[y])
      BY <2>1, <2>3
    <3>3. \A y \in LinkedI \ {n} : y # NextI[n] /\ ~Base(y) => BackI'[y] = BackI[y]
      BY <1>11, <2>4
    <3>4. Bypassed(LinkedI, NextI, BackI, HomeI, NextI', BackI', HomeI', n)
      BY <1>4, <1>12, <2>1, <3>1, <3>2, <3>3 DEF Bypassed
    <3> QED BY <1>6, <3>4, ChainedBypass
  <2>6. Ranked(NextI')
    <3>1. \A y \in Entries : \/ NextI'[y] = NextI[y]
                             \/ NextI[y] # 0 /\ NextI'[y] = NextI[NextI[y]]
      BY <1>4, <1>11
    <3> QED BY <1>3, <3>1, LinksType, RankedKept DEF Chains, ChainsOfNodes
  <2>7. \A y \in Entries : y \notin LinkedI' \cup {n} => NextI'[y] = 0
    BY <1>2, <1>4, <1>10, <1>11 DEF Chains, ChainsOfNodes
  <2> QED BY <1>2, <1>10, <2>5, <2>6, <2>7 DEF ChainsOfNodes
<1>14. \A r \in Entries : Node(r)' = Node(r) /\ Node(r) # n
  BY <1>1, <1>2, <1>7 DEF Node, Executing, n, x
<1>15. RulesNameNodes'
  BY <1>1, <1>2, <1>8, <1>9, <1>10, <1>14 DEF Chains, RulesNameNodes, Live, e, Executing
<1>16. NodesNameRules'
  BY <1>1, <1>2, <1>8, <1>9, <1>10, <1>14 DEF Chains, NodesNameRules, Live, Node, n, Executing
<1>17. NodeLeaves'
  <2>1. /\ op'.indx = x /\ op'.ent = e /\ op'.inext = n /\ op'.ipos = "head" /\ meta' = meta
    BY DEF Executing, x, e, n
  <2>2. PosAgrees("head", x, n)
    BY <1>3 DEF NodeLeaves, x, n
  <2>3. indx'[x].next = indx'[n].next /\ indx'[x].ent = indx'[n].ent /\ indx'[x].ent # e
    BY <1>4, <1>7, <1>8 DEF s
  <2>4. x \in LinkedI'
    BY <1>4, <1>7, <1>10
  <2> QED BY <1>2, <1>4, <2>1, <2>2, <2>3, <2>4 DEF NodeLeaves, PosAgrees
<1>18. Batch'
  BY <1>1 DEF Batch, RuleCmd, Executing
<1> QED BY <1>5, <1>13, <1>15, <1>16, <1>17, <1>18 DEF Chains, Removing

\* A node alone in its bucket is cleared, any other in the expansion half is left out.
LEMMA NodeCommandChains ==
  ASSUME HandleInv, Chains, Executing, op.ipos # "head", op.cmds = <<NodeCmd, RuleCmd>>,
         op'.cmds = <<RuleCmd>>, Poke(NodeCmd)
  PROVE  Chains'
<1> DEFINE e == op.ent
           x == op.indx
           n == op.inext
           p == meta[x]
<1>1. tbl' = tbl
  BY DEF Poke, NodeCmd, Cmd
<1>2. /\ Deleting /\ Deleting' /\ ~IndexMoved /\ ~IndexDone /\ ~RuleDone
      /\ ~IndexMoved' /\ IndexDone' /\ ~RuleDone'
      /\ GoneI = {} /\ GoneI' = IF op.ipos = "only_one" THEN {} ELSE {x}
  BY DEF Executing, Deleting, IndexMoved, IndexDone, RuleDone, GoneI
<1>3. NodeLeaves /\ Shape
  BY <1>2, Shapes DEF Chains, Removing, HandleInv
<1>4. /\ x \in Usable /\ x \in Entries /\ x # 0 /\ x \in LinkedI /\ indx[x].next = n
      /\ indx[x].ent = e /\ PosAgrees(op.ipos, x, n) /\ e # 0
  BY <1>2, <1>3, Numbers, DeletedEntry DEF NodeLeaves
<1>5. /\ LinkedR' = LinkedR /\ GoneR' = GoneR
      /\ ChainsOfRules' /\ RulesInUse' /\ Owned' /\ Adding' /\ RuleLeaves'
      /\ tbl[e].indx = x
  BY <1>1, <1>2, IndexCommandRules
<1>6. Chained(LinkedI, NextI, BackI, HomeI)
  BY DEF Chains, ChainsOfNodes
<1>7. LinkedI = {y \in Entries : indx[y].ent # 0}
  BY <1>2 DEF LinkedI, Executing
<1>8. NextI[x] = n /\ BackI[x] = p /\ \A y \in Entries : BackI[y] = meta[y]
  BY <1>2, <1>4 DEF NextI, Links, BackI
<1>9. \A r \in Entries : Node(r) = tbl[r].indx /\ Node(r)' = tbl[r].indx
  BY <1>1, <1>2 DEF Node
<1>10. op.ipos = "only_one" \/ op.ipos \in {"middle", "last"}
  BY <1>4 DEF PosAgrees
<1>11. /\ LinkedI' = LinkedI \ {x} /\ ChainsOfNodes'
       /\ \A y \in LinkedI' : indx'[y].ent = indx[y].ent
       /\ op.ipos # "only_one" => p \in LinkedI' /\ indx'[p].next = n
  <2>1. CASE op.ipos = "only_one"
    <3>1. indx' = [indx EXCEPT ![x].ent = 0]
      BY <2>1 DEF Poke, NodeCmd, Cmd
    <3>2. /\ indx'[x].ent = 0
          /\ \A y \in Entries : /\ y # x => indx'[y].ent = indx[y].ent
                                /\ indx'[y].next = indx[y].next
      <4>1. indx \in [Entries -> [ent : Entries, next : Entries]]
        BY DEF HandleInv, TypeOK
      <4> HIDE DEF x
      <4> QED BY <1>4, <3>1, <4>1
    <3>3. LinkedI' = LinkedI \ {x}
      BY <1>2, <1>7, <2>1, <3>2 DEF LinkedI, Executing
    <3>4. Base(x) /\ n = 0
      BY <1>4, <2>1 DEF PosAgrees
    <3> HIDE DEF e, x, n, p
    <3>5. NextI' = NextI /\ BackI' = BackI
      BY <1>2, <2>1, <3>2 DEF NextI, Links, BackI, Executing
    <3>6. \A y \in LinkedI \ {x} : HomeI'[y] = HomeI[y]
      BY <1>1, <1>7, <3>2 DEF HomeI
    <3>7. Chained(LinkedI \ {x}, NextI', BackI', HomeI')
      <4>1. \A i \in {x} : Base(i) /\ NextI[i] = 0
        BY <1>8, <3>4
      <4>2. Cleared(LinkedI, NextI, BackI, HomeI, NextI', BackI', HomeI', {x})
        BY <1>4, <3>5, <3>6, <4>1 DEF Cleared
      <4> QED BY <1>6, <4>2, ChainedLess
    <3>8. ChainsOfNodes'
      BY <1>2, <1>8, <2>1, <3>3, <3>4, <3>5, <3>7 DEF Chains, ChainsOfNodes
    <3> QED BY <1>7, <2>1, <3>2, <3>3, <3>8
  <2>2. CASE op.ipos \in {"middle", "last"}
    <3>1. indx' = [indx EXCEPT ![p].next = n]
      BY <2>2 DEF Poke, NodeCmd, Cmd
    <3>2. ~Base(x) /\ GoneI' = {x}
      BY <1>2, <1>4, <2>2 DEF PosAgrees
    <3> HIDE DEF e, x, n, p
    <3>3. p \in LinkedI /\ NextI[p] = x /\ p \in Entries
      BY <1>4, <1>6, <1>7, <1>8, <3>2 DEF Chained
    <3>4. /\ indx'[p].next = n
          /\ \A y \in Entries : /\ y # p => indx'[y].next = indx[y].next
                                /\ indx'[y].ent = indx[y].ent
      BY <3>1, <3>3, NodeLinkWritten DEF HandleInv, TypeOK
    <3>5. LinkedI' = LinkedI \ {x}
      BY <1>2, <1>7, <3>2, <3>4 DEF LinkedI, Executing
    <3>6. NextI[x] # x
      <4>1. PICK r : RankedBy(r, NextI)
        BY DEF Chains, ChainsOfNodes, Ranked
      <4>2. NextI[x] # 0 => r[x] < r[NextI[x]] /\ r[x] \in Nat
        BY <1>4, <4>1 DEF RankedBy
      <4> QED BY <1>4, <4>2
    <3>7. p # x
      BY <3>3, <3>6
    <3>8. /\ NextI'[p] = n
          /\ \A y \in Entries : /\ y # p => NextI'[y] = NextI[y]
                                /\ HomeI'[y] = HomeI[y]
                                /\ BackI'[y] = IF meta[y] = x THEN p ELSE meta[y]
      BY <1>1, <1>2, <1>3, <3>2, <3>3, <3>4 DEF NextI, Links, HomeI, BackI, Executing, Shape, p
    <3>9. ChainsOfNodes'
      <4>1. NextI'[BackI[x]] = NextI[x] /\ (NextI[x] # 0 => BackI'[NextI[x]] = BackI[x])
        BY <1>3, <1>4, <1>6, <1>8, <3>8 DEF Chained, NodeLeaves, Shape, n, x
      <4>2. \A y \in LinkedI \ {x} : HomeI'[y] = HomeI[y] /\ (y # BackI[x] => NextI'[y] = NextI[y])
        BY <1>7, <1>8, <3>8
      <4>3. \A y \in LinkedI \ {x} : y # NextI[x] /\ ~Base(y) => BackI'[y] = BackI[y]
        <5> SUFFICES ASSUME NEW y \in LinkedI \ {x}, y # NextI[x], ~Base(y)
                     PROVE  BackI'[y] = BackI[y]
          OBVIOUS
        <5>1. NextI[BackI[y]] = y
          BY <1>6 DEF Chained
        <5>2. BackI[y] # x
          BY <5>1
        <5> QED BY <1>7, <1>8, <3>8, <5>2
      <4>4. Chained(LinkedI \ {x}, NextI', BackI', HomeI')
        <5>1. Bypassed(LinkedI, NextI, BackI, HomeI, NextI', BackI', HomeI', x)
          BY <1>4, <3>2, <3>6, <4>1, <4>2, <4>3 DEF Bypassed
        <5> QED BY <1>6, <5>1, ChainedBypass
      <4>5. Ranked(NextI')
        <5>1. \A y \in Entries : \/ NextI'[y] = NextI[y]
                                 \/ NextI[y] # 0 /\ NextI'[y] = NextI[NextI[y]]
          BY <1>4, <1>8, <3>3, <3>8
        <5> QED BY <1>3, <5>1, LinksType, RankedKept DEF Chains, ChainsOfNodes
      <4>6. \A y \in Entries : y \notin LinkedI' \cup {x} => NextI'[y] = 0
        BY <1>2, <3>3, <3>5, <3>8 DEF Chains, ChainsOfNodes
      <4> QED BY <3>2, <3>5, <4>4, <4>5, <4>6 DEF ChainsOfNodes
    <3> QED BY <1>7, <3>3, <3>4, <3>5, <3>7, <3>9
  <2> QED BY <1>10, <2>1, <2>2
<1> HIDE DEF e, x, n, p
<1>12. RulesNameNodes'
  <2> SUFFICES ASSUME NEW i \in Entries, Live(i), i # e
               PROVE  tbl[i].indx \in LinkedI' /\ indx'[tbl[i].indx].ent = i
    BY <1>1, <1>2, <1>9 DEF RulesNameNodes, Live, e, Executing
  <2>1. tbl[i].indx \in LinkedI /\ indx[tbl[i].indx].ent = i
    BY <1>2, <1>9 DEF Chains, RulesNameNodes, e
  <2> QED BY <1>4, <1>11, <2>1
<1>13. NodesNameRules'
  <2> SUFFICES ASSUME NEW y \in LinkedI'
               PROVE  tbl[indx[y].ent].indx = y /\ Live(indx[y].ent)
    BY <1>1, <1>2, <1>11 DEF NodesNameRules, Live, Node, Executing
  <2>1. y \in LinkedI /\ indx[y].ent \in Entries
    BY <1>3, <1>7, <1>11 DEF Shape
  <2> QED BY <1>2, <1>9, <2>1 DEF Chains, NodesNameRules, Executing
<1>14. NodeLeaves'
  <2>1. /\ op'.indx = x /\ op'.ent = e /\ op'.inext = n /\ op'.ipos = op.ipos /\ meta' = meta
    BY DEF Executing, x, e, n
  <2> QED BY <1>2, <1>4, <1>10, <1>11, <2>1 DEF NodeLeaves, p, PosAgrees
<1>15. Batch'
  BY <1>1 DEF Batch, RuleCmd, Executing
<1> QED BY <1>5, <1>11, <1>12, <1>13, <1>14, <1>15 DEF Chains, Removing

\* Once the index commands are executed no index node in a chain names the rule that leaves.
LEMMA NodesLeft ==
  ASSUME HandleInv, Chains, IndexDone, NEW y \in LinkedI
  PROVE  /\ y \in Entries /\ indx[y].ent \in Entries /\ indx[y].ent # op.ent
         /\ Node(indx[y].ent) = y /\ Live(indx[y].ent)
<1>1. Deleting /\ Shape /\ NodeLeaves /\ RuleLeaves
  BY Shapes DEF IndexDone, Deleting, HandleInv, Chains, Removing
<1>2. y \in Entries /\ indx[y].ent \in Entries
  BY <1>1 DEF LinkedI, Shape
<1>3. ~(IndexMoved /\ y = op.inext)
  BY DEF LinkedI, GoneI, IndexMoved, IndexDone
<1>4. Node(indx[y].ent) = y /\ Live(indx[y].ent)
  BY <1>1, <1>3 DEF Chains, NodesNameRules, Deleting
<1>5. ASSUME indx[y].ent = op.ent PROVE FALSE
  <2>1. tbl[indx[y].ent].indx = op.indx
    BY <1>1, <1>5 DEF RuleLeaves
  <2>2. y = op.indx
    BY <1>4, <2>1 DEF Node
  <2>3. op.ipos = "head"
    BY <1>1, <2>2 DEF NodeLeaves, PosAgrees
  <2>4. IndexMoved
    <3>1. op \in OpType
      BY DEF HandleInv, TypeOK
    <3>2. Len(op.cmds) \in Nat
      BY <3>1 DEF OpType
    <3> QED BY <2>3, <3>2 DEF IndexDone, IndexMoved
  <2> QED BY <1>1, <1>5, <2>2, <2>4 DEF NodeLeaves
<1> QED BY <1>2, <1>4, <1>5

\* The rule leaves its chain: alone in its bucket it is disabled, as the head of a chain it
\* is marked, and any other is left out.
LEMMA RuleCommandChains ==
  ASSUME HandleInv, Chains, Executing, op.cmds = <<RuleCmd>>, op'.cmds = <<>>, Poke(RuleCmd)
  PROVE  Chains'
<1> DEFINE e == op.ent
           p == tbl[e].prev
           n == tbl[e].next
<1>1. indx' = indx
  BY DEF Poke, RuleCmd, Cmd
<1>2. /\ Deleting /\ Deleting' /\ IndexDone /\ IndexDone' /\ ~RuleDone /\ RuleDone'
      /\ IndexMoved' = IndexMoved /\ GoneI' = GoneI
      /\ GoneR = {} /\ GoneR' = IF op.pos \in {"middle", "last"} THEN {e} ELSE {}
  BY DEF Executing, Deleting, IndexMoved, IndexDone, RuleDone, GoneI, GoneR
<1>3. NodeLeaves /\ RuleLeaves /\ Shape /\ e \in Usable /\ e \in Entries
  BY <1>2, Shapes, DeletedEntry, Numbers DEF Chains, Removing, HandleInv
<1>4. Live(e) /\ tbl[e].indx = op.indx /\ PosAgrees(op.pos, e, n)
  BY <1>2, <1>3 DEF RuleLeaves
<1>5. LinkedI' = LinkedI /\ LinkedR = {i \in Entries : tbl[i].enable}
  BY <1>1, <1>2 DEF LinkedI, LinkedR, Executing
<1>6. Chained(LinkedR, NextR, BackR, HomeR) /\ e \in LinkedR
  BY <1>3, <1>4, <1>5 DEF Chains, ChainsOfRules, Live
<1>7. NextR[e] = n /\ BackR[e] = p /\ \A i \in Entries : BackR[i] = tbl[i].prev
  BY <1>2, <1>3 DEF NextR, Links, BackR
<1>8. tbl \in [Entries -> RuleType]
  BY DEF HandleInv, TypeOK
<1>9. op.pos = "only_one" \/ op.pos = "head" \/ op.pos \in {"middle", "last"}
  BY <1>4 DEF PosAgrees
\* What is common to the three commands.
<1> DEFINE Kept ==
      \A i \in Entries :
         /\ tbl'[i].flow = tbl[i].flow /\ tbl'[i].indx = tbl[i].indx /\ tbl'[i].prev = tbl[i].prev
         /\ i # e => tbl'[i].enable = tbl[i].enable /\ tbl'[i].dead = tbl[i].dead
         /\ Live(i)' => Live(i)
<1>10. Kept /\ ChainsOfRules' /\ RulesInUse' /\ RuleLeaves'
  <2>1. CASE op.pos = "only_one"
    <3>1. tbl' = [tbl EXCEPT ![e].enable = (0 = 1)]
      BY <2>1 DEF Poke, RuleCmd, Cmd
    <3>2. /\ tbl'[e].enable = FALSE /\ tbl'[e].flow = tbl[e].flow /\ tbl'[e].indx = tbl[e].indx
          /\ tbl'[e].prev = tbl[e].prev /\ tbl'[e].next = tbl[e].next /\ tbl'[e].dead = tbl[e].dead
          /\ \A i \in Entries : i # e => tbl'[i] = tbl[i]
      <4>1. tbl[e] \in RuleType
        BY <1>3, <1>8
      <4>2. tbl'[e] = [tbl[e] EXCEPT !.enable = (0 = 1)] /\ \A i \in Entries : i # e => tbl'[i] = tbl[i]
        BY <1>3, <1>8, <3>1, Zenon
      <4>3. (0 = 1) = FALSE
        OBVIOUS
      <4>4. tbl'[e] = [tbl[e] EXCEPT !.enable = FALSE]
        BY <4>2, <4>3, Zenon
      <4> HIDE DEF e
      <4> QED BY <4>1, <4>2, <4>4 DEF RuleType
    <3>3. Base(e) /\ n = 0 /\ GoneR' = {}
      BY <1>2, <1>4, <2>1 DEF PosAgrees
    <3> HIDE DEF e
    <3>4. Kept
      BY <3>2 DEF Live
    <3>5. \A i \in Entries : NextR'[i] = NextR[i] /\ HomeR'[i] = HomeR[i] /\ BackR'[i] = BackR[i]
      BY <1>7, <3>2, <3>3 DEF NextR, Links, HomeR, BackR
    <3>6. LinkedR' = LinkedR \ {e}
      BY <1>2, <1>5, <3>2, <3>3 DEF LinkedR, Executing
    <3>7. Cleared(LinkedR, NextR, BackR, HomeR, NextR', BackR', HomeR', {e})
      BY <1>5, <1>6, <1>7, <3>3, <3>5 DEF Cleared
    <3>8. Chained(LinkedR', NextR', BackR', HomeR')
      BY <1>6, <3>6, <3>7, ChainedLess
    <3>9. Ranked(NextR')
      BY <1>3, <3>5, LinksType, RankedKept DEF Chains, ChainsOfRules
    <3>10. ChainsOfRules'
      BY <1>2, <1>7, <3>3, <3>5, <3>6, <3>8, <3>9 DEF Chains, ChainsOfRules
    <3>11. RulesInUse'
      BY <1>2, <1>4, <1>5, <3>2, <3>6 DEF Chains, RulesInUse, Live, e
    <3>12. RuleLeaves'
      BY <1>2, <1>4, <3>2, <3>3 DEF RuleLeaves, PosAgrees, Live, Executing, e
    <3> QED BY <3>4, <3>10, <3>11, <3>12
  <2>2. CASE op.pos = "head"
    <3>1. tbl' = [tbl EXCEPT ![e].dead = TRUE]
      BY <2>2 DEF Poke, RuleCmd, Cmd
    <3>2. /\ tbl'[e].dead = TRUE /\ tbl'[e].flow = tbl[e].flow /\ tbl'[e].indx = tbl[e].indx
          /\ tbl'[e].prev = tbl[e].prev /\ tbl'[e].next = tbl[e].next /\ tbl'[e].enable = tbl[e].enable
          /\ \A i \in Entries : i # e => tbl'[i] = tbl[i]
      <4>1. tbl[e] \in RuleType
        BY <1>3, <1>8
      <4>2. tbl'[e] = [tbl[e] EXCEPT !.dead = TRUE] /\ \A i \in Entries : i # e => tbl'[i] = tbl[i]
        BY <1>3, <1>8, <3>1, Zenon
      <4> QED BY <4>1, <4>2 DEF RuleType
    <3>3. Base(e) /\ n # 0 /\ GoneR' = {}
      BY <1>2, <1>4, <2>2 DEF PosAgrees
    <3> HIDE DEF e
    <3>4. Kept
      BY <3>2 DEF Live
    <3>5. NextR' = NextR /\ HomeR' = HomeR /\ BackR' = BackR
      BY <1>2, <3>2, <3>3 DEF NextR, Links, HomeR, BackR
    <3>6. LinkedR' = LinkedR
      BY <1>2, <1>5, <3>2, <3>3 DEF LinkedR, Executing
    <3>7. ChainsOfRules'
      BY <1>2, <3>3, <3>5, <3>6 DEF Chains, ChainsOfRules
    <3>8. RulesInUse'
      BY <1>2, <1>4, <1>5, <3>2, <3>3, <3>6 DEF Chains, RulesInUse, Live
    <3>9. RuleLeaves'
      BY <1>2, <1>4, <3>2, <3>3 DEF RuleLeaves, PosAgrees, Live, Executing, e
    <3> QED BY <3>4, <3>7, <3>8, <3>9
  <2>3. CASE op.pos \in {"middle", "last"}
    <3>1. tbl' = [tbl EXCEPT ![p].next = n]
      BY <2>3 DEF Poke, RuleCmd, Cmd
    <3>2. ~Base(e) /\ GoneR' = {e}
      BY <1>2, <1>4, <2>3 DEF PosAgrees
    <3>3. p \in LinkedR /\ NextR[p] = e /\ p \in Entries
      BY <1>5, <1>6, <1>7, <3>2 DEF Chained
    <3> HIDE DEF e, p, n
    <3>4. /\ tbl'[p].next = n
          /\ \A i \in Entries : /\ i # p => tbl'[i].next = tbl[i].next
                                /\ tbl'[i].flow = tbl[i].flow /\ tbl'[i].enable = tbl[i].enable
                                /\ tbl'[i].dead = tbl[i].dead /\ tbl'[i].prev = tbl[i].prev
                                /\ tbl'[i].indx = tbl[i].indx
      BY <1>8, <3>1, <3>3, RuleLinkWritten
    <3>5. Kept
      BY <3>4 DEF Live
    <3>6. LinkedR' = LinkedR \ {e}
      BY <1>2, <1>5, <3>2, <3>4 DEF LinkedR, Executing
    <3>7. NextR[e] # e
      <4>1. PICK r : RankedBy(r, NextR)
        BY DEF Chains, ChainsOfRules, Ranked
      <4>2. NextR[e] # 0 => r[e] < r[NextR[e]] /\ r[e] \in Nat
        BY <1>3, <4>1 DEF RankedBy
      <4> QED BY <1>3, <4>2, Numbers
    <3>8. p # e
      BY <3>3, <3>7
    <3>9. /\ NextR'[p] = n
          /\ \A i \in Entries : /\ i # p => NextR'[i] = NextR[i]
                                /\ HomeR'[i] = HomeR[i]
                                /\ BackR'[i] = IF BackR[i] = e THEN p ELSE BackR[i]
      BY <1>3, <1>7, <3>2, <3>3, <3>4 DEF NextR, Links, HomeR, BackR, Shape, p
    <3>10. Bypassed(LinkedR, NextR, BackR, HomeR, NextR', BackR', HomeR', e)
      <4>1. NextR'[BackR[e]] = NextR[e] /\ (NextR[e] # 0 => BackR'[NextR[e]] = BackR[e])
        BY <1>3, <1>5, <1>6, <1>7, <3>9 DEF Chained
      <4>2. \A i \in LinkedR \ {e} : HomeR'[i] = HomeR[i] /\ (i # BackR[e] => NextR'[i] = NextR[i])
        BY <1>5, <1>7, <3>9
      <4>3. \A i \in LinkedR \ {e} : i # NextR[e] /\ ~Base(i) => BackR'[i] = BackR[i]
        <5> SUFFICES ASSUME NEW i \in LinkedR \ {e}, i # NextR[e], ~Base(i)
                     PROVE  BackR'[i] = BackR[i]
          OBVIOUS
        <5>1. NextR[BackR[i]] = i
          BY <1>6 DEF Chained
        <5>2. BackR[i] # e
          BY <5>1
        <5> QED BY <1>5, <3>9, <5>2
      <4> QED BY <1>6, <3>2, <3>7, <4>1, <4>2, <4>3 DEF Bypassed
    <3>11. Chained(LinkedR', NextR', BackR', HomeR')
      BY <1>6, <3>6, <3>10, ChainedBypass
    <3>12. Ranked(NextR')
      <4>1. \A i \in Entries : \/ NextR'[i] = NextR[i]
                               \/ NextR[i] # 0 /\ NextR'[i] = NextR[NextR[i]]
        BY <1>3, <1>7, <3>3, <3>9, Numbers
      <4> QED BY <1>3, <4>1, LinksType, RankedKept DEF Chains, ChainsOfRules
    <3>13. \A i \in Entries : i \notin LinkedR' \cup {e} => NextR'[i] = 0
      BY <1>2, <3>3, <3>6, <3>9 DEF Chains, ChainsOfRules
    <3>14. ChainsOfRules'
      BY <3>2, <3>11, <3>12, <3>13 DEF ChainsOfRules
    <3>15. RulesInUse'
      BY <1>2, <1>5, <3>4, <3>6 DEF Chains, RulesInUse
    <3>16. RuleLeaves'
      <4>1. /\ tbl'[e].prev = p /\ tbl'[e].next = n /\ tbl'[e].indx = tbl[e].indx
            /\ tbl'[p].next = n /\ p \in LinkedR'
        BY <1>3, <3>3, <3>4, <3>6, <3>8 DEF p, n
      <4>2. op'.ent = e /\ op'.indx = op.indx /\ op'.pos = op.pos
        BY DEF Executing, e
      <4>3. PosAgrees(op'.pos, op'.ent, tbl'[op'.ent].next)
        BY <1>4, <4>1, <4>2
      <4>4. ~Base(op'.ent)
        BY <3>2, <4>2
      <4> QED BY <1>2, <1>4, <4>1, <4>2, <4>3, <4>4 DEF RuleLeaves, PosAgrees, Base
    <3> QED BY <3>5, <3>14, <3>15, <3>16
  <2> QED BY <1>9, <2>1, <2>2, <2>3
<1> HIDE DEF e, p, n
<1>11. \A r \in Entries : Node(r)' = Node(r)
  BY <1>2, <1>10 DEF Node, Executing
<1>12. ChainsOfNodes'
  <2>1. \A y \in LinkedI : y \in Entries /\ indx[y].ent \in Entries
    BY <1>3 DEF LinkedI, Shape
  <2>2. \A y \in LinkedI : HomeI'[y] = HomeI[y] /\ BackI'[y] = BackI[y]
    BY <1>1, <1>2, <1>10, <2>1 DEF HomeI, BackI, Executing
  <2> QED BY <1>1, <1>2, <1>5, <2>2, NodesStay DEF Chains
<1>13. RulesNameNodes'
  BY <1>1, <1>2, <1>5, <1>10, <1>11 DEF Chains, RulesNameNodes, Executing, e
<1>14. NodesNameRules'
  <2>1. \A y \in LinkedI : Node(indx[y].ent)' = y /\ Live(indx[y].ent)'
    <3> SUFFICES ASSUME NEW y \in LinkedI
                 PROVE  /\ y = IF IndexMoved /\ tbl'[indx[y].ent].indx = op.inext THEN op.indx
                               ELSE tbl'[indx[y].ent].indx
                        /\ tbl'[indx[y].ent].enable /\ ~tbl'[indx[y].ent].dead
      BY <1>1, <1>2 DEF Node, Live, Executing
    <3>1. /\ indx[y].ent \in Entries /\ indx[y].ent # e
          /\ Node(indx[y].ent) = y /\ Live(indx[y].ent)
      BY <1>2, NodesLeft DEF e
    <3> QED BY <1>10, <3>1 DEF Node, Live
  <2> QED BY <1>5, <2>1 DEF NodesNameRules
<1>15. Owned'
  BY <1>10 DEF Chains, Owned, NamedEntry, Executing
<1>16. Adding'
  BY DEF Adding, Executing
<1>17. NodeLeaves'
  BY <1>1, <1>2, <1>3, <1>5 DEF NodeLeaves, PosAgrees, Executing
<1>18. Batch'
  BY DEF Batch
<1>19. Removing'
  BY <1>10, <1>17, <1>18 DEF Removing
<1> QED BY <1>10, <1>12, <1>13, <1>14, <1>15, <1>16, <1>19 DEF Chains

LEMMA DmaChains ==
  ASSUME HandleInv, Chains, dma_step
  PROVE  Chains'
BY DmaCommand, TakeChains, SkipChains, NodeCommandChains, RuleCommandChains

\* The links and the index nodes after the driver's own writes at the end of a deletion.
LEMMA UpdatedLinks ==
  ASSUME TypeOK
  PROVE  /\ \A i \in Entries : i # op.ent =>
              /\ UpdatedRules[i].next = tbl[i].next
              /\ UpdatedRules[i].prev = IF op.pos = "middle" /\ i = tbl[op.ent].next
                                        THEN tbl[op.ent].prev ELSE tbl[i].prev
              /\ UpdatedRules[i].indx = IF op.ipos = "head" /\ i = indx[op.indx].ent
                                        THEN op.indx ELSE tbl[i].indx
         /\ op.pos = "head" =>
              /\ UpdatedRules[op.ent].next = tbl[op.ent].next
              /\ UpdatedRules[op.ent].prev = tbl[op.ent].prev
              /\ UpdatedRules[op.ent].flow = tbl[op.ent].flow
              /\ UpdatedRules[op.ent].enable = tbl[op.ent].enable
              /\ UpdatedRules[op.ent].dead = tbl[op.ent].dead
         /\ op.pos # "head" =>
              /\ UpdatedRules[op.ent].next = 0
              /\ UpdatedRules[op.ent].enable = FALSE /\ UpdatedRules[op.ent].dead = FALSE
<1> DEFINE d == op.ent
           n == tbl[d].next
           p == tbl[d].prev
           t1 == IF op.pos = "middle" THEN [tbl EXCEPT ![n].prev = p] ELSE tbl
           t2 == IF op.pos # "head" THEN [t1 EXCEPT ![d] = NoRule] ELSE t1
           m == indx[op.indx].ent
           x == op.indx
<1>1. /\ tbl \in [Entries -> RuleType] /\ d \in Entries /\ x \in Entries /\ m \in Entries
      /\ n \in Entries /\ p \in Entries /\ 0 \in Entries
  <2>1. Shape
    BY Shapes
  <2> QED BY <2>1, Numbers DEF Shape, TypeOK
<1>2. NoRule \in RuleType /\ NoRule.next = 0 /\ NoRule.enable = FALSE /\ NoRule.dead = FALSE
  BY <1>1 DEF NoRule, RuleType
<1>3. UpdatedRules = IF op.ipos = "head" THEN [t2 EXCEPT ![m].indx = x] ELSE t2
  BY Zenon DEF UpdatedRules
<1> HIDE DEF d, n, p, m, x
<1>4. /\ t1 \in [Entries -> RuleType]
      /\ \A i \in Entries : /\ t1[i].next = tbl[i].next /\ t1[i].indx = tbl[i].indx
                            /\ t1[i].prev = IF op.pos = "middle" /\ i = n THEN p ELSE tbl[i].prev
      /\ op.pos = "head" => t1 = tbl
  <2>1. CASE op.pos = "middle"
    <3>1. t1 = [tbl EXCEPT ![n].prev = p]
      BY <2>1
    <3> HIDE DEF t1
    <3>2. t1 \in [Entries -> RuleType]
      BY <1>1, <3>1 DEF RuleType
    <3>3. t1[n] = [tbl[n] EXCEPT !.prev = p] /\ tbl[n] \in RuleType
      BY <1>1, <3>1, Zenon
    <3>4. t1[n].next = tbl[n].next /\ t1[n].indx = tbl[n].indx /\ t1[n].prev = p
      BY <3>3 DEF RuleType
    <3>5. \A i \in Entries : i # n => t1[i] = tbl[i]
      BY <1>1, <3>1
    <3> QED BY <2>1, <3>2, <3>4, <3>5
  <2>2. CASE op.pos # "middle"
    BY <1>1, <2>2
  <2> QED BY <2>1, <2>2
<1> HIDE DEF t1
<1>5. /\ t2 \in [Entries -> RuleType]
      /\ \A i \in Entries : i # d => t2[i] = t1[i]
      /\ op.pos # "head" => t2[d] = NoRule
      /\ op.pos = "head" => t2 = tbl
  <2>1. CASE op.pos # "head"
    <3>1. t2 = [t1 EXCEPT ![d] = NoRule]
      BY <2>1
    <3> HIDE DEF t2
    <3> QED BY <1>1, <1>2, <1>4, <2>1, <3>1
  <2>2. CASE op.pos = "head"
    BY <1>4, <2>2
  <2> QED BY <2>1, <2>2
<1> HIDE DEF t2
<1>6. \A i \in Entries : /\ UpdatedRules[i].next = t2[i].next /\ UpdatedRules[i].prev = t2[i].prev
                         /\ UpdatedRules[i].flow = t2[i].flow /\ UpdatedRules[i].enable = t2[i].enable
                         /\ UpdatedRules[i].dead = t2[i].dead
                         /\ UpdatedRules[i].indx = IF op.ipos = "head" /\ i = m THEN x ELSE t2[i].indx
  <2>1. CASE op.ipos = "head"
    <3>1. UpdatedRules[m] = [t2[m] EXCEPT !.indx = x] /\ t2[m] \in RuleType
      BY <1>1, <1>3, <1>5, <2>1, Zenon
    <3>2. /\ UpdatedRules[m].next = t2[m].next /\ UpdatedRules[m].prev = t2[m].prev
          /\ UpdatedRules[m].flow = t2[m].flow /\ UpdatedRules[m].enable = t2[m].enable
          /\ UpdatedRules[m].dead = t2[m].dead /\ UpdatedRules[m].indx = x
      BY <3>1 DEF RuleType
    <3>3. \A i \in Entries : i # m => UpdatedRules[i] = t2[i]
      BY <1>3, <1>5, <2>1
    <3> QED BY <2>1, <3>2, <3>3
  <2>2. CASE op.ipos # "head"
    BY <1>3, <2>2
  <2> QED BY <2>1, <2>2
<1>7. \A i \in Entries : i # d =>
        /\ UpdatedRules[i].next = tbl[i].next
        /\ UpdatedRules[i].prev = IF op.pos = "middle" /\ i = n THEN p ELSE tbl[i].prev
        /\ UpdatedRules[i].indx = IF op.ipos = "head" /\ i = m THEN x ELSE tbl[i].indx
  BY <1>4, <1>5, <1>6
<1>8. op.pos = "head" =>
        /\ UpdatedRules[d].next = tbl[d].next /\ UpdatedRules[d].prev = tbl[d].prev
        /\ UpdatedRules[d].flow = tbl[d].flow /\ UpdatedRules[d].enable = tbl[d].enable
        /\ UpdatedRules[d].dead = tbl[d].dead
  BY <1>1, <1>5, <1>6
<1>9. op.pos # "head" =>
        /\ UpdatedRules[d].next = 0 /\ UpdatedRules[d].enable = FALSE
        /\ UpdatedRules[d].dead = FALSE
  <2> SUFFICES ASSUME op.pos # "head"
               PROVE  /\ UpdatedRules[d].next = 0 /\ UpdatedRules[d].enable = FALSE
                      /\ UpdatedRules[d].dead = FALSE
    OBVIOUS
  <2>1. t2[d] = NoRule
    BY <1>5
  <2> QED BY <1>1, <1>2, <1>6, <2>1
<1> QED BY <1>7, <1>8, <1>9 DEF d, n, p, m, x

\* The rules at the end of a deletion: the links back are what the chains already required,
\* and dead heads that nothing hangs from any more are reset.
LEMMA FinishRules ==
  ASSUME HandleInv, Chains, del_ipv4_rule_finish
  PROVE  /\ ChainsOfRules' /\ RulesInUse'
         /\ \A i \in Entries : Live(i)' => Live(i) /\ i # op.ent
         /\ \A i \in Entries : Live(i) /\ i # op.ent =>
              /\ Live(i)' /\ tbl'[i].flow = tbl[i].flow
              /\ tbl'[i].indx = IF op.ipos = "head" /\ i = indx[op.indx].ent
                                THEN op.indx ELSE tbl[i].indx
<1> DEFINE e == op.ent
           n == tbl[e].next
           p == tbl[e].prev
           T == UpdatedRules
           D == {i \in Entries : i \in BaseEntries /\ T[i].dead /\ T[i].next = 0}
<1>1. /\ pc = "dma" /\ pc' = "idle" /\ op.cmds = <<>> /\ TypeOK
      /\ tbl' = [i \in Entries |-> IF i \in BaseEntries /\ T[i].dead /\ T[i].next = 0
                                  THEN NoRule ELSE T[i]]
  BY DEF del_ipv4_rule_finish, del_dead_ipv4_head_nodes, HandleInv
<1>2. Deleting /\ RuleDone /\ Quiet'
  BY <1>1, QuietPc DEF Deleting, RuleDone, Quiet, GoneR, GoneI, IndexMoved, IndexDone
<1>3. RuleLeaves /\ Shape /\ e \in Usable /\ e \in Entries /\ 0 \in Entries
  BY <1>1, <1>2, Shapes, DeletedEntry, Numbers DEF Chains, Removing
<1>4. PosAgrees(op.pos, e, n) /\ GoneR = IF op.pos \in {"middle", "last"} THEN {e} ELSE {}
  BY <1>2, <1>3 DEF RuleLeaves, GoneR
<1>5. LinkedR = {i \in Entries : tbl[i].enable} \ GoneR
  BY <1>1 DEF LinkedR
<1>6. Chained(LinkedR, NextR, BackR, HomeR)
  BY DEF Chains, ChainsOfRules
<1>7. /\ \A i \in Entries : i # e =>
           /\ T[i].next = tbl[i].next /\ T[i].flow = tbl[i].flow
           /\ T[i].enable = tbl[i].enable /\ T[i].dead = tbl[i].dead
           /\ T[i].prev = IF op.pos = "middle" /\ i = n THEN p ELSE tbl[i].prev
           /\ T[i].indx = IF op.ipos = "head" /\ i = indx[op.indx].ent
                          THEN op.indx ELSE tbl[i].indx
      /\ op.pos = "head" => /\ T[e].next = tbl[e].next /\ T[e].prev = tbl[e].prev
                            /\ T[e].flow = tbl[e].flow /\ T[e].enable = tbl[e].enable
                            /\ T[e].dead = tbl[e].dead
      /\ op.pos # "head" => T[e].next = 0 /\ T[e].enable = FALSE /\ T[e].dead = FALSE
  BY <1>1, UpdatedLinks, UpdatedRulesFields
<1>8. NoRule.next = 0 /\ NoRule.enable = FALSE /\ NoRule.dead = FALSE
  BY DEF NoRule
<1>9. \A i \in Entries : i \in BaseEntries <=> Base(i)
  BY SizesAssumption DEF Base, BaseEntries, Entries
<1>10. /\ \A i \in D : tbl'[i] = NoRule
       /\ \A i \in Entries \ D : tbl'[i] = T[i]
  BY <1>1
<1>11. \A i \in Entries : i \in D <=> Base(i) /\ T[i].dead /\ T[i].next = 0
  BY <1>9
<1> HIDE DEF e, n, p, T, D
\* The entry that leaves, if it was not the head of a chain, is in no chain any more.
<1>12. op.pos # "head" => e \notin LinkedR
  <2>1. CASE op.pos \in {"middle", "last"}
    BY <1>4, <1>5, <2>1
  <2>2. CASE op.pos = "only_one"
    <3>1. ~tbl[e].enable
      BY <1>2, <1>3, <2>2 DEF RuleLeaves, e
    <3> QED BY <1>5, <3>1
  <2> QED BY <1>4, <2>1, <2>2 DEF PosAgrees
<1>13. op.pos = "head" => GoneR = {} /\ ~Live(e)
  BY <1>2, <1>3, <1>4 DEF RuleLeaves, e
<1>14. \A i \in LinkedR : /\ i \in Entries /\ T[i].next = tbl[i].next /\ T[i].flow = tbl[i].flow
                           /\ T[i].enable = tbl[i].enable /\ tbl[i].enable
                           /\ T[i].dead = tbl[i].dead
  BY <1>5, <1>7, <1>12
<1>15. \A i \in Entries : T[i].enable => i \in LinkedR
  BY <1>4, <1>5, <1>7, <1>13
<1>16. D \subseteq LinkedR
  <2>1. \A i \in Entries : T[i].dead => T[i].enable
    BY <1>7 DEF Chains, RulesInUse
  <2> QED BY <1>11, <1>15, <2>1 DEF D
<1>17. LinkedR' = LinkedR \ D
  <2>1. LinkedR' = {i \in Entries : tbl'[i].enable}
    BY <1>1, <1>2 DEF LinkedR, Quiet
  <2>2. \A i \in Entries : tbl'[i].enable <=> i \in LinkedR /\ i \notin D
    BY <1>8, <1>10, <1>14, <1>15
  <2> QED BY <1>5, <2>1, <2>2
<1>18. \A i \in Entries : NextR[i] = tbl[i].next /\ HomeR[i] = dst_hash(tbl[i].flow)
                         /\ BackR[i] = IF tbl[i].prev \in GoneR THEN tbl[tbl[i].prev].prev
                                       ELSE tbl[i].prev
  BY DEF NextR, Links, HomeR, BackR
<1>19. \A i \in Entries : NextR'[i] = tbl'[i].next /\ HomeR'[i] = dst_hash(tbl'[i].flow)
                         /\ BackR'[i] = tbl'[i].prev
  BY <1>2 DEF NextR, Links, HomeR, BackR, Quiet
<1>20. ASSUME NEW i \in LinkedR, ~Base(i) PROVE T[i].prev = BackR[i]
  <2>1. BackR[i] \in LinkedR /\ NextR[BackR[i]] = i /\ i \in Entries /\ i # 0
    BY <1>6, <1>14, <1>20, Numbers DEF Chained
  <2>2. i # e
    <3>1. op.pos = "head" => Base(e)
      BY <1>4 DEF PosAgrees
    <3> QED BY <1>12, <1>20, <3>1
  <2>3. T[i].prev = IF op.pos = "middle" /\ i = n THEN p ELSE tbl[i].prev
    BY <1>7, <2>1, <2>2
  <2>4. CASE op.pos \in {"middle", "last"}
    <3>1. GoneR = {e}
      BY <1>4, <2>4
    <3>2. p \in LinkedR /\ tbl[p].next = n
      BY <1>2, <1>3, <2>4 DEF RuleLeaves, e, p, n
    <3>3. NextR[p] = n
      BY <1>14, <1>18, <3>2
    <3>4. n # 0 <=> op.pos = "middle"
      BY <1>4, <2>4 DEF PosAgrees
    <3>5. BackR[i] = IF tbl[i].prev = e THEN p ELSE tbl[i].prev
      BY <1>18, <2>1, <3>1 DEF p
    <3>6. CASE i = n
      <4>1. BackR[i] = p
        BY <1>6, <2>1, <3>2, <3>3, <3>6 DEF Chained
      <4> QED BY <2>1, <2>3, <3>4, <3>6, <4>1
    <3>7. CASE i # n
      <4>1. tbl[i].prev # e
        BY <2>1, <3>3, <3>5, <3>7
      <4> QED BY <2>3, <3>5, <3>7, <4>1
    <3> QED BY <3>6, <3>7
  <2>5. CASE op.pos \notin {"middle", "last"}
    BY <1>4, <1>18, <2>1, <2>3, <2>5
  <2> QED BY <2>4, <2>5
<1>21. ChainsOfRules'
  <2>1. \A i \in D : Base(i) /\ NextR[i] = 0
    BY <1>11, <1>14, <1>16, <1>18
  <2>2. \A i \in LinkedR \ D : NextR'[i] = NextR[i] /\ HomeR'[i] = HomeR[i]
    BY <1>10, <1>14, <1>18, <1>19
  <2>3. \A i \in LinkedR \ D : ~Base(i) => BackR'[i] = BackR[i]
    BY <1>10, <1>14, <1>19, <1>20
  <2>4. Cleared(LinkedR, NextR, BackR, HomeR, NextR', BackR', HomeR', D)
    BY <1>16, <2>1, <2>2, <2>3 DEF Cleared
  <2>5. Chained(LinkedR \ D, NextR', BackR', HomeR')
    BY <1>6, <2>4, ChainedLess
  <2>6. \A i \in Entries : NextR'[i] = 0 \/ NextR'[i] = NextR[i]
    BY <1>7, <1>8, <1>10, <1>18, <1>19 DEF PosAgrees
  <2>7. Ranked(NextR')
    BY <1>3, <2>6, LinksType, RankedKept DEF Chains, ChainsOfRules
  <2>8. \A i \in Entries : i \notin LinkedR \ D => NextR'[i] = 0
    <3> SUFFICES ASSUME NEW i \in Entries, i \notin LinkedR \ D, NextR'[i] # 0 PROVE FALSE
      OBVIOUS
    <3>1. i \notin D /\ NextR'[i] = T[i].next /\ i \notin LinkedR
      BY <1>8, <1>10, <1>19
    <3>2. NextR[i] # 0
      BY <2>6
    <3>3. i \in GoneR
      BY <3>1, <3>2 DEF Chains, ChainsOfRules
    <3>4. i = e /\ op.pos # "head"
      BY <1>4, <3>3
    <3> QED BY <1>7, <1>19, <3>1, <3>4
  <2> QED BY <1>2, <1>17, <2>5, <2>7, <2>8 DEF ChainsOfRules, Quiet
<1>22. RulesInUse'
  <2>1. \A i \in LinkedR' : tbl'[i].flow \in Flows
    BY <1>10, <1>14, <1>17 DEF Chains, RulesInUse
  <2>2. ASSUME NEW i \in Entries, tbl'[i].dead
        PROVE  tbl'[i].enable /\ Base(i) /\ tbl'[i].next # 0
    <3>1. i \notin D /\ tbl'[i] = T[i]
      BY <1>8, <1>10, <2>2
    <3>2. tbl[i].dead /\ T[i].enable = tbl[i].enable
      BY <1>7, <2>2, <3>1
    <3>3. tbl[i].enable /\ Base(i)
      BY <3>2 DEF Chains, RulesInUse
    <3>4. T[i].next # 0
      BY <1>11, <2>2, <3>1, <3>3
    <3> QED BY <3>1, <3>2, <3>3, <3>4
  <2> QED BY <2>1, <2>2 DEF RulesInUse
<1>23. ASSUME NEW i \in Entries, tbl'[i].enable, ~tbl'[i].dead
       PROVE  Live(i) /\ i # e
  <2>1. i \notin D /\ tbl'[i] = T[i]
    BY <1>8, <1>10, <1>23
  <2>2. i # e
    <3>1. op.pos = "head" => ~(T[e].enable /\ ~T[e].dead)
      BY <1>7, <1>13 DEF Live
    <3> QED BY <1>7, <1>23, <2>1, <3>1
  <2> QED BY <1>7, <1>23, <2>1, <2>2 DEF Live
<1>24. ASSUME NEW i \in Entries, Live(i), i # e
       PROVE  /\ tbl'[i].enable /\ ~tbl'[i].dead /\ tbl'[i].flow = tbl[i].flow
              /\ tbl'[i].indx = IF op.ipos = "head" /\ i = indx[op.indx].ent
                                THEN op.indx ELSE tbl[i].indx
  <2>1. i \notin D
    BY <1>7, <1>11, <1>24 DEF Live
  <2> QED BY <1>7, <1>10, <1>24, <2>1 DEF Live
<1> QED BY <1>21, <1>22, <1>23, <1>24 DEF Live, e

\* The index nodes at the end of a deletion.
LEMMA FinishNodes ==
  ASSUME HandleInv, Chains, del_ipv4_rule_finish
  PROVE  ChainsOfNodes' /\ RulesNameNodes' /\ NodesNameRules'
<1> DEFINE x == op.indx
           n == op.inext
           g == IF op.ipos = "head" THEN n ELSE x
<1>1. /\ pc = "dma" /\ pc' = "idle" /\ op.cmds = <<>> /\ TypeOK
      /\ indx' = [indx EXCEPT ![g] = NoIndx] /\ meta' = UpdatedMeta
  BY DEF del_ipv4_rule_finish, HandleInv
<1>2. /\ Deleting /\ RuleDone /\ IndexDone /\ (IndexMoved <=> op.ipos = "head") /\ Quiet'
  BY <1>1, QuietPc DEF Deleting, RuleDone, Quiet, GoneR, GoneI, IndexMoved, IndexDone
<1>3. /\ NodeLeaves /\ Shape /\ x \in Entries /\ n \in Entries /\ x # 0 /\ 0 \in Entries
      /\ PosAgrees(op.ipos, x, n)
  BY <1>1, <1>2, Shapes, Numbers DEF Chains, Removing, NodeLeaves, Shape
<1>4. /\ GoneI = IF op.ipos = "only_one" THEN {} ELSE {g}
      /\ LinkedI = {y \in Entries : indx[y].ent # 0} \ GoneI
  BY <1>1, <1>2 DEF GoneI, LinkedI
<1>5. Chained(LinkedI, NextI, BackI, HomeI)
  BY DEF Chains, ChainsOfNodes
<1>6. g \notin LinkedI /\ g \in Entries
  BY <1>2, <1>3, <1>4 DEF NodeLeaves
<1>7. /\ indx'[g].ent = 0 /\ indx'[g].next = 0
      /\ \A y \in Entries : y # g => indx'[y] = indx[y]
  <2>1. DOMAIN indx = Entries /\ NoIndx.ent = 0 /\ NoIndx.next = 0
    BY <1>3 DEF Shape, NoIndx
  <2> HIDE DEF g
  <2> QED BY <1>1, <1>6, <2>1
<1>8. /\ op.ipos = "head" => /\ x \in LinkedI /\ meta[n] = x /\ indx[x].next = indx[n].next
                             /\ n # x
      /\ op.ipos \in {"middle", "last"} => /\ meta[x] \in LinkedI /\ indx[meta[x]].next = n
  BY <1>2, <1>3 DEF NodeLeaves, PosAgrees
<1> HIDE DEF g, x, n
<1>9. LinkedI' = LinkedI
  <2>1. LinkedI' = {y \in Entries : indx'[y].ent # 0}
    BY <1>1, <1>2 DEF LinkedI, Quiet
  <2>2. \A y \in Entries : indx'[y].ent # 0 <=> y \in LinkedI
    BY <1>4, <1>6, <1>7
  <2> QED BY <1>4, <2>1, <2>2
<1>10. \A y \in LinkedI : /\ y \in Entries /\ y # g /\ indx'[y] = indx[y]
                          /\ indx[y].ent \in Entries /\ indx[y].ent # op.ent
                          /\ Node(indx[y].ent) = y /\ Live(indx[y].ent)
  BY <1>2, <1>6, <1>7, NodesLeft DEF LinkedI
<1>11. /\ \A i \in Entries : tbl'[i].enable /\ ~tbl'[i].dead => Live(i) /\ i # op.ent
       /\ \A i \in Entries : Live(i) /\ i # op.ent =>
              /\ tbl'[i].enable /\ ~tbl'[i].dead /\ tbl'[i].flow = tbl[i].flow
              /\ tbl'[i].indx = IF op.ipos = "head" /\ i = indx[x].ent
                                THEN x ELSE tbl[i].indx
  BY FinishRules DEF Live, x
<1>12. \A y \in Entries : /\ NextI[y] = indx[y].next /\ NextI'[y] = indx'[y].next
                          /\ BackI[y] = IF meta[y] \in GoneI THEN meta[meta[y]] ELSE meta[y]
                          /\ BackI'[y] = meta'[y]
                          /\ HomeI[y] = src_hash(tbl[indx[y].ent].flow)
                          /\ HomeI'[y] = src_hash(tbl'[indx'[y].ent].flow)
  BY <1>2 DEF NextI, Links, BackI, HomeI, Quiet
\* The driver's own writes to the links back are what the chains already required.
<1>13. ASSUME NEW y \in LinkedI, ~Base(y) PROVE BackI'[y] = BackI[y]
  <2>1. /\ BackI[y] \in LinkedI /\ NextI[BackI[y]] = y /\ y \in Entries /\ y # 0
        /\ meta \in [Entries -> Entries]
    BY <1>1, <1>5, <1>10, <1>13, Numbers DEF Chained, TypeOK
  <2>2. CASE op.ipos = "head"
    <3>1. g = n /\ GoneI = {n}
      BY <1>4, <2>2 DEF g
    <3>2. BackI[y] = IF meta[y] = n THEN x ELSE meta[y]
      BY <1>8, <1>12, <2>1, <2>2, <3>1
    <3>3. meta' = IF indx[n].next >= TableEntries THEN [meta EXCEPT ![indx[n].next] = x] ELSE meta
      BY <1>1, <2>2 DEF UpdatedMeta, n, x
    <3>4. NextI[x] = indx[n].next
      BY <1>3, <1>8, <1>12, <2>2
    <3>5. CASE y = indx[n].next
      <4>1. BackI[y] = x
        BY <1>5, <1>8, <2>1, <2>2, <3>4, <3>5 DEF Chained
      <4>2. indx[n].next >= TableEntries
        BY <1>13, <2>1, <3>5, Numbers, SizesAssumption DEF Base
      <4> QED BY <1>12, <2>1, <3>3, <3>5, <4>1, <4>2
    <3>6. CASE y # indx[n].next
      <4>1. BackI[y] # x
        BY <2>1, <3>4, <3>6
      <4>2. meta'[y] = meta[y]
        BY <2>1, <3>3, <3>6
      <4> QED BY <1>12, <2>1, <3>2, <4>1, <4>2
    <3> QED BY <3>5, <3>6
  <2>3. CASE op.ipos \in {"middle", "last"}
    <3>1. g = x /\ GoneI = {x}
      BY <1>4, <2>3 DEF g
    <3>2. BackI[y] = IF meta[y] = x THEN meta[x] ELSE meta[y]
      BY <1>12, <2>1, <3>1
    <3>3. y # x /\ NextI[meta[x]] = n
      BY <1>6, <1>8, <1>10, <1>12, <2>3, <3>1
    <3>4. n # 0 <=> op.ipos = "middle"
      BY <1>3, <2>3 DEF PosAgrees
    <3>5. meta' = IF op.ipos = "middle" THEN [meta EXCEPT ![n] = meta[x], ![x] = 0] ELSE meta
      BY <1>1, <2>3 DEF UpdatedMeta, n, x
    <3>6. CASE y = n
      <4>1. BackI[y] = meta[x]
        BY <1>5, <1>8, <2>1, <2>3, <3>3, <3>6 DEF Chained
      <4>2. op.ipos = "middle"
        BY <2>1, <3>4, <3>6
      <4>3. meta'[y] = meta[x]
        BY <1>3, <2>1, <3>3, <3>5, <3>6, <4>2
      <4> QED BY <1>12, <2>1, <4>1, <4>3
    <3>7. CASE y # n
      <4>1. meta'[y] = meta[y]
        BY <1>3, <2>1, <3>3, <3>5, <3>7
      <4>2. meta[y] # x
        BY <2>1, <3>2, <3>3, <3>7
      <4> QED BY <1>12, <2>1, <3>2, <4>1, <4>2
    <3> QED BY <3>6, <3>7
  <2>4. CASE op.ipos = "only_one"
    BY <1>1, <1>4, <1>12, <2>1, <2>4 DEF UpdatedMeta
  <2> QED BY <1>3, <2>2, <2>3, <2>4 DEF PosAgrees
<1>14. ChainsOfNodes'
  <2>1. \A y \in LinkedI : NextI'[y] = NextI[y] /\ HomeI'[y] = HomeI[y]
    BY <1>10, <1>11, <1>12
  <2>2. \A y \in LinkedI : ~Base(y) => BackI'[y] = BackI[y]
    BY <1>13
  <2>3. Chained(LinkedI, NextI', BackI', HomeI')
    BY <1>5, <2>1, <2>2, ChainedAlike
  <2>4. \A y \in Entries : NextI'[y] = 0 \/ NextI'[y] = NextI[y]
    BY <1>7, <1>12
  <2>5. Ranked(NextI')
    BY <1>3, <2>4, LinksType, RankedKept DEF Chains, ChainsOfNodes
  <2>6. \A y \in Entries : y \notin LinkedI => NextI'[y] = 0
    BY <1>4, <1>7, <1>12, <2>4 DEF Chains, ChainsOfNodes
  <2> QED BY <1>2, <1>9, <2>3, <2>5, <2>6 DEF ChainsOfNodes, Quiet
\* The rule whose node moved into the head names the head now.
<1>15. ASSUME NEW i \in Entries, Live(i), i # op.ent
       PROVE  /\ Node(i) \in LinkedI /\ indx[Node(i)].ent = i
              /\ tbl'[i].indx = Node(i)
  <2>1. Node(i) \in LinkedI /\ indx[Node(i)].ent = i
    BY <1>15 DEF Chains, RulesNameNodes
  <2>2. tbl'[i].indx = IF op.ipos = "head" /\ i = indx[x].ent THEN x ELSE tbl[i].indx
    BY <1>11, <1>15
  <2>3. Node(i) = IF op.ipos = "head" /\ tbl[i].indx = n THEN x ELSE tbl[i].indx
    BY <1>2 DEF Node, n, x
  <2>4. CASE op.ipos = "head"
    <3>1. Node(indx[x].ent) = x
      BY <1>8, <1>10, <2>4
    <3> QED BY <2>1, <2>2, <2>3, <2>4, <3>1
  <2>5. CASE op.ipos # "head"
    BY <2>1, <2>2, <2>3, <2>5
  <2> QED BY <2>1, <2>4, <2>5
<1>16. RulesNameNodes'
  <2> SUFFICES ASSUME NEW i \in Entries, tbl'[i].enable, ~tbl'[i].dead
               PROVE  tbl'[i].indx \in LinkedI' /\ indx'[tbl'[i].indx].ent = i
    BY <1>2 DEF RulesNameNodes, Live, Node, Quiet
  <2> QED BY <1>9, <1>10, <1>11, <1>15
<1>17. NodesNameRules'
  <2> SUFFICES ASSUME NEW y \in LinkedI'
               PROVE  LET r == indx'[y].ent IN
                      tbl'[r].indx = y /\ tbl'[r].enable /\ ~tbl'[r].dead
    BY <1>2 DEF NodesNameRules, Live, Node, Quiet
  <2>1. /\ y \in LinkedI /\ indx'[y] = indx[y] /\ indx[y].ent \in Entries
        /\ indx[y].ent # op.ent /\ Live(indx[y].ent) /\ Node(indx[y].ent) = y
    BY <1>9, <1>10
  <2> QED BY <1>11, <1>15, <2>1
<1> QED BY <1>14, <1>16, <1>17

LEMMA FinishChains ==
  ASSUME HandleInv, Chains, del_ipv4_rule_finish
  PROVE  Chains'
<1> DEFINE f == op.flow
           k == held[f]
<1>1. /\ pc = "dma" /\ pc' = "idle" /\ TypeOK
      /\ ruleIds' = [ruleIds EXCEPT ![k] = 0] /\ held' = [held EXCEPT ![f] = 0]
  BY DEF del_ipv4_rule_finish, HandleInv
<1>2. Deleting /\ Quiet'
  BY <1>1, QuietPc DEF Deleting, Quiet, GoneR, GoneI, IndexMoved, IndexDone, RuleDone
<1>3. f \in Flows /\ k # 0 /\ op.ent = NamedEntry(f) /\ k \in Handles
  BY <1>1, <1>2, DeletedEntry, HeldFacts
<1>4. /\ ChainsOfRules' /\ RulesInUse'
      /\ \A i \in Entries : Live(i)' => Live(i) /\ i # op.ent
      /\ \A i \in Entries : Live(i) /\ i # op.ent => tbl'[i].flow = tbl[i].flow
  BY FinishRules
<1>5. ChainsOfNodes' /\ RulesNameNodes' /\ NodesNameRules'
  BY FinishNodes
<1>6. /\ \A h \in Handles : h # k => ruleIds'[h] = ruleIds[h]
      /\ ruleIds'[k] = 0
      /\ \A g \in Flows : g # f => held'[g] = held[g]
  BY <1>1, <1>3 DEF TypeOK
<1>7. ASSUME NEW i \in Entries, Live(i), i # op.ent
      PROVE  held'[tbl[i].flow] # 0 /\ EntryOf(ruleIds'[held'[tbl[i].flow]]) = i
  <2> DEFINE g == tbl[i].flow
  <2>1. held[g] # 0 /\ NamedEntry(g) = i
    BY <1>1, <1>7 DEF Chains, Owned
  <2>2. i \in LinkedR
    BY <1>7 DEF LinkedR, GoneR, Live
  <2>3. g \in Flows /\ g # f
    BY <1>3, <1>7, <2>1, <2>2 DEF Chains, RulesInUse
  <2>4. held[g] \in Handles
    BY <2>1, <2>3, HeldFacts
  <2>5. held[g] # k
    BY <1>3, <1>7, <2>1 DEF NamedEntry
  <2> QED BY <1>6, <2>1, <2>3, <2>4, <2>5 DEF NamedEntry
<1>8. ASSUME NEW h \in Handles, ruleIds'[h] # 0 PROVE \E g \in Flows : held'[g] = h
  <2>1. h # k /\ ruleIds[h] # 0
    BY <1>6, <1>8
  <2>2. PICK g \in Flows : held[g] = h
    BY <2>1 DEF Chains, Owned
  <2> QED BY <1>6, <2>1, <2>2
<1>9. Owned'
  <2> SUFFICES ASSUME NEW i \in Entries, tbl'[i].enable, ~tbl'[i].dead
               PROVE  held'[tbl'[i].flow] # 0 /\ EntryOf(ruleIds'[held'[tbl'[i].flow]]) = i
    BY <1>8 DEF Owned, Live, NamedEntry
  <2>1. Live(i) /\ i # op.ent
    BY <1>4 DEF Live
  <2> QED BY <1>4, <1>7, <2>1
<1>10. Adding' /\ Removing'
  BY <1>1, <1>2 DEF Adding, Removing, Quiet
<1> QED BY <1>4, <1>5, <1>9, <1>10 DEF Chains

-----------------------------------------------------------------------------
(* ChainInv is inductive *)

LEMMA InitChains == Init => ChainInv
<1> SUFFICES ASSUME Init PROVE Chains
  BY DEF ChainInv
<1>1. /\ \A i \in Entries : tbl[i] = NoRule /\ indx[i] = NoIndx /\ meta[i] = 0
      /\ \A h \in Handles : ruleIds[h] = 0
      /\ pc = "idle"
  BY DEF Init
<1>2. Quiet
  BY <1>1, QuietPc DEF Deleting
<1>3. /\ \A i \in Entries : /\ tbl[i].enable = FALSE /\ tbl[i].dead = FALSE /\ tbl[i].next = 0
                            /\ indx[i].ent = 0 /\ indx[i].next = 0
  BY <1>1 DEF NoRule, NoIndx
<1>4. LinkedR = {} /\ LinkedI = {}
  BY <1>1, <1>2, <1>3 DEF LinkedR, LinkedI, Quiet
<1>5. \A i \in Entries : NextR[i] = 0 /\ NextI[i] = 0
  BY <1>3 DEF NextR, NextI, Links
<1>6. Ranked(NextR) /\ Ranked(NextI)
  <2> DEFINE r == [i \in Entries |-> 0]
  <2>1. RankedBy(r, NextR) /\ RankedBy(r, NextI)
    BY <1>5 DEF RankedBy
  <2> HIDE DEF r
  <2> QED BY <2>1 DEF Ranked
<1>7. ChainsOfRules /\ ChainsOfNodes
  BY <1>4, <1>5, <1>6 DEF ChainsOfRules, ChainsOfNodes, Chained
<1>8. RulesInUse /\ RulesNameNodes /\ NodesNameRules /\ Owned
  BY <1>1, <1>3, <1>4 DEF RulesInUse, RulesNameNodes, NodesNameRules, Owned, Live
<1>9. Adding /\ Removing
  BY <1>1, <1>2 DEF Adding, Removing, Quiet
<1> QED BY <1>7, <1>8, <1>9 DEF Chains

\* A step after which no request was refused is one whose request was not.
LEMMA NotRefused ==
  ASSUME HandleInv, fails' = 0
  PROVE  ~DmaFails
<1>1. fails' # fails + 1
  BY FailAssumption DEF HandleInv, TypeOK
<1> QED BY <1>1 DEF DmaFails

\* A step that changes nothing.
LEMMA StutterChains ==
  ASSUME Chains, UNCHANGED vars
  PROVE  Chains'
<1>1. UNCHANGED <<tbl, indx, meta, ruleIds, held, pc, op>>
  BY DEF vars
<1>2. /\ Deleting' <=> Deleting
      /\ IndexMoved' <=> IndexMoved
      /\ IndexDone' <=> IndexDone
      /\ RuleDone' <=> RuleDone
  BY <1>1 DEF Deleting, IndexMoved, IndexDone, RuleDone
<1>3. GoneR' = GoneR
  BY <1>1, <1>2 DEF GoneR
<1>4. GoneI' = GoneI
  BY <1>1, <1>2 DEF GoneI
<1>5. LinkedR' = LinkedR
  BY <1>1, <1>3 DEF LinkedR
<1>6. LinkedI' = LinkedI
  BY <1>1, <1>4 DEF LinkedI
<1>7. NextR' = NextR /\ NextI' = NextI
  BY <1>1 DEF NextR, NextI, Links
<1>8. BackR' = BackR
  BY <1>1, <1>3 DEF BackR
<1>9. BackI' = BackI
  BY <1>1, <1>4 DEF BackI
<1>10. HomeR' = HomeR
  BY <1>1 DEF HomeR
<1>11. HomeI' = HomeI
  BY <1>1 DEF HomeI
<1>12. \A e : Live(e)' <=> Live(e)
  BY <1>1 DEF Live
<1>13. \A e : Node(e)' = Node(e)
  BY <1>1, <1>2 DEF Node
<1>14. ChainsOfRules'
  BY <1>3, <1>5, <1>7, <1>8, <1>10 DEF Chains, ChainsOfRules
<1>15. RulesInUse'
  BY <1>1, <1>2, <1>5 DEF Chains, RulesInUse
<1>16. ChainsOfNodes'
  BY <1>4, <1>6, <1>7, <1>9, <1>11 DEF Chains, ChainsOfNodes
<1>17. RulesNameNodes'
  BY <1>1, <1>2, <1>6, <1>12, <1>13 DEF Chains, RulesNameNodes
<1>18. NodesNameRules'
  BY <1>1, <1>2, <1>6, <1>12, <1>13 DEF Chains, NodesNameRules
<1>19. Owned'
  BY <1>1, <1>12 DEF Chains, Owned, NamedEntry
<1>20. RuleFits' <=> RuleFits
  BY <1>1, <1>5, <1>10 DEF RuleFits
<1>21. NodeFits' <=> NodeFits
  BY <1>1, <1>6, <1>11 DEF NodeFits
<1>22. Adding'
  BY <1>1, <1>6, <1>20, <1>21 DEF Chains, Adding
<1>23. /\ TakeCmd' = TakeCmd /\ SkipCmd' = SkipCmd
       /\ NodeCmd' = NodeCmd /\ RuleCmd' = RuleCmd
  BY <1>1 DEF TakeCmd, SkipCmd, NodeCmd, RuleCmd
<1>24. Batch' <=> Batch
  BY <1>1, <1>23 DEF Batch
<1>25. NodeLeaves' <=> NodeLeaves
  BY <1>1, <1>2, <1>6 DEF NodeLeaves
<1>26. RuleLeaves' <=> RuleLeaves
  BY <1>1, <1>2, <1>5, <1>12 DEF RuleLeaves
<1>27. Removing'
  BY <1>2, <1>24, <1>25, <1>26 DEF Chains, Removing
<1> QED BY <1>14, <1>15, <1>16, <1>17, <1>18, <1>19, <1>22, <1>27 DEF Chains

LEMMA ChainInvStep == HandleInv /\ ChainInv /\ [Next]_vars => ChainInv'
<1> SUFFICES ASSUME HandleInv, ChainInv, [Next]_vars, fails' = 0 PROVE Chains'
  BY DEF ChainInv
<1>1. fails \in 0 .. MaxFail
  BY DEF HandleInv, TypeOK
<1>2. ~DmaFails
  BY NotRefused, Zenon
<1>3. fails' = fails
  BY <1>2 DEF Next, vars, generate_rule, generate_rule_spins, copy_ipv4_rule_to_hw,
              copy_ipv4_index_rule_to_hw, write_next_index, post_ipv4_dma_cmd, make_rule_hdl,
              post_del_dma_cmd, dma_step, del_ipv4_rule_finish
<1>4. Chains
  BY <1>3 DEF ChainInv
<1>5. ASSUME NEW f \in Flows, generate_rule(f) PROVE Chains'
  BY <1>4, <1>5, GenerateChains
<1>6. ASSUME NEW f \in Flows, generate_rule_spins(f) PROVE Chains'
  BY <1>4, <1>6, SpinsChains
<1>7. ASSUME NEW f \in Flows, post_del_dma_cmd(f) PROVE Chains'
  BY <1>3, <1>4, <1>7, PostDeleteChains
<1>8. CASE write_next_index
  <2>1. pc = "link_rule" \/ pc = "link_indx"
    BY <1>8 DEF write_next_index
  <2> QED BY <1>3, <1>4, <1>8, <2>1, LinkRuleChains, LinkIndexChains
<1>9. CASE UNCHANGED vars
  BY <1>4, <1>9, StutterChains
<1> QED BY <1>3, <1>4, <1>5, <1>6, <1>7, <1>8, <1>9, CopyRuleChains, CopyIndexChains, EnableChains,
           MakeHandleChains, DmaChains, FinishChains DEF Next

-----------------------------------------------------------------------------
(* What the invariant says of the hardware's searches *)

\* A rule in the chain of its flow is found, and so is its node.
LEMMA Found ==
  ASSUME HandleInv, Chains, NEW f \in Flows, NEW e \in LinkedR, Live(e), tbl[e].flow = f
  PROVE  /\ DstHit(f)
         /\ \A x \in LinkedI : indx[x].ent = e => SrcHit(f)
<1>1. Walkable(tbl) /\ Walkable(indx)
  BY TablesWalk
<1>2. /\ dst_hash(f) \in Entries \ {0} /\ src_hash(f) \in Entries \ {0}
  BY HashIsBase, Numbers
<1>3. LinkedR \subseteq Entries \ {0} /\ LinkedI \subseteq Entries \ {0}
  BY DEF Chains, ChainsOfRules, ChainsOfNodes, Chained, Usable
<1>4. Matches(e, f) /\ HomeR[e] = dst_hash(f)
  BY <1>3 DEF Matches, Live, HomeR
<1>5. DstHit(f)
  <2>1. Chained(LinkedR, Links(tbl), BackR, HomeR)
    BY DEF Chains, ChainsOfRules, NextR
  <2>2. e \in Walk(tbl, HomeR[e])
    BY <1>1, <1>2, <1>4, <2>1, Reached
  <2> QED BY <1>4, <2>2 DEF DstHit
<1>6. ASSUME NEW x \in LinkedI, indx[x].ent = e PROVE SrcHit(f)
  <2>1. Chained(LinkedI, Links(indx), BackI, HomeI)
    BY DEF Chains, ChainsOfNodes, NextI
  <2>2. HomeI[x] = src_hash(f)
    BY <1>3, <1>6 DEF HomeI
  <2>3. x \in Walk(indx, HomeI[x])
    BY <1>1, <1>2, <2>1, <2>2, Reached
  <2> QED BY <1>3, <1>4, <1>6, <2>2, <2>3 DEF SrcHit
<1> QED BY <1>5, <1>6

\* A search meets entries that are in the chains, or only its start.
LEMMA Met ==
  ASSUME HandleInv, Chains, NEW f \in Flows
  PROVE  /\ \A e \in Walk(tbl, dst_hash(f)) : e \in Entries /\ (e \in LinkedR \/ Base(e))
         /\ \A x \in Walk(indx, src_hash(f)) : x \in Entries /\ (x \in LinkedI \/ Base(x))
<1> DEFINE i == dst_hash(f)
           j == src_hash(f)
<1>1. Walkable(tbl) /\ Walkable(indx)
  BY TablesWalk
<1>2. i \in Entries \ {0} /\ j \in Entries \ {0} /\ Base(i) /\ Base(j)
  BY HashIsBase, Numbers
<1>3. /\ Chained(LinkedR, Links(tbl), BackR, HomeR) /\ Chained(LinkedI, Links(indx), BackI, HomeI)
      /\ LinkedR \subseteq Entries /\ LinkedI \subseteq Entries
  BY DEF Chains, ChainsOfRules, ChainsOfNodes, NextR, NextI, Chained, Usable
<1> HIDE DEF i, j
<1>4. i \notin LinkedR => Links(tbl)[i] = 0
  <2>1. i \notin GoneR
    BY <1>2 DEF Chains, Removing, RuleLeaves, PosAgrees, GoneR, RuleDone
  <2> QED BY <1>2, <2>1 DEF Chains, ChainsOfRules, NextR
<1>5. j \notin LinkedI => Links(indx)[j] = 0
  <2>1. j \notin GoneI
    BY <1>2 DEF Chains, Removing, NodeLeaves, PosAgrees, GoneI, IndexDone, IndexMoved
  <2> QED BY <1>2, <2>1 DEF Chains, ChainsOfNodes, NextI
<1>6. ASSUME NEW e \in Walk(tbl, i) PROVE e \in Entries /\ (e \in LinkedR \/ Base(e))
  <2>1. CASE i \in LinkedR
    BY <1>1, <1>3, <2>1, WalkStays
  <2>2. CASE i \notin LinkedR
    BY <1>1, <1>2, <1>4, <2>2, WalkAlone
  <2> QED BY <2>1, <2>2
<1>7. ASSUME NEW x \in Walk(indx, j) PROVE x \in Entries /\ (x \in LinkedI \/ Base(x))
  <2>1. CASE j \in LinkedI
    BY <1>1, <1>3, <2>1, WalkStays
  <2>2. CASE j \notin LinkedI
    BY <1>1, <1>2, <1>5, <2>2, WalkAlone
  <2> QED BY <2>1, <2>2
<1> QED BY <1>6, <1>7 DEF i, j

\* The rule of an established flow is in both chains of its flow.
LEMMA EstablishedFound ==
  ASSUME HandleInv, Chains, NEW f \in Flows, Established(f)
  PROVE  DstHit(f) /\ SrcHit(f)
<1> DEFINE e == NamedEntry(f)
<1>1. held[f] # 0
  BY DEF Established
<1>2. e \in Entries /\ Live(e) /\ tbl[e].flow = f
  BY <1>1, HeldFacts DEF Live
<1>3. ~(Deleting /\ e = op.ent)
  <2> SUFFICES ASSUME Deleting, e = op.ent PROVE FALSE
    OBVIOUS
  <2>1. tbl[op.ent].flow = op.flow
    BY DeletedEntry
  <2>2. op.kind = "del"
    BY DEF HandleInv, OpAgrees, Deleting
  <2> QED BY <1>2, <2>1, <2>2 DEF Established
<1>4. e \in LinkedR
  BY <1>2, <1>3 DEF LinkedR, GoneR, RuleDone, Live
<1>5. Node(e) \in LinkedI /\ indx[Node(e)].ent = e
  BY <1>2, <1>3 DEF Chains, RulesNameNodes
<1> HIDE DEF e
<1> QED BY <1>2, <1>4, <1>5, Found

\* Every search for the end of a chain comes to it.
LEMMA ChainsEnd ==
  ASSUME HandleInv, Chains
  PROVE  NoCircle
BY TablesWalk, WalkFacts, Numbers DEF NoCircle, Usable

\* Between calls the links back are exact, and nothing is in use that no flow holds.
LEMMA NothingLeft ==
  ASSUME HandleInv, Chains, pc = "idle"
  PROVE  BackLinksAgree /\ NothingLeaked
<1>1. Quiet /\ Shape /\ op.kind = "none"
  BY QuietPc, Shapes DEF Deleting, HandleInv, OpAgrees
<1>2. /\ LinkedR = {i \in Entries : tbl[i].enable} /\ LinkedI = {x \in Entries : indx[x].ent # 0}
  BY <1>1 DEF LinkedR, LinkedI, Quiet
<1>3. /\ \A i \in Entries : NextR[i] = tbl[i].next /\ NextI[i] = indx[i].next
      /\ \A i \in Entries : BackR[i] = tbl[i].prev /\ BackI[i] = meta[i]
  BY <1>1 DEF NextR, NextI, Links, BackR, BackI, Quiet
<1>4. \A i \in Entries : tbl[i].next # 0 => tbl[tbl[i].next].prev = i
  <2> SUFFICES ASSUME NEW i \in Entries, tbl[i].next # 0 PROVE tbl[tbl[i].next].prev = i
    OBVIOUS
  <2>1. i \in LinkedR
    BY <1>1, <1>3 DEF Chains, ChainsOfRules, Quiet
  <2>2. BackR[tbl[i].next] = i
    BY <1>3, <2>1 DEF Chains, ChainsOfRules, Chained
  <2> QED BY <1>1, <1>3, <2>2 DEF Shape
<1>5. \A x \in Entries : indx[x].next # 0 => meta[indx[x].next] = x
  <2> SUFFICES ASSUME NEW x \in Entries, indx[x].next # 0 PROVE meta[indx[x].next] = x
    OBVIOUS
  <2>1. x \in LinkedI
    BY <1>1, <1>3 DEF Chains, ChainsOfNodes, Quiet
  <2>2. BackI[indx[x].next] = x
    BY <1>3, <2>1 DEF Chains, ChainsOfNodes, Chained
  <2> QED BY <1>1, <1>3, <2>2 DEF Shape
<1>6. \A i \in Entries : Live(i) => indx[tbl[i].indx].ent = i
  BY <1>1 DEF Chains, RulesNameNodes, Node, Quiet
<1>7. ASSUME NEW i \in Entries, tbl[i].enable
      PROVE  (\E f \in Flows : Established(f) /\ Matches(i, f)) \/ (tbl[i].dead /\ tbl[i].next # 0)
  <2>1. CASE tbl[i].dead
    BY <1>1, <2>1 DEF Chains, RulesInUse, Quiet
  <2>2. CASE ~tbl[i].dead
    <3>1. tbl[i].flow \in Flows
      BY <1>2, <1>7 DEF Chains, RulesInUse
    <3>2. held[tbl[i].flow] # 0
      BY <1>7, <2>2 DEF Chains, Owned, Live
    <3> QED BY <1>1, <1>7, <2>2, <3>1, <3>2 DEF Established, Matches
  <2> QED BY <2>1, <2>2
<1>8. \A x \in Entries : indx[x].ent # 0 => tbl[indx[x].ent].enable
  BY <1>1, <1>2 DEF Chains, NodesNameRules, Live, Quiet
<1>9. \A h \in Handles : ruleIds[h] # 0 => \E f \in Flows : held[f] = h
  BY DEF Chains, Owned
<1> QED BY <1>4, <1>5, <1>6, <1>7, <1>8, <1>9 DEF BackLinksAgree, NothingLeaked, Live

-----------------------------------------------------------------------------
(* The service *)

\* What is in force for a flow, as the calls alone have it: both directions from the enabling
\* of its rule, none from the last command of its deletion, and between only downlink.
Granted(f) ==
  IF Deleting /\ f = op.flow
  THEN IF RuleDone THEN "none" ELSE IF IndexMoved \/ IndexDone THEN "down" ELSE "both"
  ELSE IF held[f] # 0 \/ (pc = "make_hdl" /\ f = op.flow) THEN "both" ELSE "none"

\* While no request was refused.
ForceInv == fails = 0 => \A f \in Flows : InForce(f) = Granted(f)

\* A flow with a rule alive is the owner of that rule.
LEMMA OwnerOfRule ==
  ASSUME HandleInv, Chains, NEW f \in Flows, NEW e \in Entries, Live(e), tbl[e].flow = f
  PROVE  \/ pc = "make_hdl" /\ e = op.ent /\ f = op.flow
         \/ held[f] # 0 /\ e = NamedEntry(f)
<1>1. CASE pc = "make_hdl" /\ e = op.ent
  BY <1>1 DEF HandleInv, OpAgrees, AddSteps
<1>2. CASE ~(pc = "make_hdl" /\ e = op.ent)
  BY <1>2 DEF Chains, Owned
<1> QED BY <1>1, <1>2

\* A flow under deletion is found until its node is gone, downlink until its rule is gone.
LEMMA DeletedForce ==
  ASSUME HandleInv, Chains, Deleting
  PROVE  /\ DstHit(op.flow) <=> ~RuleDone
         /\ SrcHit(op.flow) <=> ~IndexMoved /\ ~IndexDone
<1> DEFINE f == op.flow
           e == op.ent
<1>1. /\ e \in Usable /\ e \in Entries /\ f \in Flows /\ e = NamedEntry(f) /\ tbl[e].flow = f
      /\ pc = "dma" /\ NodeLeaves /\ RuleLeaves
  BY DeletedEntry, Numbers DEF Chains, Removing, Deleting
<1>2. \A i \in Entries : Live(i) /\ tbl[i].flow = f => i = e
  BY <1>1, OwnerOfRule
<1>3. RuleDone => IndexDone
  BY DEF RuleDone, IndexDone
<1>4. ASSUME ~RuleDone PROVE Live(e) /\ e \in LinkedR
  BY <1>1, <1>4 DEF RuleLeaves, LinkedR, GoneR, Live
<1>5. ~RuleDone => DstHit(f)
  <2> HIDE DEF f, e
  <2> QED BY <1>1, <1>4, Found
<1>6. ASSUME ~IndexMoved, ~IndexDone PROVE SrcHit(f)
  <2>1. op.indx \in LinkedI /\ indx[op.indx].ent = e /\ ~RuleDone
    BY <1>1, <1>3, <1>6 DEF NodeLeaves
  <2> HIDE DEF f, e
  <2> QED BY <1>1, <1>4, <2>1, Found
<1>7. ASSUME RuleDone, DstHit(f) PROVE FALSE
  <2>1. PICK i \in Walk(tbl, dst_hash(f)) : Matches(i, f)
    BY <1>7 DEF DstHit
  <2>2. i \in Entries /\ (i \in LinkedR \/ Base(i))
    BY <1>1, <2>1, Met
  <2>3. Live(i) /\ i = e
    BY <1>2, <2>1, <2>2 DEF Matches, Live
  <2>4. op.pos \in {"middle", "last"} /\ ~Base(e)
    BY <1>1, <1>7, <2>3 DEF RuleLeaves, PosAgrees, Live
  <2> QED BY <1>7, <2>2, <2>3, <2>4 DEF LinkedR, GoneR
<1>8. ASSUME IndexMoved \/ IndexDone, SrcHit(f) PROVE FALSE
  <2>1. PICK x \in Walk(indx, src_hash(f)) : indx[x].ent # 0 /\ Matches(indx[x].ent, f)
    BY <1>8 DEF SrcHit
  <2>2. x \in Entries /\ (x \in LinkedI \/ Base(x)) /\ indx[x].ent \in Entries
    BY <1>1, <2>1, Met, Shapes DEF HandleInv, Shape
  <2>3. indx[x].ent = e
    BY <1>2, <2>1, <2>2 DEF Matches, Live
  <2>4. x \in LinkedI
    <3>1. x \in GoneI => ~Base(x)
      BY <1>1 DEF NodeLeaves, PosAgrees, GoneI, IndexDone, IndexMoved
    <3> QED BY <1>1, <2>1, <2>2, <3>1 DEF LinkedI
  <2>5. CASE op.ipos = "head"
    <3>1. IndexMoved
      BY <1>8, <2>5 DEF IndexMoved, IndexDone
    <3>2. indx[op.indx].ent = indx[op.inext].ent /\ indx[op.indx].ent # e
      BY <1>1, <3>1 DEF NodeLeaves
    <3>3. x # op.inext /\ x # op.indx
      BY <2>3, <3>2
    <3>4. Node(e) = x
      BY <2>3, <2>4, <3>3 DEF Chains, NodesNameRules
    <3> QED BY <1>1, <3>3, <3>4 DEF Node, RuleLeaves
  <2>6. CASE op.ipos # "head"
    <3>1. ~IndexMoved /\ IndexDone
      BY <1>8, <2>6 DEF IndexMoved
    <3>2. op.indx \notin LinkedI
      BY <1>1, <2>6, <3>1 DEF NodeLeaves, PosAgrees
    <3>3. Node(e) = x
      BY <2>3, <2>4, <3>1 DEF Chains, NodesNameRules
    <3> QED BY <1>1, <2>4, <3>1, <3>2, <3>3 DEF Node, RuleLeaves
  <2> QED BY <2>5, <2>6
<1> QED BY <1>3, <1>5, <1>6, <1>7, <1>8

\* What the hardware finds is what the calls have put in force.
LEMMA ForceIsGranted ==
  ASSUME HandleInv, Chains, NEW f \in Flows
  PROVE  InForce(f) = Granted(f)
<1>1. CASE Deleting /\ f = op.flow
  <2>1. RuleDone => IndexDone
    BY DEF RuleDone, IndexDone
  <2> QED BY <1>1, <2>1, DeletedForce DEF InForce, Granted
<1>2. CASE ~(Deleting /\ f = op.flow) /\ held[f] # 0
  <2>1. Established(f)
    BY <1>2 DEF Established, HandleInv, OpAgrees, Deleting, AddSteps, TypeOK
  <2> QED BY <1>2, <2>1, EstablishedFound DEF InForce, Granted
<1>3. CASE ~(Deleting /\ f = op.flow) /\ held[f] = 0 /\ pc = "make_hdl" /\ f = op.flow
  <2>1. op.ent \in Entries /\ Live(op.ent) /\ tbl[op.ent].flow = f
    BY <1>3 DEF HandleInv, OpAgrees, AddSteps, Live, TypeOK, OpType
  <2>2. op.ent \in LinkedR /\ Quiet
    BY <1>3, <2>1, QuietPc DEF LinkedR, Live, Deleting, Quiet
  <2>3. tbl[op.ent].indx \in LinkedI /\ indx[tbl[op.ent].indx].ent = op.ent
    BY <2>1, <2>2 DEF Chains, RulesNameNodes, Node, Quiet
  <2>4. DstHit(f) /\ SrcHit(f)
    BY <2>1, <2>2, <2>3, Found
  <2> QED BY <1>3, <2>4 DEF InForce, Granted
<1>4. CASE ~(Deleting /\ f = op.flow) /\ held[f] = 0 /\ ~(pc = "make_hdl" /\ f = op.flow)
  <2>1. \A e \in Entries : ~Matches(e, f)
    BY <1>4, OwnerOfRule DEF Matches, Live
  <2>2. ~DstHit(f)
    BY <2>1, Met DEF DstHit
  <2>3. ~SrcHit(f)
    <3>1. \A x \in Entries : indx[x].ent \in Entries
      BY Shapes DEF HandleInv, Shape
    <3> QED BY <2>1, <3>1, Met DEF SrcHit
  <2> QED BY <1>4, <2>2, <2>3 DEF InForce, Granted
<1> QED BY <1>1, <1>2, <1>3, <1>4

-----------------------------------------------------------------------------
(* The tables implement the service *)

\* What the refinement makes of the variables of the service.
Forces == [f \in Flows |-> IF fails = 0 THEN InForce(f) ELSE "unknown"]
Owners == {f \in Flows : held[f] # 0}

Turns(f, from, to) ==
  /\ Forces[f] = from /\ Forces' = [Forces EXCEPT ![f] = to]
  /\ UNCHANGED <<Owners, fails>>

\* The steps of the service, in these terms.
LEMMA ServiceSteps ==
  /\ fails' > 0 => Service!Next
  /\ \A f \in Flows :
       /\ Turns(f, "none", "both") /\ f \notin Owners => Service!Next
       /\ Turns(f, "both", "down") /\ f \in Owners => Service!Next
       /\ Turns(f, "down", "none") /\ f \in Owners => Service!Next
       /\ Forces[f] = "both" /\ Owners' = Owners \cup {f} /\ UNCHANGED <<Forces, fails>>
            => Service!Next
       /\ Forces[f] = "none" /\ Owners' = Owners \ {f} /\ UNCHANGED <<Forces, fails>>
            => Service!Next
  /\ UNCHANGED <<Forces, Owners, fails>> => UNCHANGED Service!vars
<1>1. ASSUME fails' > 0 PROVE Service!Refuse
  <2>1. fails' # 0 /\ (fails' > 0) = TRUE
    BY <1>1
  <2> QED BY <2>1 DEF Service!Refuse
<1>2. ASSUME NEW f \in Flows, Turns(f, "none", "both"), f \notin Owners PROVE Service!Next
  <2>1. Service!Enable(f)
    BY <1>2 DEF Service!Enable, Forces, Owners, Turns
  <2>2. UNCHANGED fails
    BY <1>2 DEF Turns
  <2> QED BY <2>1, <2>2 DEF Service!Next
<1>3. ASSUME NEW f \in Flows, Turns(f, "both", "down"), f \in Owners PROVE Service!Next
  <2>1. Service!StopUp(f)
    BY <1>3 DEF Service!StopUp, Forces, Owners, Turns
  <2>2. UNCHANGED fails
    BY <1>3 DEF Turns
  <2> QED BY <2>1, <2>2 DEF Service!Next
<1>4. ASSUME NEW f \in Flows, Turns(f, "down", "none"), f \in Owners PROVE Service!Next
  <2>1. Service!StopDown(f)
    BY <1>4 DEF Service!StopDown, Forces, Owners, Turns
  <2>2. UNCHANGED fails
    BY <1>4 DEF Turns
  <2> QED BY <2>1, <2>2 DEF Service!Next
<1>5. ASSUME NEW f \in Flows, Forces[f] = "both", Owners' = Owners \cup {f},
            UNCHANGED <<Forces, fails>> PROVE Service!Next
  <2>1. Service!Own(f)
    BY <1>5 DEF Service!Own, Forces, Owners
  <2>2. UNCHANGED fails
    BY <1>5
  <2> QED BY <2>1, <2>2 DEF Service!Next
<1>6. ASSUME NEW f \in Flows, Forces[f] = "none", Owners' = Owners \ {f},
            UNCHANGED <<Forces, fails>> PROVE Service!Next
  <2>1. Service!Disown(f)
    BY <1>6 DEF Service!Disown, Forces, Owners
  <2>2. UNCHANGED fails
    BY <1>6
  <2> QED BY <2>1, <2>2 DEF Service!Next
<1>7. ASSUME UNCHANGED <<Forces, Owners, fails>> PROVE UNCHANGED Service!vars
  BY <1>7 DEF Service!vars, Forces, Owners
<1>8. fails' > 0 => Service!Next
  BY <1>1 DEF Service!Next
<1> QED BY <1>2, <1>3, <1>4, <1>5, <1>6, <1>7, <1>8

\* The tables before and after a step, while no request is refused.
LEMMA ForcesAre ==
  ASSUME ForceInv, ForceInv', fails = 0, fails' = 0
  PROVE  /\ Forces = [f \in Flows |-> Granted(f)]
         /\ Forces' = [f \in Flows |-> Granted(f)']
BY DEF ForceInv, Forces

Same == Forces' = Forces /\ Owners' = Owners /\ fails' = fails

\* A step that neither enables a rule nor is part of a deletion.
LEMMA QuietSteps ==
  ASSUME HandleInv, Chains, ForceInv, ForceInv', fails = 0, fails' = 0,
         \/ \E f \in Flows : generate_rule(f) \/ generate_rule_spins(f) \/ post_del_dma_cmd(f)
         \/ copy_ipv4_rule_to_hw \/ copy_ipv4_index_rule_to_hw \/ write_next_index
         \/ UNCHANGED vars
  PROVE  Same
<1>1. ~DmaFails
  BY NotRefused, Zenon
<1>2. held' = held
  BY <1>1 DEF generate_rule, generate_rule_spins, post_del_dma_cmd, copy_ipv4_rule_to_hw,
              copy_ipv4_index_rule_to_hw, write_next_index, vars
<1>3. CASE UNCHANGED <<tbl, indx>>
  BY <1>2, <1>3 DEF Same, Forces, Owners, InForce, DstHit, SrcHit, Walk, Matches
<1>4. CASE copy_ipv4_rule_to_hw \/ copy_ipv4_index_rule_to_hw \/ write_next_index
  <2>1. /\ pc \notin {"dma", "make_hdl"} /\ pc' \notin {"dma", "make_hdl"}
    BY <1>4 DEF copy_ipv4_rule_to_hw, copy_ipv4_index_rule_to_hw, write_next_index
  <2>2. \A f \in Flows : Granted(f)' = Granted(f)
    <3>1. ~Deleting /\ ~Deleting' /\ pc # "make_hdl" /\ pc' # "make_hdl"
      BY <2>1 DEF Deleting
    <3> QED BY <1>2, <3>1, Zenon DEF Granted
  <2> QED BY <1>2, <2>2, ForcesAre DEF Same, Owners
<1>5. CASE UNCHANGED vars \/ (\E f \in Flows : \/ generate_rule(f) \/ generate_rule_spins(f)
                                                \/ post_del_dma_cmd(f))
  BY <1>3, <1>5 DEF generate_rule, generate_rule_spins, post_del_dma_cmd, vars
<1> QED BY <1>4, <1>5

\* The enabling of a rule and the handle for it.
LEMMA EnableServes ==
  ASSUME HandleInv, ForceInv, ForceInv', fails = 0, fails' = 0, post_ipv4_dma_cmd
  PROVE  Service!Next
<1>1. /\ pc = "enable" /\ pc' = "make_hdl" /\ UNCHANGED <<held, op>>
  BY DEF post_ipv4_dma_cmd, DmaFails
<1>2. op.flow \in Flows /\ held[op.flow] = 0
  BY <1>1 DEF HandleInv, OpAgrees, AddSteps
<1>3. \A f \in Flows : /\ Granted(f) = IF held[f] # 0 THEN "both" ELSE "none"
                       /\ Granted(f)' = IF f = op.flow THEN "both" ELSE Granted(f)
  BY <1>1 DEF Granted, Deleting
<1>4. Turns(op.flow, "none", "both") /\ op.flow \notin Owners
  BY <1>1, <1>2, <1>3, ForcesAre DEF Turns, Owners
<1> QED BY <1>2, <1>4, ServiceSteps

LEMMA MakeHandleServes ==
  ASSUME HandleInv, HandleInv', ForceInv, ForceInv', fails = 0, fails' = 0, make_rule_hdl
  PROVE  Service!Next
<1> DEFINE h == FirstFree({i \in Handles : ruleIds[i] = 0})
<1>1. /\ pc = "make_hdl" /\ pc' = "idle" /\ held' = [held EXCEPT ![op.flow] = h]
  BY DEF make_rule_hdl
<1>2. op.flow \in Flows /\ held[op.flow] = 0 /\ held \in [Flows -> Handles \cup {0}]
  BY <1>1 DEF HandleInv, OpAgrees, AddSteps, TypeOK
<1>3. h # 0
  <2> DEFINE S == {i \in Handles : ruleIds[i] = 0}
  <2>1. S \in SUBSET Nat /\ S # {} /\ 0 \notin S
    BY FreeSlotExists DEF Handles, HandleInv
  <2> QED BY <2>1, FirstFreeIsLeast
<1> HIDE DEF h
<1>4. held'[op.flow] # 0 /\ \A f \in Flows : f # op.flow => held'[f] = held[f]
  BY <1>1, <1>2, <1>3
<1>5. \A f \in Flows : Granted(f)' = Granted(f)
  BY <1>1, <1>4 DEF Granted, Deleting
<1>6. Granted(op.flow) = "both"
  BY <1>1 DEF Granted, Deleting
<1>7. Owners' = Owners \cup {op.flow}
  BY <1>2, <1>4 DEF Owners
<1>8. Forces[op.flow] = "both" /\ UNCHANGED <<Forces, fails>>
  BY <1>2, <1>5, <1>6, ForcesAre
<1> QED BY <1>2, <1>7, <1>8, ServiceSteps

\* The node of a rule goes first, then the rule.
LEMMA DmaServes ==
  ASSUME HandleInv, Chains, ForceInv, ForceInv', fails = 0, fails' = 0, dma_step
  PROVE  Service!Next \/ Same
<1>1. /\ Executing
      /\ \/ op.ipos = "head" /\ Len(op.cmds) = 3 /\ Len(op'.cmds) = 2
         \/ op.ipos = "head" /\ Len(op.cmds) = 2 /\ Len(op'.cmds) = 1
         \/ op.ipos # "head" /\ Len(op.cmds) = 2 /\ Len(op'.cmds) = 1
         \/ Len(op.cmds) = 1 /\ Len(op'.cmds) = 0
  BY DmaCommand
<1>2. /\ op.flow \in Flows /\ held[op.flow] # 0 /\ op'.flow = op.flow /\ held' = held
      /\ Deleting /\ Deleting' /\ op'.ipos = op.ipos
  BY <1>1, DeletedEntry DEF Executing, Deleting
<1>3. \A f \in Flows : f # op.flow => Granted(f)' = Granted(f)
  BY <1>1, <1>2 DEF Granted, Executing
<1>4. op.flow \in Owners /\ Owners' = Owners
  BY <1>2 DEF Owners
<1> USE DEF IndexMoved, IndexDone, RuleDone
<1>5. ASSUME \/ op.ipos = "head" /\ Len(op.cmds) = 3 /\ Len(op'.cmds) = 2
             \/ op.ipos # "head" /\ Len(op.cmds) = 2 /\ Len(op'.cmds) = 1
      PROVE  Service!Next
  <2>1. /\ ~RuleDone /\ ~IndexMoved /\ ~IndexDone
        /\ ~RuleDone' /\ (IndexMoved' \/ IndexDone')
    <3>1. CASE op.ipos = "head" /\ Len(op.cmds) = 3 /\ Len(op'.cmds) = 2
      BY <1>2, <3>1
    <3>2. CASE op.ipos # "head" /\ Len(op.cmds) = 2 /\ Len(op'.cmds) = 1
      BY <1>2, <3>2
    <3> HIDE DEF RuleDone, IndexMoved, IndexDone
    <3> QED BY <1>5, <3>1, <3>2
  <2> HIDE DEF RuleDone, IndexMoved, IndexDone
  <2>3. Granted(op.flow) = "both" /\ Granted(op.flow)' = "down"
    BY <1>2, <2>1 DEF Granted
  <2>2. Turns(op.flow, "both", "down")
    BY <1>2, <1>3, <1>4, <2>3, ForcesAre DEF Turns
  <2> QED BY <1>2, <1>4, <2>2, ServiceSteps
<1>6. ASSUME op.ipos = "head" /\ Len(op.cmds) = 2 /\ Len(op'.cmds) = 1
      PROVE  Same
  <2>1. Granted(op.flow)' = Granted(op.flow)
    BY <1>2, <1>6 DEF Granted
  <2>2. \A f \in Flows : Granted(f)' = Granted(f)
    BY <1>2, <1>3, <2>1
  <2>3. Forces' = Forces
    BY <2>2, ForcesAre
  <2> QED BY <1>4, <2>3 DEF Same
<1>7. ASSUME Len(op.cmds) = 1 /\ Len(op'.cmds) = 0
      PROVE  Service!Next
  <2>1. Granted(op.flow) = "down" /\ Granted(op.flow)' = "none"
    BY <1>2, <1>7 DEF Granted
  <2>2. Turns(op.flow, "down", "none")
    BY <1>2, <1>3, <1>4, <2>1, ForcesAre DEF Turns
  <2> QED BY <1>2, <1>4, <2>2, ServiceSteps
<1> QED BY <1>1, <1>5, <1>6, <1>7

\* The driver's own writes end the deletion.
LEMMA FinishServes ==
  ASSUME HandleInv, ForceInv, ForceInv', fails = 0, fails' = 0, del_ipv4_rule_finish
  PROVE  Service!Next
<1>1. /\ Deleting /\ op.cmds = <<>> /\ pc' = "idle" /\ held' = [held EXCEPT ![op.flow] = 0]
  BY DEF del_ipv4_rule_finish, Deleting
<1>2. op.flow \in Flows /\ held \in [Flows -> Handles \cup {0}]
  BY <1>1, DeletedEntry DEF HandleInv, TypeOK
<1>3. RuleDone
  BY <1>1 DEF RuleDone
<1>4. held'[op.flow] = 0 /\ \A f \in Flows : f # op.flow => held'[f] = held[f]
  BY <1>1, <1>2
<1>5. Granted(op.flow) = "none" /\ \A f \in Flows : Granted(f)' = Granted(f)
  BY <1>1, <1>3, <1>4 DEF Granted, Deleting
<1>6. Owners' = Owners \ {op.flow}
  BY <1>2, <1>4 DEF Owners
<1>7. Forces[op.flow] = "none" /\ UNCHANGED <<Forces, fails>>
  BY <1>2, <1>5, ForcesAre
<1> QED BY <1>2, <1>6, <1>7, ServiceSteps

LEMMA StepServes ==
  ASSUME HandleInv, HandleInv', ChainInv, ForceInv, ForceInv', [Next]_vars
  PROVE  [Service!Next]_(Service!vars)
<1>1. fails \in Nat /\ fails' \in Nat
  BY FailAssumption DEF HandleInv, TypeOK
<1>2. CASE fails' # 0
  BY <1>1, <1>2, ServiceSteps
<1>3. CASE fails' = 0
  <2>4. ~DmaFails
    BY <1>3, NotRefused, Zenon
  <2>1. fails = 0
    BY <1>3, <2>4 DEF Next, vars, generate_rule, generate_rule_spins,
       copy_ipv4_rule_to_hw, copy_ipv4_index_rule_to_hw, write_next_index, post_ipv4_dma_cmd,
       make_rule_hdl, post_del_dma_cmd, dma_step, del_ipv4_rule_finish
  <2>2. Chains
    BY <2>1 DEF ChainInv
  <2>3. Same => UNCHANGED Service!vars
    BY ServiceSteps DEF Same
  <2> QED BY <1>3, <2>1, <2>2, <2>3, QuietSteps, EnableServes, MakeHandleServes, DmaServes,
             FinishServes DEF Next
<1> QED BY <1>2, <1>3

LEMMA InitServes == Init => Service!Init
<1> SUFFICES ASSUME Init PROVE Service!Init
  OBVIOUS
<1>1. HandleInv /\ ChainInv /\ fails = 0 /\ pc = "idle"
  BY InitHandles, InitChains DEF Init
<1>2. \A f \in Flows : InForce(f) = Granted(f) /\ held[f] = 0
  BY <1>1, ForceIsGranted DEF ChainInv, Init
<1>3. \A f \in Flows : Granted(f) = "none"
  BY <1>1, <1>2 DEF Granted, Deleting
<1>4. (fails > 0) = FALSE
  BY <1>1
<1> QED BY <1>1, <1>2, <1>3, <1>4 DEF Service!Init

-----------------------------------------------------------------------------
(* The theorems *)

\* While no request is refused the chains are what the driver takes them for, after every
\* write of every call.
THEOREM ChainInvariant == Spec => []ChainInv
BY InitChains, ChainInvStep, HandleInvariant, PTL DEF Spec

\* While no request is refused the hardware finds the rule of every established flow, by
\* both chains, after every write: no call hides the rule of another flow.
THEOREM LiveRulesStayFound == Spec => []LiveRulesFound
<1>1. HandleInv /\ ChainInv => LiveRulesFound
  BY EstablishedFound DEF LiveRulesFound, ChainInv
<1> QED BY <1>1, HandleInvariant, ChainInvariant, PTL

\* While no request is refused no chain runs in a circle, and between calls the links back
\* agree with the chains and nothing is left in the tables that no flow holds.
THEOREM ChainsStaySound == Spec => []ChainsAreSound
<1>1. HandleInv /\ ChainInv => ChainsAreSound
  BY ChainsEnd, NothingLeft DEF ChainsAreSound, ChainInv
<1> QED BY <1>1, HandleInvariant, ChainInvariant, PTL

\* While no request was refused, what the hardware finds after each write depends on the
\* calls made alone, and not on the layout of the tables.
THEOREM ForceFollowsCalls == Spec => []ForceInv
<1>1. HandleInv /\ ChainInv => ForceInv
  BY ForceIsGranted DEF ForceInv, ChainInv
<1> QED BY <1>1, HandleInvariant, ChainInvariant, PTL

\* The tables implement the service for every table size and hash: with every write of the
\* driver either nothing comes into force or goes out of it, or one flow's rule does, both
\* directions at once when it is enabled, uplink and then downlink when it is deleted.
THEOREM TablesImplementService == Spec => ImplementsService
<1>1. Init => Service!Init
  BY InitServes
<1>2. HandleInv /\ HandleInv' /\ ChainInv /\ ForceInv /\ ForceInv' /\ [Next]_vars
        => [Service!Next]_(Service!vars)
  BY StepServes
<1> QED BY <1>1, <1>2, HandleInvariant, ChainInvariant, ForceFollowsCalls, PTL
        DEF Spec, ImplementsService, Service!Spec

=============================================================================
