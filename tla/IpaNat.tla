------------------------------- MODULE IpaNat -------------------------------
(***************************************************************************)
(* The IPv4 NAT table of the IPA driver library (ipanat/src/ipa_nat_drvi.c):*)
(* a base rule table indexed by a hash, an expansion rule table that holds *)
(* the collisions as a linked list, and beside them an index table and an  *)
(* index expansion table, chained the same way under a second hash, whose  *)
(* nodes point at rules.  The tables are shared with the packet hardware,  *)
(* which walks them while the driver rewrites them: every write the driver *)
(* makes is a step of its own, and a DMA request may fail.                 *)
(*                                                                         *)
(* Entries of a table and of its expansion share one index space, as in    *)
(* the code: i < TableEntries is base, the others are expansion; 0 is the  *)
(* end of a chain and entry 0 of either half is never used.                *)
(***************************************************************************)
EXTENDS Integers, FiniteSets, Sequences

CONSTANTS
  Flows,            \* the connections a client may ask to translate
  TableEntries,     \* entries of the base tables, a power of two
  ExpnEntries,      \* entries of the expansion tables, an even number
  DstBits,          \* Flows -> Nat: the xor of target, public port, protocol
  SrcBits,          \* Flows -> Nat: the xor of private, target, protocol
  MaxFail,          \* bound on the DMA requests the kernel refuses
  NoFlow

ASSUME SizesAssumption ==
  /\ TableEntries \in Nat /\ TableEntries >= 2
  /\ ExpnEntries \in Nat /\ ExpnEntries >= 2
ASSUME HashAssumption ==
  /\ DstBits \in [Flows -> Nat]
  /\ SrcBits \in [Flows -> Nat]
ASSUME FailAssumption == MaxFail \in Nat
ASSUME NoFlowAssumption == NoFlow \notin Flows

VARIABLES
  tbl,       \* the rules: base table followed by expansion table
  indx,      \* the index table followed by its expansion
  meta,      \* index_expn_table_meta: previous node of an index node
  ruleIds,   \* rule_id_array: rule handle -> encoded table entry, 0 = free
  held,      \* Flows -> the rule handle the client keeps for it, 0 = none
  op,        \* the call in progress: its locals
  pc,        \* the next write of that call, "idle" between calls
  fails      \* DMA requests refused so far

vars == <<tbl, indx, meta, ruleIds, held, op, pc, fails>>

Entries     == 0 .. (TableEntries + ExpnEntries - 1)
BaseEntries == 0 .. (TableEntries - 1)
ExpnUsable  == (TableEntries + 1) .. (TableEntries + ExpnEntries - 1)
Handles     == 1 .. (TableEntries + ExpnEntries)

NoRule == [flow |-> NoFlow, enable |-> FALSE, dead |-> FALSE,
           next |-> 0, prev |-> 0, indx |-> 0]
NoIndx == [ent |-> 0, next |-> 0]
NoOp   == [kind |-> "none", flow |-> NoFlow, ent |-> 0, prev |-> 0,
           indx |-> 0, iprev |-> 0, inext |-> 0, pos |-> "none",
           ipos |-> "none", cmds |-> <<>>]

-----------------------------------------------------------------------------
(* Hashes and chains *)

\* hash & (size - 1), size a power of two; bucket 0 is moved to the last one.
dst_hash(f) ==
  LET h == DstBits[f] % TableEntries IN IF h = 0 THEN TableEntries - 1 ELSE h
src_hash(f) ==
  LET h == SrcBits[f] % TableEntries IN IF h = 0 THEN TableEntries - 1 ELSE h

\* The entries met when a table's next fields are followed from entry i.
Walk(t, i) ==
  LET w[n \in Entries] == IF n = 0 THEN i ELSE t[w[n - 1]].next
  IN  {w[n] : n \in Entries} \cap (Entries \ {0})

\* The end of the chain of i; the empty set when the chain runs in a circle.
Tails(t, i) == {x \in Walk(t, i) : t[x].next = 0}

\* The search for the end of the chain of i never returns: the driver notices
\* only a node that is its own successor.
SearchSpins(t, i) == Tails(t, i) = {} /\ \A x \in Walk(t, i) : t[x].next # x

\* The first of a set of entries or slots, 0 when there is none.
FirstFree(S) == IF S = {} THEN 0 ELSE CHOOSE x \in S : \A y \in S : x <= y

\* Mutant: no test of the enable bit.
expn_tbl_free_entry_any == FirstFree(ExpnUsable)

\* The free entry of an expansion half: the first one not in use.
expn_tbl_free_entry == FirstFree({x \in ExpnUsable : ~tbl[x].enable})
index_expn_get_free_entry == FirstFree({x \in ExpnUsable : indx[x].ent = 0})

\* ipa_nati_generate_tbl_rule and ipa_nati_generate_index_rule: the entry
\* for a flow (0: refused) and the entry it has to be chained behind.
generate_tbl_rule(f) ==
  LET h == dst_hash(f) IN
  IF ~tbl[h].enable THEN [ent |-> h, prev |-> 0]
  ELSE IF Tails(tbl, h) = {} THEN [ent |-> 0, prev |-> 0]
  ELSE [ent |-> expn_tbl_free_entry, prev |-> CHOOSE x \in Tails(tbl, h) : TRUE]

generate_index_rule(f) ==
  LET h == src_hash(f) IN
  IF indx[h].ent = 0 THEN [ent |-> h, prev |-> 0]
  ELSE IF Tails(indx, h) = {} THEN [ent |-> 0, prev |-> 0]
  ELSE LET p == CHOOSE x \in Tails(indx, h) : TRUE
           e == index_expn_get_free_entry
       IN  [ent |-> IF e = p THEN 0 ELSE e, prev |-> p]

\* Rule handles: the table half in bit 0, the index into it above.
RuleId(e) == IF e >= TableEntries THEN 2 * (e - TableEntries) + 1 ELSE 2 * e
EntryOf(id) == IF id % 2 = 1 THEN TableEntries + id \div 2 ELSE id \div 2
parse_ipv4_rule_hdl(h) ==
  IF h \in Handles /\ h < TableEntries + ExpnEntries THEN EntryOf(ruleIds[h]) ELSE 0

-----------------------------------------------------------------------------
(* Writes to the tables.  A command is [tab, at, fld, val]; the index       *)
(* commands go first (ReorderCmds).                                         *)

Cmd(tab, at, fld, val) == [tab |-> tab, at |-> at, fld |-> fld, val |-> val]

Poke(c) ==
  \/ /\ c.tab = "rule"
     /\ \/ c.fld = "next"   /\ tbl' = [tbl EXCEPT ![c.at].next = c.val]
        \/ c.fld = "enable" /\ tbl' = [tbl EXCEPT ![c.at].enable = (c.val = 1)]
        \/ c.fld = "proto"  /\ tbl' = [tbl EXCEPT ![c.at].dead = TRUE]
     /\ UNCHANGED indx
  \/ /\ c.tab = "indx"
     /\ \/ c.fld = "next" /\ indx' = [indx EXCEPT ![c.at].next = c.val]
        \/ c.fld = "ent"  /\ indx' = [indx EXCEPT ![c.at].ent = c.val]
     /\ UNCHANGED tbl

\* An IPA_IOC_NAT_DMA request the kernel refuses.
DmaFails == fails < MaxFail /\ fails' = fails + 1

-----------------------------------------------------------------------------
(* ipa_nati_add_ipv4_rule.  The client never adds a flow it holds a handle   *)
(* for (ChkForDup in NatApp).  A refused rule changes nothing.               *)

generate_rule(f) ==
  LET r == generate_tbl_rule(f)
      x == generate_index_rule(f)
  IN  /\ pc = "idle"
      /\ held[f] = 0
      /\ r.ent # 0
      /\ x.ent # 0
      /\ op' = [NoOp EXCEPT !.kind = "add", !.flow = f, !.ent = r.ent,
                            !.prev = r.prev, !.indx = x.ent, !.iprev = x.prev]
      /\ meta' = IF x.ent >= TableEntries THEN [meta EXCEPT ![x.ent] = x.prev] ELSE meta
      /\ pc' = "copy_rule"
      /\ UNCHANGED <<tbl, indx, ruleIds, held, fails>>

\* The search for a chain's end inside ipa_nati_generate_rule does not return.
generate_rule_spins(f) ==
  LET h == dst_hash(f)
      x == src_hash(f)
  IN  /\ pc = "idle"
      /\ held[f] = 0
      /\ \/ tbl[h].enable /\ SearchSpins(tbl, h)
         \/ generate_tbl_rule(f).ent # 0 /\ indx[x].ent # 0 /\ SearchSpins(indx, x)
      /\ pc' = "spinning"
      /\ UNCHANGED <<tbl, indx, meta, ruleIds, held, op, fails>>

\* ipa_nati_copy_ipv4_rule_to_hw: the rule is stored disabled.
copy_ipv4_rule_to_hw ==
  /\ pc = "copy_rule"
  /\ tbl' = [tbl EXCEPT ![op.ent] =
                [flow |-> op.flow, enable |-> FALSE, dead |-> FALSE, next |-> 0,
                 prev |-> op.prev, indx |-> op.indx]]
  /\ pc' = IF op.prev = 0 THEN "copy_indx" ELSE "link_rule"
  /\ UNCHANGED <<indx, meta, ruleIds, held, op, fails>>

\* ipa_nati_copy_ipv4_index_rule_to_hw
copy_ipv4_index_rule_to_hw ==
  /\ pc = "copy_indx"
  /\ indx' = [indx EXCEPT ![op.indx] = [ent |-> op.ent, next |-> 0]]
  /\ pc' = IF op.iprev = 0 THEN "enable" ELSE "link_indx"
  /\ UNCHANGED <<tbl, meta, ruleIds, held, op, fails>>

\* ipa_nati_write_next_index: one DMA; the caller is not told when it fails.
write_next_index ==
  /\ \/ /\ pc = "link_rule"
        /\ pc' = "copy_indx"
        /\ \/ Poke(Cmd("rule", op.prev, "next", op.ent)) /\ UNCHANGED fails
           \/ DmaFails /\ UNCHANGED <<tbl, indx>>
     \/ /\ pc = "link_indx"
        /\ pc' = "enable"
        /\ \/ Poke(Cmd("indx", op.iprev, "next", op.indx)) /\ UNCHANGED fails
           \/ DmaFails /\ UNCHANGED <<tbl, indx>>
  /\ UNCHANGED <<meta, ruleIds, held, op>>

\* ipa_nati_post_ipv4_dma_cmd: enable the rule; a refusal ends the call with
\* what was written left in place.
post_ipv4_dma_cmd ==
  /\ pc = "enable"
  /\ \/ /\ Poke(Cmd("rule", op.ent, "enable", 1))
        /\ pc' = "make_hdl"
        /\ UNCHANGED <<op, fails>>
     \/ /\ DmaFails
        /\ pc' = "idle"
        /\ op' = NoOp
        /\ UNCHANGED <<tbl, indx>>
  /\ UNCHANGED <<meta, ruleIds, held>>

\* ipa_nati_make_rule_hdl: the first free slot of rule_id_array.
make_rule_hdl ==
  LET h == FirstFree({i \in Handles : ruleIds[i] = 0}) IN
  /\ pc = "make_hdl"
  /\ pc' = "idle"
  /\ op' = NoOp
  /\ ruleIds' = IF h = 0 THEN ruleIds ELSE [ruleIds EXCEPT ![h] = RuleId(op.ent)]
  /\ held' = [held EXCEPT ![op.flow] = h]
  /\ UNCHANGED <<tbl, indx, meta, fails>>

-----------------------------------------------------------------------------
(* ipa_nati_del_ipv4_rule *)

\* ipa_nati_find_rule_pos and ipa_nati_find_index_rule_pos
rule_pos(t, i) ==
  IF i >= TableEntries THEN IF t[i].next = 0 THEN "last" ELSE "middle"
  ELSE IF t[i].next = 0 THEN "only_one" ELSE "head"

\* Mutant: a middle rule cut off with what follows it.
RuleCmds_cut(e) ==
  IF rule_pos(tbl, e) = "only_one" THEN <<Cmd("rule", e, "enable", 0)>>
  ELSE IF rule_pos(tbl, e) = "head" THEN <<Cmd("rule", e, "proto", 255)>>
  ELSE <<Cmd("rule", tbl[e].prev, "next", 0)>>

\* A rule alone in its bucket is disabled; the head of a chain is kept as a dead
\* link; an expansion rule is bypassed.
RuleCmds(e) ==
  IF rule_pos(tbl, e) = "only_one" THEN <<Cmd("rule", e, "enable", 0)>>
  ELSE IF rule_pos(tbl, e) = "head" THEN <<Cmd("rule", e, "proto", 255)>>
  ELSE <<Cmd("rule", tbl[e].prev, "next", tbl[e].next)>>

\* The head of an index chain takes over the node after it.
IndexCmds(x) ==
  IF rule_pos(indx, x) = "only_one" THEN <<Cmd("indx", x, "ent", 0)>>
  ELSE IF rule_pos(indx, x) = "head"
  THEN LET n == indx[x].next
       IN  <<Cmd("indx", x, "ent", indx[n].ent), Cmd("indx", x, "next", indx[n].next)>>
  ELSE <<Cmd("indx", meta[x], "next", indx[x].next)>>

\* Mutant: in the order they were composed.
ReorderCmds_asComposed(ruleCmds, indexCmds) == ruleCmds \o indexCmds

\* ReorderCmds: the index commands go to the hardware before the rule's.
ReorderCmds(ruleCmds, indexCmds) == indexCmds \o ruleCmds

\* The batch of DMA commands is composed and posted as one request.  When it
\* is refused the client either keeps its handle (UpdatePwrSaveIf) or drops
\* the connection all the same (DeleteEntry).
post_del_dma_cmd(f) ==
  LET e == parse_ipv4_rule_hdl(held[f])
      x == tbl[e].indx
  IN  /\ pc = "idle"
      /\ held[f] # 0
      /\ e # 0
      /\ \/ /\ op' = [NoOp EXCEPT !.kind = "del", !.flow = f, !.ent = e, !.indx = x,
                            !.inext = indx[x].next, !.pos = rule_pos(tbl, e),
                            !.ipos = rule_pos(indx, x),
                            !.cmds = ReorderCmds(RuleCmds(e), IndexCmds(x))]
            /\ pc' = "dma"
            /\ UNCHANGED <<held, fails>>
         \/ /\ DmaFails
            /\ held' \in {held, [held EXCEPT ![f] = 0]}
            /\ UNCHANGED <<op, pc>>
      /\ UNCHANGED <<tbl, indx, meta, ruleIds>>

\* The hardware executes the commands of the batch in order.
dma_step ==
  /\ pc = "dma"
  /\ op.cmds # <<>>
  /\ Poke(Head(op.cmds))
  /\ op' = [op EXCEPT !.cmds = Tail(@)]
  /\ UNCHANGED <<meta, ruleIds, held, pc, fails>>

\* What the driver then writes itself: the back link of the next rule, the
\* rule and the index node that are gone, the back link of the index node
\* after it, and the rule whose index node moved into the head.
UpdatedRules ==
  LET e  == op.ent
      t1 == IF op.pos = "middle" THEN [tbl EXCEPT ![tbl[e].next].prev = tbl[e].prev] ELSE tbl
      t2 == IF op.pos # "head" THEN [t1 EXCEPT ![e] = NoRule] ELSE t1
  IN  IF op.ipos = "head" THEN [t2 EXCEPT ![indx[op.indx].ent].indx = op.indx] ELSE t2

\* ipa_nati_del_dead_ipv4_head_nodes
del_dead_ipv4_head_nodes(t) ==
  [i \in Entries |-> IF i \in BaseEntries /\ t[i].dead /\ t[i].next = 0 THEN NoRule ELSE t[i]]

\* Mutant: the node after a moved one keeps its old back link.
UpdatedMeta_noHead ==
  IF op.ipos = "middle" THEN [meta EXCEPT ![op.inext] = meta[op.indx], ![op.indx] = 0]
  ELSE meta

UpdatedMeta ==
  LET n == indx[op.inext].next IN
  IF op.ipos = "head" /\ n >= TableEntries THEN [meta EXCEPT ![n] = op.indx]
  ELSE IF op.ipos = "middle" THEN [meta EXCEPT ![op.inext] = meta[op.indx], ![op.indx] = 0]
  ELSE meta

del_ipv4_rule_finish ==
  /\ pc = "dma"
  /\ op.cmds = <<>>
  /\ tbl' = del_dead_ipv4_head_nodes(UpdatedRules)
  /\ indx' = [indx EXCEPT ![IF op.ipos = "head" THEN op.inext ELSE op.indx] = NoIndx]
  /\ meta' = UpdatedMeta
  /\ ruleIds' = [ruleIds EXCEPT ![held[op.flow]] = 0]
  /\ held' = [held EXCEPT ![op.flow] = 0]
  /\ op' = NoOp
  /\ pc' = "idle"
  /\ UNCHANGED fails

-----------------------------------------------------------------------------
\* A table just created: ipa_nati_update_cache and ipa_nati_reset_tbl.
Init ==
  /\ tbl = [i \in Entries |-> NoRule]
  /\ indx = [i \in Entries |-> NoIndx]
  /\ meta = [i \in Entries |-> 0]
  /\ ruleIds = [h \in Handles |-> 0]
  /\ held = [f \in Flows |-> 0]
  /\ op = NoOp
  /\ pc = "idle"
  /\ fails = 0

Next ==
  \/ \E f \in Flows : generate_rule(f)
  \/ \E f \in Flows : generate_rule_spins(f)
  \/ copy_ipv4_rule_to_hw
  \/ copy_ipv4_index_rule_to_hw
  \/ write_next_index
  \/ post_ipv4_dma_cmd
  \/ make_rule_hdl
  \/ \E f \in Flows : post_del_dma_cmd(f)
  \/ dma_step
  \/ del_ipv4_rule_finish

Spec == Init /\ [][Next]_vars

-----------------------------------------------------------------------------
(* What the packet hardware finds in the tables *)

Matches(e, f) == tbl[e].enable /\ ~tbl[e].dead /\ tbl[e].flow = f

\* Downlink: the chain of the destination hash; uplink: the index chain of
\* the source hash, whose nodes name rules.
DstHit(f) == \E e \in Walk(tbl, dst_hash(f)) : Matches(e, f)
SrcHit(f) == \E x \in Walk(indx, src_hash(f)) : indx[x].ent # 0 /\ Matches(indx[x].ent, f)

-----------------------------------------------------------------------------
(* Properties *)

RuleType == [flow : Flows \cup {NoFlow}, enable : BOOLEAN, dead : BOOLEAN,
             next : Entries, prev : Entries, indx : Entries]

CmdType == [tab : {"rule", "indx"}, at : Entries, fld : {"next"}, val : Entries]
             \cup [tab : {"indx"}, at : Entries, fld : {"ent"}, val : Entries]
             \cup [tab : {"rule"}, at : Entries, fld : {"enable"}, val : {0, 1}]
             \cup [tab : {"rule"}, at : Entries, fld : {"proto"}, val : {255}]

Positions == {"none", "only_one", "head", "middle", "last"}

OpType == [kind : {"none", "add", "del"}, flow : Flows \cup {NoFlow}, ent : Entries,
           prev : Entries, indx : Entries, iprev : Entries, inext : Entries,
           pos : Positions, ipos : Positions, cmds : Seq(CmdType)]

\* Every field holds what the C type and the layout of the tables allow: links
\* stay inside the two halves and handles inside rule_id_array.
TypeOK ==
  /\ tbl \in [Entries -> RuleType]
  /\ indx \in [Entries -> [ent : Entries, next : Entries]]
  /\ meta \in [Entries -> Entries]
  /\ ruleIds \in [Handles -> 0 .. 2 * (TableEntries + ExpnEntries)]
  /\ held \in [Flows -> Handles \cup {0}]
  /\ fails \in 0 .. MaxFail
  /\ op \in OpType
  /\ pc \in {"idle", "copy_rule", "link_rule", "copy_indx", "link_indx", "enable",
             "make_hdl", "dma", "spinning"}

\* A flow whose rule handle the client holds, and which is not being deleted.
Established(f) == held[f] # 0 /\ ~(op.kind = "del" /\ op.flow = f)

\* As long as no request was refused, the hardware finds the rule of every established
\* flow, by the destination chain and by the source chain, after every single write of
\* every call: the additions and deletions of other flows in the same chains never hide
\* it.
LiveRulesFound ==
  fails = 0 => \A f \in Flows : Established(f) => DstHit(f) /\ SrcHit(f)

\* A chain never runs in a circle, so the hardware's walk and the driver's own
\* search for a chain's end stop.  The driver looks for the shortest circle and
\* reports "Prev index and next index should not be same" when it meets one.
NoCircle == \A h \in BaseEntries \ {0} : Tails(tbl, h) # {} /\ Tails(indx, h) # {}

\* The links kept for deletions: the previous rule, the previous index node and the
\* index node of every linked rule.
BackLinksAgree ==
  /\ \A i \in Entries : tbl[i].next # 0 => tbl[tbl[i].next].prev = i
  /\ \A x \in Entries : indx[x].next # 0 => meta[indx[x].next] = x
  /\ \A i \in Entries : tbl[i].enable /\ ~tbl[i].dead => indx[tbl[i].indx].ent = i

\* A table entry in use belongs to a flow that holds it, or is a deleted chain head that
\* a later rule still hangs from; an index node in use names a rule in use; and a handle
\* that is taken is held by a client.
NothingLeaked ==
  /\ \A i \in Entries : tbl[i].enable =>
       (\E f \in Flows : Established(f) /\ Matches(i, f)) \/ (tbl[i].dead /\ tbl[i].next # 0)
  /\ \A x \in Entries : indx[x].ent # 0 => tbl[indx[x].ent].enable
  /\ \A h \in Handles : ruleIds[h] # 0 => \E f \in Flows : held[f] = h

\* As long as no request was refused, no chain ever runs in a circle, and between calls
\* the links the driver keeps for deletions agree with the chains the hardware follows
\* and no entry, node or handle is lost: a long run of additions and deletions in one
\* bucket leaves the two tables as if only the surviving flows had been added.
ChainsAreSound ==
  fails = 0 => NoCircle /\ (pc = "idle" => BackLinksAgree /\ NothingLeaked)

\* A handle keeps naming the rule of the flow it was given for, whatever was
\* added, deleted or refused since: deleting by a handle never removes the rule
\* of another flow.
HandlesNameTheirRule ==
  \A f \in Flows : Established(f) =>
    LET e == parse_ipv4_rule_hdl(held[f]) IN e # 0 /\ Matches(e, f)

\* Why: the inductive form.  An entry named by a taken slot of rule_id_array is in
\* use and alive, except the one a deletion is working on; no two slots name one
\* entry; and an addition works on an entry that no slot names.
NamedEntry(f) == EntryOf(ruleIds[held[f]])

AddSteps == {"copy_rule", "link_rule", "copy_indx", "link_indx", "enable", "make_hdl"}

OpAgrees ==
  /\ pc \in {"idle", "spinning"} => op.kind = "none"
  /\ pc \in AddSteps => /\ op.kind = "add"
                        /\ op.flow \in Flows
                        /\ held[op.flow] = 0
                        /\ op.ent \notin {0, TableEntries}
                        /\ (pc # "make_hdl" => ~tbl[op.ent].enable)
                        /\ (pc = "make_hdl" => tbl[op.ent].enable)
                        /\ (pc # "copy_rule" => tbl[op.ent].flow = op.flow /\ ~tbl[op.ent].dead)
  /\ pc = "dma" => /\ op.kind = "del"
                   /\ op.flow \in Flows
                   /\ held[op.flow] # 0
                   /\ op.ent = NamedEntry(op.flow)
                   /\ \A i \in DOMAIN op.cmds :
                        op.cmds[i].fld \in {"enable", "proto"} => op.cmds[i].at = op.ent

SlotsNameLiveEntries ==
  \A h \in Handles : ruleIds[h] # 0 =>
    LET e == EntryOf(ruleIds[h]) IN
    /\ e \in Entries \ {0, TableEntries}
    /\ (pc = "dma" /\ e = op.ent) \/ (tbl[e].enable /\ ~tbl[e].dead)
    /\ pc \in AddSteps => e # op.ent

SlotsAreDistinct ==
  \A h, k \in Handles :
    ruleIds[h] # 0 /\ ruleIds[k] # 0 /\ EntryOf(ruleIds[h]) = EntryOf(ruleIds[k]) => h = k

HeldAgree ==
  \A f \in Flows : held[f] # 0 =>
    held[f] < TableEntries + ExpnEntries /\ ruleIds[held[f]] # 0 /\ tbl[NamedEntry(f)].flow = f

HandleInv == TypeOK /\ OpAgrees /\ SlotsNameLiveEntries /\ SlotsAreDistinct /\ HeldAgree

-----------------------------------------------------------------------------
(* The service the tables give, with the chains abstracted away *)

InForce(f) == CASE DstHit(f) /\ SrcHit(f) -> "both"
              [] DstHit(f) /\ ~SrcHit(f) -> "down"
              [] ~DstHit(f) /\ SrcHit(f) -> "up"
              [] OTHER -> "none"

Service == INSTANCE NatService WITH
             force <- [f \in Flows |-> IF fails = 0 THEN InForce(f) ELSE "unknown"],
             owned <- {f \in Flows : held[f] # 0},
             refused <- fails > 0

\* Seen from the hardware a rule comes into force in both directions at once, and
\* is withdrawn from the source side before the destination side; no write changes what
\* is in force for another flow.  A request the kernel refuses ends these promises.
ImplementsService == Service!Spec

=============================================================================
