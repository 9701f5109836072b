---------------------------- MODULE ConntrackNat ----------------------------
(***************************************************************************)
(* The connections IPACM has offloaded to the packet hardware:             *)
(* IPACM_ConntrackListener, which turns conntrack, neighbour and WAN       *)
(* events into NAT entries, and NatApp (IPACM_Conntrack_NATApp.cpp), which *)
(* keeps a cache of them and a table of rules in the hardware.  Messages   *)
(* come from two threads of IPACM_ConntrackClient, one for each protocol;  *)
(* the event thread handles one to its end.  The thread that refreshes     *)
(* conntrack time-outs walks the cache beside it without a lock: it tests  *)
(* an entry, deletes the entry's rule and clears the entry in steps of its *)
(* own, and a handler may run between any two of them.                     *)
(*                                                                         *)
(* A host lives on a NAT interface or on another, non-NAT one.  The rule   *)
(* of a connection to the latter is a dummy: its private address is the    *)
(* public one.  So is the rule of the device's own connections.  Where the *)
(* WAN interface is a Wi-Fi station, peers on its network are listed too:  *)
(* a connection to one that is not yet listed waits as a temporary entry.  *)
(***************************************************************************)
EXTENDS Naturals, FiniteSets

CONSTANTS
  Conns,        \* connections through the WAN interface, opened by the hosts
  Hosts,        \* private addresses on NAT interfaces
  OtherHosts,   \* private addresses on other interfaces
  self,         \* stands for the device itself as the private end of a connection
  Peers,        \* hosts on the network the WAN interface is a station of
  PrivateIp,    \* the private end of each connection
  TargetIp,     \* its other end, if that is a peer
  Tcp,          \* the TCP connections
  AlgConns,     \* connections that use an ALG port
  PublicIps,    \* addresses the WAN interface may get
  MaxIfaces,    \* MAX_IFACE_ADDRESS, for the other hosts
  MaxPeers,     \* MAX_STA_CLNT_IFACES
  none,         \* no address, an empty slot (0 in the code)
  Settings      \* the circumstances considered, one of them in each behaviour

\* A setting: the connections that are opened, the hosts that may enter power save,
\* whether the WAN interface may go down and the refreshing thread runs, whether it may be
\* a station (isStaMode), which peers and hosts never leave; max_entries, MAX_TEMP_ENTRIES
\* and the rules the hardware table can take.
Setting == [conns : SUBSET Conns, sleepers : SUBSET Hosts, wanFalls : BOOLEAN,
            timer : BOOLEAN, modes : SUBSET BOOLEAN, stays : SUBSET (Hosts \cup Peers),
            entries : Nat, temps : Nat, hw : Nat]

ASSUME HostsAssumption ==
  /\ PrivateIp \in [Conns -> Hosts \cup OtherHosts \cup {self}]
  /\ TargetIp \in [Conns -> Peers \cup {none}]
  /\ AlgConns \subseteq Conns /\ Tcp \subseteq Conns
  /\ (Hosts \cup OtherHosts) \cap PublicIps = {} /\ Hosts \cap OtherHosts = {}
  /\ none \notin PublicIps \cup Hosts \cup OtherHosts \cup Peers
  /\ self \notin Hosts \cup OtherHosts /\ Peers \cap (Hosts \cup OtherHosts) = {}
ASSUME SizesAssumption == MaxIfaces \in Nat /\ MaxPeers \in Nat /\ IsFiniteSet(OtherHosts)
ASSUME SettingsAssumption == \A s \in Settings : s \in Setting

VARIABLES
  setting,    \* the setting of this behaviour
  nat,        \* NatApp: its cache and table, and the rules the table holds in the hardware
  temp,       \* NatApp: connections of hosts that are not known yet
  PwrSaveIfs,
  wan,        \* WanUp, wan_ipaddr and isStaMode
  sta,        \* sta_clnt_ipv4_addr and StaClntCnt
  threads,    \* the conntrack threads of the two protocols, and the refreshing one
  natIfs,     \* hosts in nat_iface_ipv4_addr: "listed", or "routed" once their client is set up
  nonNatIfs,  \* nonnat_iface_ipv4_addr: how often each address is in it
  tracked,    \* connections the listener was told of
  closing,    \* those of them the kernel has dropped and not yet told
  bound,      \* the address each of the device's own connections is bound to
  timer,      \* where the refreshing thread is in a deletion; see Timer
  crossed     \* history: the event thread changed the entry it was deleting, and the table
              \* has not been made anew since

links == <<wan, sta, threads>>
told  == <<tracked, closing, bound>>
vars  == <<setting, nat, temp, PwrSaveIfs, links, natIfs, nonNatIfs, told, timer, crossed>>

Slots   == 1 .. setting.entries
Temps   == 1 .. setting.temps
Handles == 1 .. setting.hw
Active  == {PrivateIp[c] : c \in setting.conns}
Reached == IF \E c \in setting.conns : TargetIp[c] # none THEN Peers ELSE {}
Own     == {c \in Conns : PrivateIp[c] = self}
\* The thread whose filter passes the connection.
Thread(c) == IF c \in Tcp THEN "tcp" ELSE "udp"

Rule  == [conn : Conns, priv : Hosts \cup OtherHosts \cup PublicIps]
Entry == [rule : Rule, enabled : BOOLEAN, hdl : Handles \cup {0}, pub : PublicIps \cup {none}]
\* A temporary entry.
Waiting == [rule : Rule, pub : PublicIps]
Plain(c)      == [conn |-> c, priv |-> PrivateIp[c]]
Dummy(c, pub) == [conn |-> c, priv |-> pub]

\* The refreshing thread: idle; refused by the kernel for the entry in slot; deleting the rule
\* of slot, with handle hdl; about to clear slot, its rule deleted if hdl is not 0.
Timer == [at : {"idle", "refused", "deleting", "clearing"}, slot : Slots \cup {0}, hdl : Handles \cup {0}]
Idle  == [at |-> "idle", slot |-> 0, hdl |-> 0]

\* An empty slot is told from what a slot may hold.
ASSUME NoneAssumption ==
  /\ none \notin Rule \cup Waiting
  /\ none \notin [rule : Rule, enabled : BOOLEAN, hdl : Nat, pub : PublicIps \cup {none}]

\* The first slot of an array that is free: the code searches upwards.
Free(array)  == {i \in DOMAIN array : array[i] = none}
First(slots) == CHOOSE i \in slots : \A j \in slots : i <= j

-----------------------------------------------------------------------------
(* The rules in the hardware *)

\* ipa_nat_add_ipv4_rule succeeds.
NatAdds(n) == n.table /\ Free(n.hw) # {}

\* ipa_nat_add_ipv4_rule for the entry in slot i; a refused entry leaves the cache.
EnableOrDrop(n, i) ==
  IF NatAdds(n)
  THEN [n EXCEPT !.hw[First(Free(n.hw))] = n.cache[i].rule,
                 !.cache[i] = [@ EXCEPT !.enabled = TRUE, !.hdl = First(Free(n.hw))]]
  ELSE [n EXCEPT !.cache[i] = none]

\* The same for the entries of several slots in turn, upwards.
EnableEach(n, its) ==
  LET after[i \in 0 .. setting.entries] ==
        IF i = 0 THEN n
        ELSE IF i \in its THEN EnableOrDrop(after[i - 1], i) ELSE after[i - 1]
  IN  after[setting.entries]

\* ipa_nat_del_ipv4_rule for the entries of its, of those that are enabled.
Withdrawn(n, its) ==
  [h \in Handles |-> IF \E i \in its : n.cache[i].enabled /\ n.cache[i].hdl = h
                     THEN none ELSE n.hw[h]]

-----------------------------------------------------------------------------
(* NatApp *)

ChkForDup(n, r) == \E i \in Slots : n.cache[i] # none /\ n.cache[i].rule = r

Cached(n, r, pub) ==
  [n EXCEPT !.cache[First(Free(n.cache))] =
     [rule |-> r, enabled |-> FALSE, hdl |-> 0, pub |-> pub]]

\* CacheEntry: for a connection that comes while the WAN interface is down.
CacheEntry(n, r, pub) ==
  IF r.priv = none \/ ChkForDup(n, r) \/ Free(n.cache) = {} THEN n ELSE Cached(n, r, pub)

\* AddEntry: when it returns 0, and what it leaves.  It does not store the public address.
AddEntryOk(n, r) ==
  /\ n.table /\ r.conn \notin AlgConns
  /\ ~ChkForDup(n, r) /\ Free(n.cache) # {}
  /\ r.priv \in PwrSaveIfs \/ NatAdds(n)

AddEntry(n, r) ==
  IF ~AddEntryOk(n, r) THEN n
  ELSE IF r.priv \in PwrSaveIfs THEN Cached(n, r, none)
  ELSE EnableOrDrop(Cached(n, r, none), First(Free(n.cache)))

\* The slots whose entries satisfy Which.
SlotsOf(n, Which(_)) == {i \in Slots : n.cache[i] # none /\ Which(n.cache[i])}

\* Rules and entries go.
Drop(n, its) ==
  [n EXCEPT !.hw = Withdrawn(n, its), !.cache = [i \in Slots |-> IF i \in its THEN none ELSE @[i]]]

\* Mutant: the rule stays in the hardware.
DeleteEntry_cacheOnly(n, r) ==
  [n EXCEPT !.cache = [i \in Slots |-> IF n.cache[i] # none /\ n.cache[i].rule = r THEN none ELSE n.cache[i]]]

DeleteEntry(n, r) ==
  LET its == SlotsOf(n, LAMBDA e : e.rule = r)
  IN  IF its = {} THEN n ELSE Drop(n, {First(its)})

\* Mutant: the entries go too.
Suspend_drops(n, ip) == Drop(n, SlotsOf(n, LAMBDA e : e.rule.priv = ip))

\* DelEntriesOnClntDiscon, UpdatePwrSaveIf: the rules go, the entries stay.
Suspend(n, ip) ==
  LET its == SlotsOf(n, LAMBDA e : e.rule.priv = ip /\ e.enabled)
  IN  [n EXCEPT !.hw    = Withdrawn(n, its),
                !.cache = [i \in Slots |-> IF i \in its THEN [@[i] EXCEPT !.enabled = FALSE, !.hdl = 0]
                                                        ELSE @[i]]]

\* DelEntriesOnSTAClntDiscon
DropPeer(n, ip) == Drop(n, SlotsOf(n, LAMBDA e : TargetIp[e.rule.conn] = ip))

\* ResetPwrSaveIf
Resume(n, ip) == EnableEach(n, SlotsOf(n, LAMBDA e : e.rule.priv = ip /\ ~e.enabled))

\* AddTable: the cache is put back only if the public address is the one of before.
AddTable(n, pub) ==
  LET created == [n EXCEPT !.table = TRUE]
  IN  [(IF pub = n.pre THEN EnableEach(created, SlotsOf(created, LAMBDA e : TRUE)) ELSE created)
         EXCEPT !.pub = pub]

\* DeleteTable and Reset
DeleteTable(n, pub) ==
  IF n.table /\ n.pub = pub
  THEN [n EXCEPT !.table = FALSE, !.pub = none, !.pre = pub, !.hw = [h \in Handles |-> none],
          !.cache = [i \in Slots |-> IF n.cache[i] = none THEN none
                                     ELSE [n.cache[i] EXCEPT !.enabled = FALSE]]]
  ELSE n

-----------------------------------------------------------------------------
(* Temporary entries: [rule, pub] *)

AddTempEntry(t) ==
  IF \/ t.rule.conn \in AlgConns \/ ChkForDup(nat, t.rule)
     \/ \E i \in Temps : temp[i] # none /\ temp[i].rule = t.rule
     \/ Free(temp) = {}
  THEN temp ELSE [temp EXCEPT ![First(Free(temp))] = t]

DeleteTempEntry(r) ==
  [i \in Temps |-> IF temp[i] # none /\ temp[i].rule = r THEN none ELSE temp[i]]

Concerns(t, ip) == t # none /\ ip \in {t.rule.priv, TargetIp[t.rule.conn]}

\* FlushTempEntries(ip, false)
Forgotten(ip) == [i \in Temps |-> IF Concerns(temp[i], ip) THEN none ELSE temp[i]]

\* FlushTempEntries(ip, true, isDummy): the entries of ip are added as rules, in turn.
\* One that is refused stays, as a dummy if it was to become one.
Flushed(n, ip, isDummy) ==
  LET After(s, i) ==
        LET t == s.temp[i]
            u == IF isDummy THEN [t EXCEPT !.rule.priv = t.pub] ELSE t
        IN  IF ~Concerns(t, ip) THEN s
            ELSE IF t.pub # s.nat.pub THEN [s EXCEPT !.temp[i] = none]
            ELSE [nat  |-> AddEntry(s.nat, u.rule),
                  temp |-> [s.temp EXCEPT ![i] = IF AddEntryOk(s.nat, u.rule) THEN none ELSE u]]
      after[i \in 0 .. setting.temps] ==
        IF i = 0 THEN [nat |-> n, temp |-> temp] ELSE After(after[i - 1], i)
  IN  after[setting.temps]

-----------------------------------------------------------------------------
(* IPACM_ConntrackListener *)

\* A process starts with no table; pub_ip_addr_pre is never initialised.
Init ==
  /\ setting \in Settings
  /\ \E pre, addr \in PublicIps :
       /\ \E isSta \in setting.modes :
            wan = [up |-> ~setting.wanFalls, addr |-> IF setting.wanFalls THEN none ELSE addr,
                   sta |-> isSta]
       /\ nat = [cache |-> [i \in Slots |-> none], hw |-> [h \in Handles |-> none],
                 table |-> ~setting.wanFalls, pub |-> wan.addr, pre |-> pre]
  /\ temp = [i \in Temps |-> none] /\ PwrSaveIfs = {}
  /\ natIfs = [h \in Hosts |-> "unknown"] /\ nonNatIfs = [h \in OtherHosts |-> 0]
  /\ sta = [clients |-> [i \in 1 .. MaxPeers |-> none], count |-> 0]
  /\ threads = [t \in {"tcp", "udp", "timeouts"} |-> IF setting.wanFalls THEN "none" ELSE "running"]
  /\ tracked = {} /\ closing = {} /\ bound = [c \in Own |-> none]
  /\ timer = Idle /\ crossed = FALSE

\* CreateConnTrackThreads: at the first interface that comes up, whichever it is.
WithListeners ==
  [t \in DOMAIN threads |->
     IF t # "timeouts" /\ threads[t] = "none" THEN "created" ELSE threads[t]]

\* CreateNatThreads: at the first WAN interface.
WithNatThread(ts) == [ts EXCEPT !["timeouts"] = "running"]

HANDLE_LAN_UP ==
  /\ threads' = WithListeners
  /\ UNCHANGED <<nat, temp, PwrSaveIfs, wan, sta, natIfs, nonNatIfs, told, timer>>

\* TCPRegisterWithConnTrack and UDPRegisterWithConnTrack: from here on the thread hears.
RegisterWithConnTrack(t) ==
  /\ threads[t] = "created" /\ threads' = [threads EXCEPT ![t] = "running"]
  /\ UNCHANGED <<nat, temp, PwrSaveIfs, wan, sta, natIfs, nonNatIfs, told, timer>>

TriggerWANUp(addr, isSta) ==
  /\ ~wan.up
  /\ wan' = [up |-> TRUE, addr |-> addr, sta |-> isSta] /\ nat' = AddTable(nat, addr)
  /\ threads' = WithNatThread(WithListeners)
  /\ UNCHANGED <<temp, PwrSaveIfs, sta, natIfs, nonNatIfs, told, timer>>

TriggerWANDown ==
  /\ setting.wanFalls /\ wan.up
  /\ wan' = [wan EXCEPT !.up = FALSE] /\ nat' = DeleteTable(nat, wan.addr)
  /\ UNCHANGED <<temp, PwrSaveIfs, sta, threads, natIfs, nonNatIfs, told, timer>>

\* ProcessTCPorUDPMsg: the messages it does not ignore.  The device's own connections are
\* recognised by the address of the WAN interface, and ignored where that is a station.
Heeds(c) == threads[Thread(c)] = "running" /\ (c \in Own => ~wan.sta /\ bound[c] \in {none, wan.addr})

\* AddIface: the rule of connection c, and whether its host is unknown.
HostUnknown(c) ==
  CASE PrivateIp[c] \in Hosts      -> natIfs[PrivateIp[c]] = "unknown"
    [] PrivateIp[c] \in OtherHosts -> nonNatIfs[PrivateIp[c]] = 0
    [] c \in Own                   -> FALSE
RuleOf(c) ==
  IF PrivateIp[c] \in Hosts \/ HostUnknown(c) THEN Plain(c) ELSE Dummy(c, wan.addr)

\* CheckSTAClient: the first slot tells the network, the first StaClntCnt ones the peers.
CheckSTAClient(c) ==
  /\ wan.sta /\ sta.count > 0
  /\ TargetIp[c] # none /\ sta.clients[1] # none
  /\ \A i \in 1 .. sta.count : sta.clients[i] # TargetIp[c]

IsTemp(c) == HostUnknown(c) \/ CheckSTAClient(c)

\* A connection is new, or established: TCP may tell the latter more than once.
ct_established(c) ==
  /\ Heeds(c) /\ c \notin closing /\ (c \in tracked => c \in Tcp) /\ (c \in Own => wan.addr # none)
  /\ tracked' = tracked \cup {c} /\ closing' = closing
  /\ bound' = [o \in Own |-> IF o = c THEN wan.addr ELSE bound[o]]
  /\ IF ~wan.up THEN nat' = CacheEntry(nat, RuleOf(c), wan.addr) /\ temp' = temp
     ELSE IF IsTemp(c) THEN nat' = nat /\ temp' = AddTempEntry([rule |-> RuleOf(c), pub |-> wan.addr])
     ELSE nat' = AddEntry(nat, RuleOf(c)) /\ temp' = temp
  /\ UNCHANGED <<PwrSaveIfs, links, natIfs, nonNatIfs, timer>>

\* The kernel drops a connection; IPAConntrackEventCB posts its message, handled later.
kernel_drops(c) ==
  /\ c \in tracked \ closing /\ closing' = closing \cup {c}
  /\ UNCHANGED <<nat, temp, PwrSaveIfs, links, natIfs, nonNatIfs, tracked, bound, timer>>

ct_destroyed(c) ==
  /\ c \in closing /\ closing' = closing \ {c} /\ tracked' = tracked \ {c}
  /\ bound' = [o \in Own |-> IF o = c THEN none ELSE bound[o]]
  /\ IF Heeds(c) THEN nat' = DeleteEntry(nat, RuleOf(c)) /\ temp' = DeleteTempEntry(RuleOf(c))
     ELSE UNCHANGED <<nat, temp>>
  /\ UNCHANGED <<PwrSaveIfs, links, natIfs, nonNatIfs, timer>>

-----------------------------------------------------------------------------
(* Neighbours and power save *)

\* CheckNatIface, from the listener's own handling of a new neighbour on a NAT interface.
neighbour_listed(h) ==
  /\ natIfs[h] = "unknown" /\ natIfs' = [natIfs EXCEPT ![h] = "listed"]
  /\ UNCHANGED <<nat, temp, PwrSaveIfs, links, nonNatIfs, told, timer>>

HandleNeighIpAddrAddEvt_noFlush(h) ==
  /\ natIfs[h] # "routed" /\ natIfs' = [natIfs EXCEPT ![h] = "routed"]
  /\ PwrSaveIfs' = PwrSaveIfs \ {h} /\ nat' = Resume(nat, h)
  /\ UNCHANGED <<temp, links, nonNatIfs, told, timer>>

\* HandleNeighIpAddrAddEvt: called when a client gets an address it did not have.
HandleNeighIpAddrAddEvt(h) ==
  /\ natIfs[h] # "routed" /\ natIfs' = [natIfs EXCEPT ![h] = "routed"]
  /\ PwrSaveIfs' = PwrSaveIfs \ {h}
  /\ LET s == Flushed(Resume(nat, h), h, FALSE) IN nat' = s.nat /\ temp' = s.temp
  /\ UNCHANGED <<links, nonNatIfs, told, timer>>

\* Called for a client that has an address.
HandleNeighIpAddrDelEvt(h) ==
  /\ h \notin setting.stays
  /\ natIfs[h] = "routed" /\ natIfs' = [natIfs EXCEPT ![h] = "unknown"]
  /\ PwrSaveIfs' = PwrSaveIfs \ {h}
  /\ nat' = Suspend(nat, h) /\ temp' = Forgotten(h)
  /\ UNCHANGED <<links, nonNatIfs, told, timer>>

\* HandleNonNatIPAddr: an address may be added twice.
Listings == {p \in OtherHosts \X (1 .. MaxIfaces) : p[2] <= nonNatIfs[p[1]]}
NonNatAdd(o) ==
  /\ Cardinality(Listings) < MaxIfaces /\ nonNatIfs' = [nonNatIfs EXCEPT ![o] = @ + 1]
  /\ LET s == Flushed(nat, o, TRUE) IN nat' = s.nat /\ temp' = s.temp
  /\ UNCHANGED <<PwrSaveIfs, links, natIfs, told, timer>>

NonNatDel(o) ==
  /\ nonNatIfs[o] > 0 /\ nonNatIfs' = [nonNatIfs EXCEPT ![o] = @ - 1]
  /\ nat' = Suspend(nat, o) /\ temp' = Forgotten(o)
  /\ UNCHANGED <<PwrSaveIfs, links, natIfs, told, timer>>

\* UpdatePwrSaveIf and ResetPwrSaveIf, for a client that has an address.
UpdatePwrSaveIf(h) ==
  /\ natIfs[h] = "routed" /\ h \notin PwrSaveIfs
  /\ PwrSaveIfs' = PwrSaveIfs \cup {h} /\ nat' = Suspend(nat, h)
  /\ UNCHANGED <<temp, links, natIfs, nonNatIfs, told, timer>>

ResetPwrSaveIf(h) ==
  /\ h \in PwrSaveIfs /\ PwrSaveIfs' = PwrSaveIfs \ {h} /\ nat' = Resume(nat, h)
  /\ UNCHANGED <<temp, links, natIfs, nonNatIfs, told, timer>>

\* A peer gets an address: it takes the first free slot of the array, unless it is found on
\* the way there.
HandleSTAClientAddEvt(p) ==
  /\ sta.count < MaxPeers
  /\ LET slot == First({i \in 1 .. MaxPeers : sta.clients[i] \in {none, p}})
     IN  sta' = IF sta.clients[slot] = p THEN sta
                ELSE [clients |-> [sta.clients EXCEPT ![slot] = p], count |-> sta.count + 1]
  /\ LET s == Flushed(nat, p, FALSE) IN nat' = s.nat /\ temp' = s.temp
  /\ UNCHANGED <<PwrSaveIfs, wan, threads, natIfs, nonNatIfs, told, timer>>

HandleSTAClientDelEvt(p) ==
  /\ p \notin setting.stays
  /\ LET slots == {i \in 1 .. MaxPeers : sta.clients[i] = p}
     IN  /\ sta' = IF slots = {} THEN sta
                   ELSE [clients |-> [sta.clients EXCEPT ![First(slots)] = none],
                         count   |-> sta.count - 1]
         /\ nat' = IF slots = {} THEN nat ELSE DropPeer(nat, p)
  /\ temp' = Forgotten(p)
  /\ UNCHANGED <<PwrSaveIfs, wan, threads, natIfs, nonNatIfs, told, timer>>

-----------------------------------------------------------------------------
(* UpdateUDPTimeStamp *)

Known(r) ==
  /\ r.conn \in tracked \ closing
  /\ r.priv = IF r.conn \in Own THEN bound[r.conn] ELSE PrivateIp[r.conn]

\* The kernel refuses to refresh the connection of an enabled entry that does not look
\* like a dummy; DeleteEntry is called next, with a pointer to the slot.
timer_refused(i) ==
  /\ setting.timer /\ threads["timeouts"] = "running"
  /\ timer = Idle /\ timer' = [at |-> "refused", slot |-> i, hdl |-> 0]
  /\ nat.cache[i] # none /\ nat.cache[i].enabled
  /\ nat.cache[i].rule.priv # nat.cache[i].pub /\ ~Known(nat.cache[i].rule)
  /\ UNCHANGED <<nat, temp, PwrSaveIfs, links, natIfs, nonNatIfs, told>>

\* DeleteEntry's search stops at the first slot that reads like the one pointed to, whatever
\* that holds by now, were it nothing; then it looks whether the entry is enabled.
SameRule(i, j) ==
  IF nat.cache[j] = none THEN nat.cache[i] = none
  ELSE nat.cache[i] # none /\ nat.cache[i].rule = nat.cache[j].rule

timer_finds ==
  /\ timer.at = "refused"
  /\ LET i == First({j \in Slots : SameRule(j, timer.slot)})
     IN  timer' = IF nat.cache[i] # none /\ nat.cache[i].enabled
                  THEN [at |-> "deleting", slot |-> i, hdl |-> nat.cache[i].hdl]
                  ELSE [at |-> "clearing", slot |-> i, hdl |-> 0]
  /\ UNCHANGED <<nat, temp, PwrSaveIfs, links, natIfs, nonNatIfs, told>>

\* ipa_nat_del_ipv4_rule, for the handle in the slot: as it was at the test, or as it is now.
HandleNow(i) == IF nat.cache[i] = none THEN 0 ELSE nat.cache[i].hdl
timer_withdraws ==
  /\ timer.at = "deleting"
  /\ \E h \in {timer.hdl, HandleNow(timer.slot)} :
       /\ nat' = [nat EXCEPT !.hw = [g \in Handles |-> IF g = h THEN none ELSE @[g]]]
       /\ timer' = [timer EXCEPT !.at = "clearing", !.hdl = h]
  /\ UNCHANGED <<temp, PwrSaveIfs, links, natIfs, nonNatIfs, told>>

\* The memset of the slot, whatever it holds.
timer_clears ==
  /\ timer.at = "clearing" /\ timer' = Idle
  /\ nat' = [nat EXCEPT !.cache[timer.slot] = none]
  /\ UNCHANGED <<temp, PwrSaveIfs, links, natIfs, nonNatIfs, told>>

\* A step of another thread changes the entry that the refreshing thread is deleting.
Found   == timer.at \in {"deleting", "clearing"}
Touches == Found /\ nat'.cache[timer.slot] # nat.cache[timer.slot]
Anew    == ~Found /\ nat.table /\ ~nat'.table

EventThread ==
  \/ HANDLE_LAN_UP \/ \E t \in {"tcp", "udp"} : RegisterWithConnTrack(t)
  \/ \E addr \in PublicIps, isSta \in setting.modes : TriggerWANUp(addr, isSta)
  \/ TriggerWANDown
  \/ \E c \in setting.conns : ct_established(c) \/ kernel_drops(c) \/ ct_destroyed(c)
  \/ \E h \in Hosts \cap Active : \/ neighbour_listed(h) \/ HandleNeighIpAddrAddEvt(h)
                               \/ HandleNeighIpAddrDelEvt(h)
  \/ \E h \in setting.sleepers : UpdatePwrSaveIf(h) \/ ResetPwrSaveIf(h)
  \/ \E o \in OtherHosts \cap Active : NonNatAdd(o) \/ NonNatDel(o)
  \/ \E p \in Reached : HandleSTAClientAddEvt(p) \/ HandleSTAClientDelEvt(p)

UpdateUDPTimeStamp ==
  \/ \E i \in Slots : timer_refused(i)
  \/ timer_finds \/ timer_withdraws \/ timer_clears

Next ==
  /\ UNCHANGED setting
  /\ \/ EventThread /\ crossed' = (Touches \/ (crossed /\ ~Anew))
     \/ UpdateUDPTimeStamp /\ UNCHANGED crossed

Spec == Init /\ [][Next]_vars

-----------------------------------------------------------------------------
(* Properties *)

InHw(c) == \E h \in Handles : nat.hw[h] # none /\ nat.hw[h].conn = c

\* The connections of hosts on NAT interfaces.  A rule of any other is a dummy, and one that
\* outlives its host's address is found under the wrong address when it closes.
Natted == {c \in Conns : PrivateIp[c] \in Hosts}
Settled == Natted \cup {c \in Own : ~setting.wanFalls}

\* No peer leaves, and no host that reaches one.
StationStays ==
  Peers \cup (Hosts \cap {PrivateIp[c] : c \in {d \in Conns : TargetIp[d] # none}})
    \subseteq setting.stays
Listed == {sta.clients[i] : i \in 1 .. MaxPeers}

\* Every variable has its type.
TypeOK ==
  /\ nat \in [cache : [Slots -> Entry \cup {none}], hw : [Handles -> Rule \cup {none}],
              table : BOOLEAN, pub : PublicIps \cup {none}, pre : PublicIps]
  /\ temp \in [Temps -> Waiting \cup {none}]
  /\ PwrSaveIfs \subseteq setting.sleepers
  /\ wan \in [up : BOOLEAN, addr : PublicIps \cup {none}, sta : BOOLEAN]
  /\ sta \in [clients : [1 .. MaxPeers -> Peers \cup {none}], count : 0 .. MaxPeers]
  /\ threads \in [{"tcp", "udp", "timeouts"} -> {"none", "created", "running"}]
  /\ bound \in [Own -> PublicIps \cup {none}]
  /\ natIfs \in [Hosts -> {"unknown", "listed", "routed"}]
  /\ nonNatIfs \in [OtherHosts -> 0 .. MaxIfaces]
  /\ tracked \subseteq Conns /\ closing \subseteq tracked
  /\ timer \in Timer /\ (timer # Idle => timer.slot \in Slots) /\ crossed \in BOOLEAN

\* The entry in slot i has a rule: it is enabled, and the refreshing thread has not just
\* deleted the rule.
HasRule(i) ==
  /\ nat.cache[i] # none /\ nat.cache[i].enabled
  /\ ~(timer.at = "clearing" /\ timer.hdl # 0 /\ timer.slot = i)

\* The cache and the hardware agree: a rule is in the hardware exactly when the entry of one
\* slot holds its handle.  The refreshing thread deletes while the event thread adds, deletes,
\* suspends and resumes others.  Only when that changes the very entry the refreshing thread
\* has found may they disagree, and then until the table is next deleted.
TableAgrees ==
  /\ TypeOK
  /\ ~crossed =>
    /\ \A h \in Handles : nat.hw[h] # none =>
         \E i \in Slots : HasRule(i) /\ nat.cache[i].hdl = h /\ nat.cache[i].rule = nat.hw[h]
    /\ \A i \in Slots : HasRule(i) =>
         /\ nat.table /\ nat.cache[i].hdl # 0 /\ nat.hw[nat.cache[i].hdl] = nat.cache[i].rule
         /\ \A j \in Slots \ {i} : HasRule(j) => nat.cache[j].hdl # nat.cache[i].hdl

\* What DeleteEntry is for: no rule of a closed connection of a NAT host is in the hardware.
ClosedHasNoRule == \A c \in Natted \ tracked : ~InHw(c)

\* A connection of a NAT host, or of the device itself, leaves nothing behind when it closes,
\* not in the cache or the temporary entries, from where a later event could offload it again,
\* and, unless the two threads crossed, not in the hardware; and until then, however often it
\* is established and whichever interface comes and goes, it has at most one rule there.
ClosedIsGone ==
  /\ \A c \in Settled \ tracked :
       /\ crossed \/ ~InHw(c)
       /\ \A i \in Slots : nat.cache[i] # none => nat.cache[i].rule.conn # c
       /\ \A i \in Temps : temp[i] # none => temp[i].rule.conn # c
  /\ ~crossed =>
     \A g, h \in Handles :
       /\ nat.hw[g] # none /\ nat.hw[h] # none
       /\ nat.hw[g].conn = nat.hw[h].conn /\ nat.hw[g].conn \in Settled
       => g = h

\* No rule of a host in power save is in the hardware.
AsleepIsNotOffloaded ==
  \A h \in Handles : nat.hw[h] # none => nat.hw[h].priv \notin PwrSaveIfs

\* While the WAN interface stays up, the hardware has the connections of the hosts that
\* are set up and awake, in whatever order host, peer, power save and connection were
\* reported, and none of a host that sleeps; always, a closed connection leaves nothing
\* behind.  Its own connections the device offloads unless the interface is a station.
OffloadFollows ==
  /\ ClosedIsGone
  /\ ~setting.wanFalls =>
    /\ \A c \in tracked \ (closing \cup AlgConns) :
         \/ c \in Own
         \/ /\ PrivateIp[c] \in Hosts \ PwrSaveIfs /\ natIfs[PrivateIp[c]] = "routed"
            /\ TargetIp[c] = none \/ (TargetIp[c] \in Listed /\ StationStays)
         => InHw(c)
    /\ \A c \in Own : wan.sta => ~InHw(c)
    /\ AsleepIsNotOffloaded

\* While the WAN interface and the peers stay, an entry leaves the cache when its connection closes,
\* not before.
CachedUntilClosed ==
  [][\A c \in tracked \ closing :
       ~setting.wanFalls /\ (TargetIp[c] = none \/ StationStays) /\ ChkForDup(nat, Plain(c)) /\ c \in tracked' =>
         ChkForDup(nat', Plain(c))]_vars

=============================================================================
