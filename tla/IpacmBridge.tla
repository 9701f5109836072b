---------------------------- MODULE IpacmBridge ----------------------------
(***************************************************************************)
(* How IPACM bridges local interfaces in hardware (IPACM_LanToLan): frames *)
(* between two clients, of two interfaces or of one Wi-Fi interface, are   *)
(* switched by rules the controller installs as interfaces and clients     *)
(* come and go.  For each interface i with a peer whose frames have the    *)
(* layer-2 header t there is a processing context, shared by every peer of *)
(* that header and counted; each client of i has a routing rule per header *)
(* t; and i filters, in each family it has an address of, the frames to    *)
(* each client of each peer.                                               *)
(*                                                                         *)
(* The interface objects (IPACM_Lan, IPACM_Wlan) post the events, which    *)
(* the event thread takes from the internal queue before any other.  Only  *)
(* the Linux build has this controller.                                    *)
(***************************************************************************)
EXTENDS Naturals, Integers, Sequences, FiniteSets, Bags, SequencesExt

CONSTANTS
  Lans, Wlans,      \* wired interfaces and access points
  L2,               \* interface -> header type of its frames
  Macs,             \* stations and hosts
  CacheSize,        \* MAX_NUM_CACHED_CLIENT_ADD_EVENT
  MaxSwitches,      \* bound on the channel-mode events not handled yet
  Worlds,           \* networks: the families in use (fams), whether the channel mode
                    \* changes (channels), how many clients an interface takes (room,
                    \* MAX_NUM_CLIENT)
  Allowed           \* courses of events, of those named below, that may happen

Ifaces == Lans \cup Wlans
Fams   == {"v4", "v6"}
Types  == {L2[i] : i \in Ifaces}
Intra  == "intra"
Nobody == "nobody"

ASSUME IfacesAssumption == /\ Lans \cap Wlans = {} /\ Nobody \notin Ifaces
                           /\ L2 \in [Ifaces -> STRING] /\ Intra \notin Types
ASSUME FiniteAssumption == IsFiniteSet(Ifaces) /\ IsFiniteSet(Macs)
ASSUME BoundsAssumption == CacheSize \in Nat /\ MaxSwitches \in Nat
ASSUME WorldsAssumption == \A w \in Worlds : w.fams \subseteq Fams /\ w.channels \in BOOLEAN
                                             /\ w.room \in Nat /\ CacheSize <= w.room
ASSUME CoursesAssumption == Allowed \subseteq {"guest", "early", "bare", "freed"}

VARIABLES
  world,     \* the network; it does not change
  alive,     \* interfaces that have an object
  active,    \* those whose object is_active and still has its tx_prop
  ip,        \* interface -> the families its object has an address of (ip_type)
  guests,    \* access points in guest mode (m_is_guest_ap)
  at,        \* client -> the interface it is reached by
  mcc,       \* isMCC_Mode
  switches,  \* channel-mode events in the external queue
  queue,     \* the internal queue
  m_iface,   \* the controller's interfaces: a function on those it has
  cached,    \* m_cached_client_add_event: a function from places taken to events, for
             \* nobody looks at the order of the list
  held,      \* the rules whose handles the controller holds
  hw,        \* the rules in the hardware, a bag
  alt,       \* those routing rules that name the alternative pipe
  refused    \* the clients not taken in for want of room

objects == <<world, alive, active, ip, guests, at, mcc, switches>>
bridge  == <<m_iface, cached, held, hw, alt, refused>>
vars    == <<objects, queue, bridge>>

Up == DOMAIN m_iface

\* Places in the cache.
Places == 1..CacheSize

Ctx(i, t)       == [on |-> i, what |-> "ctx", type |-> t]
Rt(i, c, t)     == [on |-> i, what |-> "rt", client |-> c, type |-> t]
Flt(i, j, c, f) == [on |-> i, what |-> "flt", peer |-> j, client |-> c, ip |-> f]

Evt(event, i)        == [event |-> event, i |-> i]
IfaceUp(i, f)        == [event |-> "IFACE_UP", i |-> i, ip |-> f]
ClientEvt(event, i, c) == [event |-> event, i |-> i, mac |-> c]

-----------------------------------------------------------------------------
(* Rules *)

\* A rule added is held and installed; one installed a second time is there twice.
Installed(new) == /\ held' = held \cup new
                  /\ hw'   = hw (+) SetToBag(new)

\* Rules deleted by their handles, and others whose handles are lost.
Removed(old, lost) == /\ held' = held \ (old \cup lost)
                      /\ hw'   = hw (-) SetToBag(old \cap held)

\* eth_bridge_add_rt_rule, eth_bridge_modify_rt_rule: the pipe of routing rules.
Piped(rules) == LET moved == {r \in rules : r.on \in Wlans} IN
                IF mcc THEN alt \cup moved ELSE alt \ moved

PeerTypes(i) == {L2[j] : j \in m_iface[i].peers}

\* The rules one interface has of a set of clients, on itself or on its peers.
ClientRt(i, cs, ts)    == {Rt(i, c, t) : c \in cs, t \in ts}
ClientFlt(i, j, cs, fs) == {Flt(i, j, c, f) : c \in cs, f \in fs}

RtRules(rules) == {r \in rules : r.what = "rt"}

\* The rules that come and go with the clients cs of i, when the interfaces are m.
ClientRules(m, i, cs) ==
  (IF m[i].inter THEN ClientRt(i, cs, {L2[j] : j \in m[i].peers})
                      \cup UNION {ClientFlt(j, i, cs, m[j].assigned) : j \in m[i].peers}
                 ELSE {})
  \cup (IF m[i].intra THEN ClientRt(i, cs, {Intra}) \cup ClientFlt(i, i, cs, m[i].assigned) ELSE {})

\* The rules i gets with its second address.
FamilyRules(i, f) ==
  (IF m_iface[i].inter
     THEN UNION {ClientFlt(i, j, m_iface[j].clients, {f}) : j \in m_iface[i].peers} ELSE {})
  \cup (IF m_iface[i].intra THEN ClientFlt(i, i, m_iface[i].clients, {f}) ELSE {})

\* The filters i holds about its peer j.
Filters(i, j) == {r \in held : r.what = "flt" /\ r.on = i /\ r.peer = j /\ r.ip \in m_iface[i].assigned}

-----------------------------------------------------------------------------
(* Interfaces of the controller *)

Others(i) == IF i \in guests THEN {} ELSE Up

\* handle_new_iface_up, in both directions, for every interface there is: one in guest
\* mode links with none when it comes up, but is not spared by those that come up later.
Linked(i, f) ==
  [j \in Up \cup {i} |->
     IF j = i
     THEN [assigned |-> {f}, clients |-> {}, peers |-> Others(i), inter |-> i \notin guests,
           intra |-> i \in Wlans,
           ref |-> [t \in Types |-> Cardinality({k \in Others(i) : L2[k] = t})]]
     ELSE IF j \in Others(i)
     THEN [m_iface[j] EXCEPT !.peers = @ \cup {i}, !.ref[L2[i]] = @ + 1]
     ELSE m_iface[j]]

\* Contexts and rules that a new interface brings, before it has clients.
LinkRules(m, i, f) ==
  LET first == {j \in Others(i) : m[j].ref[L2[i]] = 1} IN
  {Ctx(j, L2[i]) : j \in first} \cup {Ctx(i, L2[j]) : j \in Others(i)}
  \cup (UNION {ClientRt(j, m[j].clients, {L2[i]}) : j \in first})
  \cup (UNION {ClientFlt(i, j, m[j].clients, {f}) : j \in Others(i)})
  \cup (IF m[i].intra THEN {Ctx(i, Intra)} ELSE {})

CachedAt(i) == {s \in DOMAIN cached : cached[s].i = i}
CachedOf(i) == {cached[s].mac : s \in CachedAt(i)}

\* Mutant: the events of the interface stay in the cache.
Uncached_never(i) == cached

Uncached(i) == [s \in DOMAIN cached \ CachedAt(i) |-> cached[s]]

\* The cache is shorter than the list of clients: every cached client finds room.
handle_iface_up(i, f) ==
  \/ /\ i \in Up /\ f \in m_iface[i].assigned
     /\ UNCHANGED bridge
  \/ /\ i \in Up /\ f \notin m_iface[i].assigned
     /\ m_iface' = [m_iface EXCEPT ![i].assigned = @ \cup {f}]
     /\ Installed(FamilyRules(i, f))
     /\ UNCHANGED <<cached, alt, refused>>
  \/ /\ i \notin Up
     /\ LET m   == Linked(i, f)
            new == LinkRules(m, i, f) \cup ClientRules(m, i, CachedOf(i))
        IN /\ m_iface' = [m EXCEPT ![i].clients = CachedOf(i)]
           /\ Installed(new)
           /\ alt' = Piped(RtRules(new))
     /\ cached' = Uncached(i)
     /\ UNCHANGED refused

\* What the tx_prop of i says of its frames.  The handler that posts the end of i frees it
\* first, so that the controller, taking i down, reads freed memory: what it held before or,
\* in the course "freed", any type.
TypesRead(i) == IF i \in active \/ "freed" \notin Allowed THEN {L2[i]} ELSE Types

Unlinked(i, t) == [j \in Up \ {i} |->
   IF j \in m_iface[i].peers /\ m_iface[i].inter
   THEN [m_iface[j] EXCEPT !.peers = @ \ {i}, !.ref[t] = @ - 1] ELSE m_iface[j]]

\* Mutant: a routing rule goes with the first of its peers.
DownRules_firstPeer(m, i, t) ==
  LET ps   == IF m_iface[i].inter THEN m_iface[i].peers ELSE {}
      mine == {L2[j] : j \in ps} IN
  (UNION {Filters(i, j) \cup Filters(j, i) : j \in ps})
  \cup (UNION {ClientRt(j, m[j].clients, {t}) \cup {Ctx(j, t)} : j \in ps})
  \cup ClientRt(i, m_iface[i].clients, mine) \cup {Ctx(i, u) : u \in mine}
  \cup (IF m_iface[i].intra
          THEN Filters(i, i) \cup ClientRt(i, m_iface[i].clients, {Intra}) \cup {Ctx(i, Intra)} ELSE {})

\* clear_all_flt_rule_for_one_peer_iface, clear_all_rt_rule_for_one_peer_iface and
\* del_hdr_proc_ctx for every peer of i, on both sides: of a header type, only with its
\* last peer.  t is the type i is taken for.
DownRules(m, i, t) ==
  LET ps   == IF m_iface[i].inter THEN m_iface[i].peers ELSE {}
      last == {j \in ps : m[j].ref[t] = 0}
      gone == {u \in {L2[j] : j \in ps} : m_iface[i].ref[u] = Cardinality({j \in ps : L2[j] = u})} IN
  (UNION {Filters(i, j) \cup Filters(j, i) : j \in ps})
  \cup (UNION {ClientRt(j, m[j].clients, {t}) \cup {Ctx(j, t)} : j \in last})
  \cup ClientRt(i, m_iface[i].clients, gone) \cup {Ctx(i, u) : u \in gone}
  \cup (IF m_iface[i].intra
          THEN Filters(i, i) \cup ClientRt(i, m_iface[i].clients, {Intra}) \cup {Ctx(i, Intra)} ELSE {})

\* The controller forgets the interface, and with it every handle it held.
handle_iface_down(i, t) ==
  /\ refused' = {p \in refused : p[1] # i}
  /\ \/ i \notin Up /\ cached' = Uncached(i) /\ UNCHANGED <<m_iface, held, hw, alt>>
     \/ /\ i \in Up
        /\ m_iface' = Unlinked(i, t)
        /\ Removed(DownRules(Unlinked(i, t), i, t), {r \in held : r.on = i})
        /\ alt' = alt \ DownRules(Unlinked(i, t), i, t)
        /\ UNCHANGED cached

-----------------------------------------------------------------------------
(* Clients of the controller *)

Refused(i, c) == refused' = refused \cup {<<i, c>>}

\* Of an interface not up yet, the event waits.
handle_client_add(e) ==
  LET i == e.i
      c == e.mac IN
  \/ i \in Up /\ c \in m_iface[i].clients /\ UNCHANGED bridge
  \/ /\ i \in Up /\ c \notin m_iface[i].clients
     /\ Cardinality(m_iface[i].clients) = world.room
     /\ Refused(i, c) /\ UNCHANGED <<m_iface, cached, held, hw, alt>>
  \/ /\ i \in Up /\ c \notin m_iface[i].clients
     /\ Cardinality(m_iface[i].clients) < world.room
     /\ m_iface' = [m_iface EXCEPT ![i].clients = @ \cup {c}]
     /\ Installed(ClientRules(m_iface, i, {c}))
     /\ alt' = Piped(RtRules(ClientRules(m_iface, i, {c})))
     /\ refused' = refused \ {<<i, c>>}
     /\ UNCHANGED cached
  \/ /\ i \notin Up
     /\ \E s \in Places \ DOMAIN cached :
          cached' = [p \in DOMAIN cached \cup {s} |-> IF p = s THEN e ELSE cached[p]]
     /\ UNCHANGED <<m_iface, held, hw, alt, refused>>
  \/ /\ i \notin Up /\ DOMAIN cached = Places
     /\ Refused(i, c) /\ UNCHANGED <<m_iface, cached, held, hw, alt>>

Unlisted(i, c) == [m_iface EXCEPT ![i].clients = @ \ {c}]

\* Of an interface not up yet, nothing: an event that waits goes on waiting.
handle_client_del(i, c) ==
  /\ refused' = refused \ {<<i, c>>}
  /\ UNCHANGED cached
  /\ \/ (i \notin Up \/ c \notin m_iface[i].clients) /\ UNCHANGED <<m_iface, held, hw, alt>>
     \/ /\ i \in Up /\ c \in m_iface[i].clients
        /\ m_iface' = Unlisted(i, c)
        /\ Removed(ClientRules(m_iface, i, {c}),
                   {r \in RtRules(held) : r.on = i /\ r.client = c})
        /\ alt' = alt \ ClientRules(m_iface, i, {c})

SwitchRules(i) ==
  (IF m_iface[i].inter THEN ClientRt(i, m_iface[i].clients, PeerTypes(i)) ELSE {})
  \cup (IF m_iface[i].intra THEN ClientRt(i, m_iface[i].clients, {Intra}) ELSE {})

handle_wlan_scc_mcc_switch(i) ==
  /\ \/ i \in Up /\ alt' = Piped(SwitchRules(i))
     \/ i \notin Up /\ UNCHANGED alt
  /\ UNCHANGED <<m_iface, cached, held, hw, refused>>

-----------------------------------------------------------------------------
(* Interface objects *)

\* The first event of the internal queue: the controller's, or the deletion of an object.
Serve == /\ queue # <<>>
         /\ LET e == Head(queue) IN
            \/ e.event = "IFACE_UP" /\ handle_iface_up(e.i, e.ip) /\ UNCHANGED objects
            \/ /\ e.event = "IFACE_DOWN" /\ \E t \in TypesRead(e.i) : handle_iface_down(e.i, t)
               /\ UNCHANGED objects
            \/ e.event = "CLIENT_ADD" /\ handle_client_add(e) /\ UNCHANGED objects
            \/ e.event = "CLIENT_DEL" /\ handle_client_del(e.i, e.mac) /\ UNCHANGED objects
            \/ e.event = "WLAN_SCC_MCC_SWITCH" /\ handle_wlan_scc_mcc_switch(e.i) /\ UNCHANGED objects
            \/ /\ e.event = "LAN_DELETE_SELF" /\ alive' = alive \ {e.i}
               /\ UNCHANGED <<bridge, world, active, ip, guests, at, mcc, switches>>
         /\ queue' = Tail(queue)

\* An external event is handled when the internal queue is empty, and posts these.
Posted(evts) == queue = <<>> /\ queue' = evts

\* LINK_UP: the manager makes an object.
LinkUp(i) == /\ i \notin alive
             /\ alive' = alive \cup {i} /\ active' = active \cup {i}
             /\ ip' = [ip EXCEPT ![i] = {}]
             /\ Posted(<<>>) /\ UNCHANGED <<world, guests, at, mcc, switches, bridge>>

NewLink(i) == i \notin Up /\ i \notin guests

\* handle_addr_evt.  Course "guest": an interface comes up while one in guest mode is.
AddrAdd(i, f) ==
  /\ i \in active /\ f \in world.fams \ ip[i]
  /\ "guest" \notin Allowed => ~(NewLink(i) /\ \E j \in Up : ~m_iface[j].inter)
  /\ ip' = [ip EXCEPT ![i] = @ \cup {f}]
  /\ Posted(<<IfaceUp(i, f)>>)
  /\ UNCHANGED <<world, alive, active, guests, at, mcc, switches, bridge>>

\* Mutant: the object ends before the controller hears of it.
DownEvents_endFirst(i) == IF ip[i] = {} THEN <<Evt("LAN_DELETE_SELF", i)>>
                          ELSE <<Evt("LAN_DELETE_SELF", i), Evt("IFACE_DOWN", i)>>

\* handle_down_evt: without an address, nobody is told.
DownEvents(i) == IF ip[i] = {} THEN <<Evt("LAN_DELETE_SELF", i)>>
                 ELSE <<Evt("IFACE_DOWN", i), Evt("LAN_DELETE_SELF", i)>>

\* LINK_DOWN: handle_down_evt posts the end and frees tx_prop, in one handler; the clients
\* are cut off.  Course "bare": the interface never had an address, and the controller keeps
\* the clients it cached.
LinkDown(i) ==
  /\ i \in active
  /\ "bare" \notin Allowed => ip[i] # {} \/ CachedOf(i) = {}
  /\ at' = [c \in Macs |-> IF at[c] = i THEN Nobody ELSE at[c]]
  /\ active' = active \ {i}
  /\ Posted(DownEvents(i))
  /\ UNCHANGED <<world, alive, ip, guests, mcc, switches, bridge>>

\* A station joins (WLAN_CLIENT_ADD_EX), or a host gets one more address
\* (NEIGH_CLIENT_IP_ADDR_ADD).
Join(i, c) == /\ i \in active
              /\ at[c] = Nobody \/ (i \in Lans /\ at[c] = i)
              /\ at' = [at EXCEPT ![c] = i]
              /\ Posted(<<ClientEvt("CLIENT_ADD", i, c)>>)
              /\ UNCHANGED <<world, alive, active, ip, guests, mcc, switches, bridge>>

\* A station leaves, or a host loses its IPv4 address.  Course "early": before the
\* interface has an address.
Leave(i, c) == /\ at[c] = i
               /\ "early" \notin Allowed => i \in Up
               /\ at' = [at EXCEPT ![c] = Nobody]
               /\ Posted(<<ClientEvt("CLIENT_DEL", i, c)>>)
               /\ UNCHANGED <<world, alive, active, ip, guests, mcc, switches, bridge>>

\* eth_bridge_handle_wlan_mode_switch, the stations in the order of the list.
ModeEvents(i, stations) ==
  <<Evt("IFACE_DOWN", i)>>
  \o (IF "v4" \in ip[i] THEN <<IfaceUp(i, "v4")>> ELSE <<>>)
  \o (IF "v6" \in ip[i] THEN <<IfaceUp(i, "v6")>> ELSE <<>>)
  \o [k \in DOMAIN stations |-> ClientEvt("CLIENT_ADD", i, stations[k])]

\* CFG_CHANGE_EVENT, the mode of an access point changed in the configuration file.
ModeSwitch(i) ==
  /\ i \in Wlans
  /\ "guest" \notin Allowed => ~(i \in guests /\ \E j \in Up \ {i} : ~m_iface[j].inter)
  /\ guests' = IF i \in guests THEN guests \ {i} ELSE guests \cup {i}
  /\ \E stations \in SetToSeqs({c \in Macs : at[c] = i}) :
       Posted(IF i \in active THEN ModeEvents(i, stations) ELSE <<>>)
  /\ UNCHANGED <<world, alive, active, ip, at, mcc, switches, bridge>>

\* The driver changes the channel mode: the flag changes before the event is posted.
ChannelSwitch == /\ world.channels /\ switches < MaxSwitches
                 /\ mcc' = ~mcc
                 /\ switches' = switches + 1
                 /\ UNCHANGED <<world, alive, active, ip, guests, at, queue, bridge>>

\* WLAN_SWITCH_TO_SCC and WLAN_SWITCH_TO_MCC, heard by every access point.
SwitchEvent == /\ switches > 0
               /\ switches' = switches - 1
               /\ \E heard \in SetToSeqs({Evt("WLAN_SCC_MCC_SWITCH", i) :
                                          i \in Wlans \cap active}) : Posted(heard)
               /\ UNCHANGED <<world, alive, active, ip, guests, at, mcc, bridge>>

Init == /\ world \in Worlds
        /\ alive = {} /\ active = {} /\ ip = [i \in Ifaces |-> {}] /\ guests \in SUBSET Wlans
        /\ at = [c \in Macs |-> Nobody] /\ mcc = FALSE /\ switches = 0 /\ queue = <<>>
        /\ m_iface = <<>> /\ cached = <<>> /\ held = {} /\ hw = EmptyBag /\ alt = {} /\ refused = {}

Next == \/ Serve \/ ChannelSwitch \/ SwitchEvent
        \/ \E i \in Ifaces : LinkUp(i) \/ LinkDown(i) \/ ModeSwitch(i)
        \/ \E i \in Ifaces, f \in Fams : AddrAdd(i, f)
        \/ \E i \in Ifaces, c \in Macs : Join(i, c) \/ Leave(i, c)

Spec == Init /\ [][Next]_vars

-----------------------------------------------------------------------------
(* Properties *)

\* Every variable has its type.
TypeOK == /\ alive \subseteq Ifaces /\ active \subseteq alive
          /\ ip \in [Ifaces -> SUBSET Fams] /\ guests \subseteq Wlans
          /\ at \in [Macs -> Ifaces \cup {Nobody}] /\ mcc \in BOOLEAN
          /\ switches \in 0..MaxSwitches
          /\ Up \subseteq Ifaces
          /\ \A i \in Up :
               /\ m_iface[i].assigned \subseteq Fams /\ m_iface[i].clients \subseteq Macs
               /\ m_iface[i].ref \in [Types -> Nat] /\ m_iface[i].peers \subseteq Ifaces
               /\ Cardinality(m_iface[i].clients) <= world.room
          /\ DOMAIN cached \subseteq Places /\ alt \subseteq held

\* Pairs of interfaces the controller bridges: neither is in guest mode.
Bridged == {p \in Up \X Up : p[1] # p[2] /\ m_iface[p[1]].inter /\ m_iface[p[2]].inter}
Meshed  == {i \in Up : m_iface[i].intra}

\* The rules the bridge promises, from its interfaces, their addresses and clients alone.
IdealRules ==
  {Ctx(p[1], L2[p[2]]) : p \in Bridged} \cup {Ctx(i, Intra) : i \in Meshed}
  \cup (UNION {ClientRt(p[1], m_iface[p[1]].clients, {L2[p[2]]}) : p \in Bridged})
  \cup (UNION {ClientRt(i, m_iface[i].clients, {Intra}) : i \in Meshed})
  \cup (UNION {ClientFlt(p[1], p[2], m_iface[p[2]].clients, m_iface[p[1]].assigned) : p \in Bridged})
  \cup UNION {ClientFlt(i, i, m_iface[i].clients, m_iface[i].assigned) : i \in Meshed}

\* In whatever order interfaces, addresses and clients came and went, the hardware holds
\* every rule the bridge promises, once, and no other: nothing is installed twice, nothing
\* is left of an interface or a client that went, and a rule or a context shared by
\* several peers stays until the last of them goes.  Once the channel mode settled, every
\* routing rule to a Wi-Fi station names the pipe of that mode, those added while the mode
\* was changing included.
BridgeIsIdeal ==
  /\ hw = SetToBag(IdealRules) /\ held = IdealRules
  /\ switches = 0 /\ queue = <<>> =>
       alt = IF mcc THEN {r \in RtRules(held) : r.on \in Wlans} ELSE {}

\* The peers of an interface are interfaces the controller has, and each knows the other:
\* no list holds a pointer to an interface that was erased.  The controller reaches into an
\* interface object only while the object exists, though objects delete themselves; and the
\* one whose tx_prop is freed already is the one whose IFACE_DOWN comes next: no other
\* handler reads freed memory, and that one reads it of this interface alone.
PeersAreMutual ==
  /\ \A i \in Up : \A j \in m_iface[i].peers : j \in Up /\ i \in m_iface[j].peers
  /\ Up \subseteq alive
  /\ \A i \in Up \ active : queue # <<>> /\ Head(queue) = Evt("IFACE_DOWN", i)

\* Once the events posted are handled, the controller lists for an interface that is up
\* the clients reached by it, except those it had no room for, and nobody else; and those
\* of an interface that is not up yet wait in the cache.
ClientsAgree ==
  /\ TypeOK
  /\ queue = <<>> =>
       \A i \in Ifaces, c \in Macs :
         LET known == IF i \in Up THEN c \in m_iface[i].clients ELSE c \in CachedOf(i) IN
         /\ known => at[c] = i
         /\ at[c] = i => known \/ <<i, c>> \in refused

=============================================================================
