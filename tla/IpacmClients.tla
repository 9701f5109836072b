---------------------------- MODULE IpacmClients ----------------------------
(***************************************************************************)
(* How IPACM learns of the clients behind its interfaces and routes to      *)
(* them: IPACM_Neighbor, which remembers the address of each MAC; the       *)
(* client table of the Wi-Fi AP object (IPACM_Wlan), the one of the         *)
(* Ethernet object (IPACM_Lan, eth_client) and the one of the uplink where  *)
(* that is a Wi-Fi station (IPACM_Wan, wan_client); and the headers and     *)
(* rules they keep in the hardware.  All of it runs on the event thread, one event at a time; what *)
(* goes wrong is a matter of the order of events, since what IPACM_Neighbor *)
(* derives from one goes to the tail of the queue, behind those already in. *)
(* The driver's thread sets isMCC_Mode beside it.                           *)
(*                                                                         *)
(* A client's IPv6 address takes two rules, added and removed together:     *)
(* they are one here.  The WAN's going up and down is an internal event,    *)
(* served before any in this queue: it is a step of its own.                *)
(***************************************************************************)
EXTENDS Naturals, Sequences, FiniteSets, SequencesExt

CONSTANTS
  Stations,   \* MACs that join the access point
  Hosts,      \* MACs behind Ethernet
  Peers,      \* MACs on the network the uplink is a station of
  V4, V6,     \* addresses; one of a MAC is its own
  WanPrefixes,   \* IPv6 prefixes of the WAN
  PrefixOf,   \* the prefix of each IPv6 address, none if it is link-local
  none,
  Settings    \* the circumstances considered, one of them in each behaviour

\* A setting: the MACs that appear and the addresses they use, the prefixes the WAN may get,
\* the sizes of the tables, how many events wait at most when the kernel or the
\* driver posts one, the build (on Android nobody is registered for a switch), whether the
\* Ethernet device is an ODU and how it is used, and what may happen: the access point,
\* the Ethernet interface and the uplink go down, the mode switches, the default route comes
\* and goes, the hardware refuses a header once, the bridge is used.
Setting == [macs : SUBSET (Stations \cup Hosts \cup Peers), addrs : SUBSET (V4 \cup V6),
            prefixes : SUBSET WanPrefixes,
            wifi : Nat, eth : Nat, wan : Nat, neighbors : Nat, v6 : Nat,
            queue : Nat, android : BOOLEAN, odu : {"none", "router", "bridge"}, embms : BOOLEAN,
            may : SUBSET {"apDown", "ethDown", "staDown", "switch", "route", "refuse", "bridge"}]

ASSUME MacsAssumption ==
  /\ Stations \cap Hosts = {} /\ Peers \cap (Stations \cup Hosts) = {}
  /\ none \notin V4 \cup V6 \cup WanPrefixes \cup Stations \cup Hosts \cup Peers
ASSUME PrefixAssumption == PrefixOf \in [V6 -> WanPrefixes \cup {none}]
ASSUME SettingsAssumption == \A s \in Settings : s \in Setting

VARIABLES
  setting,  \* the setting of this behaviour
  sta,      \* what the driver knows of each station
  ap,       \* the access point is up
  ext,      \* the external queue
  neigh,    \* neighbor_client: [mac, v4], oldest first; and circular_index
  path,     \* the client tables and what they keep in the hardware and in NatApp
  prefix,   \* ipv6_prefix, the same for both objects
  mcc,      \* isMCC_Mode
  bridged   \* ipa_bridge_enable

vars == <<setting, sta, ap, ext, neigh, path, prefix, mcc, bridged>>

IPA_MAX_NUM_WIFI_CLIENTS     == setting.wifi
IPA_MAX_NUM_ETH_CLIENTS      == setting.eth
IPA_MAX_NUM_NEIGHBOR_CLIENTS == setting.neighbors
IPA_MAX_NUM_WAN_CLIENTS      == setting.wan
IPV6_NUM_ADDR                == setting.v6

Families == {"v4", "v6"}
Handles  == 1 .. Cardinality(setting.macs) * (1 + IPV6_NUM_ADDR) + 1

\* A slot of a table: its client's IPv4 address and the handle of its rule, 0 if not set; the
\* IPv6 addresses, of which the first n6 have rules, and the handles of these; power_save_set.
\* r6 beyond n6 keeps what was written there before.
EmptySlot == [mac |-> none, v4 |-> none, r4 |-> 0, v6 |-> <<>>, n6 |-> 0,
              r6 |-> [k \in 1..IPV6_NUM_ADDR |-> 0], ps |-> FALSE]

\* The table a MAC belongs to.
Tables     == {"wlan", "eth", "wan"}
TableOf(m) == CASE m \in Stations -> "wlan" [] m \in Hosts -> "eth" [] m \in Peers -> "wan"
SizeOf(t)  == CASE t = "wlan" -> IPA_MAX_NUM_WIFI_CLIENTS [] t = "eth" -> IPA_MAX_NUM_ETH_CLIENTS
                [] t = "wan"  -> IPA_MAX_NUM_WAN_CLIENTS

\* wlan, eth, wan: the tables, with num clients in their first slots.  hw, hdrs: the rules and
\* the headers installed.  nat: nat_iface_ipv4_addr and sta_clnt_ipv4_addr of the connection
\* listener.  saved: PwrSaveIfs of NatApp.  gate: the pipe of the default route through the
\* station.  odu: the host the ODU's headers lead to, and its default routes.
\* refused: the header that was refused.  deaf: a switch was not passed on to the peers.
\* lost: an IPv6 address was deleted that its host did not have.  Nothing is followed beyond that.
Init ==
  /\ setting \in Settings
  /\ sta = [s \in Stations |-> "gone"] /\ ap = TRUE
  /\ ext = <<>>
  /\ neigh = [seq |-> <<>>, circular_index |-> 1]
  /\ path = [wlan |-> [i \in 1..SizeOf("wlan") |-> EmptySlot],
             eth  |-> [i \in 1..SizeOf("eth") |-> EmptySlot],
             wan  |-> [i \in 1..SizeOf("wan") |-> EmptySlot],
             num  |-> [t \in Tables |-> 0],
             hw |-> [h \in Handles |-> none], hdrs |-> [k \in setting.macs \X Families |-> 0],
             nat |-> {}, saved |-> {}, gate |-> "none", odu |-> [hdr |-> none, routes |-> 0],
             refused |-> <<>>, deaf |-> FALSE, lost |-> FALSE]
  /\ prefix = none /\ mcc = FALSE
  /\ bridged \in {FALSE, "bridge" \in setting.may}

\* The first entry of a MAC in a table, 0 if it has none.
IndexOf(seq, m) == IF \E i \in DOMAIN seq : seq[i].mac = m
                   THEN CHOOSE i \in DOMAIN seq : seq[i].mac = m /\ \A j \in 1..i-1 : seq[j].mac # m
                   ELSE 0

-----------------------------------------------------------------------------
(* IPACM_Neighbor: each handler returns the cache and the events it posts *)

Event(ev, m, ip) == [ev |-> ev, mac |-> m, ip |-> ip]
Derived(new)     == IF new THEN "ADDR_ADD" ELSE "ADDR_DEL"

\* What the cache holds of m.
CachedV4(n, m) == IF IndexOf(n.seq, m) = 0 THEN none ELSE n.seq[IndexOf(n.seq, m)].v4

\* An entry for a MAC that has none.  In a full cache it takes the place of another and the
\* address is not kept; circular_index is never wound back, and past the end the entry is written
\* outside the array, which is not followed.
Inserted(n, m, ip) ==
  IF Len(n.seq) < IPA_MAX_NUM_NEIGHBOR_CLIENTS
  THEN [n EXCEPT !.seq = Append(@, [mac |-> m, v4 |-> ip])]
  ELSE IF n.circular_index > IPA_MAX_NUM_NEIGHBOR_CLIENTS THEN n
  ELSE [seq |-> [n.seq EXCEPT ![n.circular_index] = [mac |-> m, v4 |-> none]],
        circular_index |-> n.circular_index + 1]

Updated(n, m, ip) == [n EXCEPT !.seq[IndexOf(n.seq, m)].v4 = ip]
Removed(n, m)     == [n EXCEPT !.seq = RemoveAt(@, IndexOf(n.seq, m))]
Knows(n, m)       == IndexOf(n.seq, m) # 0

\* A neighbour's IPv4 address came or went, on an interface that is not the bridge.
\* Whichever address went, the entry goes.
OnAddress(n, m, ip, new) ==
  [cache |-> IF new THEN IF Knows(n, m) THEN Updated(n, m, ip) ELSE Inserted(n, m, ip)
             ELSE IF Knows(n, m) THEN Removed(n, m) ELSE n,
   posts |-> <<Event(Derived(new), m, ip)>>]

\* The same on the bridge: only for a MAC that was seen on an interface below it.
OnBridgeAddress(n, m, ip, new) ==
  IF ~Knows(n, m) THEN [cache |-> n, posts |-> <<>>]
  ELSE [cache |-> IF new THEN Updated(n, m, ip) ELSE Removed(n, m),
        posts |-> <<Event(Derived(new), m, ip)>>]

\* An IPv6 address is passed on; on the bridge only for a MAC that was seen below it.
OnV6(n, m, ip, new) ==
  [cache |-> n,
   posts |-> IF bridged /\ ~Knows(n, m) THEN <<>> ELSE <<Event(Derived(new), m, ip)>>]

\* The bridge learned that a MAC is on an interface, or forgot it: its event has no address.
OnLearned(n, m, new) ==
  IF ~Knows(n, m)
  THEN [cache |-> IF new THEN Inserted(n, m, none) ELSE n, posts |-> <<>>]
  ELSE [cache |-> IF new THEN n ELSE Removed(n, m),
        posts |-> IF CachedV4(n, m) = none THEN <<>>
                  ELSE <<Event(Derived(new), m, CachedV4(n, m))>>]

\* A station joins: the address it is known by is announced again.
OnClient(n, m) ==
  IF CachedV4(n, m) = none THEN <<>> ELSE <<Event("ADDR_ADD", m, CachedV4(n, m))>>

-----------------------------------------------------------------------------
(* Rules of a client: t is the table, i the client's place in it *)

FreeHandle(p) == CHOOSE h \in Handles : p.hw[h] = none /\ \A g \in 1..h-1 : p.hw[g] # none

\* alt: the rule leads to the pipe of the multi-channel mode.  excp: the rule beside it in the
\* WAN table, of a peer's IPv6 address, leads to the exception path.
Rule(m, ip) == [mac |-> m, ip |-> ip, alt |-> m \notin Hosts /\ mcc, excp |-> m \in Peers /\ ip \in V6]

\* get_client_index: a table is searched up to its count.
SlotOf(p, m) == IndexOf(SubSeq(p[TableOf(m)], 1, p.num[TableOf(m)]), m)

\* DeleteRoutingHdl; the handle of a rule that is gone, or 0, deletes nothing.
Without(hw, handles) == [h \in DOMAIN hw |-> IF h \in handles THEN none ELSE hw[h]]

\* delete_default_qos_rtrules, delete_eth_rtrules
Unroute4(p, t, i) == [p EXCEPT !.hw = Without(@, {p[t][i].r4}), ![t][i].r4 = 0]
Unroute6(p, t, i) ==
  [p EXCEPT !.hw = Without(@, {p[t][i].r6[k] : k \in 1..p[t][i].n6}), ![t][i].n6 = 0]

Route4(p, t, i) ==
  IF p[t][i].v4 = none \/ p[t][i].r4 # 0 THEN p
  ELSE LET h == FreeHandle(p) IN
       [p EXCEPT !.hw[h] = Rule(p[t][i].mac, p[t][i].v4), ![t][i].r4 = h]

\* The rules of the IPv6 addresses that have none yet.
Route6(p, t, i) ==
  LET Install(q, ip) ==
        LET h == FreeHandle(q) n == q[t][i].n6 + 1 IN
        [q EXCEPT !.hw[h] = Rule(q[t][i].mac, ip), ![t][i].n6 = n, ![t][i].r6[n] = h]
  IN  FoldLeft(Install, p, SubSeq(p[t][i].v6, p[t][i].n6 + 1, Len(p[t][i].v6)))

\* handle_wlan_client_route_rule, handle_eth_client_route_rule, handle_wan_client_route_rule:
\* none while the slot is in power save.
route_rule(p, t, i, four) ==
  IF p[t][i].ps THEN p ELSE IF four THEN Route4(p, t, i) ELSE Route6(p, t, i)

-----------------------------------------------------------------------------
(* The connection listener and NatApp, as far as the clients reach them *)

\* HandleNeighIpAddrAddEvt: the address is listed and no longer saved.  The address of a peer
\* is listed by HandleSTAClientAddEvt, and struck off by HandleSTAClientDelEvt.
NatAdds(p, m, ip) == [p EXCEPT !.nat = @ \cup {<<m, ip>>}, !.saved = @ \ {<<m, ip>>}]

\* HandleNeighIpAddrDelEvt, DelEntriesOnClntDiscon
NatDrops(p, m, ip) ==
  IF <<m, ip>> \in p.nat THEN [p EXCEPT !.nat = @ \ {<<m, ip>>}, !.saved = @ \ {<<m, ip>>}] ELSE p

-----------------------------------------------------------------------------
(* A client's address: handle_wlan_client_ipaddr, handle_eth_client_ipaddr *)

\* Mutant: the rule for the old address is forgotten and stays.
Readdressed_leaks(p, t, i, ip) ==
  LET c == p[t][i] IN
  IF c.v4 = none THEN [p EXCEPT ![t][i].v4 = ip]
  ELSE [NatDrops(p, c.mac, c.v4) EXCEPT ![t][i].v4 = ip, ![t][i].r4 = 0]

\* Another IPv4 address: the one before loses its connections and its rule.
Readdressed(p, t, i, ip) ==
  LET c == p[t][i] IN
  IF c.v4 = none THEN [p EXCEPT ![t][i].v4 = ip]
  ELSE [Unroute4(NatDrops(p, c.mac, c.v4), t, i) EXCEPT ![t][i].v4 = ip]

\* An IPv6 address is taken if it is link-local or the WAN's, new, and there is room.
TakesV6(p, t, i, ip) ==
  /\ PrefixOf[ip] \in {none, prefix}
  /\ Len(p[t][i].v6) < IPV6_NUM_ADDR /\ ip \notin Range(p[t][i].v6)

\* IPA_NEIGH_CLIENT_IP_ADDR_ADD_EVENT at the object of table t, where m is client i.
Addressed(p, t, i, m, ip) ==
  IF ip \in V4
  THEN IF p[t][i].v4 = ip THEN p
       ELSE NatAdds(route_rule(Readdressed(p, t, i, ip), t, i, TRUE), m, ip)
  ELSE IF TakesV6(p, t, i, ip)
       THEN route_rule([p EXCEPT ![t][i].v6 = Append(@, ip)], t, i, FALSE) ELSE p

\* handle_wan_client_ipaddr: a peer's address is listed before it has its rule, and an IPv6
\* address is taken whatever its prefix.
handle_wan_client_ipaddr(p, i, m, ip) ==
  IF ip \in V4
  THEN IF p.wan[i].v4 = ip THEN p ELSE NatAdds(Readdressed(p, "wan", i, ip), m, ip)
  ELSE IF Len(p.wan[i].v6) < IPV6_NUM_ADDR /\ ip \notin Range(p.wan[i].v6)
       THEN [p EXCEPT !.wan[i].v6 = Append(@, ip)] ELSE p

handle_wan_client_route_rule(p, i, ip) == route_rule(p, "wan", i, ip \in V4)

-----------------------------------------------------------------------------
(* The tables *)

\* A header of m in the hardware, and both taken out.
HeaderFor(p, m, f) == [p EXCEPT !.hdrs[<<m, f>>] = @ + 1]
Unheaded(p, m)     == [p EXCEPT !.hdrs[<<m, "v4">>] = @ - 1, !.hdrs[<<m, "v6">>] = @ - 1]

\* A client in the next slot; what was left in it of another is reset, but for old handles.
Listed(p, t, m) ==
  LET n == p.num[t] + 1 IN
  [p EXCEPT ![t][n] = [EmptySlot EXCEPT !.mac = m, !.r6 = p[t][n].r6], !.num[t] = n]

\* The client gets its headers, first IPv4's, and is listed.  If one is refused it is not, and
\* a header it has by then stays.
Headed(p, t, m, refused) ==
  CASE refused = "no" -> Listed(HeaderFor(HeaderFor(p, m, "v4"), m, "v6"), t, m)
    [] refused = "v4" -> [p EXCEPT !.refused = <<m, "v4">>]
    [] refused = "v6" -> [HeaderFor(p, m, "v4") EXCEPT !.refused = <<m, "v6">>]

\* A station is listed unless the table is full, the others also unless they are already.
handle_wlan_client_init_ex(p, m, refused) ==
  IF p.num["wlan"] < SizeOf("wlan") THEN Headed(p, "wlan", m, refused) ELSE p

handle_eth_hdr_init(p, m, refused) ==
  IF SlotOf(p, m) = 0 /\ p.num["eth"] < SizeOf("eth") THEN Headed(p, "eth", m, refused) ELSE p

handle_wan_hdr_init(p, m, refused) ==
  IF SlotOf(p, m) = 0 /\ p.num["wan"] < SizeOf("wan") THEN Headed(p, "wan", m, refused) ELSE p

\* Slot i takes over what the code copies of the slot after it: all but the power-save flag and
\* the handles beyond n6.
Shifted(slot, next) ==
  [next EXCEPT !.ps = slot.ps,
               !.r6 = [k \in DOMAIN slot.r6 |-> IF k <= next.n6 THEN next.r6[k] ELSE slot.r6[k]]]

\* Mutant: the clients after it do not move up.
Vacated_unshifted(p, t, i) == [p EXCEPT ![t][i].mac = none, !.num[t] = @ - 1]

\* Client i leaves the table and those after it move up.
Vacated(p, t, i) ==
  LET n == p.num[t] tab == p[t] IN
  [p EXCEPT ![t] = [j \in DOMAIN tab |->
                      IF j \in i .. n - 1 THEN Shifted(tab[j], tab[j + 1])
                      ELSE IF j = n THEN [EmptySlot EXCEPT !.r6 = tab[n].r6, !.ps = tab[n].ps]
                      ELSE tab[j]],
            !.num[t] = n - 1]

\* Mutant: the connection listener is not told.
Stripped_quietly(p, t, i) == Unheaded(Unroute6(Unroute4(p, t, i), t, i), p[t][i].mac)

\* A client loses its connections, its rules and its headers.
Stripped(p, t, i) ==
  LET c == p[t][i] IN
  Unheaded(Unroute6(Unroute4(IF c.v4 = none THEN p ELSE NatDrops(p, c.mac, c.v4), t, i), t, i), c.mac)

\* handle_wlan_client_down_evt, handle_eth_client_down_evt
Left(p, m) ==
  LET t == TableOf(m) i == SlotOf(p, m) IN
  IF i = 0 THEN p ELSE Vacated(Stripped(p, t, i), t, i)

\* Do(p, i) for each client of a table in turn.
EachClient(p, t, Do(_, _)) == FoldLeft(Do, p, [i \in 1..p.num[t] |-> i])

\* handle_down_evt: the table goes with its object.
handle_down_evt(p, t) ==
  [EachClient(p, t, LAMBDA q, i : Stripped(q, t, i))
     EXCEPT ![t] = [i \in DOMAIN @ |-> EmptySlot], !.num[t] = 0]

\* The clients of a table lose their IPv6 addresses and rules.
Reset6(p, t) == EachClient(p, t, LAMBDA q, i : [Unroute6(q, t, i) EXCEPT ![t][i].v6 = <<>>])
handle_wlan_client_reset_rt(p) == Reset6(p, "wlan")
handle_lan_client_reset_rt(p)  == Reset6(p, "eth")

\* handle_wlan_client_pwrsave
Sleeps(p, m) ==
  LET i == SlotOf(p, m) c == p.wlan[i] IN
  IF i = 0 \/ c.ps THEN p
  ELSE [Unroute6(Unroute4(p, "wlan", i), "wlan", i)
          EXCEPT !.wlan[i].ps = TRUE,
                 !.saved = IF c.v4 = none THEN @ ELSE @ \cup {<<m, c.v4>>}]

\* IPA_WLAN_CLIENT_RECOVER_EVENT
Recovers(p, m) ==
  LET i == SlotOf(p, m)
      q == [p EXCEPT !.wlan[i].ps = FALSE, !.saved = @ \ {<<m, p.wlan[i].v4>>}]
  IN  IF i = 0 \/ ~p.wlan[i].ps THEN p ELSE Route6(Route4(q, "wlan", i), "wlan", i)

\* handle_SCC_MCC_switch: the rules of the IPv4 addresses move to the pipe of the mode.  Its
\* loop over IPv6 addresses starts behind the last that has a rule, so none of these moves.
Switched(p) ==
  LET moved == {i \in 1..p.num["wlan"] : ~p.wlan[i].ps /\ p.wlan[i].r4 # 0} IN
  [p EXCEPT !.hw = [h \in Handles |->
     IF \E i \in moved : p.wlan[i].r4 = h THEN [p.hw[h] EXCEPT !.alt = mcc] ELSE p.hw[h]]]

\* handle_wlan_SCC_MCC_switch of the uplink: the default route leads to the pipe of the event's
\* mode.  handle_wan_client_SCC_MCC_switch: the peers' IPv4 rules lead to that of the present
\* mode, and of the rules of an IPv6 address it is the one to the exception path that is moved.
\* Neither does anything where there is no default route.
PipeOf(multi) == IF multi THEN "alt" ELSE "main"
GateSwitched(p, multi) == IF p.gate = "none" THEN p ELSE [p EXCEPT !.gate = PipeOf(multi)]
PeersSwitched(p) ==
  IF p.gate = "none" THEN [p EXCEPT !.deaf = @ \/ p.num["wan"] > 0]
  ELSE [p EXCEPT !.hw = [h \in Handles |->
          IF @[h] = none \/ @[h].mac \notin Peers THEN @[h]
          ELSE IF @[h].ip \in V4 THEN [@[h] EXCEPT !.alt = mcc] ELSE [@[h] EXCEPT !.excp = FALSE]]]

\* handle_route_add_evt and handle_route_del_evt of the station, for IPv4.
GateUp(p)   == IF p.gate = "none" THEN [p EXCEPT !.gate = PipeOf(mcc)] ELSE p
GateDown(p) == [p EXCEPT !.gate = "none"]

\* The ODU: the first host's headers serve all, and with eMBMS a default route per family.
handle_odu_hdr_init(p, m) == [p EXCEPT !.odu.hdr = m]
handle_odu_route_add(p)   == [p EXCEPT !.odu.routes = @ + 1]
handle_odu_route_del(p)   == [p EXCEPT !.odu.routes = IF @ = 0 THEN 0 ELSE @ - 1]
OduAddressed(p, m) ==
  IF setting.odu = "none" \/ p.odu.hdr # none THEN p
  ELSE IF setting.embms THEN handle_odu_route_add(handle_odu_hdr_init(p, m)) ELSE handle_odu_hdr_init(p, m)
OduDown(p) ==
  [(IF setting.embms THEN handle_odu_route_del(p) ELSE p) EXCEPT !.odu.hdr = none]

\* handle_del_ipv6_addr.  An address the client does not have is noticed only when the client
\* has as many as it may; otherwise the last address is dropped for it, and the handle deleted is
\* whatever was left behind those in use.
DelV6(p, i, ip) ==
  LET c == p.eth[i]
      k == IF ip \in Range(c.v6) THEN CHOOSE k \in DOMAIN c.v6 : c.v6[k] = ip ELSE Len(c.v6) + 1
      n == c.n6 - 1
  IN  IF k > IPV6_NUM_ADDR \/ c.n6 = 0 THEN p
      ELSE [p EXCEPT !.hw = Without(@, {c.r6[k]}),
                     !.eth[i].n6 = n,
                     !.eth[i].v6 = IF k > n THEN Front(@) ELSE RemoveAt(@, k),
                     !.eth[i].r6 = [j \in DOMAIN @ |-> IF j \in k..n THEN c.r6[j + 1] ELSE c.r6[j]],
                     !.lost = @ \/ ip \notin Range(c.v6)]

-----------------------------------------------------------------------------
(* The event thread: the path after the event at the head of the queue *)

\* IPA_NEIGH_CLIENT_IP_ADDR_ADD_EVENT: the AP's object lists no client it does not know ...
OnStationAddr(p, m, ip) ==
  IF SlotOf(p, m) = 0 THEN p ELSE Addressed(p, "wlan", SlotOf(p, m), m, ip)

\* ... the others do.  Behind an ODU in bridge mode that is all.
OnHostAddr(p, m, ip, refused) ==
  LET q == handle_eth_hdr_init(OduAddressed(p, m), m, refused)
  IN  IF setting.odu = "bridge" THEN OduAddressed(p, m)
      ELSE IF SlotOf(q, m) = 0 THEN q ELSE Addressed(q, "eth", SlotOf(q, m), m, ip)

OnPeerAddr(p, m, ip, refused) ==
  LET q == handle_wan_hdr_init(p, m, refused)
      i == SlotOf(q, m)
  IN  IF i = 0 THEN q ELSE handle_wan_client_route_rule(handle_wan_client_ipaddr(q, i, m, ip), i, ip)

OnAddrAdd(p, m, ip, refused) ==
  CASE m \in Stations -> OnStationAddr(p, m, ip)
    [] m \in Hosts    -> OnHostAddr(p, m, ip, refused)
    [] m \in Peers    -> OnPeerAddr(p, m, ip, refused)

\* IPA_NEIGH_CLIENT_IP_ADDR_DEL_EVENT.  Wi-Fi waits for the station to leave, or the uplink.
OnAddrDel(p, m, ip) ==
  IF m \notin Hosts \/ setting.odu = "bridge" THEN p
  ELSE IF ip \in V4 THEN Left(p, m)
  ELSE IF SlotOf(p, m) = 0 THEN p ELSE DelV6(p, SlotOf(p, m), ip)

\* What IPACM_Neighbor does of an event.
Neighbor(n, e) ==
  CASE e.ev \in {"NEW", "DEL"} /\ e.ip \in V4 ->
         IF bridged THEN OnBridgeAddress(n, e.mac, e.ip, e.ev = "NEW")
                    ELSE OnAddress(n, e.mac, e.ip, e.ev = "NEW")
    [] e.ev \in {"NEW", "DEL"} /\ e.ip \in V6 -> OnV6(n, e.mac, e.ip, e.ev = "NEW")
    [] e.ev \in {"LEARN", "FORGET"} -> OnLearned(n, e.mac, e.ev = "LEARN")
    [] e.ev = "CLIENT_ADD" -> [cache |-> n, posts |-> OnClient(n, e.mac)]
    [] OTHER -> [cache |-> n, posts |-> <<>>]

\* What the interface objects do of it.
Objects(p, e, refused) ==
  CASE e.ev = "CLIENT_ADD" -> handle_wlan_client_init_ex(p, e.mac, refused)
    [] e.ev = "CLIENT_DEL" -> Left(p, e.mac)
    [] e.ev = "SLEEP"      -> Sleeps(p, e.mac)
    [] e.ev = "RECOVER"    -> Recovers(p, e.mac)
    [] e.ev = "ADDR_ADD"   -> OnAddrAdd(p, e.mac, e.ip, refused)
    [] e.ev = "ADDR_DEL"   -> OnAddrDel(p, e.mac, e.ip)
    [] e.ev = "AP_DOWN"    -> handle_down_evt(p, "wlan")
    [] e.ev = "ETH_DOWN"   -> handle_down_evt(OduDown(p), "eth")
    [] e.ev = "STA_DOWN"   -> [handle_down_evt(GateDown(p), "wan") EXCEPT !.deaf = FALSE]
    [] e.ev = "ROUTE_ADD"  -> GateUp(p)
    [] e.ev = "ROUTE_DEL"  -> GateDown(p)
    [] e.ev \in {"TO_SCC", "TO_MCC"} ->
         IF setting.android THEN p ELSE PeersSwitched(GateSwitched(Switched(p), e.ev = "TO_MCC"))
    [] OTHER -> p

\* IPACM_EvtDispatcher::ProcessEvt: IPACM_Neighbor and the objects in turn.
Dispatch ==
  /\ ext # <<>> /\ ~path.lost
  /\ LET r == Neighbor(neigh, Head(ext)) IN
       /\ neigh' = r.cache
       /\ ext' = Tail(ext) \o r.posts
  /\ \E refused \in IF "refuse" \in setting.may /\ path.refused = <<>> THEN {"no", "v4", "v6"} ELSE {"no"} :
       path' = Objects(path, Head(ext), refused)
  /\ UNCHANGED <<sta, ap, prefix, mcc, bridged>>

\* The upstream interface's IPv6 comes and goes: IPA_HANDLE_WAN_UP_V6 and _DOWN_V6.
WanUpV6 ==
  /\ prefix = none
  /\ prefix' \in setting.prefixes
  /\ UNCHANGED <<sta, ap, ext, neigh, path, mcc, bridged>>

WanDownV6 ==
  /\ prefix # none
  /\ prefix' = none
  /\ path' = handle_lan_client_reset_rt(handle_wlan_client_reset_rt(path))
  /\ UNCHANGED <<sta, ap, ext, neigh, mcc, bridged>>

-----------------------------------------------------------------------------
(* The driver and the kernel post events *)

Posts(e) == Len(ext) < setting.queue /\ ext' = Append(ext, e)

\* A station joins, leaves, begins to sleep, wakes.
Station(s) ==
  /\ \/ sta[s] = "gone" /\ ap /\ sta' = [sta EXCEPT ![s] = "awake"] /\ Posts(Event("CLIENT_ADD", s, none))
     \/ sta[s] # "gone" /\ sta' = [sta EXCEPT ![s] = "gone"] /\ Posts(Event("CLIENT_DEL", s, none))
     \/ sta[s] = "awake" /\ sta' = [sta EXCEPT ![s] = "asleep"] /\ Posts(Event("SLEEP", s, none))
     \/ sta[s] = "asleep" /\ sta' = [sta EXCEPT ![s] = "awake"] /\ Posts(Event("RECOVER", s, none))
  /\ UNCHANGED <<ap, neigh, path, prefix, mcc, bridged>>

\* The kernel's neighbour table changes.
Neighbour(m) ==
  /\ \/ \E ip \in setting.addrs : \E ev \in {"NEW", "DEL"} : Posts(Event(ev, m, ip))
     \/ bridged /\ \E ev \in {"LEARN", "FORGET"} : Posts(Event(ev, m, none))
  /\ UNCHANGED <<sta, ap, neigh, path, prefix, mcc, bridged>>

\* The access point goes down, and its stations with it, or comes up.
AccessPoint ==
  /\ "apDown" \in setting.may
  /\ ap' = ~ap
  /\ sta' = [s \in Stations |-> "gone"]
  /\ IF ap THEN Posts(Event("AP_DOWN", none, none)) ELSE UNCHANGED ext
  /\ UNCHANGED <<neigh, path, prefix, mcc, bridged>>

\* The Ethernet interface goes down; the next object has an empty table.
Ethernet ==
  /\ "ethDown" \in setting.may
  /\ Posts(Event("ETH_DOWN", none, none))
  /\ UNCHANGED <<sta, ap, neigh, path, prefix, mcc, bridged>>

\* The driver's thread sets the mode, then posts the event.
ModeSwitch ==
  /\ "switch" \in setting.may
  /\ mcc' = ~mcc
  /\ Posts(Event(IF mcc THEN "TO_SCC" ELSE "TO_MCC", none, none))
  /\ UNCHANGED <<sta, ap, neigh, path, prefix, bridged>>

\* The default route through the station comes or goes, or the station's link goes down.
Uplink ==
  /\ \/ "route" \in setting.may /\ \E ev \in {"ROUTE_ADD", "ROUTE_DEL"} : Posts(Event(ev, none, none))
     \/ "staDown" \in setting.may /\ Posts(Event("STA_DOWN", none, none))
  /\ UNCHANGED <<sta, ap, neigh, path, prefix, mcc, bridged>>

Step ==
  \/ Dispatch \/ WanUpV6 \/ WanDownV6
  \/ \E s \in Stations \cap setting.macs : Station(s)
  \/ \E m \in setting.macs : Neighbour(m)
  \/ AccessPoint \/ Ethernet \/ ModeSwitch \/ Uplink

Next == Step /\ UNCHANGED setting

Spec == Init /\ [][Next]_vars

-----------------------------------------------------------------------------
(* What should hold *)

Clients(t) == {path[t][i] : i \in 1..path.num[t]}
Quiet == ext = <<>> /\ ~path.lost

\* The rules a client's slot knows of.
RulesOf(c) ==
  {[h |-> c.r4, m |-> c.mac, ip |-> c.v4] : x \in {0} \ {c.r4}}
    \cup {[h |-> c.r6[k], m |-> c.mac, ip |-> c.v6[k]] : k \in 1..c.n6}

\* Every header in the hardware is a listed client's, but for one of a client whose other one
\* was refused; the ODU has its headers and routes once it has a host, and never twice.
HeadersAgree ==
  /\ \A m \in setting.macs, f \in Families :
       path.hdrs[<<m, f>>] = Cardinality({i \in 1 .. path.num[TableOf(m)] : path[TableOf(m)][i].mac = m})
                               + IF path.refused = <<m, "v6">> /\ f = "v4" THEN 1 ELSE 0
  /\ setting.odu # "none" /\ Clients("eth") # {} => path.odu.hdr # none
  /\ path.odu.routes = IF path.odu.hdr # none /\ setting.embms THEN 1 ELSE 0

\* The hardware holds the rules the tables know of and no other, each for an address its client
\* has, and the headers of the clients: what no table knows of would never be deleted.  (Until a
\* host's IPv6 address is deleted that the table does not have.)
RoutesAgree ==
  ~path.lost =>
    /\ {[h |-> h, m |-> path.hw[h].mac, ip |-> path.hw[h].ip] : h \in {g \in Handles : path.hw[g] # none}}
         = UNION {RulesOf(c) : c \in UNION {Clients(t) : t \in Tables}}
    /\ HeadersAgree

\* The connection listener offloads for exactly the addresses in the tables, and NatApp holds
\* rules back for none but these.
NatFollows ==
  /\ path.nat = UNION {{<<c.mac, c.v4>> : c \in {d \in Clients(t) : d.v4 # none}} : t \in Tables}
  /\ path.saved \subseteq path.nat

\* No station is routed to under a prefix that the WAN no longer has.  And once all events are
\* served, the IPv4 rules of the stations lead to the pipe of the mode, however far the mode was
\* ahead of the events about it.  (With one station: a slot may inherit another station's
\* power-save flag, and then its rules are passed over.  Not on Android, where nobody hears of
\* the switch.)  So do the default route through the uplink and, unless a switch came while there
\* was none, the rules of the peers.
RoutesAreCurrent ==
  /\ \A h \in Handles : path.hw[h] # none /\ path.hw[h].mac \in Stations /\ path.hw[h].ip \in V6
                           => PrefixOf[path.hw[h].ip] \in {none, prefix}
  /\ Quiet =>
       /\ \A c \in Clients("wlan") \cup {d \in Clients("wan") : ~path.deaf} :
            c.r4 # 0 => path.hw[c.r4].alt = mcc
       /\ path.gate \in {"none", PipeOf(mcc)}

\* Once all events are served, the table holds each station that is there, if it has room, and
\* none that is gone; and a station in the table has the address the cache holds for it,
\* whichever of the two came first.  The cache has no MAC twice: the search finds only the first.
\* And the rules of the stations are current.
TableFollows ==
  /\ RoutesAreCurrent
  /\ Quiet =>
       /\ \A c \in Clients("wlan") : CachedV4(neigh, c.mac) \in {none, c.v4}
       /\ \A s \in Stations :
            IF sta[s] = "gone" THEN SlotOf(path, s) = 0
            ELSE SlotOf(path, s) # 0 \/ (path.refused # <<>> /\ path.refused[1] = s)
                   \/ Cardinality(Stations \cap setting.macs) > IPA_MAX_NUM_WIFI_CLIENTS
  /\ \A i, j \in DOMAIN neigh.seq : neigh.seq[i].mac = neigh.seq[j].mac => i = j
=============================================================================
