---------------------------- MODULE IpacmUpstream ----------------------------
(***************************************************************************)
(* Which interface is the upstream, and what IPACM does about it: the       *)
(* interface objects of the WAN (IPACM_Wan, a modem's or a Wi-Fi station's), *)
(* those of the LAN (IPACM_Lan, IPACM_Wlan), which send what goes upstream   *)
(* through a filter rule of their own, the modem's firewall, and the NAT     *)
(* table of the connection listener.                                        *)
(*                                                                         *)
(* All of it runs on the event thread.  An event of the kernel or of netd is *)
(* handled by every WAN object in the order they were registered; what they  *)
(* post is internal and served before the next event from outside.          *)
(* There are two builds: on Android, netd names the interface tethered with  *)
(* each upstream; elsewhere the kernel's default routes do, for all of them. *)
(***************************************************************************)
EXTENDS Naturals, Sequences, FiniteSets, SequencesExt

CONSTANTS
  Modems,     \* WAN interfaces of the modem (Q6_WAN)
  Stations,   \* WAN interfaces that are Wi-Fi stations (WLAN_WAN)
  Downs,      \* the interfaces tethered
  all, nobody,
  Firewall,   \* versions of the firewall's file
  Worlds,     \* what is looked at: [android: the build, wans, downs: the interfaces there]
  Allowed     \* orders of events let in that the code does not stand; see Fit

Wans     == Modems \cup Stations
Fam      == {"v4", "v6"}
Orders   == {"early", "split", "move", "lopsided", "readdress", "header"}

ASSUME NamesAssumption == Modems \cap Stations = {} /\ {all, nobody} \cap (Wans \cup Downs) = {}
ASSUME FirewallAssumption == "none" \notin Firewall
ASSUME AllowedAssumption == Allowed \subseteq Orders
ASSUME WorldsAssumption ==
  \A w \in Worlds : w.android \in BOOLEAN /\ w.wans \subseteq Wans /\ w.downs \subseteq Downs

MAX_DEFAULT_v6_ROUTE_RULES == 2

VARIABLES
  world,    \* one of Worlds; never changes
  routes,   \* upstreams as netd or the kernel has them: "off", "on", or "stale", its object gone since
  conf,     \* the firewall's file
  x         \* IPACM and the hardware

uplinkVars == <<world, routes, conf, x>>

\* The filter rules a downstream has: to the modem or to the station for each family, and the
\* one that keeps the WAN's own prefix local.
Rules  == {"q6", "sta"} \X Fam \cup {<<"prefix", "v6">>}

\* ip: the families it has an address of (ip_type); n6: num_dft_rt_v6; default:
\* is_default_gateway; gw, known: the families whose gateway's address, and the neighbour that
\* has it, are known; hdr: header_set_v4 and _v6, set together; partial:
\* header_partial_default_wan; addr: wan_v4_addr; firewall: a station's own rules.
NewWan  == [live |-> TRUE, ip |-> {}, n6 |-> 0, active |-> {}, default |-> FALSE, gw |-> {},
            known |-> {}, hdr |-> FALSE, partial |-> {}, addr |-> 0,
            firewall |-> [f \in Fam |-> "none"]]
NoWan   == [NewWan EXCEPT !.live = FALSE]
NewDown == [live |-> TRUE, ip |-> {}, n6 |-> 0, own |-> {}]
NoDown  == [NewDown EXCEPT !.live = FALSE]

\* order: the WAN objects as registered; up: wan_up, wan_up_v6; list: ipa_if_num_tether; sta:
\* backhaul_is_sta_mode; pdn: num_ipv4_modem_pdn, _ipv6_; dl: flt_rule_v4, _v6, and modem: what
\* was last installed of it; hw: the rules in the hardware; nat: WanUp and the table's address.
UplinkInit ==
  /\ world \in Worlds
  /\ routes = [r \in world.wans \X Fam \X (IF world.android THEN world.downs ELSE {all}) |-> "off"]
  /\ conf \in Firewall
  /\ x = [wan   |-> [w \in world.wans |-> NoWan], order |-> <<>>, up |-> {},
          list  |-> [f \in Fam |-> <<>>], sta |-> FALSE, pdn |-> [f \in Fam |-> 0],
          dl    |-> [f \in Fam |-> "none"], modem |-> [f \in Fam |-> "none"],
          down  |-> [d \in world.downs |-> NoDown],
          hw    |-> [d \in world.downs |-> [r \in Rules |-> 0]],
          nat   |-> [up |-> FALSE, table |-> nobody], int |-> <<>>]

Families(S) == SelectSeq(<<"v4", "v6">>, LAMBDA f : f \in S)
ForEach(seq, y, Op(_, _)) == FoldLeft(Op, y, seq)
Post(y, e) == [y EXCEPT !.int = Append(@, e)]
Install(y) == [y EXCEPT !.modem = y.dl]

----------------------------------------------------------------------------
(* The WAN object.  Each operator takes IPACM as it finds it, y, and the    *)
(* object w, and gives IPACM as it leaves it.                               *)

WanEvent(y, w, name, f) ==
  [event |-> name, fam |-> f, down |-> all, sta |-> w \in Stations, addr |-> <<w, y.wan[w].addr>>]
TetherEvent(w, name, f, d) ==
  [event |-> name, fam |-> f, down |-> d, sta |-> w \in Stations, addr |-> nobody]

\* A station's firewall is rules of its own pipe; the modem's is sent to the modem.
config_dft_firewall_rules(y, w, f) == [y EXCEPT !.wan[w].firewall[f] = conf]
config_dft_firewall_rules_ex(y, f) == [y EXCEPT !.dl[f] = conf]
del_dft_firewall_rules(y, w, f) == [y EXCEPT !.wan[w].firewall[f] = "none"]
del_wan_firewall_rule(y, f) == [y EXCEPT !.dl[f] = "default"]
add_dft_filtering_rule(y, f) == [y EXCEPT !.dl[f] = "default"]

ConfigFirewall(y, w, f) == IF w \in Stations THEN config_dft_firewall_rules(y, w, f)
                                             ELSE Install(config_dft_firewall_rules_ex(y, f))
DelFirewall(y, w, f) == IF w \in Stations THEN del_dft_firewall_rules(y, w, f)
                                          ELSE Install(del_wan_firewall_rule(y, f))

\* A station's route waits for the header of its gateway.
handle_route_add_evt(y, w, f) ==
  LET z == [y EXCEPT !.wan[w].default = TRUE, !.sta = w \in Stations]
  IN IF w \in Stations /\ ~y.wan[w].hdr
     THEN [z EXCEPT !.wan[w].partial = @ \cup {f}]
     ELSE Post(ConfigFirewall([z EXCEPT !.up = @ \cup {f}, !.wan[w].active = @ \cup {f}], w, f),
               WanEvent(y, w, "WAN_UP", f))

handle_route_del_evt(y, w, f) ==
  LET z == [y EXCEPT !.wan[w].default = FALSE]
  IN IF f \notin y.wan[w].active THEN z
     ELSE Post([z EXCEPT !.up = @ \ {f}, !.wan[w].active = @ \ {f}], WanEvent(y, w, "WAN_DOWN", f))

DropRoute(y, w, f) == handle_route_del_evt(DelFirewall(y, w, f), w, f)

handle_sta_header_add_evt(y, w) ==
  LET o == y.wan[w]
      z == [y EXCEPT !.wan[w].hdr = o.gw \cap o.known # {}]
  IN IF o.hdr \/ "v4" \in o.gw \ o.known THEN y
     ELSE IF "v6" \in o.gw \ o.known THEN z
     ELSE ForEach(Families(o.partial), z, LAMBDA u, f : handle_route_add_evt(u, w, f))

post_wan_up_tether_evt(y, w, f, d) ==
  Post([y EXCEPT !.list[f] = Append(@, d)], TetherEvent(w, "UP_TETHER", f, d))
post_wan_down_tether_evt(y, w, f, d) ==
  IF d \notin ToSet(y.list[f]) THEN y
  ELSE Post([y EXCEPT !.list[f] = RemoveFirst(@, d)], TetherEvent(w, "DOWN_TETHER", f, d))

\* The first address of a modem's interface brings the default rules; with IPv6 it is the second.
\* Mutant: every interface brings them, not the first.
init_fl_rule_ex_each(y, f) == Install(add_dft_filtering_rule([y EXCEPT !.pdn[f] = @ + 1], f))
init_fl_rule_ex(y, f) ==
  LET z == [y EXCEPT !.pdn[f] = @ + 1]
  IN Install(IF y.pdn[f] = 0 THEN add_dft_filtering_rule(z, f) ELSE z)

HasAddr(y, w, f, k) ==
  LET o == y.wan[w]
      z == [y EXCEPT !.wan[w].ip = @ \cup {f}, !.wan[w].n6 = IF f = "v6" THEN @ + 1 ELSE @,
                     !.wan[w].addr = IF f = "v4" THEN k ELSE @]
  IN IF f = "v6" /\ o.n6 = MAX_DEFAULT_v6_ROUTE_RULES THEN y
     ELSE IF w \in Modems /\ (IF f = "v4" THEN "v4" \notin o.ip ELSE o.n6 = 1)
     THEN init_fl_rule_ex(z, f) ELSE z

\* What the object e is about does, and what another one does that finds itself replaced.
UpstreamAdd(y, w, e) ==
  LET o == y.wan[w]
  IN IF w # e.wan THEN IF e.fam \in o.active THEN DropRoute(y, w, e.fam) ELSE y
     ELSE IF e.fam \notin o.ip THEN y
     ELSE post_wan_up_tether_evt(
            IF e.fam \in o.active THEN y ELSE handle_route_add_evt(y, w, e.fam), w, e.fam, e.down)

\* Mutant: the route goes with the first downstream, not with the last.
UpstreamDel_first(y, w, e) ==
  IF w # e.wan \/ e.fam \notin y.wan[w].active THEN y
  ELSE DropRoute(post_wan_down_tether_evt(y, w, e.fam, e.down), w, e.fam)
UpstreamDel(y, w, e) ==
  IF w # e.wan \/ e.fam \notin y.wan[w].active THEN y
  ELSE LET z == post_wan_down_tether_evt(y, w, e.fam, e.down)
       IN IF z.list[e.fam] # <<>> THEN z ELSE DropRoute(z, w, e.fam)

RouteAdd(y, w, e) ==
  LET o == y.wan[w]
      z == [y EXCEPT !.wan[w].gw = @ \cup {e.fam}]
  IN IF w # e.wan THEN IF e.fam \in o.active THEN
          DropRoute(IF e.fam = "v4" THEN [y EXCEPT !.wan[w].gw = @ \ {"v4"}] ELSE y, w, e.fam) ELSE y
     ELSE IF e.fam \in o.active \/ e.fam \notin o.ip THEN y
     ELSE handle_route_add_evt(handle_sta_header_add_evt(z, w), w, e.fam)

RouteDel(y, w, e) ==
  IF w # e.wan \/ e.fam \notin y.wan[w].active THEN y
  ELSE DropRoute(IF e.fam = "v4" THEN [y EXCEPT !.wan[w].gw = @ \ {"v4"}] ELSE y, w, e.fam)

\* The firewall's file has changed to c.  A modem's object that is not the default gateway ignores it.
FirewallChanged(y, w, c) ==
  LET o == y.wan[w] IN
  IF w \in Stations
  THEN [y EXCEPT !.wan[w].firewall = [f \in Fam |-> IF f \in o.active THEN c ELSE @[f]]]
  ELSE IF o.default
  THEN Install([y EXCEPT !.dl = [f \in Fam |-> IF f \in o.ip THEN c ELSE @[f]]])
  ELSE y

\* The modem's object goes: a family's upstream, with every downstream it is listed for.
Unlisted(y, w, f) ==
  ForEach(y.list[f], y, LAMBDA u, d : post_wan_down_tether_evt(u, w, f, d))
ClearFamily(y, w, f) ==
  Unlisted(DropRoute([y EXCEPT !.up = @ \ {f}], w, f), w, f)

handle_down_evt_ex(y, w) ==
  LET o == y.wan[w]
      p == [y EXCEPT !.pdn = [f \in Fam |->
              IF f \in o.ip /\ (f = "v4" \/ o.n6 > 1) THEN @[f] - 1 ELSE @[f]]]
      z == IF o.default THEN ForEach(Families(o.ip), p, LAMBDA u, f : ClearFamily(u, w, f)) ELSE p
      last == {f \in o.ip : z.pdn[f] = 0}
      v == [z EXCEPT !.dl = [f \in Fam |-> IF f \in last THEN "none" ELSE @[f]]]
  IN IF last # {} \/ o.default THEN Install(v) ELSE v

handle_down_evt(y, w) ==
  ForEach(Families(y.wan[w].active), y, LAMBDA u, f : DropRoute(u, w, f))

WanGone(y, w) ==
  LET z == IF w \in Stations THEN handle_down_evt(y, w) ELSE handle_down_evt_ex(y, w)
  IN [z EXCEPT !.wan[w] = NoWan, !.order = RemoveFirst(@, w)]

----------------------------------------------------------------------------
(* The downstream object d.                                                 *)

\* A handle is kept per rule: one added again is added beside the first, whose handle is lost.
AddRule(y, d, r) == [y EXCEPT !.hw[d][r] = @ + 1, !.down[d].own = @ \cup {r}]
DelRule(y, d, r) ==
  IF r \notin y.down[d].own THEN y ELSE [y EXCEPT !.hw[d][r] = @ - 1, !.down[d].own = @ \ {r}]

install_ipv6_prefix_flt_rule(y, d) == AddRule(y, d, <<"prefix", "v6">>)
delete_ipv6_prefix_flt_rule(y, d)  == DelRule(y, d, <<"prefix", "v6">>)

\* Mutant: the prefix rule stays.
OnWanDown_prefix(y, d, f, sta) == DelRule(y, d, <<IF sta THEN "sta" ELSE "q6", f>>)

\* For a station, and for a modem: the latter's rule is added once, and for IPv6 only while the
\* downstream has one address.
handle_wan_up(y, d, f) == AddRule(y, d, <<"sta", f>>)
handle_uplink_filter_rule(y, d, f) == AddRule(y, d, <<"q6", f>>)
handle_wan_up_ex(y, d, f) ==
  LET o == y.down[d]
  IN IF <<"q6", f>> \in o.own \/ (f = "v6" /\ o.n6 # 1) THEN y ELSE handle_uplink_filter_rule(y, d, f)

handle_wan_down(y, d, f, sta) == DelRule(y, d, <<IF sta THEN "sta" ELSE "q6", f>>)
handle_wan_down_v6(y, d, sta) ==
  DelRule(delete_ipv6_prefix_flt_rule(y, d), d, <<IF sta THEN "sta" ELSE "q6", "v6">>)

OnWanUp(y, d, f, sta) ==
  LET z == IF f = "v6" THEN install_ipv6_prefix_flt_rule(y, d) ELSE y
  IN IF sta THEN handle_wan_up(z, d, f) ELSE handle_wan_up_ex(z, d, f)
OnWanDown(y, d, f, sta) ==
  IF f = "v6" THEN handle_wan_down_v6(y, d, sta) ELSE handle_wan_down(y, d, f, sta)

isWanUP(y, d, f) == f \in y.up /\ (world.android => d \in ToSet(y.list[f]))

DownHasAddr(y, d, f) ==
  LET o == y.down[d]
      z == [y EXCEPT !.down[d].ip = @ \cup {f}, !.down[d].n6 = IF f = "v6" THEN @ + 1 ELSE @]
  IN IF (f = "v4" /\ "v4" \in o.ip) \/ (f = "v6" /\ o.n6 = MAX_DEFAULT_v6_ROUTE_RULES) THEN y
     ELSE IF isWanUP(y, d, f) /\ (f = "v4" \/ o.n6 = 0) THEN OnWanUp(z, d, f, y.sta)
     ELSE z

DownGone(y, d) ==
  LET z == ForEach(Families({f \in Fam : y.down[d].ip # {} /\ isWanUP(y, d, f)}), y,
                   LAMBDA u, f : OnWanDown(u, d, f, y.sta))
  IN [z EXCEPT !.down[d] = NoDown]

\* A downstream heeds an event of a family it has an address of: on Android the tethering events
\* that name it, elsewhere the WAN's own.
DownHeeds(y, d, e) ==
  /\ y.down[d].live /\ e.fam \in y.down[d].ip
  /\ e.down = IF world.android THEN d ELSE all

Served(y, e) ==
  ForEach(SetToSeq({d \in world.downs : DownHeeds(y, d, e)}), y, LAMBDA u, d :
    IF e.event \in {"WAN_UP", "UP_TETHER"} THEN OnWanUp(u, d, e.fam, e.sta)
                                          ELSE OnWanDown(u, d, e.fam, e.sta))

\* The connection listener: AddTable fails while there is a table, DeleteTable if its address is another.
Listened(nat, e) ==
  IF e.event = "WAN_UP" /\ e.fam = "v4" /\ ~nat.up
  THEN [up |-> TRUE, table |-> IF nat.table = nobody THEN e.addr ELSE nat.table]
  ELSE IF e.event = "WAN_DOWN" /\ e.fam = "v4" /\ nat.up
  THEN [up |-> FALSE, table |-> IF nat.table = e.addr THEN nobody ELSE nat.table]
  ELSE nat

----------------------------------------------------------------------------
(* The events.                                                              *)

Quiet == x.int = <<>>
Live(w) == x.wan[w].live
Names(w, f, s) == {r \in DOMAIN routes : r[1] = w /\ (f = all \/ r[2] = f) /\ routes[r] = s}
RoutesWaiting(w) == IF x.wan[w].hdr THEN {} ELSE x.wan[w].partial
Busy(w) == x.wan[w].active \cup RoutesWaiting(w)
WanSettled(w) == w \in Stations \/ x.wan[w].active = {} \/ x.wan[w].default
\* No step completes a station's header and leaves a route of it waiting.
NoneLeftWaiting == "header" \in Allowed \/ \A w \in world.wans :
  x'.wan[w].hdr /\ ~x.wan[w].hdr => x'.wan[w].partial \subseteq x'.wan[w].active
Before(v, w) == \E i, j \in DOMAIN x.order : i < j /\ x.order[i] = v /\ x.order[j] = w

\* What the code stands: an upstream named when its interface has its addresses; both families on
\* one interface; the other's upstream gone first, or replaced by an object registered later.
Fit(w, f) ==
  /\ "early" \in Allowed \/ (f \in x.wan[w].ip /\ (f = "v6" => x.wan[w].n6 = MAX_DEFAULT_v6_ROUTE_RULES))
  /\ \A v \in world.wans \ {w} :
       /\ "split" \in Allowed \/ Busy(v) \subseteq {f}
       /\ "move" \in Allowed \/ Busy(v) = {} \/ (~world.android /\ RoutesWaiting(v) = {} /\ Before(v, w))

\* RTM_NEWLINK or the driver: an interface comes and its object is made, or it goes.
WanLinkUp(w) ==
  /\ Quiet /\ ~Live(w)
  /\ x' = [x EXCEPT !.wan[w] = NewWan, !.order = Append(@, w)]
  /\ UNCHANGED <<world, routes, conf>>

WanLinkDown(w) ==
  /\ Quiet /\ Live(w) /\ ("lopsided" \in Allowed \/ WanSettled(w))
  /\ x' = WanGone(x, w)
  /\ routes' = [r \in DOMAIN routes |-> IF r \in Names(w, all, "on") THEN "stale" ELSE routes[r]]
  /\ UNCHANGED <<world, conf>>

WanAddress(w, f, k) ==
  /\ Quiet /\ Live(w)
  /\ k # 1 => f = "v4" /\ "readdress" \in Allowed
  /\ x' = HasAddr(x, w, f, k)
  /\ UNCHANGED <<world, routes, conf>>

\* netd, or the kernel's default route, names an upstream; the one it replaces is no longer in force.
Upstream(w, f, d) ==
  /\ Quiet /\ Live(w) /\ routes[<<w, f, d>>] = "off" /\ Fit(w, f)
  /\ routes' = [r \in DOMAIN routes |->
       IF r = <<w, f, d>> THEN "on"
       ELSE IF \E v \in world.wans \ {w} : r \in Names(v, f, "on") THEN "stale" ELSE routes[r]]
  /\ LET e == [wan |-> w, fam |-> f, down |-> d]
     IN x' = ForEach(x.order, x, LAMBDA y, v :
               IF world.android THEN UpstreamAdd(y, v, e) ELSE RouteAdd(y, v, e))
  /\ NoneLeftWaiting
  /\ UNCHANGED <<world, conf>>

UpstreamGone(w, f, d) ==
  /\ Quiet /\ routes[<<w, f, d>>] # "off"
  /\ "header" \in Allowed \/ RoutesWaiting(w) = {}
  /\ routes' = [routes EXCEPT ![<<w, f, d>>] = "off"]
  /\ LET e == [wan |-> w, fam |-> f, down |-> d]
     IN x' = ForEach(x.order, x, LAMBDA y, v :
               IF world.android THEN UpstreamDel(y, v, e) ELSE RouteDel(y, v, e))
  /\ UNCHANGED <<world, conf>>

\* The kernel learns the gateway's address of family f.
Gateway(w, f) ==
  /\ Quiet /\ ~world.android /\ w \in Stations /\ Live(w) /\ f \notin x.wan[w].known
  /\ x' = handle_sta_header_add_evt([x EXCEPT !.wan[w].known = @ \cup {f}], w)
  /\ NoneLeftWaiting
  /\ UNCHANGED <<world, routes, conf>>

FirewallChange(c) ==
  /\ Quiet /\ c # conf /\ ("lopsided" \in Allowed \/ \A w \in world.wans : WanSettled(w))
  /\ conf' = c
  /\ x' = ForEach(x.order, x, LAMBDA y, w : FirewallChanged(y, w, c))
  /\ UNCHANGED <<world, routes>>

DownLink(d) ==
  /\ Quiet
  /\ x' = IF x.down[d].live THEN DownGone(x, d) ELSE [x EXCEPT !.down[d] = NewDown]
  /\ UNCHANGED <<world, routes, conf>>

DownAddress(d, f) ==
  /\ Quiet /\ x.down[d].live
  /\ x' = DownHasAddr(x, d, f)
  /\ UNCHANGED <<world, routes, conf>>

\* The event thread serves the next internal event.
Dispatch ==
  /\ ~Quiet
  /\ LET e == Head(x.int)
         y == Served([x EXCEPT !.int = Tail(@)], e)
     IN x' = [y EXCEPT !.nat = Listened(@, e)]
  /\ UNCHANGED <<world, routes, conf>>

UplinkNext ==
  \/ Dispatch
  \/ \E w \in world.wans :
       \/ WanLinkUp(w) \/ WanLinkDown(w)
       \/ \E f \in Fam :
            \/ \E k \in {1, 2} : WanAddress(w, f, k)
            \/ Gateway(w, f)
  \/ \E r \in DOMAIN routes : Upstream(r[1], r[2], r[3]) \/ UpstreamGone(r[1], r[2], r[3])
  \/ \E c \in Firewall : FirewallChange(c)
  \/ \E d \in world.downs : DownLink(d) \/ \E f \in Fam : DownAddress(d, f)

UplinkSpec == UplinkInit /\ [][UplinkNext]_uplinkVars

----------------------------------------------------------------------------
(* Properties.                                                              *)

\* An upstream is in force for a downstream and a family.
InForce(d, f) == \E w \in world.wans : /\ f \in x.wan[w].active
                                       /\ routes[<<w, f, IF world.android THEN d ELSE all>>] = "on"
Kind == IF \E w \in Stations \cap world.wans : x.wan[w].active # {} THEN "sta" ELSE "q6"

\* Once the internal events are served, a downstream that has an address of a family has the one
\* rule that leads to the upstream in force for it, and no other; one that is gone, or whose
\* upstream is, has none left behind.  (With two IPv6 addresses it may lack the modem's rule:
\* handle_wan_up_ex wants exactly one.)
UplinkFollows ==
  Quiet => \A d \in world.downs : \A f \in Fam :
    LET o == x.down[d]
        due == IF f \in o.ip /\ InForce(d, f) THEN 1 ELSE 0
        mine == <<Kind, f>>
    IN /\ \A r \in Rules : r[2] = f /\ r # mine /\ r[1] # "prefix" => x.hw[d][r] = 0
       /\ x.hw[d][mine] = due \/ (x.hw[d][mine] = 0 /\ f = "v6" /\ o.n6 = 2 /\ Kind = "q6")
       /\ f = "v6" => x.hw[d][<<"prefix", f>>] = due

\* wan_up and wan_up_v6, which isWanUP answers with and which outlive the objects, say what the
\* objects say: a family is up if and only if one object, and no more than one, is active in it.
UpIsBacked ==
  \A f \in Fam : Cardinality({w \in world.wans : f \in x.wan[w].active}) = IF f \in x.up THEN 1 ELSE 0

\* And once the internal events are served, the connection listener has a NAT table if and only if
\* IPv4 is up, with the address of the object that is active.
UpAndTableAgree ==
  /\ UpIsBacked
  /\ Quiet => /\ x.nat.up = ("v4" \in x.up)
              /\ \A a \in {x.nat.table} :
                   IF "v4" \in x.up
                   THEN \E w \in world.wans : "v4" \in x.wan[w].active /\ a = <<w, x.wan[w].addr>>
                   ELSE a = nobody

\* What the modem lets down in a family is decided by the current firewall while one of its
\* interfaces is the upstream in it, by some rules while one has its addresses, and by none of
\* ours when none is left that has any; a station that is the upstream has the current firewall of
\* its own.  (A change of the firewall is also installed for a family that is not active.)
FirewallInForce ==
  /\ \A f \in Fam :
       LET has == {w \in Modems \cap world.wans : f \in x.wan[w].ip}
       IN /\ (\E w \in has : f \in x.wan[w].active) => x.modem[f] = conf
          /\ (\E w \in has : f = "v4" \/ x.wan[w].n6 = 2) => x.modem[f] # "none"
          /\ has = {} => x.modem[f] = "none"
  /\ \A w \in Stations \cap world.wans : \A f \in x.wan[w].active : x.wan[w].firewall[f] = conf

\* An upstream that netd or the kernel has is served, once the station's gateways are known, and
\* none other is; the downstreams listed are those netd has it for, and the connection listener
\* has the table of the object that is active.
RoutedIsServed ==
  /\ UpAndTableAgree
  /\ \A w \in world.wans : \A f \in Fam :
       LET on == Names(w, f, "on")
       IN /\ f \in x.wan[w].active => on # {}
          /\ on # {} => f \in x.wan[w].active \/ (w \in Stations /\ x.wan[w].gw \ x.wan[w].known # {})
          /\ world.android /\ on # {} =>
               {r[3] : r \in on} = ToSet(x.list[f]) /\ Len(x.list[f]) = Cardinality(on)
=============================================================================
