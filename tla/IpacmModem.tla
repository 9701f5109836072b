------------------------------ MODULE IpacmModem ------------------------------
(***************************************************************************)
(* What decides the packets that come down from a WAN interface: the file   *)
(* of the firewall as IPACM_Xml reads it, the filter rules IPACM_Wan makes  *)
(* of it, and where it puts them.  Those of a modem's interface (a PDN) are *)
(* sent to the modem in one list, that all PDNs share; those of a Wi-Fi     *)
(* station are rules of its own pipe.  Software routing, which the driver   *)
(* asks for, and a multicast interface (eMBMS) put rules of their own first.*)
(*                                                                         *)
(* A packet is a record of what rules look at; the tables are interpreted:  *)
(* the first rule that matches decides, and what none matches goes to the   *)
(* applications processor.  The modem is assumed to do the same with its    *)
(* list, which IPACM sends last rule first.                                 *)
(*                                                                         *)
(* The upstream is chosen as IpacmUpstream has it on Android, here with one *)
(* downstream: one object at a time has routes, once it has its addresses.  *)
(***************************************************************************)
EXTENDS Naturals, Sequences, FiniteSets, SequencesExt, FiniteSetsExt

CONSTANTS
  Pdns,      \* the modem's interfaces (Q6_WAN)
  multicast, \* the eMBMS interface
  station,   \* a Wi-Fi station
  Worlds,    \* what is looked at: [pdns, multicast, routing, station, files]
  Android,   \* the build: FEATURE_IPA_ANDROID
  Algs,      \* alg_table: records [port, proto]
  QMI_IPA_MAX_FILTERS_V01, \* what the modem takes
  Allowed    \* orders of events let in that the code does not stand

Fam     == {"v4", "v6"}
Orders  == {"lopsided", "multicast", "both", "last"}
Objects == Pdns \cup {multicast}
ADDR_BITS == 2                  \* of the address of a host outside
Hosts   == 0 .. 2 ^ ADDR_BITS - 1

ASSUME NamesAssumption == multicast \notin Pdns /\ station \notin Objects
ASSUME AllowedAssumption == Allowed \subseteq Orders
ASSUME MaxAssumption == QMI_IPA_MAX_FILTERS_V01 \in Nat

MAX_DEFAULT_v6_ROUTE_RULES == 2
MAX_LEFT == 2                   \* bound: rules an earlier station may have left in the pipe

VARIABLES
  world,   \* one of Worlds; never changes
  firewall,    \* what the firewall's file says
  told,    \* the file has changed and IPA_FIREWALL_CHANGE_EVENT is yet to be handled
  asked,   \* the software-routing events not yet handled, TRUE to enable
  x        \* IPACM, the modem and the station's pipe

modemVars == <<world, firewall, told, asked, x>>

----------------------------------------------------------------------------
(* The firewall's file.                                                     *)

\* A file is [enable, accept, entries]; an entry restricts what it names: the family, the
\* protocols, the ports of each end, the hosts it comes from, the ICMP type ({}: any).  With IPv6
\* the hosts are those of a prefix, written as its first address and its length.
\* Written gives its elements as they stand in the file, a port before its range.
Interval(tag, ports) ==
  IF ports = {} THEN <<>> ELSE <<[tag |-> tag, what |-> "port", value |-> Min(ports)],
                                 [tag |-> tag, what |-> "range", value |-> Max(ports) - Min(ports)]>>
WrittenEntry(e) ==
  <<[tag |-> "Firewall"], [tag |-> "IPFamily", value |-> e.fam]>>
  \o (IF e.src = {} THEN <<>>
      ELSE IF e.fam = "v4" THEN <<[tag |-> "IPV4SourceAddress", value |-> e.src]>>
      ELSE LET n == CHOOSE n \in 0 .. ADDR_BITS : 2 ^ (ADDR_BITS - n) = Cardinality(e.src)
           IN <<[tag |-> "IPV6SourceAddress", addr |-> Min(e.src), prefix |-> n]>>)
  \o <<[tag |-> "Protocol", value |-> e.protos]>>
  \o Interval("Source", e.sport) \o Interval("Destination", e.dport)
  \o (IF e.type = {} THEN <<>> ELSE <<[tag |-> "ICMPType", value |-> e.type]>>)
Written(t) ==
  <<[tag |-> "FirewallEnabled", value |-> t.enable], [tag |-> "FirewallPktsAllowed", value |-> t.accept]>>
  \o FlattenSeq([i \in DOMAIN t.entries |-> WrittenEntry(t.entries[i])])

\* IPACM_firewall_conf_t: mask is attrib_mask, on the sets the masked fields match, port what the
\* port elements leave in src_port and dst_port until their range says what it is for.
NewConf  == [enable |-> FALSE, accept |-> FALSE, entries |-> <<>>]
NewEntry == [fam |-> "none", mask |-> {}, on |-> [a \in {} |-> {}],
             port |-> [a \in {"sport", "dport"} |-> 0]]

\* The elements act on the entry last begun.
OnLast(c, Op(_)) == [c EXCEPT !.entries[Len(c.entries)] = Op(@)]
Restricted(e, a, set) ==
  [e EXCEPT !.mask = @ \cup {a},
            !.on = [b \in DOMAIN @ \cup {a} |-> IF b = a THEN set ELSE @[b]]]

FileTag(c, t) ==
  CASE t.tag = "Firewall" -> [c EXCEPT !.entries = Append(@, NewEntry)]
    [] t.tag = "FirewallPktsAllowed" -> [c EXCEPT !.accept = t.value]
    [] t.tag = "FirewallEnabled" -> [c EXCEPT !.enable = t.value]
FamilyTag(c, t) == OnLast(c, LAMBDA e : [e EXCEPT !.fam = t.value])
AddressTag_v4(c, t) == OnLast(c, LAMBDA e : Restricted(e, "src", t.value))
AddressTag_v6(c, t) ==
  OnLast(c, LAMBDA e : Restricted(e, "src",
    {h \in Hosts : h \div 2 ^ (ADDR_BITS - t.prefix) = t.addr \div 2 ^ (ADDR_BITS - t.prefix)}))
ProtocolTag(c, t) == OnLast(c, LAMBDA e : Restricted(e, "proto", t.value))
TypeTag(c, t) == OnLast(c, LAMBDA e : Restricted(e, "type", t.value))

\* The same for TCP, UDP and both.
PortTag(c, t) ==
  LET a == IF t.tag = "Source" THEN "sport" ELSE "dport"
  IN OnLast(c, LAMBDA e :
       IF t.what = "port" THEN [e EXCEPT !.port[a] = t.value]
       ELSE IF t.value = 0 THEN Restricted(e, a, {e.port[a]})
       ELSE [Restricted(e, a, e.port[a] .. (e.port[a] + t.value)) EXCEPT !.port[a] = 0])

IPACM_firewall_xml_parse_tree(c, t) ==
  CASE t.tag \in {"Firewall", "FirewallPktsAllowed", "FirewallEnabled"} -> FileTag(c, t)
    [] t.tag = "IPFamily" -> FamilyTag(c, t)
    [] t.tag = "IPV4SourceAddress" -> AddressTag_v4(c, t)
    [] t.tag = "IPV6SourceAddress" -> AddressTag_v6(c, t)
    [] t.tag = "Protocol" -> ProtocolTag(c, t)
    [] t.tag \in {"Source", "Destination"} -> PortTag(c, t)
    [] t.tag = "ICMPType" -> TypeTag(c, t)
IPACM_read_firewall_xml(t) == FoldLeft(IPACM_firewall_xml_parse_tree, NewConf, Written(t))

\* What rules of fragments cannot see: an IPv6 entry that looks at it makes them go to the
\* applications processor.
check_dft_firewall_rules_attr_mask(c) ==
  \E i \in DOMAIN c.entries :
    c.entries[i].fam = "v6" /\ c.entries[i].mask \cap {"sport", "dport", "type"} # {}
NeedsFragments(c) == c.enable /\ check_dft_firewall_rules_attr_mask(c)

----------------------------------------------------------------------------
(* The rules.  A rule matches the packets that have, in every field it names, one of the values. *)

Rule(on, to) == [on |-> on, to |-> to]
Matches(r, pk) == \A a \in DOMAIN r.on : pk[a] \in r.on[a]
Decides(table, pk) ==
  LET hits == {i \in DOMAIN table : Matches(table[i], pk)}
  IN IF hits = {} THEN "apps" ELSE table[Min(hits)].to
On(a, set) == [b \in {a} |-> set]
With(on, a, set) == [b \in DOMAIN on \cup {a} |-> IF b = a THEN set ELSE on[b]]
Meta(w) == On("pdn", {w})       \* the metadata of the interface's receive properties

\* Where a packet goes that the firewall lets in: to be translated, or along the IPv6 routes.
Inside(f) == IF f = "v4" THEN "nat" ELSE "wan_v6"
Named(c, f) == IF c.accept THEN Inside(f) ELSE "apps"
Default(c, f) == IF c.enable /\ c.accept THEN "apps" ELSE Inside(f)

\* What every list begins with, whatever the interface.
add_dft_filtering_rule(f) ==
  IF f = "v4" THEN <<Rule(On("dst", {"group"}), "apps"), Rule(On("dst", {"broadcast"}), "apps")>>
  ELSE <<Rule(On("dst", {"group"}), "apps"), Rule(On("dst", {"link"}), "apps"),
         Rule(On("dst", {"site"}), "apps")>>
       \o IF Android THEN [i \in 1 .. 3 |-> Rule(On("flag", {<<"fin", "syn", "rst">>[i]}), "apps")]
                     ELSE <<>>

\* Those of the application gateways name no interface.
AlgRules(a) ==
  [i \in DOMAIN Algs |-> Rule(With(On("proto", {Algs[i].proto}), a, {Algs[i].port}), "apps")]
IcmpRule(w) == Rule(With(Meta(w), "proto", {"icmp"}), "apps")
add_icmp_alg_rules(w, f) ==
  <<IcmpRule(w)>> \o (IF f = "v4" THEN AlgRules("sport") \o AlgRules("dport") ELSE <<>>)

\* An entry for TCP and UDP is split in two.
EntryRules(w, e, to) ==
  LET on == With(e.on, "pdn", {w})
  IN IF e.on["proto"] = {"tcp", "udp"}
     THEN <<Rule(With(on, "proto", {"tcp"}), to), Rule(With(on, "proto", {"udp"}), to)>>
     ELSE <<Rule(on, to)>>
EntriesOf(w, c, f) ==
  FlattenSeq([i \in DOMAIN c.entries |->
    IF c.enable /\ c.entries[i].fam = f THEN EntryRules(w, c.entries[i], Named(c, f)) ELSE <<>>])
FragmentRule(w) == Rule(With(Meta(w), "frag", {TRUE}), "apps")
DefaultRule(w, c, f) == Rule(Meta(w), Default(c, f))

config_dft_firewall_rules_ex(w, f) ==
  LET c == IPACM_read_firewall_xml(firewall)
  IN (IF f = "v6" /\ NeedsFragments(c) THEN <<FragmentRule(w)>> ELSE <<>>)
     \o EntriesOf(w, c, f) \o <<DefaultRule(w, c, f)>>

----------------------------------------------------------------------------
(* IPACM.  Each operator takes it as it finds it, y, and gives it as it leaves it. *)

\* ip: the families it has an address of; n6: num_dft_rt_v6; active, default: active_v4 and _v6,
\* is_default_gateway; act: softwarerouting_act.
NewPdn == [live |-> TRUE, ip |-> {}, n6 |-> 0, active |-> {}, default |-> FALSE, act |-> FALSE]
NoPdn  == [NewPdn EXCEPT !.live = FALSE]
\* pipe: the rules in the hardware, of each family, with what the object calls them; read: its
\* firewall_config, the file as it last read it; own: num_ipv6_dest_flt_rule.
NewStation == [live |-> TRUE, ip |-> {}, own |-> 0, active |-> {}, read |-> NewConf, pipe |-> [f \in Fam |-> <<>>]]
NoStation  == [NewStation EXCEPT !.live = FALSE]

\* order: the PDNs as registered; pdn: num_ipv4_modem_pdn, _ipv6_; flt: flt_rule_v4, _v6; mux: the
\* QMAP id; modem: the list the modem has and the id it came with; enabled: ipa_sw_rt_enable.
ModemInit ==
  /\ world \in Worlds
  /\ firewall \in world.files
  /\ told = FALSE /\ asked = <<>>
  /\ x = [obj |-> [w \in Objects |-> NoPdn], order |-> <<>>, pdn |-> [f \in Fam |-> 0],
          flt |-> [f \in Fam |-> <<>>], mux |-> multicast, enabled |-> FALSE,
          modem |-> [rules |-> [f \in Fam |-> <<>>], mux |-> multicast], sta |-> NoStation]

Families(S) == SelectSeq(<<"v4", "v6">>, LAMBDA f : f \in S)
ForEach(seq, y, Op(_, _)) == FoldLeft(Op, y, seq)

\* A list that is too long is refused, and the modem keeps what it has.
AddWanDLFilteringRule(y, t) ==
  IF Len(t["v4"]) + Len(t["v6"]) > QMI_IPA_MAX_FILTERS_V01 THEN y
  ELSE [y EXCEPT !.modem = [rules |-> t, mux |-> y.mux]]

\* One rule a family takes everything of this object's interface to the applications processor.
SoftwareRules(w) == [f \in Fam |-> <<Rule(Meta(w), "apps")>>]
config_dft_embms_rules(w) == <<Rule(Meta(w), "odu")>>

install_wan_filtering_rule(y, w, sw) ==
  LET embms == y.obj[multicast].live
  IN IF sw \/ y.enabled
     THEN IF y.obj[w].act THEN y
          ELSE AddWanDLFilteringRule([y EXCEPT !.obj[w].act = TRUE], SoftwareRules(w))
     ELSE AddWanDLFilteringRule(y,
            [f \in Fam |-> (IF embms THEN config_dft_embms_rules(w) ELSE <<>>) \o y.flt[f]])

config_wan_firewall_rule(y, w, f) ==
  [y EXCEPT !.flt[f] = add_dft_filtering_rule(f) \o add_icmp_alg_rules(w, f)
                                                 \o config_dft_firewall_rules_ex(w, f)]
del_wan_firewall_rule(y, f) == [y EXCEPT !.flt[f] = add_dft_filtering_rule(f)]

\* The first PDN brings the default rules.
init_fl_rule_ex(y, w, f) ==
  LET z == [y EXCEPT !.pdn[f] = @ + 1]
  IN install_wan_filtering_rule(
       IF y.pdn[f] = 0 THEN [z EXCEPT !.flt[f] = add_dft_filtering_rule(f)] ELSE z, w, FALSE)

handle_addr_evt(y, w, f) ==
  LET o == y.obj[w]
      z == [y EXCEPT !.obj[w].ip = @ \cup {f}, !.obj[w].n6 = IF f = "v6" THEN @ + 1 ELSE @]
  IN IF (f = "v4" /\ "v4" \in o.ip) \/ (f = "v6" /\ o.n6 = MAX_DEFAULT_v6_ROUTE_RULES) THEN y
     ELSE IF f = "v4" \/ o.n6 = 1 THEN init_fl_rule_ex(z, w, f) ELSE z

handle_route_add_evt(y, w, f) ==
  LET z == [y EXCEPT !.obj[w].default = TRUE, !.obj[w].active = @ \cup {f}, !.mux = w]
  IN install_wan_filtering_rule(config_wan_firewall_rule(z, w, f), w, FALSE)
handle_route_del_evt_ex(y, w, f) ==
  [y EXCEPT !.obj[w].default = FALSE, !.obj[w].active = @ \ {f}]

\* The families the object has addresses of, not those it is active in.
FirewallChanged(y, w) ==
  LET o == y.obj[w]
      z == ForEach(Families(o.ip), y, LAMBDA u, f : config_wan_firewall_rule(del_wan_firewall_rule(u, f), w, f))
  IN IF o.default /\ o.ip # {} THEN install_wan_filtering_rule(z, w, FALSE) ELSE y

\* Mutant: the object does not forget that its rules were there.
SoftwareRouting_kept(y, w, on) == install_wan_filtering_rule(y, w, on)
SoftwareRouting(y, w, on) ==
  LET z == install_wan_filtering_rule(y, w, on)
  IN IF on THEN z ELSE [z EXCEPT !.obj[w].act = FALSE]

handle_down_evt_ex(y, w) ==
  LET o == y.obj[w]
      p == [y EXCEPT !.pdn = [f \in Fam |->
              IF f \in o.ip /\ (f = "v4" \/ o.n6 > 1) THEN @[f] - 1 ELSE @[f]]]
      d == IF ~o.default THEN p
           ELSE install_wan_filtering_rule(
                  ForEach(Families(o.ip), p, LAMBDA u, f :
                    handle_route_del_evt_ex(del_wan_firewall_rule(u, f), w, f)), w, FALSE)
      last == Families({f \in o.ip : d.pdn[f] = 0})
      z == ForEach(last, d, LAMBDA u, f :
             install_wan_filtering_rule([u EXCEPT !.flt[f] = <<>>], w, FALSE))
  IN [z EXCEPT !.obj[w] = NoPdn, !.order = RemoveFirst(@, w)]

\* The multicast object has no part in anything else.
MulticastUp(y) == install_wan_filtering_rule([y EXCEPT !.obj[multicast] = NewPdn], multicast, FALSE)
MulticastDown(y) ==
  LET z == install_wan_filtering_rule([y EXCEPT !.obj[multicast].live = FALSE], multicast, FALSE)
  IN [z EXCEPT !.obj[multicast] = NoPdn]

----------------------------------------------------------------------------
(* The station: its rules are in the hardware one by one, each with its handle. *)

Installed(s, f, what, rules) ==
  [s EXCEPT !.pipe[f] = @ \o [i \in DOMAIN rules |-> [what |-> what, rule |-> rules[i]]]]
Removed(s, f, what) == [s EXCEPT !.pipe[f] = SelectSeq(@, LAMBDA r : r.what # what)]
\* The object has one handle for the rule of fragments, that of the last installed.
DeletedLast(s, f, what) ==
  LET is == {i \in DOMAIN s.pipe[f] : s.pipe[f][i].what = what}
  IN IF is = {} THEN s ELSE [s EXCEPT !.pipe[f] = RemoveAt(@, Max(is))]

\* It marks the family and returns if it is marked: config_ip_type has marked it just before, so
\* a station never gets these rules.
init_fl_rule(s, f) ==
  IF f \in s.ip THEN s
  ELSE Installed([s EXCEPT !.ip = @ \cup {f}], f, "base", add_dft_filtering_rule(f))
config_ip_type(s, f) == [s EXCEPT !.ip = @ \cup {f}]

\* An IPv6 address brings a rule for what is sent to it.
StationAddress(s, f) ==
  LET z == init_fl_rule(config_ip_type(s, f), f)
  IN IF f = "v4" \/ s.own = MAX_DEFAULT_v6_ROUTE_RULES THEN z
     ELSE Installed([z EXCEPT !.own = @ + 1], f, "own", <<Rule(With(Meta(station), "dst", {"own"}), "apps")>>)

config_dft_firewall_rules(s, f) ==
  LET c == IPACM_read_firewall_xml(firewall)
      r == [s EXCEPT !.read = c, !.active = @ \cup {f}]
      z == Installed(IF f = "v6" /\ NeedsFragments(c)
                     THEN Installed(r, f, "fragments", <<FragmentRule(station)>>) ELSE r,
                     f, "firewall", EntriesOf(station, c, f))
      i == IF f = "v4" THEN z
           ELSE Installed(z, f, "icmp", <<Rule(With(Meta(station), "proto", {"icmp"}), "apps")>>)
  IN Installed(i, f, "default", <<DefaultRule(station, c, f)>>)

\* Whether there is a rule of fragments to delete is read off the file as last read.
\* Mutant: the ICMP rule is forgotten.
del_dft_firewall_rules_icmp(s, f) ==
  LET z == Removed(Removed(s, f, "firewall"), f, "default")
  IN IF f = "v6" /\ NeedsFragments(s.read) THEN DeletedLast(z, f, "fragments") ELSE z
del_dft_firewall_rules(s, f) ==
  LET z == Removed(Removed(Removed(s, f, "firewall"), f, "default"), f, "icmp")
  IN IF f = "v6" /\ NeedsFragments(s.read) THEN DeletedLast(z, f, "fragments") ELSE z

\* The rules that were never there cannot be deleted, and that ends the deletions.
station_handle_down_evt(s) ==
  LET z == ForEach(Families(s.active), s, LAMBDA u, f : del_dft_firewall_rules(u, f))
      there(f) == \E i \in DOMAIN z.pipe[f] : z.pipe[f][i].what = "base"
      clean == IF \A f \in s.ip : there(f)
               THEN [f \in Fam |-> SelectSeq(z.pipe[f], LAMBDA r : r.what \notin {"base", "own"})]
               ELSE z.pipe
  IN [NoStation EXCEPT !.pipe = clean]

----------------------------------------------------------------------------
(* The events.                                                              *)

Live(w) == x.obj[w].live
Settled(w) == x.obj[w].active = {} \/ x.obj[w].default
\* The upstream is one in every family it has an address of.
Even(w) == x.obj[w].active = IF x.obj[w].default THEN x.obj[w].ip ELSE {}
\* Nothing is installed for a PDN while the multicast interface is there.
Alone == "multicast" \in Allowed \/ ~Live(multicast)
\* A station reads the file again with IPv6 rules installed from another reading of it only if
\* both agree on the rule of fragments.
Agrees == \/ "both" \in Allowed \/ "v6" \notin x.sta.active
          \/ NeedsFragments(x.sta.read) = NeedsFragments(IPACM_read_firewall_xml(firewall))

\* The last PDN with an address does not go while software routing is on or asked for: the
\* modem would keep the list it had.
NotLast(w) == \/ "last" \in Allowed \/ (~x.enabled /\ asked = <<>>) \/ x.obj[w].ip = {}
              \/ \A f \in x.obj[w].ip : \E v \in world.pdns \ {w} : f \in x.obj[v].ip

LinkUp(w) ==
  /\ ~Live(w)
  /\ x' = [x EXCEPT !.obj[w] = NewPdn, !.order = Append(@, w)]
  /\ UNCHANGED <<world, firewall, told, asked>>

LinkDown(w) ==
  /\ Live(w) /\ Alone /\ NotLast(w) /\ ("lopsided" \in Allowed \/ Settled(w))
  /\ x' = handle_down_evt_ex(x, w)
  /\ UNCHANGED <<world, firewall, told, asked>>

Address(w, f) ==
  /\ Live(w) /\ Alone
  /\ x' = handle_addr_evt(x, w, f)
  /\ UNCHANGED <<world, firewall, told, asked>>

\* An upstream is named when its interface has its addresses, and no other is one.
Upstream(w, f) ==
  /\ Live(w) /\ Alone /\ f \in x.obj[w].ip \ x.obj[w].active
  /\ f = "v6" => x.obj[w].n6 = MAX_DEFAULT_v6_ROUTE_RULES
  /\ \A v \in world.pdns \ {w} : x.obj[v].active = {}
  /\ x' = handle_route_add_evt(x, w, f)
  /\ UNCHANGED <<world, firewall, told, asked>>

UpstreamGone(w, f) ==
  /\ Live(w) /\ Alone /\ f \in x.obj[w].active
  /\ x' = handle_route_del_evt_ex(install_wan_filtering_rule(del_wan_firewall_rule(x, f), w, FALSE), w, f)
  /\ UNCHANGED <<world, firewall, told, asked>>

Multicast ==
  /\ world.multicast
  /\ Live(multicast) \/ "multicast" \in Allowed \/ (asked = <<>> /\ ~told)
  /\ x' = IF Live(multicast) THEN MulticastDown(x) ELSE MulticastUp(x)
  /\ UNCHANGED <<world, firewall, told, asked>>

\* Somebody writes the file; the notifier posts an event, which is handled when its turn comes.
FileChanges(t) ==
  /\ t # firewall /\ Alone
  /\ firewall' = t /\ told' = TRUE
  /\ UNCHANGED <<world, asked, x>>

Firewall ==
  /\ told /\ Agrees /\ ("lopsided" \in Allowed \/ \A w \in world.pdns : Even(w))
  /\ told' = FALSE
  /\ x' = [ForEach(x.order, x, FirewallChanged) EXCEPT
            !.sta = ForEach(Families(@.active), @, LAMBDA s, f :
                      config_dft_firewall_rules(del_dft_firewall_rules(s, f), f))]
  /\ UNCHANGED <<world, firewall, asked>>

\* The driver asks for software routing or for its end: its thread sets the flag at once.
Asks ==
  /\ world.routing /\ Alone /\ Len(asked) < 2
  /\ x' = [x EXCEPT !.enabled = ~@]
  /\ asked' = Append(asked, ~x.enabled)
  /\ UNCHANGED <<world, firewall, told>>

Routing ==
  /\ asked # <<>>
  /\ x' = ForEach(x.order, x, LAMBDA y, w : SoftwareRouting(y, w, Head(asked)))
  /\ asked' = Tail(asked)
  /\ UNCHANGED <<world, firewall, told>>

\* The station comes, gets its addresses, is the upstream, and goes.
StationLink ==
  /\ world.station
  /\ x.sta.live \/ Len(x.sta.pipe["v6"]) <= MAX_LEFT
  /\ x' = [x EXCEPT !.sta = IF @.live THEN station_handle_down_evt(@) ELSE [NewStation EXCEPT !.pipe = x.sta.pipe]]
  /\ UNCHANGED <<world, firewall, told, asked>>

StationAddr(f) ==
  /\ x.sta.live
  /\ x' = [x EXCEPT !.sta = StationAddress(@, f)]
  /\ UNCHANGED <<world, firewall, told, asked>>

StationRoute(f) ==
  /\ f \in x.sta.ip
  /\ f \in x.sta.active \/ Agrees
  /\ x' = [x EXCEPT !.sta = IF f \in @.active THEN [del_dft_firewall_rules(@, f) EXCEPT !.active = @ \ {f}]
                            ELSE config_dft_firewall_rules(@, f)]
  /\ UNCHANGED <<world, firewall, told, asked>>

ModemNext ==
  \/ \E w \in world.pdns :
       \/ LinkUp(w) \/ LinkDown(w)
       \/ \E f \in Fam : Address(w, f) \/ Upstream(w, f) \/ UpstreamGone(w, f)
  \/ Multicast \/ Firewall \/ Asks \/ Routing \/ StationLink
  \/ \E t \in world.files : FileChanges(t)
  \/ \E f \in Fam : StationAddr(f) \/ StationRoute(f)

ModemSpec == ModemInit /\ [][ModemNext]_modemVars

----------------------------------------------------------------------------
(* What the file asks for, said of packets and not of rules.                *)

Free(set, v) == set = {} \/ v \in set
InEntry(e, pk) ==
  /\ e.fam = pk.fam /\ pk.proto \in e.protos
  /\ Free(e.src, pk.src) /\ Free(e.sport, pk.sport) /\ Free(e.dport, pk.dport) /\ Free(e.type, pk.type)
LetsIn(t, pk) ==
  ~t.enable \/ t.accept = (\E i \in DOMAIN t.entries : InEntry(t.entries[i], pk))
SeesPorts(t) == t.enable /\ \E i \in DOMAIN t.entries :
  LET e == t.entries[i] IN e.fam = "v6" /\ (e.sport # {} \/ e.dport # {} \/ e.type # {})

\* The packets looked at: a fragment has no ports (NoPort).
NoPort == 0
Whole == [fam : Fam, dst : {"host"}, proto : {"tcp", "udp"}, flag : {"data"}, frag : {FALSE},
          src : Hosts, sport : {2}, dport : 1 .. 4, type : {0}]
Rest(f) == {[fam |-> f, dst |-> d, proto |-> p, flag |-> g, frag |-> r, src |-> 0, sport |-> n,
             dport |-> NoPort, type |-> 1] :
            d \in {"host", "group", "own"} \cup IF f = "v4" THEN {"broadcast"} ELSE {"link", "site"}, p \in {"tcp", "icmp"},
            g \in {"data", "syn"}, r \in BOOLEAN, n \in {NoPort, 1}}
\* IPv4 fragments have no rule at the modem: what their bytes give for ports decides.
Packets(w, f) ==
  {[a \in DOMAIN pk \cup {"pdn"} |-> IF a = "pdn" THEN w ELSE pk[a]] :
     pk \in {q \in Whole \cup Rest(f) : q.fam = f /\ ~(q.frag /\ f = "v4") /\ (q.frag => q.sport = NoPort)}}

Special(pk) ==
  \/ pk.dst \notin {"host", "own"} \/ pk.proto = "icmp"
  \/ pk.fam = "v4" /\ \E i \in DOMAIN Algs : pk.proto = Algs[i].proto /\ Algs[i].port \in {pk.sport, pk.dport}
  \/ pk.fam = "v6" /\ Android /\ pk.flag \in {"fin", "syn", "rst"}
  \/ pk.fam = "v6" /\ pk.frag /\ SeesPorts(firewall)
Wanted(w, f, pk) ==
  IF x.enabled \/ (w # multicast /\ (f \notin x.obj[w].active \/ Special(pk))) THEN "apps"
  ELSE IF w = multicast THEN "odu"
  ELSE IF LetsIn(firewall, pk) THEN Inside(f) ELSE "apps"

Fits == Len(x.flt["v4"]) + Len(x.flt["v6"]) + (IF Live(multicast) THEN 2 ELSE 0) <= QMI_IPA_MAX_FILTERS_V01

\* The list the modem has decides of every packet what the file says of the interface that is
\* the upstream, and sends to the applications processor what is nobody's to offload: other
\* interfaces, groups, ICMP, gateways' ports, and everything while software routing is on; the
\* list is the upstream's, by its QMAP id.  So it is once the events posted have been handled and
\* if the modem can take the list: after whatever order of links, addresses, upstreams, changes
\* of the file and requests of the driver.
ModemDecides ==
  asked = <<>> /\ ~told /\ Fits =>
    \A w \in Objects : \A f \in Fam : Live(w) =>
      /\ \A pk \in Packets(w, f) : Decides(x.modem.rules[f], pk) = Wanted(w, f, pk)
      /\ f \in x.obj[w].active /\ ~x.enabled => x.modem.mux = w

\* The same of a station's own pipe, for whole packets to a host or to itself, in a family it is
\* the upstream in; in others, and once it is gone, no rule of the firewall is left.
StationDecides ==
  \A f \in Fam :
    IF f \in x.sta.active
    THEN ~told => \A pk \in Packets(station, f) :
           pk.dst \in {"host", "own"} /\ pk.proto # "icmp" =>
             Decides([i \in DOMAIN x.sta.pipe[f] |-> x.sta.pipe[f][i].rule], pk) =
               (IF f = "v6" /\ (pk.dst = "own" \/ (pk.frag /\ SeesPorts(firewall))) THEN "apps"
                ELSE IF LetsIn(firewall, pk) THEN Inside(f) ELSE "apps")
    ELSE \A i \in DOMAIN x.sta.pipe[f] : x.sta.pipe[f][i].what \in {"base", "own"}
=============================================================================
