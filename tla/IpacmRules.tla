------------------------------ MODULE IpacmRules ------------------------------
(***************************************************************************)
(* The rules an interface that serves tethered clients has in the IPA        *)
(* hardware, and what IPACM keeps of them: the handles in the object         *)
(* (IPACM_Iface, IPACM_Lan, IPACM_Wlan), the number of filter rules of each  *)
(* pipe, the table of private subnets and the dependencies of the kernel's   *)
(* resource manager (IPACM_Config).                                         *)
(*                                                                         *)
(* All of it runs on the event thread.  LAN_DELETE_SELF is an internal       *)
(* event, served before the next from outside; PRIVATE_SUBNET_CHANGE is an   *)
(* external one and waits behind whatever was queued before it.              *)
(*                                                                         *)
(* Any call into the driver may be refused.  A handler that meets a refusal  *)
(* is given the call that was refused; a world says how many there may be.   *)
(***************************************************************************)
EXTENDS Integers, Sequences, SequencesExt, FiniteSetsExt, Functions

CONSTANTS
  Lans, Wlans,   \* interfaces of category LAN and WLAN; a WLAN is an access point
  Nets,          \* the /24 nets their addresses are in
  file,          \* the private subnet of IPACM_cfg.xml
  dummy, none,
  Worlds,        \* what is looked at: the build, the interfaces there, whether the resource
                 \* manager or software routing is used, and how many calls may be refused
  Allowed        \* sequences of events let in that the code does not stand; see Odd

Odd == {"bare",      \* software routing, or a link down, while an interface has no address
        "shared",    \* two interfaces with addresses in one net
        "overflow",  \* more nets than the table has room for
        "reload",    \* IPACM_cfg.xml read again while interfaces have nets, or edited
        "third"}     \* eMBMS besides the routes of both families

ASSUME NamesAssumption   == /\ Lans \cap Wlans = {} /\ none \notin Lans \cup Wlans
                            /\ {file, dummy} \cap Nets = {}
ASSUME WorldsAssumption  == Worlds \subseteq [android : BOOLEAN, ifs : SUBSET (Lans \cup Wlans),
                                             use : {"manager", "rules"}, refusals : Nat]
ASSUME AllowedAssumption == Allowed \subseteq Odd

IPA_MAX_PRIVATE_SUBNET_ENTRIES == 3
MAX_DEFAULT_v6_ROUTE_RULES     == 2
MAX_CLIENTS                    == 2     \* of a LAN interface, and
MAX_NEWS                       == 2     \* events queued: bounds of this model

VARIABLES
  world,       \* one of Worlds; never changes
  obj,         \* the interface objects
  hw,          \* rules in the hardware: by the interface they are for, and kind
  count,       \* flt_rule_count_v4 and _v6
  table,       \* private_subnet_table
  news,        \* PRIVATE_SUBNET_CHANGE events queued: who posted each
  rm,          \* ipa_rm_tbl's flags and ipa_rm_a2_check
  deps,        \* the kernel's resource dependencies
  upstream,    \* who has added the modem's consumer: the routes, and eMBMS
  tethered,    \* the pipes the modem was told of, by interface
  swrt,        \* ipa_sw_rt_enable
  refused      \* the calls refused so far: to install, to delete

vars  == <<world, obj, hw, count, table, news, rm, deps, upstream, tethered, swrt, refused>>

(***************************************************************************)
(* Rules.  The filter rules of an interface come in kinds, each installed by *)
(* one call and deleted by one; "rt4" and "rt6" are its routing rules.       *)
(***************************************************************************)
Flt4  == {"icmp4", "dft4", "private", "sw4"}
Flt6  == {"icmp6", "dft6", "sw6"}
Route == {"rt4", "rt6"}
Kinds == Flt4 \cup Flt6 \cup Route

\* How many rules one call installs, and by how many it changes the count.
Nominal(k) ==
  CASE k = "dft4"    -> 3
    [] k = "dft6"    -> IF world.android THEN 6 ELSE 3
    [] k = "private" -> IF world.android THEN IPA_MAX_PRIVATE_SUBNET_ENTRIES ELSE Len(table)
    [] k = "rt6"     -> 2
    [] OTHER         -> 1

PipeOf(i) == IF i \in Wlans THEN "WLAN1_PROD" ELSE "USB_PROD"
Pipes     == {"WLAN1_PROD", "USB_PROD"}

\* An object: live is is_active, dying once it waits for LAN_DELETE_SELF; fam: ip_type;
\* n6: num_dft_rt_v6; held: how many handles of each kind; lists: what the private-subnet
\* rules match; net: if_ipv4_subnet; clients: num_eth_client;
\* sw: softwarerouting_act.
Fresh == [live |-> "up", fam |-> {}, n6 |-> 0, held |-> [k \in Kinds |-> 0], lists |-> <<>>,
          net |-> none, clients |-> 0, sw |-> FALSE]
Gone  == [Fresh EXCEPT !.live = "none"]

Up     == {i \in world.ifs : obj[i].live = "up"}
Served == \A i \in world.ifs : obj[i].live # "dying"    \* no internal event waits

\* A change of rules is a number for each kind at each interface.
Zero       == [k \in Kinds |-> 0]
Only(i, d) == [j \in world.ifs |-> IF j = i THEN d ELSE Zero]
Times(ks)  == [k \in Kinds |-> IF k \in ks THEN Nominal(k) ELSE 0]
Less(d)    == [k \in Kinds |-> - d[k]]

\* The filter rules of each pipe and family after a change.
Amount(d) == [v4 |-> d["icmp4"] + d["dft4"] + d["private"] + d["sw4"],
              v6 |-> d["icmp6"] + d["dft6"] + d["sw6"]]
FltAfter(c, d) ==
  LET at(p, f) == MapThenSumSet(LAMBDA j : Amount(d[j])[f], {j \in world.ifs : PipeOf(j) = p})
  IN  [p \in Pipes |-> [v4 |-> c[p].v4 + at(p, "v4"), v6 |-> c[p].v6 + at(p, "v6")]]

\* What the hardware gains, and by what the counts of IPACM_Config change.
Rules(gain, counted) ==
  /\ hw'    = [j \in world.ifs |-> [k \in Kinds |-> hw[j][k] + gain[j][k]]]
  /\ count' = FltAfter(count, counted)

(***************************************************************************)
(* The resource manager: a dependency stands between a producer and a        *)
(* consumer that are both up, and back.                                     *)
(***************************************************************************)
RmTable == <<
  [p1 |-> "WLAN_PROD", c1 |-> "Q6_CONS",  p2 |-> "Q6_PROD",  c2 |-> "WLAN_CONS"],
  [p1 |-> "USB_PROD",  c1 |-> "Q6_CONS",  p2 |-> "Q6_PROD",  c2 |-> "USB_CONS"],
  [p1 |-> "WLAN_PROD", c1 |-> "USB_CONS", p2 |-> "USB_PROD", c2 |-> "WLAN_CONS"],
  [p1 |-> "ODU_PROD",  c1 |-> "Q6_CONS",  p2 |-> "Q6_PROD",  c2 |-> "ODU_CONS"],
  [p1 |-> "WLAN_PROD", c1 |-> "ODU_CONS", p2 |-> "ODU_PROD", c2 |-> "WLAN_CONS"],
  [p1 |-> "ODU_PROD",  c1 |-> "USB_CONS", p2 |-> "USB_PROD", c2 |-> "ODU_CONS"]>>
Entries == DOMAIN RmTable
Pair(e) == {<<RmTable[e].p1, RmTable[e].c1>>, <<RmTable[e].p2, RmTable[e].c2>>}

ProdOf(i) == IF i \in Wlans THEN "WLAN_PROD" ELSE "USB_PROD"

Users(r) == IF r = "Q6_CONS" THEN 1 ELSE 0

\* AddRmDepend: the side comes up wherever it stands; where the other is up and no dependency
\* is set, both directions are.
AddRmDepend(r) ==
  LET on(e)  == r \in {RmTable[e].p1, RmTable[e].c1}
      tbl    == [e \in Entries |->
                   LET p == rm.tbl[e].p \/ r = RmTable[e].p1
                       c == rm.tbl[e].c \/ r = RmTable[e].c1
                   IN  [p |-> p, c |-> c, set |-> rm.tbl[e].set \/ (on(e) /\ p /\ c)]]
  IN  /\ rm'   = [tbl |-> tbl, a2 |-> rm.a2 + Users(r)]
      /\ deps' = deps \cup UNION {Pair(e) : e \in {d \in Entries : tbl[d].set /\ ~rm.tbl[d].set}}

\* Mutant: any user of the modem's consumer that goes takes it down.
DelRmDepends_anyUser(rs) ==
  LET off(e) == RmTable[e].p1 \in rs \/ RmTable[e].c1 \in rs
  IN  /\ rm'   = [tbl |-> [e \in Entries |->
                     [p   |-> rm.tbl[e].p /\ RmTable[e].p1 \notin rs,
                      c   |-> rm.tbl[e].c /\ RmTable[e].c1 \notin rs,
                      set |-> rm.tbl[e].set /\ ~off(e)]],
                  a2 |-> rm.a2 - (IF "Q6_CONS" \in rs THEN 1 ELSE 0)]
      /\ deps' = deps \ UNION {Pair(e) : e \in {d \in Entries : off(d) /\ rm.tbl[d].set}}

\* DelRmDepend, of each resource in turn: the side goes down, and a dependency with it.  The
\* modem's consumer stays up while one user of it is counted.
DelRmDepends(rs) ==
  LET a2     == rm.a2 - (IF "Q6_CONS" \in rs THEN 1 ELSE 0)
      off(e) == \/ RmTable[e].p1 \in rs
                \/ RmTable[e].c1 \in rs /\ ~(RmTable[e].c1 = "Q6_CONS" /\ a2 = 1)
  IN  /\ rm'   = [tbl |-> [e \in Entries |->
                     IF ~off(e) THEN rm.tbl[e]
                     ELSE [p   |-> rm.tbl[e].p /\ RmTable[e].p1 \notin rs,
                           c   |-> rm.tbl[e].c /\ (\/ RmTable[e].c1 \notin rs
                                                   \/ RmTable[e].c1 = "Q6_CONS" /\ a2 = 1),
                           set |-> FALSE]],
                  a2 |-> a2]
      /\ deps' = deps \ UNION {Pair(e) : e \in {d \in Entries : off(d) /\ rm.tbl[d].set}}

(***************************************************************************)
(* The private subnets, and the rules that keep what is addressed to them    *)
(* away from the upstream.                                                  *)
(***************************************************************************)
\* AddPrivateSubnet and DelPrivateSubnet; each tells the other interfaces of a change.
AddPrivateSubnet(i, n) ==
  LET new == /\ n \notin Range(table)
             /\ Len(table) < IPA_MAX_PRIVATE_SUBNET_ENTRIES
  IN  /\ table' = IF new THEN Append(table, n) ELSE table
      /\ news'  = IF new THEN Append(news, i) ELSE news

\* Mutant: the others are told of nets that come, not of nets that go.
DelPrivateSubnet_quiet(i, n) ==
  /\ table' = RemoveFirst(table, n)
  /\ UNCHANGED news

DelPrivateSubnet(i, n) ==
  /\ table' = RemoveFirst(table, n)
  /\ news'  = IF n \in Range(table) THEN Append(news, i) ELSE news

\* The three rules of an Android build after handle_private_subnet_android: the table, then
\* rules that match nothing.
Dummies    == [k \in 1..IPA_MAX_PRIVATE_SUBNET_ENTRIES |-> dummy]
Listing(t) == [k \in DOMAIN Dummies |-> IF k <= Len(t) THEN t[k] ELSE dummy]

\* What the rules list once they are installed with the table t, the call r refused.
Listed(r, t) == CASE r = "private" -> <<>>
                  [] r = "modify"  -> Dummies
                  [] OTHER         -> IF world.android THEN Listing(t) ELSE t

\* An object that sets its rules to match nothing and then, unless that is refused, to list
\* the table.
Relisted(o, refusal) == [o EXCEPT !.lists = IF refusal THEN Dummies ELSE Listing(table)]

-----------------------------------------------------------------------------
(***************************************************************************)
(* An object.  Refusals: r names the call refused, "no" when none is.        *)
(***************************************************************************)
Init ==
  /\ world \in Worlds
  /\ obj      = [i \in Lans \cup Wlans |-> Gone]
  /\ hw       = [i \in world.ifs |-> Zero]
  /\ count    = [p \in Pipes |-> [v4 |-> 0, v6 |-> 0]]
  /\ table    = <<file>>
  /\ news     = <<>>
  /\ rm       = [tbl |-> [e \in Entries |-> [p |-> FALSE, c |-> FALSE, set |-> FALSE]], a2 |-> 0]
  /\ deps     = {}
  /\ upstream = {}
  /\ tethered = {}
  /\ swrt     = FALSE
  /\ refused  = <<>>

MayRefuse(to, r, calls) ==
  /\ r \in {"no"} \cup calls
  /\ r # "no" => Len(refused) < world.refusals
  /\ refused' = IF r = "no" THEN refused ELSE Append(refused, <<to, r>>)

\* handle_tethering_client: the interface's pipes are named to the modem, or taken back.  Another
\* build has no modem to tell.
handle_tethering_client(reset, i) ==
  IF ~world.android THEN tethered ELSE IF reset THEN tethered \ {i} ELSE tethered \cup {i}

\* The constructors.
Start(i) ==
  /\ Served /\ i \in world.ifs /\ obj[i].live = "none"
  /\ obj'      = [obj EXCEPT ![i] = Fresh]
  /\ tethered' = handle_tethering_client(FALSE, i)
  /\ UNCHANGED <<world, hw, count, table, news, rm, deps, upstream, swrt, refused>>

\* An object that was given the handles of the kinds ks.
WithHandles(o, ks) ==
  [o EXCEPT !.held = [k \in Kinds |-> IF k \in ks THEN Nominal(k) ELSE @[k]],
            !.sw   = @ \/ {"sw4", "sw6"} \subseteq ks]

\* handle_software_routing_enable at an object, as the kinds it installs: refused at IPv6 it
\* has the IPv4 rule and does not hold itself active.
SwOn(o, r) == IF o.sw \/ r = "sw4" THEN {} ELSE IF r = "sw6" THEN {"sw4"} ELSE {"sw4", "sw6"}

\* handle_software_routing_disable, as the kinds it deletes: refused at IPv6 it has deleted
\* the IPv4 rule, holds itself active, and will not get past that handle again.
SwOff(o, r) ==
  IF ~o.sw \/ r = "sw4" \/ o.held["sw4"] = 0 THEN {} ELSE IF r = "sw6" THEN {"sw4"} ELSE {"sw4", "sw6"}

\* handle_addr_evt for an IPv4 address, init_fl_rule, install_ipv4_icmp_flt_rule, then the
\* private subnets' rules: on Android three that match nothing, changed to list the table;
\* elsewhere one for each subnet.  A refused route ends it, any other refusal loses only
\* what it was for.
AddrV4(i, n, r) ==
  /\ Served /\ i \in Up /\ "v4" \notin obj[i].fam /\ Len(news) < MAX_NEWS
  /\ "shared" \notin Allowed => \A j \in Up \ {i} : obj[j].net # n
  /\ "overflow" \notin Allowed /\ world.android =>
       n \in Range(table) \/ Len(table) < IPA_MAX_PRIVATE_SUBNET_ENTRIES
  /\ MayRefuse("install", r, {"rt4", "dft4", "icmp4", "private", "modify", "sw4", "sw6"})
  /\ r = "modify" => world.android
  /\ r \in {"sw4", "sw6"} => swrt /\ ~obj[i].sw
  /\ IF world.android THEN AddPrivateSubnet(i, n) ELSE UNCHANGED <<table, news>>
  /\ LET o  == [obj[i] EXCEPT !.net = n]
         ks == ({"rt4", "dft4", "icmp4", "private"} \ {r}) \cup (IF swrt THEN SwOn(o, r) ELSE {})
     IN  IF r = "rt4"
         THEN /\ obj' = [obj EXCEPT ![i] = o]
              /\ UNCHANGED <<hw, count, rm, deps>>
         ELSE /\ obj' = [obj EXCEPT ![i] = [WithHandles(o, ks) EXCEPT !.fam = @ \cup {"v4"},
                                                                      !.lists = Listed(r, table')]]
              /\ Rules(Only(i, Times(ks)), Only(i, Times(ks)))
              /\ AddRmDepend(ProdOf(i))
  /\ UNCHANGED <<world, upstream, tethered, swrt>>

\* handle_addr_evt for an IPv6 address not seen before: a route in each of two tables and, for
\* the first address, the filter rules.  Refused at the second table, the first route is left
\* without a place for its handle.
AddrV6(i, r) ==
  /\ Served /\ i \in Up /\ obj[i].n6 < MAX_DEFAULT_v6_ROUTE_RULES
  /\ MayRefuse("install", r, {"rt6", "rt6wan", "dft6", "icmp6", "sw4", "sw6"})
  /\ r \in {"dft6", "icmp6"} => obj[i].n6 = 0
  /\ r \in {"sw4", "sw6"} => swrt /\ ~obj[i].sw
  /\ LET o  == obj[i]
         ks == (IF o.n6 = 0 THEN {"dft6", "icmp6"} \ {r} ELSE {})
               \cup (IF swrt THEN SwOn(o, r) ELSE {})
         half == [Zero EXCEPT !["rt6"] = 1]
     IN  IF r \in {"rt6", "rt6wan"}
         THEN /\ Rules(Only(i, IF r = "rt6" THEN Zero ELSE half), Only(i, Zero))
              /\ UNCHANGED <<obj, rm, deps>>
         ELSE /\ obj' = [obj EXCEPT ![i] = [WithHandles(o, ks) EXCEPT
                           !.held["rt6"] = o.held["rt6"] + Nominal("rt6"),
                           !.n6 = @ + 1, !.fam = @ \cup {"v6"}]]
              /\ Rules(Only(i, Times(ks \cup {"rt6"})), Only(i, Times(ks)))
              /\ IF o.n6 = 0 THEN AddRmDepend(ProdOf(i)) ELSE UNCHANGED <<rm, deps>>
  /\ UNCHANGED <<world, table, news, upstream, tethered, swrt>>

\* Mutant: an interface with both families loses only its IPv4 rules.
DownOrder_either(o) == IF "v4" \in o.fam THEN <<"icmp4", "dft4", "private">> ELSE <<"icmp6", "dft6">>

\* The filter rules handle_down_evt deletes, in its order.
DownOrder(o) == (IF "v4" \in o.fam THEN <<"icmp4", "dft4", "private">> ELSE <<>>)
                \o (IF "v6" \in o.fam THEN <<"icmp6", "dft6">> ELSE <<>>)

\* Those it deletes when r is refused, and whether all of them went.
Reached(o, r)    == LET order == DownOrder(o)
                    IN  {order[k] : k \in {k \in DOMAIN order : \A h \in 1..k : order[h] # r}}
FiltersGo(o, r)  == o.fam # {} /\ Reached(o, r) = Range(DownOrder(o))
EndIsMet(o, r)   == FiltersGo(o, r) /\ r # "client"

\* The software routing rules go after the routes, at a LAN after the clients' headers too.
SwGone(i, r) ==
  IF FiltersGo(obj[i], r) /\ (i \in Lans => EndIsMet(obj[i], r)) THEN SwOff(obj[i], r) ELSE {}

\* How many rules of each kind the hardware loses: m of those whose deletion is refused; no
\* more of the private subnets' than the table says.  A refused route is not reported.
Lost(i, r, m) ==
  LET o == obj[i]
  IN  [k \in Kinds |->
        CASE k \in Reached(o, r) \cup SwGone(i, r) ->
               IF k = "private" THEN Min({o.held[k], Nominal(k)}) ELSE o.held[k]
          [] k \in Route /\ FiltersGo(o, r) -> IF r = k THEN o.held[k] - 1 ELSE o.held[k]
          [] k = r                          -> m
          [] OTHER                          -> 0]

\* handle_down_evt of IPACM_Lan and of IPACM_Wlan, and what the link's event does after it.
\* Without an address it goes straight to its end.  Else the filter rules go, kind by kind, to
\* the one refused; the routes; software routing; a LAN's consumer; and at last the private
\* subnet and the pipes the modem was told of.
Down(i, r, m) ==
  LET o    == obj[i]
      ends == EndIsMet(o, r)
  IN  /\ Served /\ i \in Up /\ Len(news) < MAX_NEWS
      /\ "bare" \notin Allowed => o.fam # {}
      /\ MayRefuse("delete", r, {"client", "rt4", "rt6", "sw4", "sw6"} \cup Range(DownOrder(o)))
      /\ r # "no" => o.fam # {}
      /\ r = "client" /\ i \in Lans => o.clients > 0
      /\ r \in Kinds => o.held[r] > 0
      /\ IF r \in Range(DownOrder(o)) THEN m < o.held[r] ELSE m = 0
      /\ Rules(Only(i, Less(Lost(i, r, m))), Only(i, Less(Times(Reached(o, r) \cup SwGone(i, r)))))
      /\ DelRmDepends({ProdOf(i)} \cup (IF ends /\ i \in Lans THEN {"USB_CONS"} ELSE {}))
      /\ tethered' = IF ends THEN handle_tethering_client(TRUE, i) ELSE tethered
      /\ IF world.android /\ ends /\ "v4" \in o.fam
         THEN DelPrivateSubnet(i, o.net) ELSE UNCHANGED <<table, news>>
      /\ obj' = [obj EXCEPT ![i] = [Gone EXCEPT !.live = "dying"]]
      /\ UNCHANGED <<world, upstream, swrt>>

\* LAN_DELETE_SELF.
DeleteSelf(i) ==
  /\ i \in world.ifs /\ obj[i].live = "dying"
  /\ obj' = [obj EXCEPT ![i] = Gone]
  /\ UNCHANGED <<world, hw, count, table, news, rm, deps, upstream, tethered, swrt, refused>>

-----------------------------------------------------------------------------
(***************************************************************************)
(* Events every object handles, and the others that touch what they share.   *)
(***************************************************************************)
\* PRIVATE_SUBNET_CHANGE: every object but the one that posted it, and only on Android, sets
\* its rules to match nothing and then to list the table; refused at j, j's match nothing.
SubnetChange(j) ==
  /\ Served /\ news # <<>>
  /\ j \in {none} \cup {i \in Up \ {Head(news)} : obj[i].held["private"] > 0}
  /\ MayRefuse("change", IF j = none THEN "no" ELSE "modify", {"modify"})
  /\ obj'  = [i \in DOMAIN obj |->
                IF i \in Up \ {Head(news)} /\ obj[i].held["private"] > 0
                THEN Relisted(obj[i], i = j)
                ELSE obj[i]]
  /\ news' = Tail(news)
  /\ UNCHANGED <<world, hw, count, table, rm, deps, upstream, tethered, swrt>>

\* SW_ROUTING_ENABLE and SW_ROUTING_DISABLE at every object, one call of object j refused.
SwRouting(on, j, r) ==
  LET ks(i) == IF i \notin Up THEN {}
               ELSE IF on THEN SwOn(obj[i], IF i = j THEN r ELSE "no")
               ELSE SwOff(obj[i], IF i = j THEN r ELSE "no")
      gain  == [i \in world.ifs |-> IF on THEN Times(ks(i)) ELSE Less(Times(ks(i)))]
  IN  /\ Served /\ swrt # on /\ world.use = "rules"
      /\ "bare" \notin Allowed => \A i \in Up : obj[i].fam # {}
      /\ MayRefuse(IF on THEN "install" ELSE "delete", r, {"sw4", "sw6"})
      /\ IF r = "no" THEN j = none ELSE j \in Up /\ obj[j].sw # on
      /\ swrt' = on
      /\ Rules(gain, gain)
      /\ obj' = [i \in DOMAIN obj |->
                   IF i \notin world.ifs THEN obj[i]
                   ELSE IF on THEN WithHandles(obj[i], ks(i))
                   ELSE [obj[i] EXCEPT !.held = [k \in Kinds |-> IF k \in ks(i) THEN 0 ELSE @[k]],
                                       !.sw   = @ /\ ks(i) # {"sw4", "sw6"}]]
      /\ UNCHANGED <<world, table, news, rm, deps, upstream, tethered>>

\* A client of a LAN gets a route (handle_eth_client_route_rule), or goes
\* (handle_eth_client_down_evt): the consumer comes up with every route and goes down with
\* the last client.
ClientRoute(i) ==
  /\ Served /\ i \in Up \cap Lans /\ obj[i].fam # {} /\ obj[i].clients < MAX_CLIENTS
  /\ world.use = "manager"
  /\ obj' = [obj EXCEPT ![i].clients = @ + 1]
  /\ AddRmDepend("USB_CONS")
  /\ UNCHANGED <<world, hw, count, table, news, upstream, tethered, swrt, refused>>
ClientGone(i) ==
  /\ Served /\ i \in Up \cap Lans /\ obj[i].clients > 0
  /\ obj' = [obj EXCEPT ![i].clients = @ - 1]
  /\ IF obj[i].clients = 1 THEN DelRmDepends({"USB_CONS"}) ELSE UNCHANGED <<rm, deps>>
  /\ UNCHANGED <<world, hw, count, table, news, upstream, tethered, swrt, refused>>

\* The modem's interface is given its default route of a family, or is opened for eMBMS, and
\* loses it again.
Uses == {"v4", "v6"} \cup (IF "third" \in Allowed THEN {"embms"} ELSE {})
UpstreamAdd(u) ==
  /\ Served /\ u \in Uses \ upstream /\ world.use = "manager"
  /\ upstream' = upstream \cup {u}
  /\ AddRmDepend("Q6_CONS")
  /\ UNCHANGED <<world, obj, hw, count, table, news, tethered, swrt, refused>>
UpstreamDel(u) ==
  /\ Served /\ u \in upstream
  /\ upstream' = upstream \ {u}
  /\ DelRmDepends({"Q6_CONS"})
  /\ UNCHANGED <<world, obj, hw, count, table, news, tethered, swrt, refused>>

\* CFG_CHANGE: Init reads the file's subnets, edited or not, over the table.
Reload ==
  /\ Served
  /\ table' \in {<<>>, <<file>>}
  /\ "reload" \notin Allowed => table' = table
  /\ UNCHANGED <<world, obj, hw, count, news, rm, deps, upstream, tethered, swrt, refused>>

Calls == {"no", "client", "modify", "rt6wan"} \cup Kinds
Next ==
  \/ \E i \in world.ifs :
       \/ Start(i) \/ DeleteSelf(i) \/ ClientRoute(i) \/ ClientGone(i)
       \/ \E r \in Calls : AddrV6(i, r) \/ (\E n \in Nets : AddrV4(i, n, r))
                           \/ (\E m \in 0..5 : Down(i, r, m))
  \/ \E j \in world.ifs \cup {none} : SubnetChange(j)
  \/ \E on \in BOOLEAN, j \in world.ifs \cup {none}, r \in {"no", "sw4", "sw6"} : SwRouting(on, j, r)
  \/ \E u \in {"v4", "v6", "embms"} : UpstreamAdd(u) \/ UpstreamDel(u)
  \/ Reload
Spec == Init /\ [][Next]_vars

-----------------------------------------------------------------------------
\* The hardware has the rules whose handles the objects hold and no others: software routing,
\* a second IPv6 address, a private subnet and the interface itself may come and go in any
\* order, and a refused installation loses only its own rules, but for two that stop half way
\* (the second route of an IPv6 address, software routing at IPv6).  As long as nothing is
\* refused, flt_rule_count also says how many filter rules each pipe has (what IPACM_Lan
\* checks when an object deletes itself), and the modem knows the pipes there are.
NothingIsLeft ==
  LET held == [i \in world.ifs |-> obj[i].held]
      none0 == [p \in Pipes |-> [v4 |-> 0, v6 |-> 0]]
  IN  /\ (\A c \in Range(refused) : c[1] # "delete" /\ c[2] \notin {"rt6wan", "sw6"}) => hw = held
      /\ (refused = <<>> => /\ count = FltAfter(none0, held)
                            /\ (world.android => tethered = Up))

\* On Android, once every PRIVATE_SUBNET_CHANGE is served: the table has the nets of the
\* interfaces that have an IPv4 address, and the rules of each of these list the whole table,
\* in whatever order interfaces came, went and came again while events waited.
SubnetsFollow ==
  world.android /\ refused = <<>> /\ news = <<>> =>
    LET on == {i \in Up : "v4" \in obj[i].fam}
    IN  /\ Range(table) = {file} \cup {obj[i].net : i \in on}
        /\ \A i \in on : obj[i].lists = Listing(table)

\* What a side of a dependency is used for; interfaces of different categories only.
InUse(r) == \/ \E i \in Up : obj[i].fam # {} /\ ProdOf(i) = r
            \/ r = "USB_CONS" /\ \E i \in Up : obj[i].clients > 0
            \/ r = "Q6_CONS" /\ upstream # {}
OneEach == \A i, j \in world.ifs : ProdOf(i) = ProdOf(j) => i = j

\* The kernel keeps a producer and a consumer awake for one another exactly while both are in
\* use: an interface with an address, a LAN client with a route, a default route to the modem.
\* Two interfaces of one category are left out: they share a producer, and the first that goes
\* takes it along.
DependenciesAgree ==
  refused = <<>> /\ OneEach =>
    deps = UNION {Pair(e) : e \in {d \in Entries : InUse(RmTable[d].p1) /\ InUse(RmTable[d].c1)}}
=============================================================================
