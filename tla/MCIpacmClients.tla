--------------------------- MODULE MCIpacmClients ---------------------------
(* Instances of IpacmClients. *)
EXTENDS IpacmClients, TLC

CONSTANTS s1, s2, s3, e1, e2, m1, m2, a1, a2, a3, ll, g1, p1

MCPrefixOf == (ll :> none) @@ (g1 :> p1)

\* Tables of one client each.
Small == [macs |-> {}, addrs |-> {a3}, prefixes |-> {}, wifi |-> 1, eth |-> 1, wan |-> 1,
          neighbors |-> 1, v6 |-> 0, queue |-> 2, android |-> FALSE, odu |-> "none",
          embms |-> FALSE, may |-> {}]

\* Android: two stations that share two IPv4 addresses, on an access point that goes down,
\* with or without the bridge.
Wifi == [Small EXCEPT !.macs = {s1, s2}, !.addrs = {a1, a2}, !.wifi = 2, !.neighbors = 2,
                      !.android = TRUE, !.may = {"apDown", "bridge"}]

\* The other build: a station or an Ethernet host, or with fewer events both, while the
\* WAN's IPv6 comes and goes ...
Alone(m) == [Small EXCEPT !.macs = {m}, !.addrs = {a3, ll, g1}, !.prefixes = {p1}, !.v6 = 2,
                          !.may = {"ethDown"}]
Both == [Small EXCEPT !.macs = {s3, e1}, !.addrs = {a3, g1}, !.prefixes = {p1}, !.v6 = 2,
                      !.queue = 1, !.may = {"ethDown"}]

\* ... and a station while the mode switches.
Mode == [Alone(s3) EXCEPT !.may = {"switch"}]

\* Peers of the uplink while its default route, its link and the mode come and go.
Uplinked == [Small EXCEPT !.macs = {m1, m2}, !.addrs = {a3, ll}, !.neighbors = 2, !.v6 = 1,
                          !.may = {"switch", "route", "staDown"}]

\* A station, a host and a peer, the hardware refusing a header.
Refusing == [Small EXCEPT !.macs = {s3, e1, m1}, !.neighbors = 3, !.android = TRUE,
                          !.may = {"refuse", "apDown", "ethDown", "staDown"}]

\* Two hosts of an ODU.
Odu(o, e) == [Small EXCEPT !.macs = {e1, e2}, !.eth = 2, !.neighbors = 2, !.odu = o,
                           !.embms = e, !.may = {"ethDown"}]

\* The first setting treats its stations and its addresses alike, and the others have neither.
MCSymmetry == Permutations({s1, s2}) \cup Permutations({a1, a2})

MCSettings == {Wifi, Alone(s3), Alone(e1), Both, Mode, Uplinked, Refusing}
                \cup {Odu(o, e) : o \in {"router", "bridge"}, e \in BOOLEAN}

=============================================================================
