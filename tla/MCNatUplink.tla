----------------------------- MODULE MCNatUplink -----------------------------
(* Small instances of ConntrackNat and IpacmUpstream.  The upstream decides    *)
(* when there is a NAT table, and ConntrackNat lets its WAN interface come and *)
(* go in every way IpacmUpstream may, so a behaviour has one of them only; the *)
(* other stays as it began.                                                    *)
EXTENDS MCConntrackNat, IpacmUpstream

CONSTANTS q1, q2, w1, d1, d2

\* Android with two interfaces of the modem, or two tethered; Linux with one and a station.
MCWorlds == {[android |-> TRUE,  wans |-> {q1, q2}, downs |-> {d1}],
             [android |-> TRUE,  wans |-> {q1}, downs |-> {d1, d2}],
             [android |-> FALSE, wans |-> {q1, w1}, downs |-> {d1}]}

VARIABLE part

mcVars == <<vars, uplinkVars, part>>

MCInit ==
  /\ Init /\ UplinkInit
  /\ \/ part = "conns" /\ ~world.android
     \/ part = "uplink" /\ setting = Uplinks

Connections(A) == part = "conns" /\ A /\ UNCHANGED <<uplinkVars, part>>
Uplink(A)      == part = "uplink" /\ A /\ UNCHANGED <<vars, part>>

\* The two public addresses are alike, and so are the two versions of the firewall's file.
MCSymmetry == Permutations({p1, p2}) \cup Permutations(Firewall)

MCSpec == MCInit /\ [][Connections(Next) \/ Uplink(UplinkNext)]_mcVars

=============================================================================
