---------------------------- MODULE MCIpacmEvents ----------------------------
(* Small instances of two parts of IPACM that hear of interfaces: IpacmEvents,  *)
(* which makes their objects, and IpacmModem, which decides their packets.      *)
(* They share nothing here, so a behaviour has one of them only; the other      *)
(* stays as it began.                                                           *)
EXTENDS IpacmEvents, IpacmModem, TLC

CONSTANTS r1, w1, q1, q2

Entry(f, protos, src, dport, type) ==
  [fam |-> f, protos |-> protos, src |-> src, sport |-> {}, dport |-> dport, type |-> type]

Off   == [enable |-> FALSE, accept |-> FALSE, entries |-> <<Entry("v4", {"tcp"}, {}, {2}, {})>>]
Allow == [enable |-> TRUE, accept |-> TRUE,
          entries |-> <<Entry("v4", {"tcp", "udp"}, {}, 2 .. 3, {}), Entry("v6", {"tcp"}, {2, 3}, {3}, {})>>]
Block == [enable |-> TRUE, accept |-> FALSE,
          entries |-> <<Entry("v6", {"tcp", "udp"}, {}, {}, {}), Entry("v4", {"udp"}, {1}, {}, {})>>]
\* More than the modem takes.
Many  == [enable |-> TRUE, accept |-> TRUE, entries |-> [i \in 1 .. 5 |-> Entry("v4", {"tcp", "udp"}, {}, {i}, {})]]

World(pdns, embms, routing, sta, files) ==
  [pdns |-> pdns, multicast |-> embms, routing |-> routing, station |-> sta, files |-> files]
Still    == World({}, FALSE, FALSE, FALSE, {Off})
MCWorlds == {World({q1, q2}, FALSE, TRUE, FALSE, {Allow, Many}),
             World({q1}, TRUE, TRUE, FALSE, {Allow, Block}),
             World({}, FALSE, FALSE, TRUE, {Off, Allow, Block}), Still}
MCAlgs == <<[port |-> 1, proto |-> "tcp"]>>

VARIABLE part

mcVars == <<vars, modemVars, part>>

MCInit ==
  /\ Init /\ ModemInit
  /\ \/ part = "events" /\ world = Still
     \/ part = "modem" /\ file = "LAN" /\ world # Still

Events(A) == part = "events" /\ A /\ UNCHANGED <<modemVars, part>>
Modem(A)  == part = "modem" /\ A /\ UNCHANGED <<vars, part>>

MCSpec ==
  /\ MCInit /\ [][Events(Next) \/ Modem(ModemNext)]_mcVars
  /\ WF_mcVars(Events(Process)) /\ WF_mcVars(Events(netlink_posts))

=============================================================================
