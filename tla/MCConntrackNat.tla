--------------------------- MODULE MCConntrackNat ---------------------------
(* Small instances of ConntrackNat. *)
EXTENDS ConntrackNat, TLC

CONSTANTS c1, c2, c3, c4, c5, c6, c7, c8, h1, h2, o1, s1, s2, p1, p2

MCPrivateIp == (c1 :> h1) @@ (c2 :> h1) @@ (c3 :> h2) @@ (c4 :> o1)
                 @@ (c5 :> h1) @@ (c6 :> self) @@ (c7 :> o1) @@ (c8 :> h1)
MCTargetIp  == [c \in Conns |-> CASE c = c5 -> s1 [] c = c7 -> s2 [] OTHER -> none]

\* A NAT host and another one while the WAN interface comes and goes; a NAT host with two
\* connections, and the refreshing thread beside the event thread; two NAT hosts that come,
\* go, sleep and wake while it stays up; where it may be a station, a NAT host that stays
\* with two peers and the device's own connection, and a NAT host and another one, both with
\* connections to peers that come and go.
Uplinks  == [conns |-> {c1, c4}, sleepers |-> {}, wanFalls |-> TRUE, timer |-> FALSE,
             modes |-> {FALSE}, stays |-> {}, entries |-> 2, temps |-> 1, hw |-> 2]
Refreshed == [conns |-> {c1, c8}, sleepers |-> {}, wanFalls |-> TRUE, timer |-> TRUE,
              modes |-> {FALSE}, stays |-> {}, entries |-> 2, temps |-> 0, hw |-> 2]
Sleeping == [conns |-> {c1, c2, c3}, sleepers |-> {h1, h2}, wanFalls |-> FALSE, timer |-> FALSE,
             modes |-> {FALSE}, stays |-> {}, entries |-> 3, temps |-> 3, hw |-> 3]
Staying  == [conns |-> {c5, c6}, sleepers |-> {}, wanFalls |-> FALSE, timer |-> FALSE,
             modes |-> BOOLEAN, stays |-> {h1, s1, s2}, entries |-> 2, temps |-> 1, hw |-> 2]
Leaving  == [conns |-> {c5, c7}, sleepers |-> {}, wanFalls |-> FALSE, timer |-> FALSE,
             modes |-> BOOLEAN, stays |-> {}, entries |-> 2, temps |-> 2, hw |-> 2]

MCSettings  == {Uplinks, Refreshed, Sleeping, Staying, Leaving}
MCRefreshed == {Refreshed}

=============================================================================
