--------------------------- MODULE MCIpacmBridge ---------------------------
(* One wired interface and two access points; both access points have the  *)
(* same frame header, so that the wired one counts two peers of it.        *)
EXTENDS IpacmBridge

CONSTANTS eth0, w1, w2

MCL2 == (eth0 :> "ETH_II") @@ (w1 :> "802_3") @@ (w2 :> "802_3")
MCWorlds == {[fams |-> {"v4", "v6"}, channels |-> FALSE, room |-> 2],
             [fams |-> {"v4"}, channels |-> TRUE, room |-> 2],
             [fams |-> {"v4"}, channels |-> FALSE, room |-> 1]}
MCSymmetry == Permutations(Macs) \cup Permutations({w1, w2})
=============================================================================
