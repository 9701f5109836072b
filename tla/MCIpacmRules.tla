---------------------------- MODULE MCIpacmRules ----------------------------
EXTENDS IpacmRules, TLC
CONSTANTS u1, w1, w2, n1, n2, n3

\* A USB interface and an access point in both builds, with a refusal on Android and of either
\* interface alone on Linux; two access points and a USB interface on Android; and the
\* resource manager.
MCWorld(android, ifs, use, refusals) ==
  [android |-> android, ifs |-> ifs, use |-> use, refusals |-> refusals]
MCWorlds == {MCWorld(TRUE,  {u1, w1}, "rules", 1),
             MCWorld(FALSE, {u1, w1}, "rules", 0),
             MCWorld(FALSE, {u1}, "rules", 1),
             MCWorld(FALSE, {w1}, "rules", 1),
             MCWorld(TRUE,  {u1, w1, w2}, "rules", 0),
             MCWorld(TRUE,  {u1, w1}, "manager", 0)}
MCSymmetry == Permutations({n1, n2, n3})
=============================================================================
