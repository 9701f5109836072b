----------------------------- MODULE NatService -----------------------------
(***************************************************************************)
(* What the NAT tables promise, whatever their layout: which flows the     *)
(* hardware translates, in which directions, and which flows the client    *)
(* owns a rule for.  The promise ends with the first request that the      *)
(* kernel refuses.                                                         *)
(***************************************************************************)
CONSTANT Flows

VARIABLES
  force,    \* Flows -> the directions in force: "none", "both", "down", "up", "unknown"
  owned,    \* the flows the client holds a rule handle for
  refused   \* a request was refused

vars == <<force, owned, refused>>

Init == force = [f \in Flows |-> "none"] /\ owned = {} /\ refused = FALSE

\* A rule takes effect in both directions with one write ...
Enable(f) ==
  /\ force[f] = "none"
  /\ f \notin owned
  /\ force' = [force EXCEPT ![f] = "both"]
  /\ UNCHANGED owned

\* ... and only then is its handle given out.
Own(f) ==
  /\ force[f] = "both"
  /\ owned' = owned \cup {f}
  /\ UNCHANGED force

\* Only an owner withdraws a rule: uplink first, then downlink, then the handle.
StopUp(f) ==
  /\ f \in owned
  /\ force[f] = "both"
  /\ force' = [force EXCEPT ![f] = "down"]
  /\ UNCHANGED owned

StopDown(f) ==
  /\ f \in owned
  /\ force[f] = "down"
  /\ force' = [force EXCEPT ![f] = "none"]
  /\ UNCHANGED owned

Disown(f) ==
  /\ force[f] = "none"
  /\ owned' = owned \ {f}
  /\ UNCHANGED force

\* Nothing is promised any more.
Refuse ==
  /\ refused' = TRUE
  /\ force' = [f \in Flows |-> "unknown"]
  /\ owned' \in SUBSET Flows

Next ==
  \/ /\ \E f \in Flows : Enable(f) \/ Own(f) \/ StopUp(f) \/ StopDown(f) \/ Disown(f)
     /\ UNCHANGED refused
  \/ Refuse

Spec == Init /\ [][Next]_vars

=============================================================================
