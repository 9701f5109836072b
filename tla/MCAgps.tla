------------------------------- MODULE MCAgps -------------------------------
(* Small instances of AgpsNif and AgpsDs.  A behaviour has one part: an      *)
(* ordinary interface by itself, two emergency connections over a data call  *)
(* that may fail or drop, or one emergency connection and a data service     *)
(* that is busy or refuses.  The bounds are those of the part that needs     *)
(* most; another starts with some of them used up.                           *)
EXTENDS AgpsDs

CONSTANTS c1, c2

VARIABLE part

mcVars == <<allVars, part>>

Requests(n1, n2) == [s \in Subscribers |-> IF s = c1 THEN n1 ELSE n2]
DsStart(n1, n2, faults) ==
  /\ NewNif /\ kind = "plain" /\ NewDs
  /\ used = [requests |-> Requests(n1, n2), losses |-> MaxLosses, restarts |-> MaxRestarts]
  /\ dsUsed = [faults |-> faults, drops |-> 0]

MCInit ==
  \/ part = "interface" /\ Init /\ NewDs /\ dsUsed = [faults |-> MaxFaults, drops |-> MaxDrops]
  \/ part = "calls" /\ DsStart(MaxRequests - 1, MaxRequests - 1, MaxFaults)
  \/ part = "retries" /\ DsStart(MaxRequests - 1, MaxRequests, 0)

Interface(A) == part = "interface" /\ A /\ UNCHANGED <<dsVars, part>>
Emergency(A) == part # "interface" /\ A /\ UNCHANGED part

MCNext == Interface(Next) \/ Emergency(DsNext)

\* The fairness of the two specifications.
MCFairness ==
  /\ WF_mcVars(Interface(MsgThread) \/ Emergency(DsThread))
  /\ WF_mcVars(Interface(fw_read) \/ Emergency(fw_read /\ UNCHANGED dsVars))
  /\ WF_mcVars(Interface(fw_opening_ends) \/ Emergency(fw_opening_ends /\ UNCHANGED dsVars))
  /\ WF_mcVars(Emergency(call_event))
  /\ WF_mcVars(Emergency(retryCallback))

MCSpec == MCInit /\ [][MCNext]_mcVars /\ MCFairness

\* InterfaceIsSound and EmergencyIsSound, each in its own parts.
SoundAtAnyTime ==
  IF part = "interface" THEN InterfaceIsSound ELSE EmergencyIsSound

\* Every request and every release is answered, whatever fails, drops, is refused or
\* restarts meanwhile; and when all clients have closed, the emergency call ends, unless a
\* new request comes.
AnsweredAndEnded ==
  /\ Answered
  /\ part = "calls" /\ (\A s \in Subscribers : conv[s] = "closed")
       ~> (call = "none" \/ \E s \in Subscribers : conv[s] # "closed")

=============================================================================
