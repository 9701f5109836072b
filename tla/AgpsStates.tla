----------------------------- MODULE AgpsStates -----------------------------
(***************************************************************************)
(* The transitions of an AGPS resource state machine (loc_eng_agps.cpp): a *)
(* network interface is Released, Pending, Acquired or Releasing, and a    *)
(* list holds its subscribers, each active or (it has unsubscribed but     *)
(* waits for the interface to close) inactive.                             *)
(*                                                                         *)
(* A transition returns the machine after it, what it tells to whom, and   *)
(* the action sendRsrcRequest is called with, "none" when it is not called.*)
(***************************************************************************)
CONSTANT Subscribers

States   == {"Released", "Pending", "Acquired", "Releasing"}
Statuses == {"GRANTED", "DENIED", "RELEASED", "UNSUBSCRIBE"}
Machine  == [state : States, list : [Subscribers -> {"out", "active", "inactive"}]]

NewMachine == [state |-> "Released", list |-> [s \in Subscribers |-> "out"]]

Actives(m)   == {s \in Subscribers : m.list[s] = "active"}
Inactives(m) == {s \in Subscribers : m.list[s] = "inactive"}

hasSubscribers(m)       == Actives(m) \cup Inactives(m) # {}
hasActiveSubscribers(m) == Actives(m) # {}

Outcome(m, told, action) == [m |-> m, told |-> told, action |-> action]
Tell(S, status) == S \X {status}

InState(m, st) == [m EXCEPT !.state = st]
Without(m, S) == [m EXCEPT !.list = [s \in Subscribers |-> IF s \in S THEN "out" ELSE @[s]]]

dropAllSubscribers(m) == Without(m, Subscribers)

\* addSubscriber: a subscriber already in the list, active or not, stays as it is.
addSubscriber(m, s) == IF m.list[s] = "out" THEN [m EXCEPT !.list[s] = "active"] ELSE m

\* RSRC_SUBSCRIBE.  started tells whether sendRsrcRequest, which only the Released
\* state calls here, returned success.
Subscribe(m, s, started) ==
  IF m.state = "Released"
  THEN Outcome(InState(addSubscriber(m, s), IF started THEN "Pending" ELSE "Released"),
               {}, "REQUEST")
  ELSE Outcome(addSubscriber(m, s),
               IF m.state = "Acquired" THEN Tell({s}, "GRANTED") ELSE {}, "none")

\* RSRC_UNSUBSCRIBE of a subscriber in the list.  One that waits for the close to
\* complete turns inactive; what that tells is left to the subscriber.
Unsubscribe(m, s, waitForCloseComplete) ==
  LET left == IF waitForCloseComplete THEN [m EXCEPT !.list[s] = "inactive"]
                                      ELSE Without(m, {s})
      told == IF waitForCloseComplete THEN {} ELSE Tell({s}, "UNSUBSCRIBE")
  IN  IF m.state = "Released" THEN Outcome(m, Tell({s}, "UNSUBSCRIBE"), "none")
      ELSE IF ~hasSubscribers(left)
      THEN Outcome(InState(left, "Released"), told,
                   IF m.state = "Releasing" THEN "none" ELSE "RELEASE")
      ELSE IF ~hasActiveSubscribers(left) /\ m.state # "Releasing"
      THEN Outcome(InState(left, "Releasing"), told, "RELEASE")
      ELSE Outcome(left, told, "none")

\* Mutant: who is told of the grant is taken off the list.
Granted_deletes(m) ==
  IF m.state = "Pending"
  THEN Outcome(InState(Without(m, Actives(m)), "Acquired"), Tell(Actives(m), "GRANTED"), "none")
  ELSE Outcome(m, {}, "none")

\* RSRC_GRANTED
Granted(m) ==
  IF m.state = "Pending"
  THEN Outcome(InState(m, "Acquired"), Tell(Actives(m), "GRANTED"), "none")
  ELSE Outcome(m, {}, "none")

\* Everybody is told and taken off the list.
Dismiss(m, status) ==
  Outcome(NewMachine, Tell(Actives(m) \cup Inactives(m), status), "none")

\* The inactive are told and taken off; if others wait the interface is asked for
\* again.
Rearm(m, status) ==
  LET left == Without(m, Inactives(m))
      told == Tell(Inactives(m), status)
  IN  IF hasActiveSubscribers(m) THEN Outcome(InState(left, "Pending"), told, "REQUEST")
      ELSE Outcome(InState(left, "Released"), told, "none")

\* RSRC_RELEASED and RSRC_DENIED
Closed(m) ==
  IF m.state = "Acquired" THEN Dismiss(m, "RELEASED")
  ELSE IF m.state = "Releasing" THEN Rearm(m, "RELEASED")
  ELSE Outcome(m, {}, "none")

Denied(m) ==
  IF m.state = "Pending" THEN Dismiss(m, "DENIED")
  ELSE IF m.state = "Releasing" THEN Rearm(m, "DENIED")
  ELSE Outcome(m, {}, "none")

\* AgpsStateMachine::sendRsrcRequest calls the servicer only when the request
\* agrees with the list: a release when nobody is active, else a request.
Sent(m, action) ==
  IF action # "none" /\ (Actives(m) = {}) = (action = "RELEASE") THEN <<action>> ELSE <<>>

=============================================================================
