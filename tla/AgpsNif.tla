------------------------------ MODULE AgpsNif ------------------------------
(***************************************************************************)
(* One network interface of the location engine and those who use it: the  *)
(* state machine of loc_eng_agps.cpp, run by the message thread; clients   *)
(* that request and release the interface (ATL connections of the modem,   *)
(* or the Wi-Fi daemons); and the Android framework, which opens, closes    *)
(* and sometimes loses the connection.  Clients and framework only post    *)
(* messages; the thread handles them in order.                             *)
(*                                                                         *)
(* A machine is made as agnss_nif or internet_nif ("plain") or as wifi_nif *)
(* ("wifi"), whose subscribers wait for the close, one at a time.          *)
(***************************************************************************)
EXTENDS AgpsStates, Naturals, Sequences

CONSTANTS
  MaxRequests,       \* bound on the requests of each client
  MaxLosses,         \* bound on the connections the framework loses
  MaxRestarts        \* bound on the restarts of the modem

ASSUME BoundsAssumption ==
  MaxRequests \in Nat /\ MaxLosses \in Nat /\ MaxRestarts \in Nat

VARIABLES
  kind,      \* which of the interfaces it is, "plain" or "wifi"
  nif,       \* the state machine
  msgs,      \* the messages the thread has yet to handle
  asked,     \* the requests the framework has yet to read
  conn,      \* the connection, as the framework holds it
  conv,      \* Subscribers -> the conversation, as the client sees it
  used       \* the bounds used up: requests per client, losses, restarts

vars == <<kind, nif, msgs, asked, conn, conv, used>>

\* waitForCloseComplete() of the subscribers; mEnforceSingleSubscriber.
WaitForClose     == kind = "wifi"
SingleSubscriber == kind = "wifi"

Msg(what, who) == [what |-> what, who |-> who]
Event(what)    == Msg(what, "framework")

Post(m) == msgs' = Append(msgs, m)

\* What a client makes of an answer: the modem is told that its connection opened, or did not,
\* or is closed, or was not there to be closed; a Wi-Fi daemon the same in its own words.
\* "lost" is a connection that died with the modem.
atlOpenStatus(c, success) ==
  IF success THEN IF c = "opening" THEN "open" ELSE c
  ELSE IF c = "lost" THEN c ELSE "closed"
atlCloseStatus(c, success) ==
  IF success THEN IF c = "lost" THEN c ELSE "closed"
  ELSE IF c = "closing" THEN "closed" ELSE c
Heard(c, status) ==
  IF status \in {"GRANTED", "DENIED"} THEN atlOpenStatus(c, status = "GRANTED")
                                      ELSE atlCloseStatus(c, status # "NOT_FOUND")

Told(told) ==
  [s \in Subscribers |->
     IF \E st \in Statuses \cup {"NOT_FOUND"} : <<s, st>> \in told
     THEN Heard(conv[s], CHOOSE st \in Statuses \cup {"NOT_FOUND"} : <<s, st>> \in told)
     ELSE conv[s]]

-----------------------------------------------------------------------------
(* Clients and modem *)

Pending(m) == \E i \in DOMAIN msgs : msgs[i] = m

\* A client does not ask again while its release is on the way.
client_request(s) ==
  /\ conv[s] = "closed" /\ ~Pending(Msg("release", s))
  /\ used.requests[s] < MaxRequests
  /\ used' = [used EXCEPT !.requests[s] = @ + 1]
  /\ conv' = [conv EXCEPT ![s] = "opening"]
  /\ Post(Msg("request", s))
  /\ UNCHANGED <<kind, nif, asked, conn>>

client_release(s) ==
  /\ conv[s] \in {"opening", "open"}
  /\ conv' = [conv EXCEPT ![s] = "closing"]
  /\ Post(Msg("release", s))
  /\ UNCHANGED <<kind, nif, asked, conn, used>>

\* errorCb: the modem went down with its connections; the message to restart is
\* posted at once, and no request of the new modem comes before it.  The Wi-Fi daemons
\* are no clients of the modem.
modem_restart ==
  /\ kind = "plain" /\ used.restarts < MaxRestarts
  /\ used' = [used EXCEPT !.restarts = @ + 1]
  /\ conv' = [s \in Subscribers |-> "lost"]
  /\ Post(Event("engineUp"))
  /\ UNCHANGED <<kind, nif, asked, conn>>

-----------------------------------------------------------------------------
(* The framework, which answers through the functions of the interface *)

loc_eng_agps_open        == Post(Event("GRANTED"))
loc_eng_agps_open_failed == Post(Event("DENIED"))
loc_eng_agps_closed      == Post(Event("RELEASED"))

fw_read ==
  /\ asked # <<>>
  /\ asked' = Tail(asked)
  /\ \/ Head(asked) = "REQUEST" /\ conn # "open" /\ conn' = "opening" /\ UNCHANGED msgs
     \/ Head(asked) = "REQUEST" /\ conn = "open" /\ UNCHANGED conn /\ loc_eng_agps_open
     \/ Head(asked) = "RELEASE" /\ conn = "closed" /\ UNCHANGED <<conn, msgs>>
     \/ Head(asked) = "RELEASE" /\ conn # "closed" /\ conn' = "closed"
                                /\ loc_eng_agps_closed
  /\ UNCHANGED <<kind, nif, conv, used>>

fw_opening_ends ==
  /\ conn = "opening"
  /\ \/ conn' = "open" /\ loc_eng_agps_open
     \/ conn' = "closed" /\ loc_eng_agps_open_failed
  /\ UNCHANGED <<kind, nif, asked, conv, used>>

fw_loses ==
  /\ conn = "open"
  /\ used.losses < MaxLosses
  /\ used' = [used EXCEPT !.losses = @ + 1]
  /\ conn' = "closed"
  /\ loc_eng_agps_closed
  /\ UNCHANGED <<kind, nif, asked, conv>>

-----------------------------------------------------------------------------
(* The message thread *)

Handle(what) ==
  /\ msgs # <<>>
  /\ Head(msgs).what = what
  /\ msgs' = Tail(msgs)
  /\ UNCHANGED <<kind, conn, used>>

Become(r) ==
  /\ nif' = r.m
  /\ conv' = Told(r.told)
  /\ asked' = asked \o Sent(r.m, r.action)

\* LocEngRequestATL, LocEngReqRelWifi, LocEngReqRelBIT; subscribeRsrc
subscribeRsrc ==
  /\ Handle("request")
  /\ LET s == Head(msgs).who IN
     IF SingleSubscriber /\ hasSubscribers(nif)
     THEN Become(Outcome(nif, Tell({s}, "DENIED"), "none"))
     ELSE Become(Subscribe(nif, s, TRUE))

\* LocEngReleaseATL, LocEngReqRelWifi, LocEngReqRelBIT; unsubscribeRsrc.  Only an ATL
\* connection is told when it is not found.
unsubscribeRsrc ==
  /\ Handle("release")
  /\ LET s == Head(msgs).who IN
     IF nif.list[s] = "out"
     THEN Become(Outcome(nif, IF WaitForClose THEN {} ELSE Tell({s}, "NOT_FOUND"), "none"))
     ELSE Become(Unsubscribe(nif, s, WaitForClose))

\* LocEngAtlOpenSuccess, LocEngAtlClosed, LocEngAtlOpenFailed
LocEngAtlOpenSuccess == Handle("GRANTED") /\ Become(Granted(nif))
LocEngAtlClosed      == Handle("RELEASED") /\ Become(Closed(nif))
LocEngAtlOpenFailed  == Handle("DENIED") /\ Become(Denied(nif))

\* LocEngUp: loc_eng_handle_engine_up drops the subscribers and leaves the state.  The modem
\* is there for new conversations, unless it went down once more.
LocEngUp ==
  /\ Handle("engineUp")
  /\ nif' = dropAllSubscribers(nif)
  /\ conv' = [s \in Subscribers |->
               IF conv[s] = "lost" /\ ~Pending(Event("engineUp"))' THEN "closed" ELSE conv[s]]
  /\ UNCHANGED asked

MsgThread == \/ subscribeRsrc
             \/ unsubscribeRsrc
             \/ LocEngAtlOpenSuccess
             \/ LocEngAtlClosed
             \/ LocEngAtlOpenFailed
             \/ LocEngUp

-----------------------------------------------------------------------------
NewNif ==
  /\ kind \in {"plain", "wifi"}
  /\ nif = NewMachine
  /\ msgs = <<>>
  /\ asked = <<>>
  /\ conn = "closed"
  /\ conv = [s \in Subscribers |-> "closed"]

Init ==
  NewNif /\ used = [requests |-> [s \in Subscribers |-> 0], losses |-> 0, restarts |-> 0]

Next ==
  \/ \E s \in Subscribers : client_request(s) \/ client_release(s)
  \/ modem_restart
  \/ fw_read
  \/ fw_opening_ends
  \/ fw_loses
  \/ MsgThread

\* The thread handles what is posted, and the framework reads what it is asked and
\* finishes what it opens.  Nothing obliges a client.
Fairness == WF_vars(MsgThread) /\ WF_vars(fw_read) /\ WF_vars(fw_opening_ends)

Spec == Init /\ [][Next]_vars /\ Fairness

-----------------------------------------------------------------------------
(* Properties *)

MsgType == [what : {"request", "release"}, who : Subscribers]
             \cup [what : {"GRANTED", "RELEASED", "DENIED", "engineUp"}, who : {"framework"}]

\* Every variable has the type its declaration says.
TypeOK ==
  /\ kind \in {"plain", "wifi"} /\ nif \in Machine
  /\ msgs \in Seq(MsgType)
  /\ asked \in Seq({"REQUEST", "RELEASE"})
  /\ conn \in {"closed", "opening", "open"}
  /\ conv \in [Subscribers -> {"closed", "opening", "open", "closing", "lost"}]
  /\ used \in [requests : [Subscribers -> 0 .. MaxRequests],
               losses : 0 .. MaxLosses, restarts : 0 .. MaxRestarts]

\* A client that waits for the interface, or uses it, is on the list as active as
\* soon as its request has been handled: no event of others drops it without an answer.
ClientsAreListed ==
  \A s \in Subscribers :
    conv[s] \in {"opening", "open"} /\ ~Pending(Msg("request", s)) => nif.list[s] = "active"

\* Conversely an active subscriber is a client that has not been told no, or its
\* release is on the way: the interface is never held for a client that is gone.
ActiveIsWanted ==
  \A s \in Subscribers :
    nif.list[s] = "active" => conv[s] # "closed" \/ Pending(Msg("release", s))

\* A client that was granted the interface finds it acquired and connected, or the
\* notice that the connection is gone is already among the messages.
OpenIsBacked ==
  \A s \in Subscribers : conv[s] = "open" =>
    nif.state = "Acquired" /\ (conn = "open" \/ Pending(Event("RELEASED")))

\* When all is handled and nobody is subscribed the Wi-Fi connection is not left open.
IdleIsClosed ==
  kind = "wifi" /\ msgs = <<>> /\ asked = <<>> /\ ~hasSubscribers(nif) => conn # "open"

\* A request is answered, and a release is too.
Answered ==
  \A s \in Subscribers :
    /\ conv[s] = "opening" ~> conv[s] # "opening"
    /\ conv[s] = "closing" ~> conv[s] # "closing"

\* Clients, machine and framework agree at every moment, however requests, releases,
\* refusals, losses and a restart of the modem overtake each other: nobody is dropped
\* without an answer, the interface is held for nobody who is gone, and nobody uses a
\* connection that is not there.
InterfaceIsSound ==
  TypeOK /\ ClientsAreListed /\ ActiveIsWanted /\ OpenIsBacked /\ IdleIsClosed

=============================================================================
