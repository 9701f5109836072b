------------------------------- MODULE AgpsDs -------------------------------
(***************************************************************************)
(* Emergency SUPL: the DSStateMachine of loc_eng_agps.cpp, the data call   *)
(* it starts through ds_client.c, the retry timer, and the ordinary AGNSS  *)
(* interface (AgpsNif) it falls back to.  The modem asks for an emergency  *)
(* connection and releases it; a release is offered to agnss_nif first.    *)
(*                                                                         *)
(* DSSubscribers wait for the close; the client is told of its close when  *)
(* it turns inactive, and of the end of the call not at all.               *)
(***************************************************************************)
EXTENDS AgpsNif, FiniteSets

CONSTANTS
  MaxRetries,     \* MAX_START_DATA_CALL_RETRIES
  MaxFaults,      \* bound on the calls that cannot be started
  MaxDrops        \* bound on the calls that fail or end by themselves

ASSUME DsBoundsAssumption == MaxRetries \in Nat /\ MaxFaults \in Nat /\ MaxDrops \in Nat
ASSUME SubscribersAssumption == IsFiniteSet(Subscribers)

VARIABLES
  ds,        \* the state machine
  order,     \* the order of its list, <<newer, older>>
  call,      \* the data call, as the modem's data service has it
  handle,    \* dsClientHandle: null, or what dsi_net_handle in it is
  retries,   \* mRetries
  timers,    \* retry timers that are running
  dsUsed     \* the bounds used up

dsVars == <<ds, order, call, handle, retries, timers, dsUsed>>

\* The first active subscriber of the list, if there is one.
FirstActive(o, m) == {s \in Actives(m) : \A t \in Actives(m) \ {s} : <<s, t>> \in o}

\* What ds_client_open_call and ds_client_start_call may answer.
StartResults == {"success", "busy", "noProfile", "startFailed"}

-----------------------------------------------------------------------------
(* The modem and its data service *)

client_request_es(s) ==
  /\ conv[s] = "closed" /\ ~Pending(Msg("release", s))
  /\ used.requests[s] < MaxRequests
  /\ used' = [used EXCEPT !.requests[s] = @ + 1]
  /\ conv' = [conv EXCEPT ![s] = "opening"]
  /\ Post(Msg("requestEs", s))
  /\ UNCHANGED <<kind, nif, asked, conn, dsVars>>

\* net_ev_cb: a call that was started comes up or fails, a stopped one ends.
call_event ==
  /\ \/ call = "starting" /\ call' = "up" /\ Post(Event("dsOpened")) /\ UNCHANGED dsUsed
     \/ /\ call = "starting" /\ dsUsed.drops < MaxDrops
        /\ call' = "none" /\ Post(Event("dsClosed"))
        /\ dsUsed' = [dsUsed EXCEPT !.drops = @ + 1]
     \/ call = "stopping" /\ call' = "none" /\ Post(Event("dsClosed")) /\ UNCHANGED dsUsed
  /\ UNCHANGED <<kind, nif, asked, conn, conv, used, ds, order, handle, retries, timers>>

\* net_ev_cb: a call ends by itself.
call_drops ==
  /\ call = "up" /\ dsUsed.drops < MaxDrops
  /\ call' = "none" /\ Post(Event("dsClosed"))
  /\ dsUsed' = [dsUsed EXCEPT !.drops = @ + 1]
  /\ UNCHANGED <<kind, nif, asked, conn, conv, used, ds, order, handle, retries, timers>>

\* delay_callback, retryCallback: on the timer's own thread.
retryCallback ==
  /\ timers > 0
  /\ timers' = timers - 1
  /\ \/ FirstActive(order, ds) = {} /\ UNCHANGED msgs
     \/ \E s \in FirstActive(order, ds) : Post(Msg("requestEs", s))
  /\ UNCHANGED <<kind, nif, asked, conn, conv, used, ds, order, call, handle, retries, dsUsed>>

-----------------------------------------------------------------------------
(* DSStateMachine::sendRsrcRequest and informStatus *)

\* A RELEASED gives the handle back: LocApiV02::closeDataCall.
closeDataCall(told) == IF \E s \in Subscribers : <<s, "RELEASED">> \in told THEN "null" ELSE handle

\* LocApiV02::openAndStartDataCall.  A busy service leaves a handle without a net
\* handle, a refused start one with it.
openAndStartDataCall(result, old) ==
  /\ result # "success" => dsUsed.faults < MaxFaults
  /\ dsUsed' = IF result = "success" THEN dsUsed ELSE [dsUsed EXCEPT !.faults = @ + 1]
  /\ call' = IF result = "success" THEN "starting" ELSE call
  /\ handle' = IF result = "busy" THEN "dead"
               ELSE IF result = "noProfile" THEN old ELSE "ready"

\* Mutant: only a call that is up is stopped.
stopDataCall_upOnly ==
  call' = (IF handle = "ready" /\ call = "up" THEN "stopping" ELSE call) /\ UNCHANGED dsUsed

\* LocApiV02::stopDataCall: of no effect without a call.
stopDataCall ==
  /\ call' = IF handle = "ready" /\ call \in {"starting", "up"} THEN "stopping" ELSE call
  /\ UNCHANGED dsUsed

\* dataCallCb: what the machine asks of the data call, and the result of a start.
dataCallCb(action, result, old) ==
  IF action = "REQUEST" THEN openAndStartDataCall(result, old) ELSE stopDataCall

\* The list in its order: what m leaves of it, a new subscriber first.
Lined(m) ==
  {p \in Subscribers \X Subscribers :
     /\ p[1] # p[2] /\ m.list[p[1]] # "out" /\ m.list[p[2]] # "out"
     /\ p \in order \/ ds.list[p[1]] = "out"}

\* What of it is told, in the order of the list.
InOrder(S, o) ==
  {q \in [1 .. Cardinality(S) -> S] :
     /\ \A s \in S : \E i \in DOMAIN q : q[i] = s
     /\ \A i, j \in DOMAIN q : i < j => <<q[i], q[j]>> \in o}

\* requestATL(ID, AGPS_TYPE_SUPL): these ask for the ordinary interface.
Fallback(S, o) ==
  \E q \in InOrder(S, o) : msgs' = Tail(msgs) \o [i \in DOMAIN q |-> Msg("request", q[i])]

\* informStatus: GRANTED and UNSUBSCRIBE go to the client, RELEASED gives the handle
\* back and tells nobody, DENIED falls back.
informStatus(told) ==
  LET denied == {s \in Subscribers : <<s, "DENIED">> \in told} IN
  /\ conv' = Told({t \in told : t[2] \in {"GRANTED", "UNSUBSCRIBE"}})
  /\ handle' = closeDataCall(told)
  /\ Fallback(denied, order)
  /\ retries' = IF denied # {} THEN 0 ELSE retries

\* sendRsrcRequest(GPS_REQUEST_AGPS_DATA_CONN), answered with result: the first active
\* subscriber falls back, or a timer is started to try again.
startCall(m, told, result) ==
  LET tryLater == result = "busy" /\ retries < MaxRetries
      fallsBack == result # "success" /\ ~tryLater
  IN  /\ dataCallCb("REQUEST", result, closeDataCall(told))
      /\ conv' = Told({t \in told : t[2] \in {"GRANTED", "UNSUBSCRIBE"}})
      /\ Fallback(IF fallsBack THEN FirstActive(Lined(m), m) ELSE {}, Lined(m))
      /\ retries' = IF tryLater THEN retries + 1 ELSE IF fallsBack THEN 0 ELSE retries
      /\ timers' = IF tryLater THEN timers + 1 ELSE timers

DsMachine(m) == ds' = m /\ order' = Lined(m)

-----------------------------------------------------------------------------
(* The message thread *)

Took(what) == msgs # <<>> /\ Head(msgs).what = what

\* LocEngRequestSuplEs.  The Released state stays when the call cannot be started.
LocEngRequestSuplEs ==
  /\ Took("requestEs")
  /\ LET s == Head(msgs).who IN
     IF ds.state = "Released"
     THEN \E result \in StartResults :
            LET r == Subscribe(ds, s, result = "success")
            IN  DsMachine(r.m) /\ startCall(r.m, r.told, result)
     ELSE LET r == Subscribe(ds, s, TRUE)
          IN  /\ DsMachine(r.m)
              /\ informStatus(r.told)
              /\ UNCHANGED <<call, timers, dsUsed>>
  /\ UNCHANGED <<kind, nif, asked, conn, used>>

\* LocEngSuplEsOpened
LocEngSuplEsOpened ==
  /\ Took("dsOpened")
  /\ DsMachine(Granted(ds).m)
  /\ informStatus(Granted(ds).told)
  /\ UNCHANGED <<kind, nif, asked, conn, used, call, timers, dsUsed>>

\* LocEngSuplEsClosed, DSStateMachine::onRsrcEvent: a RELEASED that changes no state
\* counts as DENIED.
LocEngSuplEsClosed ==
  /\ Took("dsClosed")
  /\ LET released == Closed(ds)
         r == IF released.m.state # ds.state THEN released ELSE Denied(ds)
     IN  /\ DsMachine(r.m)
         /\ IF r.action = "REQUEST"
            THEN \E result \in StartResults : startCall(r.m, r.told, result)
            ELSE informStatus(r.told) /\ UNCHANGED <<call, timers, dsUsed>>
  /\ UNCHANGED <<kind, nif, asked, conn, used>>

\* LocEngReleaseATL: agnss_nif first, then ds_nif; setInactive tells the client.
LocEngReleaseATL ==
  /\ Took("release")
  /\ LET s == Head(msgs).who IN
     IF nif.list[s] # "out" \/ ds.list[s] = "out"
     THEN unsubscribeRsrc /\ UNCHANGED dsVars
     ELSE LET r == Unsubscribe(ds, s, TRUE)
          IN  /\ DsMachine(r.m)
              /\ informStatus(r.told \cup Tell({s}, "UNSUBSCRIBE"))
              /\ IF r.action = "RELEASE" THEN dataCallCb(r.action, "success", handle) ELSE UNCHANGED <<call, dsUsed>>
              /\ UNCHANGED <<kind, nif, asked, conn, used, timers>>

DsThread == \/ LocEngRequestSuplEs
            \/ LocEngSuplEsOpened
            \/ LocEngSuplEsClosed
            \/ LocEngReleaseATL
            \/ /\ \/ subscribeRsrc
                  \/ LocEngAtlOpenSuccess
                  \/ LocEngAtlClosed
                  \/ LocEngAtlOpenFailed
               /\ UNCHANGED dsVars

-----------------------------------------------------------------------------
NewDs ==
  /\ ds = NewMachine
  /\ order = {}
  /\ call = "none"
  /\ handle = "null"
  /\ retries = 0
  /\ timers = 0

DsInit == Init /\ kind = "plain" /\ NewDs /\ dsUsed = [faults |-> 0, drops |-> 0]

\* The modem asks for emergency connections only; the ordinary interface is there for
\* those that fall back.
DsNext ==
  \/ \E s \in Subscribers : client_request_es(s)
  \/ \E s \in Subscribers : client_release(s) /\ UNCHANGED dsVars
  \/ fw_read /\ UNCHANGED dsVars
  \/ fw_opening_ends /\ UNCHANGED dsVars
  \/ call_event
  \/ call_drops
  \/ retryCallback
  \/ DsThread

allVars == <<vars, dsVars>>

\* The thread handles what is posted, the framework and the data service answer what
\* they are asked, timers expire.
DsFairness ==
  /\ WF_allVars(DsThread)
  /\ WF_allVars(fw_read /\ UNCHANGED dsVars)
  /\ WF_allVars(fw_opening_ends /\ UNCHANGED dsVars)
  /\ WF_allVars(call_event)
  /\ WF_allVars(retryCallback)

DsSpec == DsInit /\ [][DsNext]_allVars /\ DsFairness

-----------------------------------------------------------------------------
(* Properties *)

DsMsgType == MsgType \cup [what : {"requestEs"}, who : Subscribers]
               \cup [what : {"dsOpened", "dsClosed"}, who : {"framework"}]

\* Every variable has the type its declaration says.
DsTypeOK ==
  /\ nif \in Machine /\ ds \in Machine
  /\ msgs \in Seq(DsMsgType)
  /\ asked \in Seq({"REQUEST", "RELEASE"})
  /\ order \subseteq Subscribers \X Subscribers
  /\ call \in {"none", "starting", "up", "stopping"}
  /\ handle \in {"null", "dead", "ready"}
  /\ retries \in 0 .. MaxRetries
  /\ timers \in Nat
  /\ conv \in [Subscribers -> {"closed", "opening", "open", "closing"}]
  /\ dsUsed \in [faults : 0 .. MaxFaults, drops : 0 .. MaxDrops]

\* The emergency call has an owner that will stop it: it never runs while the machine
\* is Released, and an Acquired machine has its call up or about to hear that it ended.
CallIsOwned ==
  /\ call # "none" => ds.state # "Released"
  /\ ds.state = "Acquired" => call = "up" \/ Pending(Event("dsClosed"))

\* A client that still waits is on one of the two lists, or a message will put it there.
WaitingIsListed ==
  \A s \in Subscribers : conv[s] = "opening" =>
    \/ nif.list[s] = "active" \/ ds.list[s] = "active"
    \/ Pending(Msg("request", s)) \/ Pending(Msg("requestEs", s))

\* The emergency call, its owner and those who wait for it agree at every moment, however
\* often the call fails, drops or is refused, and the retries stay within their limit.
EmergencyIsSound == DsTypeOK /\ CallIsOwned /\ WaitingIsListed

=============================================================================
