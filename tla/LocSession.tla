----------------------------- MODULE LocSession -----------------------------
(***************************************************************************)
(* A positioning session from the framework to the modem: the location     *)
(* engine (loc_eng.cpp), its adapter (LocEngAdapter) and the QMI client    *)
(* (LocApiV02, loc_api_v02_client).  The framework's calls and the modem's *)
(* indications become messages of one queue, which one thread handles in   *)
(* order; a report about the engine passes the queue twice.  The modem may *)
(* crash: requests then fail, the connection is opened anew and the engine *)
(* starts again what it was doing.                                         *)
(***************************************************************************)
EXTENDS Naturals, Sequences, Functions

CONSTANTS
  AidTypes,    \* masks of aiding data that can be deleted, with no bit in common
  QueueSize,   \* bound on the messages waiting when another thread posts
  WireSize,    \* bound on the indications on their way from the modem
  Worlds,      \* what may happen at most: calls, deletions, measurement calls, crashes,
               \* refusals, fixes; and whether single-shot sessions are asked for
  Allowed      \* courses of events, of those named below, that may happen

Modes    == {"ms_based", "standalone"}
Invalid  == "invalid"
None     == "none"
Statuses == {"NONE", "SESSION_BEGIN", "SESSION_END", "ENGINE_ON", "ENGINE_OFF"}
Fixes    == {"failure", "final", "coarse", "intermediate"}
Courses  == {"cross", "hop", "deaf", "cleanup", "oldfix", "lull", "late"}

ASSUME BoundsAssumption  == QueueSize \in Nat /\ WireSize \in Nat /\ None \notin AidTypes
ASSUME CoursesAssumption == Allowed \subseteq Courses
ASSUME WorldsAssumption  ==
  Worlds \subseteq [calls : Nat, dels : Nat, meas : Nat, crashes : Nat, refusals : Nat, fixes : Nat,
                    single : BOOLEAN]

VARIABLES
  want,     \* the framework wants positions, by its last call
  asked,    \* the mode it asked for last
  queue,    \* the messages of the MsgTask
  wire,     \* indications of the modem that have not reached the client's callback
  eng,      \* navigating (mNavigating), mode and single (mFixCriteria), status
            \* (engine_status), aiding (aiding_data_for_deletion), meas (gps_measurement_cb)
  api,      \* inSession (mInSession), engineOn (mEngineOn), meas (that bit of mMask)
  conn,     \* the QMI client: "closed"; "deaf", registered but without callbacks;
            \* "open"; "dead", when its modem has crashed, "lost", when it did while deaf
  modem,    \* up, engine (is on), session (runs), mode, mask (of events), meas (that event)
  told,     \* what the framework was told of the engine and of the session (begun, not ended)
  aid,      \* due: masks it asked to delete since the modem was last told to; overtaken: those
            \* of them that another request replaced in the engine
  past,     \* what has happened that a property asks about
  left      \* what may still happen

vars == <<want, asked, queue, wire, eng, api, conn, modem, told, aid, past, left>>

Msg(kind)        == [kind |-> kind]
MsgOf(kind, arg) == [kind |-> kind, arg |-> arg]
Kinds(q)         == {q[k].kind : k \in DOMAIN q}
EngineReport(on)    == MsgOf("Engine", on)
PositionReport(fix) == MsgOf("Pos", fix)
Down == [up |-> FALSE, engine |-> FALSE, session |-> FALSE, mode |-> "standalone", mask |-> "none",
         meas |-> FALSE]

Init ==
  /\ want = FALSE /\ asked = Invalid
  /\ queue = <<Msg("Open")>> /\ wire = <<>>
  /\ eng = [navigating |-> FALSE, mode |-> Invalid, single |-> FALSE, status |-> "NONE", aiding |-> None,
            meas |-> FALSE]
  /\ api = [inSession |-> FALSE, engineOn |-> FALSE, meas |-> FALSE]
  /\ conn = "closed"
  /\ modem = [Down EXCEPT !.up = TRUE]
  /\ told = [engine |-> "NONE", session |-> FALSE] /\ aid = [due |-> {}, overtaken |-> {}] /\ past = {}
  /\ left \in Worlds

-----------------------------------------------------------------------------
(* The client of the location service.                                     *)

\* The events the modem reports once a holds: the tracking events, the engine's state and
\* the measurements only in session.
Registered(m, a) ==
  [m EXCEPT !.mask = IF a.inSession THEN "full" ELSE "quiet", !.meas = a.inSession /\ a.meas]

\* registerEventMask: a request to a modem that has crashed fails.
registerEventMask(a) == IF conn = "open" THEN Registered(modem, a) ELSE modem

\* Mutant: the events are registered before the session is noted.
StartOutcomes_early(mode) ==
  LET o == [api |-> [api EXCEPT !.inSession = TRUE], modem |-> registerEventMask(api),
            accepted |-> TRUE, refused |-> FALSE]
  IN {IF conn # "open" THEN o
      ELSE [o EXCEPT !.modem = [@ EXCEPT !.session = TRUE,
                                         !.mode = IF mode = "ms_based" THEN mode ELSE "standalone"]]}

\* startFix with this mode: what becomes of client and modem, whether the caller takes
\* the session for started, and whether the modem refused.  An operation mode that is
\* refused in the answer ends the call with the status of its sending, success.
StartOutcomes(mode) ==
  LET a == [api EXCEPT !.inSession = TRUE]
      m == registerEventMask(a)
      o == [api |-> a, modem |-> m, accepted |-> TRUE, refused |-> TRUE]
      use == IF mode = "ms_based" THEN mode ELSE "standalone"
  IN IF conn # "open" THEN {[o EXCEPT !.refused = FALSE]}
     ELSE {[o EXCEPT !.modem = [m EXCEPT !.session = TRUE, !.mode = use], !.refused = FALSE]}
          \cup (IF left.refusals = 0 THEN {} ELSE {o, [o EXCEPT !.accepted = FALSE]})

\* stopFix: the events go at once if the engine has not been reported on.
StopOutcomes ==
  LET a == [api EXCEPT !.inSession = FALSE]
      m == IF api.engineOn THEN modem ELSE registerEventMask(a)
      o == [api |-> a, modem |-> [m EXCEPT !.session = FALSE], refused |-> FALSE]
  IN {o} \cup (IF left.refusals = 0 \/ conn # "open" THEN {}
               ELSE {[o EXCEPT !.modem = m, !.refused = TRUE]})

\* The outcome o of a request takes effect.
TakeEffect(o) ==
  /\ api' = o.api /\ modem' = o.modem
  /\ past' = IF ~o.refused THEN past \ {"refused"}
             ELSE past \cup {"refused"} \cup (IF o.api.inSession THEN {} ELSE {"unstopped"})
  /\ left' = IF o.refused THEN [left EXCEPT !.refusals = @ - 1] ELSE left

-----------------------------------------------------------------------------
(* The framework's calls.                                                  *)

Room(k) == Len(queue) + k <= QueueSize
Posting(ms) == Room(Len(ms)) /\ queue' = queue \o ms

\* The news that the modem is back waits to be handled: a session will be started again.
Restarting == "Up" \in Kinds(queue)

\* The report that the engine is on is on its way.
OnIsNews == EngineReport(TRUE) \in Range(wire) \cup Range(queue)

\* The framework names the mode, then starts.
Start(mode, single) ==
  /\ left.calls > 0 /\ (single => left.single)
  /\ "oldfix" \in Allowed \/ "Pos" \notin Kinds(queue) \cup Kinds(wire)
  /\ Posting(<<MsgOf("Mode", [mode |-> mode, single |-> single]), Msg("Start")>>)
  /\ want' = TRUE /\ asked' = mode
  /\ past' = past \ {"restarted"}
  /\ left' = [left EXCEPT !.calls = @ - 1]
  /\ UNCHANGED <<wire, eng, api, conn, modem, told, aid>>

\* It changes the mode of a running session.
SetMode(mode) ==
  /\ left.calls > 0 /\ want /\ mode # asked
  /\ Posting(<<MsgOf("Mode", [mode |-> mode, single |-> eng.single])>>)
  /\ asked' = mode
  /\ past' = past \ {"restarted"}
  /\ left' = [left EXCEPT !.calls = @ - 1]
  /\ UNCHANGED <<want, wire, eng, api, conn, modem, told, aid>>

Stop ==
  /\ left.calls > 0 /\ want
  /\ "cross" \in Allowed \/ ~Restarting
  /\ "late" \in Allowed \/ ~OnIsNews
  /\ Posting(<<Msg("Stop")>>)
  /\ want' = FALSE
  /\ left' = [left EXCEPT !.calls = @ - 1]
  /\ UNCHANGED <<asked, wire, eng, api, conn, modem, told, aid, past>>

\* The framework is done with the engine: loc_eng_cleanup reads the session flag on its
\* own thread.
Cleanup ==
  /\ left.calls > 0
  /\ "cleanup" \in Allowed \/ (eng.navigating /\ ~Restarting) \/ ~want
  /\ "late" \in Allowed \/ ~OnIsNews
  /\ IF eng.navigating THEN Posting(<<Msg("Stop")>>) ELSE UNCHANGED queue
  /\ want' = FALSE
  /\ left' = [left EXCEPT !.calls = @ - 1]
  /\ UNCHANGED <<asked, wire, eng, api, conn, modem, told, aid, past>>

DeleteAidingData(t) ==
  /\ left.dels > 0
  /\ Posting(<<MsgOf("DelAid", t)>>)
  /\ aid' = [due |-> aid.due \cup {t}, overtaken |-> aid.overtaken \ {t}]
  /\ left' = [left EXCEPT !.dels = @ - 1]
  /\ UNCHANGED <<want, asked, wire, eng, api, conn, modem, told, past>>

MeasurementInit ==
  /\ left.meas > 0 /\ ~eng.meas
  /\ \/ "lull" \in Allowed
     \/ want /\ "Pos" \notin Kinds(queue) \cup Kinds(wire)
     \/ ~api.engineOn /\ "Engine" \notin Kinds(queue)
  /\ Posting(<<MsgOf("Mask", TRUE)>>)
  /\ eng' = [eng EXCEPT !.meas = TRUE]
  /\ past' = past \ {"forgot"}
  /\ left' = [left EXCEPT !.meas = @ - 1]
  /\ UNCHANGED <<want, asked, wire, api, conn, modem, told, aid>>

MeasurementClose ==
  /\ left.meas > 0 /\ eng.meas
  /\ Posting(<<MsgOf("Mask", FALSE)>>)
  /\ eng' = [eng EXCEPT !.meas = FALSE]
  /\ left' = [left EXCEPT !.meas = @ - 1]
  /\ UNCHANGED <<want, asked, wire, api, conn, modem, told, aid, past>>

-----------------------------------------------------------------------------
(* The thread of the queue.                                                *)

Head1 == queue[1]
Handles(kind) == queue # <<>> /\ Head1.kind = kind

\* setPositionMode: the session is started again.
setPositionMode(mode) == \E o \in StartOutcomes(mode) : TakeEffect(o)

\* LocEngPositionMode: a session in progress is started again with the new mode.
HandleMode ==
  /\ Handles("Mode")
  /\ eng' = [eng EXCEPT !.mode = Head1.arg.mode, !.single = Head1.arg.single]
  /\ IF eng.navigating THEN setPositionMode(Head1.arg.mode) ELSE UNCHANGED <<api, modem, past, left>>
  /\ queue' = Tail(queue)
  /\ UNCHANGED <<want, asked, wire, conn, told, aid>>

\* Mutant: only the framework starts.
HandleStart_asked ==
  /\ Handles("Start") \/ Handles("Again")
  /\ IF eng.navigating \/ Head1.kind = "Again"
     THEN UNCHANGED <<eng, api, modem, past, left>>
     ELSE \E o \in StartOutcomes(eng.mode) :
            /\ TakeEffect(o)
            /\ eng' = [eng EXCEPT !.navigating = o.accepted]
  /\ queue' = Tail(queue)
  /\ UNCHANGED <<want, asked, wire, conn, told, aid>>

\* loc_eng_start_handler, for the framework or for a restart ("Again").
HandleStart ==
  /\ Handles("Start") \/ Handles("Again")
  /\ IF eng.navigating
     THEN UNCHANGED <<eng, api, modem, past, left>>
     ELSE \E o \in StartOutcomes(eng.mode) :
            /\ TakeEffect(o)
            /\ eng' = [eng EXCEPT !.navigating = o.accepted]
  /\ queue' = Tail(queue)
  /\ UNCHANGED <<want, asked, wire, conn, told, aid>>

\* setInSession(false): the mode is forgotten with the session.
EndSession(g) == [g EXCEPT !.navigating = FALSE, !.mode = Invalid]

HandleStop ==
  /\ Handles("Stop")
  /\ IF eng.navigating
     THEN \E o \in StopOutcomes : TakeEffect(o) /\ eng' = EndSession(eng)
     ELSE UNCHANGED <<eng, api, modem, past, left>>
  /\ queue' = Tail(queue)
  /\ UNCHANGED <<want, asked, wire, conn, told, aid>>

\* A report of the engine's state; what it tells the location engine goes to the end of
\* the queue.  A session that was stopped keeps its events until the engine is off.
HandleEngine ==
  /\ Handles("Engine")
  /\ LET on == Head1.arg
         says == IF ~on THEN <<"SESSION_END", "ENGINE_OFF">>
                 ELSE IF api.inSession THEN <<"ENGINE_ON", "SESSION_BEGIN">> ELSE <<>>
     IN /\ modem' = IF api.engineOn /\ ~api.inSession /\ ~on THEN registerEventMask(api) ELSE modem
        /\ api' = [api EXCEPT !.engineOn = on]
        /\ queue' = Tail(queue) \o [k \in DOMAIN says |-> MsgOf("Status", says[k])]
  /\ UNCHANGED <<want, asked, wire, eng, conn, told, aid, past, left>>

\* loc_eng_report_status, without the muting: what the framework is told, and what the
\* engine remembers.
Telling(s) == CASE s \in {"ENGINE_ON", "ENGINE_OFF"}     -> [told EXCEPT !.engine = s]
                [] s = "SESSION_BEGIN" /\ eng.navigating -> [told EXCEPT !.session = TRUE]
                [] s = "SESSION_END" /\ ~eng.navigating  -> [told EXCEPT !.session = FALSE]
                [] OTHER                                 -> told
Reported(s) == IF s \in {"ENGINE_ON", "ENGINE_OFF"} THEN [eng EXCEPT !.status = s] ELSE eng

\* A deletion of t waits in q.
Requested(q, t) == \E k \in DOMAIN q : q[k].kind = "DelAid" /\ q[k].arg = t

\* deleteAidingData: a modem that has crashed is not told.  It was told all that was asked of
\* t unless t is asked for again, behind the message being handled.
deleteAidingData(t, a) ==
  IF conn = "open"
  THEN /\ aid' = IF Requested(Tail(queue), t) THEN a ELSE [a EXCEPT !.due = @ \ {t}]
       /\ UNCHANGED past
  ELSE aid' = a /\ past' = past \cup {"unsent"}

\* Mutant: a request that cannot be sent yet is forgotten.
UpdateAiding_once(g, a) ==
  /\ eng' = [g EXCEPT !.aiding = None]
  /\ IF g.status # "ENGINE_ON" /\ g.aiding # None THEN deleteAidingData(g.aiding, a)
                                                  ELSE aid' = a /\ UNCHANGED past

\* update_aiding_data_for_deletion: what is asked is sent unless the engine is on; the
\* request is forgotten even if the modem could not be told.
UpdateAiding(g, a) ==
  IF g.status # "ENGINE_ON" /\ g.aiding # None
  THEN eng' = [g EXCEPT !.aiding = None] /\ deleteAidingData(g.aiding, a)
  ELSE eng' = g /\ aid' = a /\ UNCHANGED past

HandleStatus ==
  /\ Handles("Status")
  /\ told' = Telling(Head1.arg)
  /\ UpdateAiding(Reported(Head1.arg), aid)
  /\ queue' = Tail(queue)
  /\ UNCHANGED <<want, asked, wire, api, conn, modem, left>>

\* LocEngDelAidData: there is room for one request, which the last one takes.
Overtaken(t) == {u \in {eng.aiding} \ {None, t} : ~Requested(Tail(queue), u)}
HandleDelAid ==
  /\ Handles("DelAid")
  /\ UpdateAiding([eng EXCEPT !.aiding = Head1.arg],
                  [aid EXCEPT !.overtaken = @ \cup Overtaken(Head1.arg)])
  /\ queue' = Tail(queue)
  /\ UNCHANGED <<want, asked, wire, api, conn, modem, told, left>>

\* LocEngReportPosition: a single-shot session ends with the first fix that is passed on;
\* one that is not final is stopped in the modem.
HandlePos ==
  /\ Handles("Pos")
  /\ \E reported \in BOOLEAN :
       /\ Head1.arg \in {"failure", "final"} => reported
       /\ Head1.arg = "coarse" => ~reported
       /\ IF reported /\ eng.single
          THEN /\ eng' = EndSession(eng)
               /\ want' = (want /\ "Start" \in Kinds(Tail(queue)))
               /\ IF Head1.arg = "intermediate" THEN \E o \in StopOutcomes : TakeEffect(o)
                                                ELSE UNCHANGED <<api, modem, past, left>>
          ELSE UNCHANGED <<eng, want, api, modem, past, left>>
  /\ queue' = Tail(queue)
  /\ UNCHANGED <<asked, wire, conn, told, aid>>

\* loc_eng_handle_engine_down.
HandleDown ==
  /\ Handles("Down")
  /\ told' = Telling("ENGINE_OFF")
  /\ eng' = Reported("ENGINE_OFF")
  /\ queue' = Tail(queue)
  /\ UNCHANGED <<want, asked, wire, api, conn, modem, aid, past, left>>

\* Mutant: it is not ended here, so that the start after it is ignored.
HandleUp_stillNavigating ==
  /\ Handles("Up")
  /\ queue' = IF eng.navigating THEN Append(Tail(queue), Msg("Again")) ELSE Tail(queue)
  /\ UNCHANGED <<want, asked, wire, eng, api, conn, modem, told, aid, past, left>>

\* loc_eng_handle_engine_up: a session is ended here and started again from the end of
\* the queue.
HandleUp ==
  /\ Handles("Up")
  /\ IF eng.navigating
     THEN /\ eng' = EndSession(eng)
          /\ queue' = Append(Tail(queue), Msg("Again"))
          /\ past' = past \cup {"restarted"}
     ELSE queue' = Tail(queue) /\ UNCHANGED <<eng, past>>
  /\ UNCHANGED <<want, asked, wire, api, conn, modem, told, aid, left>>

\* LocOpenMsg, LocSsrMsg: the client is closed and opened for the adapter's events, those
\* that are for no session, whatever mInSession says; it waits for the service.
HandleOpen ==
  /\ Handles("Open") /\ modem.up /\ conn \in {"closed", "dead"}
  /\ conn' = "deaf"
  /\ api' = [api EXCEPT !.meas = FALSE]
  /\ past' = IF api.meas THEN past \cup {"forgot"} ELSE past
  /\ modem' = Registered(modem, [api EXCEPT !.inSession = FALSE])
  /\ UNCHANGED <<want, asked, queue, wire, eng, told, aid, left>>

\* locClientOpenInstance fills in the callbacks once the events are registered.  A crash
\* between the two is told to nobody.
HandleOpened ==
  /\ Handles("Open") /\ conn \in {"deaf", "lost"}
  /\ conn' = IF conn = "deaf" THEN "open" ELSE "dead"
  /\ queue' = Tail(queue)
  /\ UNCHANGED <<want, asked, wire, eng, api, modem, told, aid, past, left>>

\* updateRegistrationMask: open with the new mask, which it only adds to the old one.
HandleMask ==
  /\ Handles("Mask")
  /\ LET a == [api EXCEPT !.meas = @ \/ Head1.arg]
     IN IF a # api /\ conn = "open"
        THEN api' = a /\ modem' = registerEventMask(a) /\ UNCHANGED past
        ELSE /\ UNCHANGED <<api, modem>>
             /\ past' = IF a # api THEN past \cup {"forgot"} ELSE past
  /\ queue' = Tail(queue)
  /\ UNCHANGED <<want, asked, wire, eng, conn, told, aid, left>>

-----------------------------------------------------------------------------
(* The modem and its callbacks.                                            *)

Sent(m, ind) == IF m.mask = "full" THEN Append(wire, ind) ELSE wire

\* The engine turns on for a session, and off when there is none, or between two fixes.
EngineTurns(on) ==
  /\ modem.up /\ modem.engine # on /\ (on => modem.session)
  /\ Len(wire) < WireSize
  /\ "late" \in Allowed \/ (on => {"Stop", "Pos"} \cap (Kinds(queue) \cup Kinds(wire)) = {})
  /\ modem' = [modem EXCEPT !.engine = on]
  /\ wire' = Sent(modem, EngineReport(on))
  /\ UNCHANGED <<want, asked, queue, eng, api, conn, told, aid, past, left>>

\* The modem has a fix; after a final one a single-shot session is over for it.
Fixed(fix) ==
  /\ left.fixes > 0 /\ modem.session /\ modem.engine /\ Len(wire) < WireSize
  /\ "oldfix" \in Allowed \/ "Mode" \notin Kinds(queue)
  /\ wire' = Sent(modem, PositionReport(fix))
  /\ modem' = IF fix # "intermediate" /\ eng.single THEN [modem EXCEPT !.session = FALSE] ELSE modem
  /\ past' = IF modem' # modem THEN past \cup {"finished"} ELSE past
  /\ left' = [left EXCEPT !.fixes = @ - 1]
  /\ UNCHANGED <<want, asked, queue, eng, api, conn, told, aid>>

Crash ==
  /\ left.crashes > 0 /\ modem.up /\ conn \in {"open", "deaf"}
  /\ "deaf" \in Allowed \/ conn = "open"
  /\ "hop" \in Allowed \/ "Engine" \notin Kinds(queue) \cup Kinds(wire)
  /\ modem' = Down
  /\ IF conn = "open" THEN conn' = "dead" /\ wire' = Append(wire, Msg("Error"))
                      ELSE conn' = "lost" /\ UNCHANGED wire
  /\ left' = [left EXCEPT !.crashes = @ - 1] /\ past' = past \cup {"crashed"}
  /\ UNCHANGED <<want, asked, queue, eng, api, told, aid>>

Return ==
  /\ ~modem.up /\ modem' = [modem EXCEPT !.up = TRUE]
  /\ UNCHANGED <<want, asked, queue, wire, eng, api, conn, told, aid, past, left>>

\* On the client's thread: a report is posted as it comes.
eventCb ==
  /\ wire # <<>> /\ wire[1].kind # "Error"
  /\ Posting(<<wire[1]>>)
  /\ wire' = Tail(wire)
  /\ UNCHANGED <<want, asked, eng, api, conn, modem, told, aid, past, left>>

\* handleEngineDownEvent and handleEngineUpEvent.
Restart == <<Msg("Down"), Msg("Open"), Msg("Up")>>

\* The end of the service is followed at once by the news of its return.
errorCb ==
  /\ wire # <<>> /\ wire[1].kind = "Error"
  /\ Posting(Restart)
  /\ wire' = Tail(wire)
  /\ UNCHANGED <<want, asked, eng, api, conn, modem, told, aid, past, left>>

Deliver == eventCb \/ errorCb
Handle == \/ HandleMode \/ HandleStart \/ HandleStop \/ HandleEngine \/ HandleStatus \/ HandleDelAid
          \/ HandlePos \/ HandleDown \/ HandleUp \/ HandleOpen \/ HandleOpened \/ HandleMask
Call == \/ \E mode \in Modes : (\E single \in BOOLEAN : Start(mode, single)) \/ SetMode(mode)
        \/ Stop \/ Cleanup \/ (\E t \in AidTypes : DeleteAidingData(t))
        \/ MeasurementInit \/ MeasurementClose
Next == \/ Handle \/ Call \/ Deliver \/ Crash \/ Return
        \/ (\E on \in BOOLEAN : EngineTurns(on)) \/ (\E fix \in Fixes : Fixed(fix))

\* The queue's thread and the client's callbacks run; a modem that crashed comes back.
Spec == Init /\ [][Next]_vars /\ WF_vars(Handle) /\ WF_vars(Deliver) /\ WF_vars(Return)

-----------------------------------------------------------------------------
(* Properties.                                                             *)

TypeOK ==
  /\ want \in BOOLEAN /\ asked \in Modes \cup {Invalid}
  /\ eng.navigating \in BOOLEAN /\ eng.mode \in Modes \cup {Invalid} /\ eng.status \in Statuses
  /\ api \in [inSession : BOOLEAN, engineOn : BOOLEAN, meas : BOOLEAN]
  /\ conn \in {"closed", "deaf", "open", "dead", "lost"}
  /\ modem.mask \in {"none", "quiet", "full"}

AtRest == queue = <<>> /\ wire = <<>> /\ conn = "open"

\* The last call wins: when everything is handled, the modem's session runs if and only
\* if the framework wants it to, in the mode asked for last, and the framework was told that
\* the engine is on only if it is, whatever order calls, reports, restarts of the modem and
\* their messages came in.
LastCallWins ==
  AtRest =>
    /\ "refused" \notin past =>
         eng.navigating = want /\ (modem.session = want \/ "finished" \in past)
    /\ modem.session /\ want /\ past \cap {"refused", "restarted"} = {} => modem.mode = asked
    /\ told.engine = "ENGINE_ON" /\ "unstopped" \notin past => modem.engine

\* A session that runs is reported on: its events are registered in the modem, also after
\* the client was opened anew for no session, and so are the measurements asked for before or
\* during it; without one they are registered only as long as the engine is believed on, so that
\* the modem does not wake the processor for nobody.
SessionIsHeard ==
  /\ AtRest /\ modem.session /\ api.inSession =>
       modem.mask = "full" /\ (eng.meas /\ "forgot" \notin past => modem.meas)
  /\ conn = "open" /\ modem.mask = "full" => api.inSession \/ api.engineOn

\* "If the GPS engine is off, the aiding data will be deleted. Otherwise, the actual
\* action will happen when gps engine is turned off." (loc.cpp:523): nothing that was asked for
\* is left to delete once the engine is off and everything is handled.
AskedIsDeleted == AtRest /\ eng.status # "ENGINE_ON" => aid.due = {}

\* What the code does keep of that: a request that the modem has not been told since waits in
\* the engine's one place, for a positioning engine that is indeed on, or is one that a later
\* request for other data has replaced there.  No request is lost in another way, however the
\* reports that turn the engine on and off cross the requests; after a crash or a refused stop
\* the engine's status is no measure, and what was sent to a dead modem is forgotten.
DeletedOrWaiting ==
  AtRest /\ past \cap {"unsent", "crashed", "unstopped"} = {} =>
    \A t \in aid.due : (eng.aiding = t /\ modem.engine) \/ t \in aid.overtaken

\* What the framework wants comes about: positions wanted are followed by a session in
\* the modem, unless it refuses, or the framework changes its mind.
WantedIsServed ==
  want ~> modem.session \/ ~want \/ past \cap {"refused", "finished"} # {}
=============================================================================
