-------------------------- MODULE LocSessionProofs --------------------------
(***************************************************************************)
(* Theorems about LocSession, for any kinds of aiding data, bounds and     *)
(* worlds.  For any courses of events: the types, and that a session that  *)
(* runs is reported on, as are its measurements.  Without the named        *)
(* courses: the last call wins, and what is asked to be deleted is, or     *)
(* waits.                                                                  *)
(***************************************************************************)
EXTENDS LocSession, TLAPS

\* The messages of the queue and the indications of the modem.
Plain      == {"Open", "Start", "Stop", "Again", "Up", "Down"}
Criteria   == [mode : Modes, single : BOOLEAN]
Message    == {Msg(k) : k \in Plain} \cup {MsgOf("Mode", c) : c \in Criteria}
              \cup {MsgOf("DelAid", t) : t \in AidTypes} \cup {MsgOf("Mask", b) : b \in BOOLEAN}
              \cup {EngineReport(b) : b \in BOOLEAN} \cup {PositionReport(f) : f \in Fixes}
              \cup {MsgOf("Status", s) : s \in Statuses}
Indication == {Msg("Error")} \cup {EngineReport(b) : b \in BOOLEAN}
              \cup {PositionReport(f) : f \in Fixes}

EngType   == [navigating : BOOLEAN, mode : Modes \cup {Invalid}, single : BOOLEAN, status : Statuses,
              aiding : AidTypes \cup {None}, meas : BOOLEAN]
ApiType   == [inSession : BOOLEAN, engineOn : BOOLEAN, meas : BOOLEAN]
ModemType == [up : BOOLEAN, engine : BOOLEAN, session : BOOLEAN, mode : Modes \cup {Invalid},
              mask : {"none", "quiet", "full"}, meas : BOOLEAN]

\* Every variable the proofs speak of has its type.
Types ==
  /\ want \in BOOLEAN /\ asked \in Modes \cup {Invalid}
  /\ queue \in Seq(Message) /\ wire \in Seq(Indication)
  /\ eng \in EngType /\ api \in ApiType /\ modem \in ModemType
  /\ conn \in {"closed", "deaf", "open", "dead", "lost"}

\* A client that is not open has no session, nor its events.
OpenedFirst == conn # "open" => ~modem.session /\ modem.mask # "full"

\* The events of a session are registered for a client that has one, or still believes
\* the engine on.
MaskIsMeant == conn = "open" /\ modem.mask = "full" => api.inSession \/ api.engineOn

\* A session the client knows of has the events and the measurements the client asked for.
SessionHasMask ==
  conn = "open" /\ modem.session /\ api.inSession => modem.mask = "full" /\ modem.meas = api.meas

\* What the framework asked to measure is in the client's mask or waits to be handled.
Waits(q, x) == \E k \in DOMAIN q : q[k] = x
MaskWaits == Waits(queue, MsgOf("Mask", TRUE))
MeasAsked == eng.meas /\ "forgot" \notin past => api.meas \/ MaskWaits

\* The inductive invariant.
HeardInv == Types /\ OpenedFirst /\ MaskIsMeant /\ SessionHasMask /\ MeasAsked

-----------------------------------------------------------------------------
(* Queues *)

\* A queue keeps its kind of elements when its head is taken or others are added.
LEMMA Queues ==
  ASSUME NEW S, NEW q \in Seq(S)
  PROVE  /\ q # <<>> => q[1] \in S /\ Tail(q) \in Seq(S)
         /\ \A x \in S : Append(q, x) \in Seq(S)
         /\ \A r \in Seq(S) : q \o r \in Seq(S)
OBVIOUS

\* An element waits until it is the first and is taken.
LEMMA StillWaits ==
  ASSUME NEW S, NEW q \in Seq(S), NEW x, Waits(q, x)
  PROVE  /\ q[1] # x => Waits(Tail(q), x)
         /\ \A r \in Seq(S) : Waits(q \o r, x)
<1>1. PICK k \in 1..Len(q) : q[k] = x
  BY DEF Waits
<1>2. ASSUME q[1] # x PROVE Waits(Tail(q), x)
  <2>1. k # 1 /\ k - 1 \in 1..Len(q) - 1 /\ Len(q) # 0
    BY <1>1, <1>2
  <2>2. DOMAIN Tail(q) = 1..Len(q) - 1 /\ Tail(q)[k - 1] = q[k]
    BY <2>1
  <2> QED BY <1>1, <2>1, <2>2 DEF Waits
<1>3. ASSUME NEW r \in Seq(S) PROVE Waits(q \o r, x)
  <2>1. k \in 1..Len(q \o r) /\ (q \o r)[k] = q[k]
    BY <1>1
  <2>2. DOMAIN (q \o r) = 1..Len(q \o r)
    OBVIOUS
  <2> QED BY <1>1, <2>1, <2>2 DEF Waits
<1> QED BY <1>2, <1>3

\* A message that is posted alone waits.
LEMMA LastWaits ==
  ASSUME NEW S, NEW q \in Seq(S), NEW x \in S
  PROVE  <<x>> \in Seq(S) /\ Waits(q \o <<x>>, x)
<1> DEFINE r == q \o <<x>>
<1>1. Len(q) \in Nat /\ Len(r) = Len(q) + 1 /\ DOMAIN r = 1..Len(q) + 1
  OBVIOUS
<1>2. r[Len(q) + 1] = x
  BY <1>1
<1>3. Len(q) + 1 \in DOMAIN r
  BY <1>1
<1> QED BY <1>2, <1>3 DEF Waits

\* What a message carries is known by its kind.
LEMMA Carries ==
  ASSUME NEW m \in Message
  PROVE  /\ m.kind = "Mode" => m.arg \in Criteria
         /\ m.kind = "DelAid" => m.arg \in AidTypes
         /\ m.kind \in {"Mask", "Engine"} => m.arg \in BOOLEAN
         /\ m.kind = "Status" => m.arg \in Statuses
         /\ m.kind = "Mask" => m = MsgOf("Mask", m.arg)
BY DEF Message, Msg, MsgOf, EngineReport, PositionReport, Plain

\* The messages that are posted are messages.
LEMMA Posted ==
  /\ \A k \in Plain : Msg(k) \in Message
  /\ \A c \in Criteria : MsgOf("Mode", c) \in Message
  /\ \A t \in AidTypes : MsgOf("DelAid", t) \in Message
  /\ \A s \in Statuses : MsgOf("Status", s) \in Message
  /\ \A i \in Indication : i.kind # "Error" => i \in Message
  /\ \A b \in BOOLEAN : EngineReport(b) \in Indication
  /\ \A f \in Fixes : PositionReport(f) \in Indication
  /\ Msg("Error") \in Indication
BY DEF Message, Indication, Msg

\* So are those that change what is measured.
LEMMA PostedMask ==
  /\ MsgOf("Mask", TRUE) \in Message /\ <<MsgOf("Mask", TRUE)>> \in Seq(Message)
  /\ MsgOf("Mask", FALSE) \in Message /\ <<MsgOf("Mask", FALSE)>> \in Seq(Message)
<1>1. ASSUME NEW b \in BOOLEAN PROVE MsgOf("Mask", b) \in Message
  BY DEF Message
<1>2. ASSUME NEW x \in Message PROVE <<x>> \in Seq(Message)
  OBVIOUS
<1>3. MsgOf("Mask", TRUE) \in Message /\ MsgOf("Mask", FALSE) \in Message
  BY <1>1, Zenon
<1> QED BY <1>2, <1>3, Zenon

-----------------------------------------------------------------------------
(* Requests to the modem *)

\* A modem with its events registered anew.
LEMMA Registering ==
  ASSUME NEW m \in ModemType, NEW a \in ApiType
  PROVE  /\ Registered(m, a) \in ModemType
         /\ Registered(m, a).mask = IF a.inSession THEN "full" ELSE "quiet"
         /\ Registered(m, a).meas = (a.inSession /\ a.meas)
         /\ Registered(m, a).session = m.session
BY DEF Registered, ModemType, ApiType

\* What a start leaves: a client in session, and a modem with its events if it is reached.
LEMMA StartEffect ==
  ASSUME Types, NEW mode, NEW o \in StartOutcomes(mode)
  PROVE  /\ o.api \in ApiType /\ o.api.inSession
         /\ o.api.engineOn = api.engineOn /\ o.api.meas = api.meas
         /\ o.modem \in ModemType /\ o.accepted \in BOOLEAN
         /\ conn # "open" => o.modem = modem
         /\ conn = "open" => o.modem.mask = "full" /\ o.modem.meas = api.meas
<1> DEFINE a == [api EXCEPT !.inSession = TRUE]
           m == registerEventMask(a)
           use == IF mode = "ms_based" THEN mode ELSE "standalone"
           runs == [m EXCEPT !.session = TRUE, !.mode = use]
<1>1. a \in ApiType /\ a.inSession /\ a.engineOn = api.engineOn /\ a.meas = api.meas
  BY DEF Types, ApiType
<1> HIDE DEF a
<1>2. /\ m \in ModemType
      /\ conn # "open" => m = modem
      /\ conn = "open" => m.mask = "full" /\ m.meas = api.meas
  <2>1. api.meas \in BOOLEAN /\ modem \in ModemType
    BY DEF Types, ApiType
  <2> QED BY <1>1, <2>1, Registering DEF registerEventMask
<1> HIDE DEF m
<1>3. runs \in ModemType /\ runs.mask = m.mask /\ runs.meas = m.meas
  BY <1>2 DEF ModemType, Modes
<1> HIDE DEF runs
<1> DEFINE p == [api |-> a, modem |-> m, accepted |-> TRUE, refused |-> TRUE]
<1>4. \/ o \in {p, [p EXCEPT !.accepted = FALSE], [p EXCEPT !.refused = FALSE]}
      \/ conn = "open" /\ o = [p EXCEPT !.modem = runs, !.refused = FALSE]
  BY DEF StartOutcomes, a, m, runs
<1>5. p.api = a /\ p.modem = m /\ p.accepted /\ DOMAIN p = {"api", "modem", "accepted", "refused"}
  OBVIOUS
<1> HIDE DEF p
<1>6. /\ o.api = a /\ o.accepted \in BOOLEAN
      /\ o.modem = m \/ (conn = "open" /\ o.modem = runs)
  BY <1>4, <1>5
<1> QED BY <1>1, <1>2, <1>3, <1>6

\* What a stop leaves: a client without session, and its events only in a modem it does not
\* reach or whose engine it believes on.
LEMMA StopEffect ==
  ASSUME Types, NEW o \in StopOutcomes
  PROVE  /\ o.api \in ApiType /\ ~o.api.inSession
         /\ o.api.engineOn = api.engineOn /\ o.api.meas = api.meas
         /\ o.modem \in ModemType
         /\ conn # "open" => ~o.modem.session /\ o.modem.mask = modem.mask
         /\ conn = "open" => o.modem.mask # "full" \/ api.engineOn
<1> DEFINE a == [api EXCEPT !.inSession = FALSE]
           m == IF api.engineOn THEN modem ELSE registerEventMask(a)
           ends == [m EXCEPT !.session = FALSE]
<1>1. a \in ApiType /\ ~a.inSession /\ a.engineOn = api.engineOn /\ a.meas = api.meas
  BY DEF Types, ApiType
<1> HIDE DEF a
<1>2. /\ m \in ModemType
      /\ conn # "open" => m = modem
      /\ conn = "open" => m.mask # "full" \/ api.engineOn
  <2>1. modem \in ModemType
    BY DEF Types
  <2> QED BY <1>1, <2>1, Registering DEF registerEventMask
<1> HIDE DEF m
<1>3. ends \in ModemType /\ ends.mask = m.mask /\ ~ends.session
  BY <1>2 DEF ModemType
<1> HIDE DEF ends
<1> DEFINE p == [api |-> a, modem |-> ends, refused |-> FALSE]
<1>4. o = p \/ (conn = "open" /\ o = [p EXCEPT !.modem = m, !.refused = TRUE])
  BY DEF StopOutcomes, a, m, ends
<1>5. p.api = a /\ p.modem = ends /\ DOMAIN p = {"api", "modem", "refused"}
  OBVIOUS
<1> HIDE DEF p
<1>6. o.api = a /\ (o.modem = ends \/ (conn = "open" /\ o.modem = m))
  BY <1>4, <1>5
<1> QED BY <1>1, <1>2, <1>3, <1>6

\* Outcomes say nothing about measurements the client forgot.
LEMMA EffectForgets ==
  ASSUME NEW o, TakeEffect(o)
  PROVE  api' = o.api /\ modem' = o.modem /\ ("forgot" \in past' <=> "forgot" \in past)
BY DEF TakeEffect

\* The invariant but for the types.
Heard == OpenedFirst /\ MaskIsMeant /\ SessionHasMask /\ MeasAsked

\* A request to start keeps it.
LEMMA StartKeeps ==
  ASSUME HeardInv, NEW mode, NEW o \in StartOutcomes(mode), TakeEffect(o),
         conn' = conn, eng'.meas = eng.meas, MaskWaits => MaskWaits'
  PROVE  Heard'
<1>1. OpenedFirst' /\ MaskIsMeant' /\ SessionHasMask'
  BY StartEffect, EffectForgets DEF HeardInv, OpenedFirst, MaskIsMeant, SessionHasMask
<1>2. MeasAsked'
  BY StartEffect, EffectForgets DEF HeardInv, MeasAsked
<1> QED BY <1>1, <1>2 DEF Heard

\* A request to stop keeps it.
LEMMA StopKeeps ==
  ASSUME HeardInv, NEW o \in StopOutcomes, TakeEffect(o),
         conn' = conn, eng'.meas = eng.meas, MaskWaits => MaskWaits'
  PROVE  Heard'
<1>1. OpenedFirst' /\ MaskIsMeant' /\ SessionHasMask'
  BY StopEffect, EffectForgets DEF HeardInv, OpenedFirst, MaskIsMeant, SessionHasMask
<1>2. MeasAsked'
  BY StopEffect, EffectForgets DEF HeardInv, MeasAsked
<1> QED BY <1>1, <1>2 DEF Heard

\* A step that leaves alone what the client and the modem know of each other keeps it.
LEMMA QuietKeeps ==
  ASSUME HeardInv, UNCHANGED <<api, conn>>, eng'.meas = eng.meas,
         modem'.session => modem.session, modem'.mask = modem.mask, modem'.meas = modem.meas,
         "forgot" \in past => "forgot" \in past', MaskWaits => MaskWaits'
  PROVE  Heard'
<1>1. OpenedFirst' /\ MaskIsMeant' /\ SessionHasMask'
  BY DEF HeardInv, OpenedFirst, MaskIsMeant, SessionHasMask
<1>2. MeasAsked'
  BY DEF HeardInv, MeasAsked
<1> QED BY <1>1, <1>2 DEF Heard

\* The head of the queue is handled, and what it has others do is queued.
LEMMA Taken ==
  ASSUME Types, NEW kind, Handles(kind), NEW r \in Seq(Message),
         queue' = Tail(queue) \/ queue' = Tail(queue) \o r
  PROVE  /\ Head1 \in Message /\ Head1.kind = kind
         /\ queue' \in Seq(Message)
         /\ kind # "Mask" => (MaskWaits => MaskWaits')
<1>1. /\ queue \in Seq(Message) /\ queue # <<>> /\ Head1 = queue[1] /\ Head1.kind = kind
      /\ Tail(queue) \in Seq(Message) /\ queue[1] \in Message
  BY Queues DEF Types, Handles, Head1
<1>2. queue' \in Seq(Message)
  BY <1>1, Queues
<1>3. ASSUME kind # "Mask", MaskWaits PROVE MaskWaits'
  <2> DEFINE x == MsgOf("Mask", TRUE)
  <2>1. queue[1] # x
    BY <1>1, <1>3 DEF MsgOf
  <2>2. Waits(queue, x)
    BY <1>3 DEF MaskWaits
  <2> HIDE DEF x
  <2>3. Waits(Tail(queue), x)
    BY <1>1, <2>1, <2>2, StillWaits
  <2>4. Waits(queue', x)
    BY <1>1, <2>3, StillWaits
  <2> QED BY <2>4 DEF MaskWaits, x
<1> QED BY <1>1, <1>2, <1>3

\* Messages are posted.
LEMMA Added ==
  ASSUME Types, NEW ms \in Seq(Message), Posting(ms)
  PROVE  queue' \in Seq(Message) /\ (MaskWaits => MaskWaits')
<1>1. queue \in Seq(Message) /\ queue' = queue \o ms
  BY DEF Types, Posting
<1>2. ASSUME MaskWaits PROVE MaskWaits'
  BY <1>1, <1>2, StillWaits DEF MaskWaits
<1> QED BY <1>1, <1>2, Queues

-----------------------------------------------------------------------------
(* Each step keeps the invariant *)

\* A handler that makes no request of the modem.
LEMMA QuietHandler ==
  ASSUME HeardInv, NEW kind, Handles(kind), kind # "Mask", NEW r \in Seq(Message),
         queue' = Tail(queue) \/ queue' = Tail(queue) \o r,
         UNCHANGED <<wire, api, conn, modem>>, eng' \in EngType, eng'.meas = eng.meas,
         want' \in BOOLEAN, asked' = asked, "forgot" \in past => "forgot" \in past'
  PROVE  HeardInv'
<1>1. Types /\ queue' \in Seq(Message)
  BY Taken DEF HeardInv
<1>2. Types'
  BY <1>1 DEF Types
<1>3. MaskWaits => MaskWaits'
  BY <1>1, Taken
<1>4. Heard'
  BY <1>3, QuietKeeps
<1> QED BY <1>2, <1>4 DEF HeardInv, Heard

\* A handler that asks the modem to start or to stop.
LEMMA RequestHandler ==
  ASSUME HeardInv, NEW kind, Handles(kind), kind # "Mask", queue' = Tail(queue),
         NEW mode, NEW o, o \in StartOutcomes(mode) \/ o \in StopOutcomes, TakeEffect(o),
         UNCHANGED <<wire, conn>>, eng' \in EngType, eng'.meas = eng.meas,
         want' \in BOOLEAN, asked' = asked
  PROVE  HeardInv'
<1>0. Types /\ <<>> \in Seq(Message)
  BY DEF HeardInv
<1>1. queue' \in Seq(Message)
  BY <1>0, Taken
<1>2. o.api \in ApiType /\ o.modem \in ModemType
  BY <1>0, StartEffect, StopEffect
<1>3. Types'
  BY <1>0, <1>1, <1>2, EffectForgets DEF Types
<1>4. MaskWaits => MaskWaits'
  BY <1>0, Taken
<1>5. Heard'
  BY <1>4, StartKeeps, StopKeeps
<1> QED BY <1>3, <1>5 DEF HeardInv, Heard

\* The framework's messages: modes, starts and stops, and the requests to delete.
LEMMA CallsHandled ==
  ASSUME HeardInv, HandleMode \/ HandleStart \/ HandleStop \/ HandleDelAid
  PROVE  HeardInv'
<1>0. /\ Types /\ <<>> \in Seq(Message) /\ eng \in EngType
      /\ want \in BOOLEAN
  BY DEF HeardInv, Types
<1>1. CASE HandleMode
  <2>1. /\ Handles("Mode") /\ queue' = Tail(queue) /\ UNCHANGED <<want, asked, wire, conn>>
        /\ eng' = [eng EXCEPT !.mode = Head1.arg.mode, !.single = Head1.arg.single]
    BY <1>1 DEF HandleMode
  <2>2. Head1.arg \in Criteria
    BY <1>0, <2>1, Taken, Carries
  <2>3. Head1.arg.mode \in Modes \cup {Invalid} /\ Head1.arg.single \in BOOLEAN
    BY <2>2 DEF Criteria
  <2>4. eng' \in EngType /\ eng'.meas = eng.meas
    BY <1>0, <2>1, <2>3 DEF EngType
  <2>5. CASE UNCHANGED <<api, modem, past, left>>
    BY <1>0, <2>1, <2>4, <2>5, QuietHandler
  <2>6. CASE setPositionMode(Head1.arg.mode)
    BY <1>0, <2>1, <2>4, <2>6, RequestHandler DEF setPositionMode
  <2> QED BY <1>1, <2>5, <2>6 DEF HandleMode
<1>2. CASE HandleStart
  <2>1. /\ Handles("Start") \/ Handles("Again")
        /\ queue' = Tail(queue) /\ UNCHANGED <<want, asked, wire, conn>>
    BY <1>2 DEF HandleStart
  <2>2. CASE UNCHANGED <<eng, api, modem, past, left>>
    BY <1>0, <2>1, <2>2, QuietHandler
  <2>3. ASSUME NEW o \in StartOutcomes(eng.mode), TakeEffect(o),
               eng' = [eng EXCEPT !.navigating = o.accepted]
        PROVE  HeardInv'
    <3>1. eng' \in EngType /\ eng'.meas = eng.meas
      BY <1>0, <2>3, StartEffect DEF EngType
    <3> QED BY <1>0, <2>1, <2>3, <3>1, RequestHandler
  <2> QED BY <1>2, <2>2, <2>3 DEF HandleStart
<1>3. CASE HandleStop
  <2>1. Handles("Stop") /\ queue' = Tail(queue) /\ UNCHANGED <<want, asked, wire, conn>>
    BY <1>3 DEF HandleStop
  <2>2. CASE UNCHANGED <<eng, api, modem, past, left>>
    BY <1>0, <2>1, <2>2, QuietHandler
  <2>3. ASSUME NEW o \in StopOutcomes, TakeEffect(o), eng' = EndSession(eng) PROVE HeardInv'
    <3>1. eng' \in EngType /\ eng'.meas = eng.meas
      BY <1>0, <2>3 DEF EngType, EndSession
    <3> QED BY <1>0, <2>1, <2>3, <3>1, RequestHandler
  <2> QED BY <1>3, <2>2, <2>3 DEF HandleStop
<1>4. CASE HandleDelAid
  <2>1. /\ Handles("DelAid") /\ queue' = Tail(queue)
        /\ UNCHANGED <<want, asked, wire, api, conn, modem>>
        /\ UpdateAiding([eng EXCEPT !.aiding = Head1.arg],
                        [aid EXCEPT !.overtaken = @ \cup Overtaken(Head1.arg)])
    BY <1>4 DEF HandleDelAid
  <2>2. Head1.arg \in AidTypes
    BY <1>0, <2>1, Taken, Carries
  <2>3. eng' \in EngType /\ eng'.meas = eng.meas
    BY <1>0, <2>1, <2>2 DEF EngType, UpdateAiding
  <2>4. "forgot" \in past => "forgot" \in past'
    BY <2>1 DEF UpdateAiding, deleteAidingData
  <2> QED BY <1>0, <2>1, <2>3, <2>4, QuietHandler
<1> QED BY <1>1, <1>2, <1>3, <1>4

\* The modem's reports, and the news of its crash and of its return.
LEMMA ReportsHandled ==
  ASSUME HeardInv, HandleEngine \/ HandleStatus \/ HandlePos \/ HandleDown \/ HandleUp
  PROVE  HeardInv'
<1>0. /\ Types /\ <<>> \in Seq(Message) /\ eng \in EngType /\ api \in ApiType
      /\ modem \in ModemType /\ want \in BOOLEAN
  BY DEF HeardInv, Types
<1>1. CASE HandleEngine
  <2> DEFINE on == Head1.arg
             says == IF ~on THEN <<"SESSION_END", "ENGINE_OFF">>
                     ELSE IF api.inSession THEN <<"ENGINE_ON", "SESSION_BEGIN">> ELSE <<>>
             r == [k \in DOMAIN says |-> MsgOf("Status", says[k])]
  <2>1. /\ Handles("Engine") /\ queue' = Tail(queue) \o r
        /\ modem' = IF api.engineOn /\ ~api.inSession /\ ~on THEN registerEventMask(api) ELSE modem
        /\ api' = [api EXCEPT !.engineOn = on]
        /\ UNCHANGED <<want, asked, wire, eng, conn, past>>
    BY <1>1 DEF HandleEngine
  <2>2. r \in Seq(Message)
    <3>1. says \in Seq(Statuses)
      <4>1. /\ "SESSION_END" \in Statuses /\ "ENGINE_OFF" \in Statuses
            /\ "SESSION_BEGIN" \in Statuses /\ "ENGINE_ON" \in Statuses
        BY DEF Statuses
      <4>2. /\ <<"SESSION_END", "ENGINE_OFF">> \in Seq(Statuses)
            /\ <<"ENGINE_ON", "SESSION_BEGIN">> \in Seq(Statuses) /\ <<>> \in Seq(Statuses)
        BY <4>1
      <4> QED BY <4>2, Zenon
    <3> HIDE DEF says
    <3> QED BY <3>1, Posted
  <2> HIDE DEF r
  <2>3. /\ Head1 \in Message /\ Head1.kind = "Engine" /\ queue' \in Seq(Message)
        /\ MaskWaits => MaskWaits'
    BY <1>0, <2>1, <2>2, Taken
  <2>4. on \in BOOLEAN
    BY <2>3, Carries
  <2>5. /\ api' \in ApiType /\ api'.engineOn = on
        /\ api'.inSession = api.inSession /\ api'.meas = api.meas
    BY <1>0, <2>1, <2>4 DEF ApiType
  <2>6. /\ modem' \in ModemType /\ modem'.session = modem.session
        /\ \/ modem' = modem
           \/ conn = "open" /\ ~api.inSession /\ modem'.mask = "quiet"
        /\ conn = "open" /\ api.engineOn /\ ~api.inSession /\ ~on => modem'.mask = "quiet"
    BY <1>0, <2>1, Registering DEF registerEventMask
  <2>7. Types'
    BY <1>0, <2>1, <2>3, <2>5, <2>6 DEF Types
  <2>8. OpenedFirst' /\ MaskIsMeant' /\ SessionHasMask'
    BY <2>1, <2>4, <2>5, <2>6 DEF HeardInv, OpenedFirst, MaskIsMeant, SessionHasMask
  <2>9. MeasAsked'
    BY <2>1, <2>3, <2>5 DEF HeardInv, MeasAsked
  <2> QED BY <2>7, <2>8, <2>9 DEF HeardInv
<1>2. CASE HandleStatus
  <2>1. /\ Handles("Status") /\ queue' = Tail(queue)
        /\ UNCHANGED <<want, asked, wire, api, conn, modem>>
        /\ UpdateAiding(Reported(Head1.arg), aid)
    BY <1>2 DEF HandleStatus
  <2>2. Reported(Head1.arg) \in EngType /\ Reported(Head1.arg).meas = eng.meas
    BY <1>0 DEF EngType, Reported, Statuses
  <2>3. eng' \in EngType /\ eng'.meas = eng.meas
    BY <2>1, <2>2 DEF EngType, UpdateAiding
  <2>4. "forgot" \in past => "forgot" \in past'
    BY <2>1 DEF UpdateAiding, deleteAidingData
  <2> QED BY <1>0, <2>1, <2>3, <2>4, QuietHandler
<1>3. CASE HandlePos
  <2>1. Handles("Pos") /\ queue' = Tail(queue) /\ UNCHANGED <<asked, wire, conn>>
    BY <1>3 DEF HandlePos
  <2>2. /\ EndSession(eng) \in EngType /\ EndSession(eng).meas = eng.meas
        /\ (want /\ "Start" \in Kinds(Tail(queue))) \in BOOLEAN
    BY <1>0 DEF EngType, EndSession
  <2>3. CASE eng' \in {eng, EndSession(eng)} /\ UNCHANGED <<api, modem, past>> /\ want' \in BOOLEAN
    BY <1>0, <2>1, <2>2, <2>3, QuietHandler
  <2>4. ASSUME NEW o \in StopOutcomes, TakeEffect(o), eng' = EndSession(eng), want' \in BOOLEAN
        PROVE  HeardInv'
    BY <1>0, <2>1, <2>2, <2>4, RequestHandler
  <2> QED BY <1>0, <1>3, <2>2, <2>3, <2>4 DEF HandlePos
<1>4. CASE HandleDown
  <2>1. /\ Handles("Down") /\ queue' = Tail(queue) /\ eng' = Reported("ENGINE_OFF")
        /\ UNCHANGED <<want, asked, wire, api, conn, modem, past>>
    BY <1>4 DEF HandleDown
  <2>2. eng' \in EngType /\ eng'.meas = eng.meas
    BY <1>0, <2>1 DEF EngType, Reported, Statuses
  <2> QED BY <1>0, <2>1, <2>2, QuietHandler
<1>5. CASE HandleUp
  <2>1. Handles("Up") /\ UNCHANGED <<want, asked, wire, api, conn, modem>>
    BY <1>5 DEF HandleUp
  <2>2. CASE queue' = Tail(queue) /\ UNCHANGED <<eng, past>>
    BY <1>0, <2>1, <2>2, QuietHandler
  <2>3. CASE /\ eng' = EndSession(eng) /\ queue' = Append(Tail(queue), Msg("Again"))
             /\ past' = past \cup {"restarted"}
    <3>1. eng' \in EngType /\ eng'.meas = eng.meas
      BY <1>0, <2>3 DEF EngType, EndSession
    <3>2. <<Msg("Again")>> \in Seq(Message)
      BY Posted DEF Plain
    <3>3. Tail(queue) \in Seq(Message)
      BY <2>1, Queues DEF HeardInv, Types, Handles
    <3>4. queue' = Tail(queue) \o <<Msg("Again")>>
      BY <2>3, <3>2, <3>3, Posted DEF Plain
    <3> QED BY <1>0, <2>1, <2>3, <3>1, <3>2, <3>4, QuietHandler
  <2> QED BY <1>5, <2>2, <2>3 DEF HandleUp
<1> QED BY <1>1, <1>2, <1>3, <1>4, <1>5

\* The client is closed and opened, and is told what to measure.
LEMMA ClientHandled ==
  ASSUME HeardInv, HandleOpen \/ HandleOpened \/ HandleMask
  PROVE  HeardInv'
<1>0. /\ Types /\ <<>> \in Seq(Message) /\ api \in ApiType /\ modem \in ModemType
  BY DEF HeardInv, Types
<1>1. CASE HandleOpen
  <2>1. /\ UNCHANGED <<want, asked, queue, wire, eng>> /\ conn' = "deaf" /\ conn # "open"
        /\ api' = [api EXCEPT !.meas = FALSE]
        /\ past' = IF api.meas THEN past \cup {"forgot"} ELSE past
        /\ modem' = Registered(modem, [api EXCEPT !.inSession = FALSE])
    BY <1>1 DEF HandleOpen
  <2>2. /\ [api EXCEPT !.inSession = FALSE] \in ApiType
        /\ [api EXCEPT !.inSession = FALSE].inSession = FALSE
    BY <1>0 DEF ApiType
  <2>3. modem' \in ModemType /\ modem'.mask = "quiet" /\ modem'.session = modem.session
    BY <1>0, <2>1, <2>2, Registering
  <2>4. api' \in ApiType
    BY <1>0, <2>1 DEF ApiType
  <2>5. Types'
    BY <1>0, <2>1, <2>3, <2>4 DEF Types
  <2>6. OpenedFirst' /\ MaskIsMeant' /\ SessionHasMask'
    BY <2>1, <2>3 DEF HeardInv, OpenedFirst, MaskIsMeant, SessionHasMask
  <2>7. MeasAsked'
    BY <2>1 DEF HeardInv, MeasAsked, MaskWaits
  <2> QED BY <2>5, <2>6, <2>7 DEF HeardInv
<1>2. CASE HandleOpened
  <2>1. /\ Handles("Open") /\ queue' = Tail(queue)
        /\ UNCHANGED <<want, asked, wire, eng, api, modem, past>>
        /\ conn # "open" /\ conn' \in {"open", "dead"}
    BY <1>2 DEF HandleOpened
  <2>2. queue' \in Seq(Message)
    BY <1>0, <2>1, Taken
  <2>3. MaskWaits => MaskWaits'
    <3>1. Handles("Open") /\ queue' = Tail(queue) /\ "Open" # "Mask"
      BY <2>1
    <3> QED BY <1>0, <3>1, Taken, Zenon
  <2>4. Types'
    BY <1>0, <2>1, <2>2 DEF Types
  <2>5. OpenedFirst' /\ MaskIsMeant' /\ SessionHasMask'
    BY <2>1 DEF HeardInv, OpenedFirst, MaskIsMeant, SessionHasMask
  <2>6. MeasAsked'
    BY <2>1, <2>3 DEF HeardInv, MeasAsked
  <2> QED BY <2>4, <2>5, <2>6 DEF HeardInv
<1>3. CASE HandleMask
  <2> DEFINE a == [api EXCEPT !.meas = @ \/ Head1.arg]
  <2>1. /\ Handles("Mask") /\ queue' = Tail(queue) /\ UNCHANGED <<want, asked, wire, eng, conn>>
        /\ \/ /\ conn = "open" /\ api' = a /\ modem' = registerEventMask(a) /\ past' = past
           \/ /\ api' = api /\ modem' = modem
              /\ past' = IF a # api THEN past \cup {"forgot"} ELSE past
    BY <1>3 DEF HandleMask
  <2> HIDE DEF a
  <2>2. /\ Head1 \in Message /\ queue' \in Seq(Message)
        /\ Head1.kind = "Mask"
    <3>1. Handles("Mask") /\ queue' = Tail(queue)
      BY <2>1
    <3> QED BY <1>0, <3>1, Taken
  <2>3. Head1.arg \in BOOLEAN /\ Head1 = MsgOf("Mask", Head1.arg)
    BY <2>2, Carries
  <2>4. /\ a \in ApiType /\ a.inSession = api.inSession /\ a.engineOn = api.engineOn
        /\ a.meas = (api.meas \/ Head1.arg)
    BY <1>0, <2>3 DEF ApiType, a
  <2>5. /\ modem' \in ModemType /\ modem'.session = modem.session
        /\ \/ conn = "open" /\ api' = a /\ past' = past
              /\ modem'.mask = (IF a.inSession THEN "full" ELSE "quiet")
              /\ modem'.meas = (a.inSession /\ a.meas)
           \/ api' = api /\ modem' = modem
    BY <1>0, <2>1, <2>4, Registering DEF registerEventMask
  <2>6. Types'
    BY <1>0, <2>1, <2>2, <2>4, <2>5 DEF Types
  <2>7. OpenedFirst' /\ MaskIsMeant' /\ SessionHasMask'
    BY <2>1, <2>4, <2>5 DEF HeardInv, OpenedFirst, MaskIsMeant, SessionHasMask
  <2>8. MeasAsked'
    <3>1. CASE Head1.arg
      <4>1. \/ api'.meas
            \/ "forgot" \in past'
        BY <2>1, <2>4, <3>1
      <4> QED BY <4>1 DEF MeasAsked
    <3>2. CASE ~Head1.arg
      <4>1. a = api
        BY <1>0, <2>3, <3>2 DEF a, ApiType
      <4>2. api' = api /\ past' = past
        BY <2>1, <4>1
      <4>3. queue \in Seq(Message) /\ queue # <<>>
        BY <1>0, <2>1 DEF Types, Handles
      <4>4. queue[1] # MsgOf("Mask", TRUE)
        BY <2>3, <3>2 DEF MsgOf, Head1
      <4>5. MaskWaits => MaskWaits'
        BY <2>1, <4>3, <4>4, StillWaits DEF MaskWaits
      <4> QED BY <2>1, <4>2, <4>5 DEF HeardInv, MeasAsked
    <3> QED BY <2>3, <3>1, <3>2
  <2> QED BY <2>6, <2>7, <2>8 DEF HeardInv
<1> QED BY <1>1, <1>2, <1>3

\* The framework calls: all it does at once is to post messages.
LEMMA CallKeeps == HeardInv /\ Call => HeardInv'
<1> SUFFICES ASSUME HeardInv, Call PROVE HeardInv'
  OBVIOUS
<1>0. Types /\ eng \in EngType
  BY DEF HeardInv, Types
<1>1. ASSUME NEW ms \in Seq(Message), Posting(ms) \/ UNCHANGED queue,
             UNCHANGED <<wire, eng, api, conn, modem>>,
             want' \in BOOLEAN, asked' \in Modes \cup {Invalid},
             "forgot" \in past => "forgot" \in past'
      PROVE  HeardInv'
  <2>1. queue' \in Seq(Message)
    BY <1>0, <1>1, Added DEF Types
  <2>2. MaskWaits => MaskWaits'
    BY <1>0, <1>1, Added DEF MaskWaits
  <2>3. Types'
    BY <1>0, <1>1, <2>1 DEF Types
  <2>4. Heard'
    BY <1>1, <2>2, QuietKeeps
  <2> QED BY <2>3, <2>4 DEF HeardInv, Heard
<1>2. ASSUME NEW mode \in Modes, NEW single \in BOOLEAN, Start(mode, single) PROVE HeardInv'
  <2>1. [mode |-> mode, single |-> single] \in Criteria
    BY DEF Criteria
  <2>2. <<MsgOf("Mode", [mode |-> mode, single |-> single]), Msg("Start")>> \in Seq(Message)
    BY <2>1, Posted DEF Plain
  <2> QED BY <1>0, <1>1, <1>2, <2>2 DEF Start, Types
<1>3. ASSUME NEW mode \in Modes, SetMode(mode) PROVE HeardInv'
  <2>1. eng.single \in BOOLEAN
    BY <1>0 DEF EngType
  <2>2. [mode |-> mode, single |-> eng.single] \in Criteria
    BY <2>1 DEF Criteria
  <2>3. <<MsgOf("Mode", [mode |-> mode, single |-> eng.single])>> \in Seq(Message)
    BY <2>2, Posted
  <2> QED BY <1>0, <1>1, <1>3, <2>3 DEF SetMode, Types
<1>4. CASE Stop \/ Cleanup
  <2>1. <<Msg("Stop")>> \in Seq(Message)
    BY Posted DEF Plain
  <2> QED BY <1>0, <1>1, <1>4, <2>1 DEF Stop, Cleanup, Types
<1>5. ASSUME NEW t \in AidTypes, DeleteAidingData(t) PROVE HeardInv'
  <2>1. <<MsgOf("DelAid", t)>> \in Seq(Message)
    BY Posted
  <2> QED BY <1>0, <1>1, <1>5, <2>1 DEF DeleteAidingData, Types
<1>6. CASE MeasurementInit
  <2>1. <<MsgOf("Mask", TRUE)>> \in Seq(Message)
    BY PostedMask, Zenon
  <2>2. /\ Posting(<<MsgOf("Mask", TRUE)>>) /\ eng' = [eng EXCEPT !.meas = TRUE]
        /\ UNCHANGED <<want, asked, wire, api, conn, modem>>
    BY <1>6 DEF MeasurementInit
  <2>3. MaskWaits'
    <3>1. queue \in Seq(Message) /\ queue' = queue \o <<MsgOf("Mask", TRUE)>>
      BY <1>0, <2>2 DEF Types, Posting
    <3> QED BY <3>1, PostedMask, LastWaits, Zenon DEF MaskWaits
  <2>4. queue' \in Seq(Message)
    BY <1>0, <2>1, <2>2, Added
  <2>5. eng' \in EngType
    BY <1>0, <2>2 DEF EngType
  <2>6. Types'
    BY <1>0, <2>2, <2>4, <2>5 DEF Types
  <2>7. OpenedFirst' /\ MaskIsMeant' /\ SessionHasMask'
    BY <2>2 DEF HeardInv, OpenedFirst, MaskIsMeant, SessionHasMask
  <2> QED BY <2>3, <2>6, <2>7 DEF HeardInv, MeasAsked
<1>7. CASE MeasurementClose
  <2>1. <<MsgOf("Mask", FALSE)>> \in Seq(Message)
    BY PostedMask, Zenon
  <2>2. /\ Posting(<<MsgOf("Mask", FALSE)>>) /\ eng' = [eng EXCEPT !.meas = FALSE]
        /\ UNCHANGED <<want, asked, wire, api, conn, modem>>
    BY <1>7 DEF MeasurementClose
  <2>3. queue' \in Seq(Message)
    BY <1>0, <2>1, <2>2, Added
  <2>4. eng' \in EngType /\ ~eng'.meas
    BY <1>0, <2>2 DEF EngType
  <2>5. Types'
    BY <1>0, <2>2, <2>3, <2>4 DEF Types
  <2>6. OpenedFirst' /\ MaskIsMeant' /\ SessionHasMask'
    BY <2>2 DEF HeardInv, OpenedFirst, MaskIsMeant, SessionHasMask
  <2> QED BY <2>4, <2>5, <2>6 DEF HeardInv, MeasAsked
<1> QED BY <1>2, <1>3, <1>4, <1>5, <1>6, <1>7 DEF Call

\* The modem reports, crashes and returns, and its indications reach the queue.
LEMMA ModemKeeps ==
  ASSUME HeardInv,
         \/ Deliver \/ Crash \/ Return
         \/ \E on \in BOOLEAN : EngineTurns(on)
         \/ \E fix \in Fixes : Fixed(fix)
  PROVE  HeardInv'
<1>0. Types /\ eng \in EngType /\ modem \in ModemType /\ wire \in Seq(Indication)
  BY DEF HeardInv, Types
\* What changes neither the client nor the modem's events.
<1>1. ASSUME NEW ms \in Seq(Message), Posting(ms) \/ UNCHANGED queue,
             UNCHANGED <<want, asked, eng, api, conn>>, wire' \in Seq(Indication),
             modem' \in ModemType, modem'.session => modem.session,
             modem'.mask = modem.mask, modem'.meas = modem.meas,
             "forgot" \in past => "forgot" \in past'
      PROVE  HeardInv'
  <2>1. queue' \in Seq(Message)
    BY <1>0, <1>1, Added DEF Types
  <2>2. MaskWaits => MaskWaits'
    BY <1>0, <1>1, Added DEF MaskWaits
  <2>3. Types'
    BY <1>0, <1>1, <2>1 DEF Types
  <2>4. Heard'
    BY <1>1, <2>2, QuietKeeps
  <2> QED BY <2>3, <2>4 DEF HeardInv, Heard
<1>e. <<>> \in Seq(Message)
  OBVIOUS
<1>2. CASE eventCb
  <2>1. wire[1] \in Message /\ Tail(wire) \in Seq(Indication)
    BY <1>0, <1>2, Queues, Posted DEF eventCb
  <2>2. <<wire[1]>> \in Seq(Message)
    BY <2>1
  <2> QED BY <1>0, <1>1, <1>2, <2>1, <2>2 DEF eventCb
<1>3. CASE errorCb
  <2>1. Restart \in Seq(Message)
    BY Posted DEF Restart, Plain
  <2>2. Tail(wire) \in Seq(Indication)
    BY <1>0, <1>3, Queues DEF errorCb
  <2> QED BY <1>0, <1>1, <1>3, <2>1, <2>2 DEF errorCb
<1>4. CASE Crash
  <2>1. /\ modem' = Down /\ conn' \in {"dead", "lost"}
        /\ UNCHANGED <<want, asked, queue, eng, api>>
        /\ past' = past \cup {"crashed"}
    BY <1>4 DEF Crash
  <2>2. wire' \in Seq(Indication)
    BY <1>0, <1>4, Queues, Posted DEF Crash
  <2>3. Down \in ModemType /\ Down.mask = "none" /\ ~Down.session
    BY DEF Down, ModemType, Modes
  <2>4. Types'
    BY <1>0, <2>1, <2>2, <2>3 DEF Types
  <2>5. OpenedFirst' /\ MaskIsMeant' /\ SessionHasMask'
    BY <2>1, <2>3 DEF OpenedFirst, MaskIsMeant, SessionHasMask
  <2>6. MeasAsked'
    BY <2>1 DEF HeardInv, MeasAsked, MaskWaits
  <2> QED BY <2>4, <2>5, <2>6 DEF HeardInv
<1>5. CASE Return
  <2>1. /\ modem' \in ModemType /\ modem'.session = modem.session
        /\ modem'.mask = modem.mask /\ modem'.meas = modem.meas
    BY <1>0, <1>5 DEF Return, ModemType
  <2> QED BY <1>0, <1>1, <1>e, <1>5, <2>1 DEF Return
<1>6. ASSUME NEW on \in BOOLEAN, EngineTurns(on) PROVE HeardInv'
  <2>1. /\ modem' \in ModemType /\ modem'.session = modem.session
        /\ modem'.mask = modem.mask /\ modem'.meas = modem.meas
    BY <1>0, <1>6 DEF EngineTurns, ModemType
  <2>2. wire' \in Seq(Indication)
    BY <1>0, <1>6, Queues, Posted DEF EngineTurns, Sent
  <2> QED BY <1>0, <1>1, <1>e, <1>6, <2>1, <2>2 DEF EngineTurns
<1>7. ASSUME NEW fix \in Fixes, Fixed(fix) PROVE HeardInv'
  <2>1. /\ modem' \in ModemType /\ modem'.mask = modem.mask /\ modem'.meas = modem.meas
        /\ modem'.session => modem.session
    BY <1>0, <1>7 DEF Fixed, ModemType
  <2>2. wire' \in Seq(Indication)
    BY <1>0, <1>7, Queues, Posted DEF Fixed, Sent
  <2>3. "forgot" \in past => "forgot" \in past'
    BY <1>7 DEF Fixed
  <2> QED BY <1>0, <1>1, <1>e, <1>7, <2>1, <2>2, <2>3 DEF Fixed
<1> QED BY <1>2, <1>3, <1>4, <1>5, <1>6, <1>7 DEF Deliver

-----------------------------------------------------------------------------
(* A session is heard *)

\* The initial state satisfies the inductive invariant.
LEMMA InitInv == Init => HeardInv
<1> SUFFICES ASSUME Init PROVE HeardInv
  OBVIOUS
<1>1. queue \in Seq(Message) /\ wire \in Seq(Indication)
  BY Posted DEF Init, Plain
<1>2. eng \in EngType /\ api \in ApiType /\ ~eng.meas
  BY DEF Init, EngType, ApiType, Statuses
<1>3. modem \in ModemType /\ ~modem.session /\ modem.mask = "none"
  BY DEF Init, Down, ModemType, Modes
<1>4. Types
  BY <1>1, <1>2, <1>3 DEF Init, Types
<1>5. OpenedFirst /\ MaskIsMeant /\ SessionHasMask /\ MeasAsked
  BY <1>2, <1>3 DEF OpenedFirst, MaskIsMeant, SessionHasMask, MeasAsked
<1> QED BY <1>4, <1>5 DEF HeardInv

\* Every step keeps the inductive invariant.
LEMMA NextInv == HeardInv /\ [Next]_vars => HeardInv'
<1> SUFFICES ASSUME HeardInv, [Next]_vars PROVE HeardInv'
  OBVIOUS
<1>1. CASE Handle
  BY <1>1, CallsHandled, ReportsHandled, ClientHandled DEF Handle
<1>2. CASE Call
  BY <1>2, CallKeeps
<1>3. CASE \/ Deliver \/ Crash \/ Return
           \/ \E on \in BOOLEAN : EngineTurns(on)
           \/ \E fix \in Fixes : Fixed(fix)
  BY <1>3, ModemKeeps
<1>4. CASE UNCHANGED vars
  <2> USE <1>4 DEF vars
  <2>1. Types'
    BY DEF HeardInv, Types
  <2>2. OpenedFirst' /\ MaskIsMeant' /\ SessionHasMask'
    BY DEF HeardInv, OpenedFirst, MaskIsMeant, SessionHasMask
  <2>3. MeasAsked'
    BY DEF HeardInv, MeasAsked, MaskWaits
  <2> QED BY <2>1, <2>2, <2>3 DEF HeardInv
<1> QED BY <1>1, <1>2, <1>3, <1>4 DEF Next

\* The queue holds messages, the wire indications, and every other variable what it should.
THEOREM TypesHold == Spec => []Types
<1>1. HeardInv => Types
  BY DEF HeardInv
<1> QED BY <1>1, InitInv, NextInv, PTL DEF Spec

\* The events and the measurements of a session that runs are registered in the modem, whatever
\* order calls, reports and restarts come in, and a modem whose client is open reports to a
\* session only, or while its engine is believed on (registerEventMask, stopFix, open).
THEOREM AlwaysHeard == Spec => []SessionIsHeard
<1>1. HeardInv => SessionIsHeard
  <2> SUFFICES ASSUME HeardInv PROVE SessionIsHeard
    OBVIOUS
  <2>1. AtRest => conn = "open" /\ ~MaskWaits
    BY DEF AtRest, MaskWaits, Waits
  <2> QED BY <2>1 DEF HeardInv, MaskIsMeant, SessionHasMask, MeasAsked, SessionIsHeard
<1> QED BY <1>1, InitInv, NextInv, PTL DEF Spec

-----------------------------------------------------------------------------
(* What the messages say, in their order *)

\* What a message says, but for a mode, a kind of aiding data and a fix.
Tag(m) == IF m.kind = "Engine" THEN IF m.arg THEN "On" ELSE "Off"
          ELSE IF m.kind = "Mask" THEN IF m.arg THEN "Measure" ELSE "Unmeasure"
          ELSE IF m.kind = "Status" THEN m.arg ELSE m.kind
Tags(q) == [k \in DOMAIN q |-> Tag(q[k])]
posted == Tags(queue)
coming == Tags(wire)

\* One of P is in t, before or behind place k; whatever is in P is, or is not, followed by
\* one of R; x is there once.
Some(t, P)       == \E k \in DOMAIN t : t[k] \in P
Before(t, P, k)  == \A l \in DOMAIN t : l < k => t[l] \notin P
After(t, P, k)   == \A l \in DOMAIN t : k < l => t[l] \notin P
Never(t, P, R)   == \A k \in DOMAIN t : t[k] \in P => After(t, R, k)
Covered(t, P, R) == \A k \in DOMAIN t : t[k] \in P => ~After(t, R, k)
Once(t, x)       == \A k \in DOMAIN t : t[k] = x => After(t, {x}, k)

\* A start before place k has not been followed by a stop there.
Begins == {"Start", "Again"}
Begun(t, k) == \E i \in DOMAIN t : i < k /\ t[i] \in Begins
                                    /\ \A l \in DOMAIN t : i < l /\ l < k => t[l] # "Stop"

\* The tags of the messages are those of the queue.
Any == Message \cup Indication

\* Messages whose kind says what they say.
Kept == Plain \cup {"Mode", "DelAid", "Pos", "Error"}
Words == Kept \cup {"On", "Off", "Measure", "Unmeasure"} \cup Statuses

\* What a message says is in its kind, but for reports, measurements and statuses.
LEMMA Reads ==
  ASSUME NEW m \in Any
  PROVE  /\ m.kind \in Kept => Tag(m) = m.kind
         /\ m.kind \in Kept \/ Tag(m) \in {"On", "Off", "Measure", "Unmeasure"} \cup Statuses
         /\ m.kind = "Engine" <=> Tag(m) \in {"On", "Off"}
         /\ Tag(m) = "On" => m = EngineReport(TRUE)
         /\ m.kind \in Kept \cup {"Engine", "Mask", "Status"}
<1>1. CASE m.kind \in Kept
  BY <1>1 DEF Kept, Plain, Tag
<1>2. ASSUME NEW b \in BOOLEAN, m = EngineReport(b)
      PROVE  m.kind = "Engine" /\ Tag(m) = (IF b THEN "On" ELSE "Off") /\ (b => m = EngineReport(TRUE))
  <2>1. m.kind = "Engine" /\ m.arg = b
    BY <1>2 DEF EngineReport, MsgOf
  <2>2. CASE b = TRUE
    BY <1>2, <2>1, <2>2 DEF Tag
  <2>3. CASE b = FALSE
    BY <1>2, <2>1, <2>3 DEF Tag
  <2> QED BY <2>2, <2>3
<1>3. ASSUME NEW b \in BOOLEAN, m = MsgOf("Mask", b)
      PROVE  m.kind = "Mask" /\ Tag(m) = (IF b THEN "Measure" ELSE "Unmeasure")
  <2>1. m.kind = "Mask" /\ m.arg = b
    BY <1>3 DEF MsgOf
  <2>2. CASE b = TRUE
    BY <2>1, <2>2 DEF Tag
  <2>3. CASE b = FALSE
    BY <2>1, <2>3 DEF Tag
  <2> QED BY <2>2, <2>3
<1>4. ASSUME NEW s \in Statuses, m = MsgOf("Status", s) PROVE m.kind = "Status" /\ Tag(m) \in Statuses
  BY <1>4 DEF MsgOf, Tag
<1>5. \/ m.kind \in Kept
      \/ \E b \in BOOLEAN : m = EngineReport(b)
      \/ \E b \in BOOLEAN : m = MsgOf("Mask", b)
      \/ \E s \in Statuses : m = MsgOf("Status", s)
  BY DEF Any, Message, Indication, Kept, Plain, Msg, MsgOf, PositionReport, EngineReport
<1>6. CASE \E b \in BOOLEAN : m = EngineReport(b)
  <2>1. PICK b \in BOOLEAN : m = EngineReport(b)
    BY <1>6
  <2>2. m.kind = "Engine" /\ Tag(m) = (IF b THEN "On" ELSE "Off") /\ (b => m = EngineReport(TRUE))
    BY <1>2, <2>1
  <2> QED BY <2>2 DEF Kept, Plain, Statuses
<1>7. CASE \E b \in BOOLEAN : m = MsgOf("Mask", b)
  <2>1. PICK b \in BOOLEAN : m = MsgOf("Mask", b)
    BY <1>7
  <2>2. m.kind = "Mask" /\ Tag(m) = (IF b THEN "Measure" ELSE "Unmeasure")
    BY <1>3, <2>1
  <2> QED BY <2>2 DEF Kept, Plain, Statuses
<1>8. CASE \E s \in Statuses : m = MsgOf("Status", s)
  <2>1. m.kind = "Status" /\ Tag(m) \in Statuses
    BY <1>4, <1>8
  <2> QED BY <2>1 DEF Kept, Plain, Statuses
<1>9. CASE m.kind \in Kept
  BY <1>1, <1>9 DEF Kept, Plain
<1> QED BY <1>5, <1>6, <1>7, <1>8, <1>9

\* A queue says as many words as it has messages.
LEMMA TagsOf ==
  ASSUME NEW q \in Seq(Any)
  PROVE  /\ Tags(q) \in Seq(Words) /\ Len(Tags(q)) = Len(q) /\ DOMAIN Tags(q) = DOMAIN q
         /\ DOMAIN q = 1..Len(q) /\ Len(q) \in Nat
         /\ \A k \in DOMAIN q : q[k] \in Any /\ Tags(q)[k] = Tag(q[k])
<1>1. \A m \in Any : Tag(m) \in Words
  BY Reads DEF Words
<1>2. DOMAIN q = 1..Len(q) /\ Len(q) \in Nat /\ \A k \in DOMAIN q : q[k] \in Any
  OBVIOUS
<1>3. Tags(q) = [k \in 1..Len(q) |-> Tag(q[k])]
  BY <1>2 DEF Tags
<1>4. Tags(q) \in [1..Len(q) -> Words]
  BY <1>1, <1>2, <1>3
<1>5. Tags(q) \in Seq(Words) /\ Len(Tags(q)) = Len(q)
  BY <1>2, <1>4
<1> QED BY <1>2, <1>3, <1>5

\* What is said without the first message.
LEMMA TagsTail ==
  ASSUME NEW q \in Seq(Any), q # <<>>
  PROVE  Tags(q) # <<>> /\ Tags(Tail(q)) = Tail(Tags(q)) /\ Tags(q)[1] = Tag(q[1])
<1>1. Tail(q) \in Seq(Any) /\ Len(q) # 0 /\ Len(Tail(q)) = Len(q) - 1
  OBVIOUS
<1>2. /\ Len(Tags(q)) = Len(q) /\ Tags(q) \in Seq(Words) /\ Len(q) \in Nat
      /\ \A k \in 1..Len(q) : Tags(q)[k] = Tag(q[k])
  BY TagsOf
<1>3. /\ Len(Tags(Tail(q))) = Len(q) - 1 /\ Tags(Tail(q)) \in Seq(Words)
      /\ \A k \in 1..Len(q) - 1 : Tags(Tail(q))[k] = Tag(Tail(q)[k])
  BY <1>1, TagsOf
<1>4. \A k \in 1..Len(q) - 1 : Tail(q)[k] = q[k + 1] /\ Tail(Tags(q))[k] = Tags(q)[k + 1]
  BY <1>1, <1>2
<1>5. \A k \in 1..Len(q) - 1 : Tags(Tail(q))[k] = Tail(Tags(q))[k]
  <2> TAKE k \in 1..Len(q) - 1
  <2>1. k + 1 \in 1..Len(q)
    BY <1>1, <1>2
  <2> QED BY <1>2, <1>3, <1>4, <2>1
<1>6. Tail(Tags(q)) \in Seq(Words) /\ Len(Tail(Tags(q))) = Len(q) - 1
  BY <1>1, <1>2
<1>7. Tags(Tail(q)) = Tail(Tags(q))
  BY <1>3, <1>5, <1>6
<1> QED BY <1>1, <1>2, <1>7

\* What is said by two queues, one behind the other.
LEMMA TagsJoin ==
  ASSUME NEW q \in Seq(Any), NEW r \in Seq(Any)
  PROVE  Tags(q \o r) = Tags(q) \o Tags(r)
<1>1. /\ Len(Tags(q)) = Len(q) /\ Tags(q) \in Seq(Words) /\ Len(q) \in Nat
      /\ \A k \in 1..Len(q) : Tags(q)[k] = Tag(q[k])
      /\ Len(Tags(r)) = Len(r) /\ Tags(r) \in Seq(Words) /\ Len(r) \in Nat
      /\ \A k \in 1..Len(r) : Tags(r)[k] = Tag(r[k])
  BY TagsOf
<1>2. q \o r \in Seq(Any) /\ Len(q \o r) = Len(q) + Len(r)
  OBVIOUS
<1>3. /\ Len(Tags(q \o r)) = Len(q) + Len(r) /\ Tags(q \o r) \in Seq(Words)
      /\ \A k \in 1..Len(q) + Len(r) : Tags(q \o r)[k] = Tag((q \o r)[k])
  BY <1>2, TagsOf
<1>4. \A k \in 1..Len(q) + Len(r) : Tags(q \o r)[k] = (Tags(q) \o Tags(r))[k]
  <2> TAKE k \in 1..Len(q) + Len(r)
  <2>1. CASE k <= Len(q)
    <3>1. k \in 1..Len(q) /\ (q \o r)[k] = q[k] /\ (Tags(q) \o Tags(r))[k] = Tags(q)[k]
      BY <1>1, <2>1
    <3> QED BY <1>1, <1>3, <3>1
  <2>2. CASE k > Len(q)
    <3>1. /\ k - Len(q) \in 1..Len(r) /\ (q \o r)[k] = r[k - Len(q)]
          /\ (Tags(q) \o Tags(r))[k] = Tags(r)[k - Len(q)]
      BY <1>1, <2>2
    <3> QED BY <1>1, <1>3, <3>1
  <2> QED BY <1>1, <2>1, <2>2
<1>5. Tags(q) \o Tags(r) \in Seq(Words) /\ Len(Tags(q) \o Tags(r)) = Len(q) + Len(r)
  <2>1. Tags(q) \in Seq(Words) /\ Tags(r) \in Seq(Words)
    BY <1>1
  <2>2. Len(Tags(q) \o Tags(r)) = Len(Tags(q)) + Len(Tags(r))
    BY <2>1
  <2>3. Tags(q) \o Tags(r) \in Seq(Words)
    BY <2>1, Queues
  <2> QED BY <1>1, <2>2, <2>3
<1> QED BY <1>3, <1>4, <1>5

\* The first is taken.
LEMMA FirstTaken ==
  ASSUME NEW t \in Seq(Words), t # <<>>, NEW P, NEW R
  PROVE  /\ Some(t, P) <=> t[1] \in P \/ Some(Tail(t), P)
         /\ \A k \in Nat \ {0} : Before(t, P, k + 1) <=> t[1] \notin P /\ Before(Tail(t), P, k)
         /\ \A k \in Nat \ {0} : After(t, P, k + 1) <=> After(Tail(t), P, k)
         /\ After(t, P, 1) <=> ~Some(Tail(t), P)
         /\ Before(t, P, 1)
<1>1. /\ Len(t) \in Nat \ {0} /\ DOMAIN t = 1..Len(t) /\ DOMAIN Tail(t) = 1..Len(t) - 1
      /\ \A k \in 1..Len(t) - 1 : Tail(t)[k] = t[k + 1]
  OBVIOUS
<1>2. \A l \in DOMAIN t : l = 1 \/ (l - 1 \in DOMAIN Tail(t) /\ Tail(t)[l - 1] = t[l])
  BY <1>1
<1>3. \A l \in DOMAIN Tail(t) : l + 1 \in DOMAIN t /\ Tail(t)[l] = t[l + 1] /\ l \in Nat \ {0}
  BY <1>1
<1>4. 1 \in DOMAIN t /\ \A l \in DOMAIN t : l \in Nat \ {0}
  BY <1>1
<1>5. Some(t, P) <=> t[1] \in P \/ Some(Tail(t), P)
  BY <1>2, <1>3, <1>4 DEF Some
<1>6. ASSUME NEW k \in Nat \ {0}
      PROVE  Before(t, P, k + 1) <=> t[1] \notin P /\ Before(Tail(t), P, k)
  <2>1. ASSUME Before(t, P, k + 1) PROVE t[1] \notin P /\ Before(Tail(t), P, k)
    <3>1. 1 < k + 1
      OBVIOUS
    <3>2. \A l \in DOMAIN Tail(t) : l < k => l + 1 < k + 1
      BY <1>3
    <3> QED BY <1>3, <1>4, <2>1, <3>1, <3>2 DEF Before
  <2>2. ASSUME t[1] \notin P, Before(Tail(t), P, k) PROVE Before(t, P, k + 1)
    <3>1. \A l \in DOMAIN t : l < k + 1 => l - 1 < k
      BY <1>4
    <3> QED BY <1>2, <2>2, <3>1 DEF Before
  <2> QED BY <2>1, <2>2
<1>7. ASSUME NEW k \in Nat \ {0} PROVE After(t, P, k + 1) <=> After(Tail(t), P, k)
  <2>1. \A l \in DOMAIN Tail(t) : k < l => k + 1 < l + 1
    BY <1>3
  <2>2. \A l \in DOMAIN t : k + 1 < l => l # 1 /\ k < l - 1
    BY <1>4
  <2> QED BY <1>2, <1>3, <2>1, <2>2 DEF After
<1>8. After(t, P, 1) <=> ~Some(Tail(t), P)
  <2>1. \A l \in DOMAIN Tail(t) : 1 < l + 1
    BY <1>3
  <2>2. \A l \in DOMAIN t : 1 < l => l # 1
    BY <1>4
  <2> QED BY <1>2, <1>3, <2>1, <2>2 DEF After, Some
<1>9. Before(t, P, 1)
  BY <1>4 DEF Before
<1> QED BY <1>5, <1>6, <1>7, <1>8, <1>9

\* The same for what is said about two kinds of words.
LEMMA FirstTakenOrder ==
  ASSUME NEW t \in Seq(Words), t # <<>>, NEW P, NEW R, NEW x
  PROVE  /\ Never(t, P, R) <=> (t[1] \in P => ~Some(Tail(t), R)) /\ Never(Tail(t), P, R)
         /\ Covered(t, P, R) <=> (t[1] \in P => Some(Tail(t), R)) /\ Covered(Tail(t), P, R)
         /\ Once(t, x) <=> (t[1] = x => ~Some(Tail(t), {x})) /\ Once(Tail(t), x)
<1>1. /\ Len(t) \in Nat \ {0} /\ DOMAIN t = 1..Len(t) /\ DOMAIN Tail(t) = 1..Len(t) - 1
      /\ \A k \in 1..Len(t) - 1 : Tail(t)[k] = t[k + 1]
  OBVIOUS
<1>2. \A l \in DOMAIN t : l = 1 \/ \E k \in DOMAIN Tail(t) : l = k + 1
  <2> TAKE l \in DOMAIN t
  <2>1. l = 1 \/ (l - 1 \in DOMAIN Tail(t) /\ l = (l - 1) + 1)
    BY <1>1
  <2> QED BY <2>1
<1>3. \A l \in DOMAIN Tail(t) : l + 1 \in DOMAIN t /\ Tail(t)[l] = t[l + 1] /\ l \in Nat \ {0}
  BY <1>1
<1>4. 1 \in DOMAIN t
  BY <1>1
<1>5. \A k \in DOMAIN Tail(t) : \A S : After(t, S, k + 1) <=> After(Tail(t), S, k)
  <2> TAKE k \in DOMAIN Tail(t)
  <2> TAKE S
  <2> QED BY <1>3, FirstTaken
<1>6. \A S : After(t, S, 1) <=> ~Some(Tail(t), S)
  BY FirstTaken
<1>7. Never(t, P, R) <=> (t[1] \in P => ~Some(Tail(t), R)) /\ Never(Tail(t), P, R)
  BY <1>2, <1>3, <1>4, <1>5, <1>6 DEF Never
<1>8. Covered(t, P, R) <=> (t[1] \in P => Some(Tail(t), R)) /\ Covered(Tail(t), P, R)
  BY <1>2, <1>3, <1>4, <1>5, <1>6 DEF Covered
<1>9. Once(t, x) <=> (t[1] = x => ~Some(Tail(t), {x})) /\ Once(Tail(t), x)
  BY <1>2, <1>3, <1>4, <1>5, <1>6 DEF Once
<1> QED BY <1>7, <1>8, <1>9

\* The same for a start that has not been followed by a stop.
LEMMA FirstTakenBegun ==
  ASSUME NEW t \in Seq(Words), t # <<>>, NEW k \in Nat \ {0}
  PROVE  /\ Begun(t, k + 1) <=> (t[1] \in Begins /\ Before(Tail(t), {"Stop"}, k)) \/ Begun(Tail(t), k)
         /\ ~Begun(t, 1)
<1>1. /\ Len(t) \in Nat \ {0} /\ DOMAIN t = 1..Len(t) /\ DOMAIN Tail(t) = 1..Len(t) - 1
      /\ \A j \in 1..Len(t) - 1 : Tail(t)[j] = t[j + 1]
  OBVIOUS
<1>2. \A l \in DOMAIN t : l \in Nat \ {0} /\ (l = 1 \/ (l - 1 \in DOMAIN Tail(t) /\ Tail(t)[l - 1] = t[l]))
  BY <1>1
<1>3. \A l \in DOMAIN Tail(t) : l + 1 \in DOMAIN t /\ Tail(t)[l] = t[l + 1] /\ l \in Nat \ {0}
  BY <1>1
<1>4. 1 \in DOMAIN t
  BY <1>1
<1>5. ASSUME Begun(t, k + 1)
      PROVE  (t[1] \in Begins /\ Before(Tail(t), {"Stop"}, k)) \/ Begun(Tail(t), k)
  <2>1. PICK i \in DOMAIN t : /\ i < k + 1 /\ t[i] \in Begins
                              /\ \A l \in DOMAIN t : i < l /\ l < k + 1 => t[l] # "Stop"
    BY <1>5 DEF Begun
  <2>2. \A l \in DOMAIN Tail(t) : i < l + 1 /\ l < k => Tail(t)[l] # "Stop"
    <3> TAKE l \in DOMAIN Tail(t)
    <3>1. l + 1 \in DOMAIN t /\ Tail(t)[l] = t[l + 1] /\ (l < k => l + 1 < k + 1)
      BY <1>3
    <3> QED BY <2>1, <3>1
  <2>3. CASE i = 1
    <3>1. \A l \in DOMAIN Tail(t) : i < l + 1
      BY <1>3, <2>3
    <3> QED BY <2>1, <2>2, <2>3, <3>1 DEF Before
  <2>4. CASE i # 1
    <3>1. i - 1 \in DOMAIN Tail(t) /\ Tail(t)[i - 1] \in Begins /\ i - 1 < k
      BY <1>2, <2>1, <2>4
    <3>2. \A l \in DOMAIN Tail(t) : i - 1 < l => i < l + 1
      BY <1>2, <1>3, <2>4
    <3> QED BY <2>2, <3>1, <3>2 DEF Begun
  <2> QED BY <2>3, <2>4
<1>6. ASSUME t[1] \in Begins, Before(Tail(t), {"Stop"}, k) PROVE Begun(t, k + 1)
  <2>1. ASSUME NEW l \in DOMAIN t, 1 < l, l < k + 1 PROVE t[l] # "Stop"
    <3>1. l - 1 \in DOMAIN Tail(t) /\ Tail(t)[l - 1] = t[l] /\ l - 1 < k
      BY <1>2, <2>1
    <3> QED BY <1>6, <3>1 DEF Before
  <2>2. 1 < k + 1
    OBVIOUS
  <2> QED BY <1>4, <1>6, <2>1, <2>2 DEF Begun
<1>7. ASSUME Begun(Tail(t), k) PROVE Begun(t, k + 1)
  <2>1. PICK i \in DOMAIN Tail(t) : /\ i < k /\ Tail(t)[i] \in Begins
                                    /\ \A l \in DOMAIN Tail(t) : i < l /\ l < k => Tail(t)[l] # "Stop"
    BY <1>7 DEF Begun
  <2>2. i + 1 \in DOMAIN t /\ t[i + 1] \in Begins /\ i + 1 < k + 1
    BY <1>3, <2>1
  <2>3. ASSUME NEW l \in DOMAIN t, i + 1 < l, l < k + 1 PROVE t[l] # "Stop"
    <3>1. l - 1 \in DOMAIN Tail(t) /\ Tail(t)[l - 1] = t[l] /\ l - 1 < k /\ i < l - 1
      BY <1>2, <1>3, <2>3
    <3> QED BY <2>1, <3>1
  <2> QED BY <2>2, <2>3 DEF Begun
<1>8. ~Begun(t, 1)
  BY <1>2 DEF Begun
<1> QED BY <1>5, <1>6, <1>7, <1>8

\* Others are added.
LEMMA Joined ==
  ASSUME NEW t \in Seq(Words), NEW r \in Seq(Words), NEW P
  PROVE  /\ Some(t \o r, P) <=> Some(t, P) \/ Some(r, P)
         /\ \A k \in 1..Len(t) + 1 : Before(t \o r, P, k) <=> Before(t, P, k)
         /\ Before(t, P, Len(t) + 1) <=> ~Some(t, P)
         /\ \A k \in DOMAIN t : After(t \o r, P, k) <=> After(t, P, k) /\ ~Some(r, P)
         /\ \A k \in DOMAIN r : After(t \o r, P, Len(t) + k) <=> After(r, P, k)
<1>1. /\ Len(t) \in Nat /\ DOMAIN t = 1..Len(t) /\ Len(r) \in Nat /\ DOMAIN r = 1..Len(r)
      /\ DOMAIN (t \o r) = 1..Len(t) + Len(r)
  OBVIOUS
<1>2. \A l \in DOMAIN t : l \in DOMAIN (t \o r) /\ (t \o r)[l] = t[l] /\ l \in Nat /\ l <= Len(t)
  BY <1>1
<1>3. \A l \in DOMAIN r : /\ Len(t) + l \in DOMAIN (t \o r) /\ (t \o r)[Len(t) + l] = r[l]
                          /\ l \in Nat \ {0}
  BY <1>1
<1>4. ASSUME NEW l \in DOMAIN (t \o r)
      PROVE  l \in DOMAIN t \/ (l - Len(t) \in DOMAIN r /\ l = Len(t) + (l - Len(t)) /\ l > Len(t))
  BY <1>1
<1>5. Some(t \o r, P) <=> Some(t, P) \/ Some(r, P)
  <2>1. ASSUME Some(t \o r, P) PROVE Some(t, P) \/ Some(r, P)
    <3>1. PICK l \in DOMAIN (t \o r) : (t \o r)[l] \in P
      BY <2>1 DEF Some
    <3>2. CASE l \in DOMAIN t
      BY <1>2, <3>1, <3>2 DEF Some
    <3>3. CASE l - Len(t) \in DOMAIN r /\ l = Len(t) + (l - Len(t))
      <4>1. r[l - Len(t)] \in P
        BY <1>3, <3>1, <3>3
      <4> QED BY <3>3, <4>1 DEF Some
    <3> QED BY <1>4, <3>2, <3>3
  <2> QED BY <1>2, <1>3, <2>1 DEF Some
<1>6. ASSUME NEW k \in 1..Len(t) + 1 PROVE Before(t \o r, P, k) <=> Before(t, P, k)
  <2>1. \A l \in DOMAIN (t \o r) : l < k => l \in DOMAIN t
    BY <1>1
  <2> QED BY <1>2, <2>1 DEF Before
<1>7. Before(t, P, Len(t) + 1) <=> ~Some(t, P)
  <2>1. \A l \in DOMAIN t : l < Len(t) + 1
    BY <1>1
  <2> QED BY <2>1 DEF Before, Some
<1>8. ASSUME NEW k \in DOMAIN t PROVE After(t \o r, P, k) <=> After(t, P, k) /\ ~Some(r, P)
  <2>1. \A l \in DOMAIN r : k < Len(t) + l
    BY <1>1
  <2>2. ASSUME After(t \o r, P, k) PROVE After(t, P, k) /\ ~Some(r, P)
    BY <1>2, <1>3, <2>1, <2>2 DEF After, Some
  <2>3. ASSUME After(t, P, k), ~Some(r, P) PROVE After(t \o r, P, k)
    <3> SUFFICES ASSUME NEW l \in DOMAIN (t \o r), k < l PROVE (t \o r)[l] \notin P
      BY DEF After
    <3>1. CASE l \in DOMAIN t
      BY <1>2, <2>3, <3>1 DEF After
    <3>2. CASE l - Len(t) \in DOMAIN r /\ l = Len(t) + (l - Len(t))
      <4>1. (t \o r)[l] = r[l - Len(t)]
        BY <1>3, <3>2
      <4> QED BY <2>3, <3>2, <4>1 DEF Some
    <3> QED BY <1>4, <3>1, <3>2
  <2> QED BY <2>2, <2>3
<1>9. ASSUME NEW k \in DOMAIN r PROVE After(t \o r, P, Len(t) + k) <=> After(r, P, k)
  <2>1. ASSUME After(t \o r, P, Len(t) + k) PROVE After(r, P, k)
    <3>1. \A l \in DOMAIN r : k < l => Len(t) + k < Len(t) + l
      BY <1>1
    <3> QED BY <1>3, <2>1, <3>1 DEF After
  <2>2. ASSUME After(r, P, k) PROVE After(t \o r, P, Len(t) + k)
    <3> SUFFICES ASSUME NEW l \in DOMAIN (t \o r), Len(t) + k < l PROVE (t \o r)[l] \notin P
      BY DEF After
    <3>1. l - Len(t) \in DOMAIN r /\ k < l - Len(t) /\ l = Len(t) + (l - Len(t))
      BY <1>1
    <3>2. (t \o r)[l] = r[l - Len(t)]
      BY <1>3, <3>1
    <3> QED BY <2>2, <3>1, <3>2 DEF After
  <2> QED BY <2>1, <2>2
<1> QED BY <1>5, <1>6, <1>7, <1>8, <1>9

\* The same for what is said about two kinds of words.
LEMMA JoinedOrder ==
  ASSUME NEW t \in Seq(Words), NEW r \in Seq(Words), NEW P, NEW R, NEW x
  PROVE  /\ Never(t \o r, P, R) <=> Never(t, P, R) /\ Never(r, P, R) /\ ~(Some(t, P) /\ Some(r, R))
         /\ Covered(t \o r, P, R) <=> Covered(r, P, R) /\ (Some(r, R) \/ Covered(t, P, R))
         /\ Once(t \o r, x) <=> Once(t, x) /\ Once(r, x) /\ ~(Some(t, {x}) /\ Some(r, {x}))
<1>1. /\ Len(t) \in Nat /\ DOMAIN t = 1..Len(t) /\ Len(r) \in Nat /\ DOMAIN r = 1..Len(r)
      /\ DOMAIN (t \o r) = 1..Len(t) + Len(r)
  OBVIOUS
<1>2. \A l \in DOMAIN t : l \in DOMAIN (t \o r) /\ (t \o r)[l] = t[l]
  BY <1>1
<1>3. \A l \in DOMAIN r : Len(t) + l \in DOMAIN (t \o r) /\ (t \o r)[Len(t) + l] = r[l]
  BY <1>1
<1>4. \A l \in DOMAIN (t \o r) : l \in DOMAIN t \/ \E j \in DOMAIN r : l = Len(t) + j
  <2> TAKE l \in DOMAIN (t \o r)
  <2>1. l \in DOMAIN t \/ (l - Len(t) \in DOMAIN r /\ l = Len(t) + (l - Len(t)))
    BY <1>1
  <2> QED BY <2>1
<1>5. ASSUME NEW S
      PROVE  /\ \A k \in DOMAIN t : After(t \o r, S, k) <=> After(t, S, k) /\ ~Some(r, S)
             /\ \A k \in DOMAIN r : After(t \o r, S, Len(t) + k) <=> After(r, S, k)
  BY Joined
<1>6. Never(t \o r, P, R) <=> Never(t, P, R) /\ Never(r, P, R) /\ ~(Some(t, P) /\ Some(r, R))
  <2>1. ASSUME Never(t \o r, P, R) PROVE Never(t, P, R) /\ Never(r, P, R) /\ ~(Some(t, P) /\ Some(r, R))
    BY <1>2, <1>3, <1>5, <2>1 DEF Never, Some
  <2>2. ASSUME Never(t, P, R), Never(r, P, R), ~(Some(t, P) /\ Some(r, R)) PROVE Never(t \o r, P, R)
    <3> SUFFICES ASSUME NEW l \in DOMAIN (t \o r), (t \o r)[l] \in P PROVE After(t \o r, R, l)
      BY DEF Never
    <3>1. CASE l \in DOMAIN t
      BY <1>2, <1>5, <2>2, <3>1 DEF Never, Some
    <3>2. ASSUME NEW j \in DOMAIN r, l = Len(t) + j PROVE After(t \o r, R, l)
      BY <1>3, <1>5, <2>2, <3>2 DEF Never, Some
    <3> QED BY <1>4, <3>1, <3>2
  <2> QED BY <2>1, <2>2
<1>7. Covered(t \o r, P, R) <=> Covered(r, P, R) /\ (Some(r, R) \/ Covered(t, P, R))
  <2>1. ASSUME Covered(t \o r, P, R) PROVE Covered(r, P, R) /\ (Some(r, R) \/ Covered(t, P, R))
    BY <1>2, <1>3, <1>5, <2>1 DEF Covered
  <2>2. ASSUME Covered(r, P, R), Some(r, R) \/ Covered(t, P, R) PROVE Covered(t \o r, P, R)
    <3> SUFFICES ASSUME NEW l \in DOMAIN (t \o r), (t \o r)[l] \in P PROVE ~After(t \o r, R, l)
      BY DEF Covered
    <3>1. CASE l \in DOMAIN t
      BY <1>2, <1>5, <2>2, <3>1 DEF Covered, Some
    <3>2. ASSUME NEW j \in DOMAIN r, l = Len(t) + j PROVE ~After(t \o r, R, l)
      BY <1>3, <1>5, <2>2, <3>2 DEF Covered, Some
    <3> QED BY <1>4, <3>1, <3>2
  <2> QED BY <2>1, <2>2
<1>8. Once(t \o r, x) <=> Once(t, x) /\ Once(r, x) /\ ~(Some(t, {x}) /\ Some(r, {x}))
  <2>1. ASSUME Once(t \o r, x) PROVE Once(t, x) /\ Once(r, x) /\ ~(Some(t, {x}) /\ Some(r, {x}))
    BY <1>2, <1>3, <1>5, <2>1 DEF Once, Some
  <2>2. ASSUME Once(t, x), Once(r, x), ~(Some(t, {x}) /\ Some(r, {x})) PROVE Once(t \o r, x)
    <3> SUFFICES ASSUME NEW l \in DOMAIN (t \o r), (t \o r)[l] = x PROVE After(t \o r, {x}, l)
      BY DEF Once
    <3>1. CASE l \in DOMAIN t
      BY <1>2, <1>5, <2>2, <3>1 DEF Once, Some
    <3>2. ASSUME NEW j \in DOMAIN r, l = Len(t) + j PROVE After(t \o r, {x}, l)
      BY <1>3, <1>5, <2>2, <3>2 DEF Once, Some
    <3> QED BY <1>4, <3>1, <3>2
  <2> QED BY <2>1, <2>2
<1> QED BY <1>6, <1>7, <1>8

\* The same for a start that has not been followed by a stop.
LEMMA JoinedBegun ==
  ASSUME NEW t \in Seq(Words), NEW r \in Seq(Words)
  PROVE  /\ \A k \in 1..Len(t) + 1 : Begun(t \o r, k) <=> Begun(t, k)
         /\ Begun(t, Len(t) + 1) <=> ~Covered(t, Begins, {"Stop"})
<1>1. /\ Len(t) \in Nat /\ DOMAIN t = 1..Len(t) /\ Len(r) \in Nat
      /\ DOMAIN (t \o r) = 1..Len(t) + Len(r)
  OBVIOUS
<1>2. \A l \in DOMAIN t : l \in DOMAIN (t \o r) /\ (t \o r)[l] = t[l]
  BY <1>1
<1>3. ASSUME NEW k \in 1..Len(t) + 1 PROVE Begun(t \o r, k) <=> Begun(t, k)
  <2>1. \A l \in DOMAIN (t \o r) : l < k => l \in DOMAIN t
    BY <1>1
  <2> QED BY <1>2, <2>1 DEF Begun
<1>4. Begun(t, Len(t) + 1) <=> ~Covered(t, Begins, {"Stop"})
  <2>1. \A l \in DOMAIN t : l < Len(t) + 1
    BY <1>1
  <2> QED BY <2>1 DEF Begun, Covered, After
<1> QED BY <1>3, <1>4

\* What is added is one message, two, or the three of a restart.
LEMMA One ==
  ASSUME NEW x \in Words
  PROVE  /\ <<x>> \in Seq(Words) /\ DOMAIN <<x>> = {1} /\ <<x>>[1] = x
         /\ \A P : Some(<<x>>, P) <=> x \in P
         /\ \A P : After(<<x>>, P, 1)
         /\ \A P, R : Never(<<x>>, P, R)
         /\ \A P, R : Covered(<<x>>, P, R) <=> x \notin P
         /\ \A y : Once(<<x>>, y)
<1>1. <<x>> \in Seq(Words) /\ DOMAIN <<x>> = {1} /\ <<x>>[1] = x
  OBVIOUS
<1>2. \A P : After(<<x>>, P, 1)
  BY <1>1 DEF After
<1> HIDE DEF Words
<1> QED BY <1>1, <1>2 DEF Some, Never, Covered, Once

\* Two words.
LEMMA Two ==
  ASSUME NEW x \in Words, NEW y \in Words
  PROVE  /\ <<x, y>> \in Seq(Words) /\ DOMAIN <<x, y>> = {1, 2}
         /\ <<x, y>>[1] = x /\ <<x, y>>[2] = y
         /\ \A P : Some(<<x, y>>, P) <=> x \in P \/ y \in P
         /\ \A P : (After(<<x, y>>, P, 1) <=> y \notin P) /\ After(<<x, y>>, P, 2)
         /\ \A P, R : Never(<<x, y>>, P, R) <=> ~(x \in P /\ y \in R)
         /\ \A P, R : Covered(<<x, y>>, P, R) <=> y \notin P /\ (x \in P => y \in R)
         /\ \A z : Once(<<x, y>>, z) <=> ~(x = z /\ y = z)
<1>1. /\ <<x, y>> \in Seq(Words) /\ DOMAIN <<x, y>> = {1, 2}
      /\ <<x, y>>[1] = x /\ <<x, y>>[2] = y
  OBVIOUS
<1>2. \A P : (After(<<x, y>>, P, 1) <=> y \notin P) /\ After(<<x, y>>, P, 2)
  BY <1>1 DEF After
<1> QED BY <1>1, <1>2 DEF Some, Never, Covered, Once

\* t and u say the same but for words that are not in S.
Same(t, u, S) ==
  /\ \A P \in SUBSET S : Some(u, P) <=> Some(t, P)
  /\ \A P, R \in SUBSET S : Never(u, P, R) <=> Never(t, P, R)
  /\ \A P, R \in SUBSET S : Covered(u, P, R) <=> Covered(t, P, R)
  /\ \A x \in S : Once(u, x) <=> Once(t, x)

\* Taking another word leaves the order of the words of S as it is.
LEMMA SameTail ==
  ASSUME NEW t \in Seq(Words), t # <<>>, NEW S, t[1] \notin S
  PROVE  Same(t, Tail(t), S)
<1>1. ASSUME NEW P \in SUBSET S PROVE Some(Tail(t), P) <=> Some(t, P)
  BY FirstTaken
<1>2. ASSUME NEW P \in SUBSET S, NEW R \in SUBSET S
      PROVE  /\ Never(Tail(t), P, R) <=> Never(t, P, R)
             /\ Covered(Tail(t), P, R) <=> Covered(t, P, R)
  <2>1. t[1] \notin P
    OBVIOUS
  <2> QED BY <2>1, FirstTakenOrder
<1>3. ASSUME NEW x \in S PROVE Once(Tail(t), x) <=> Once(t, x)
  <2>1. t[1] # x
    OBVIOUS
  <2> QED BY <2>1, FirstTakenOrder
<1> QED BY <1>1, <1>2, <1>3 DEF Same

\* So does adding others.
LEMMA SameJoin ==
  ASSUME NEW t \in Seq(Words), NEW r \in Seq(Words), NEW S, ~Some(r, S)
  PROVE  Same(t, t \o r, S)
<1>0. ASSUME NEW P \in SUBSET S PROVE ~Some(r, P)
  BY DEF Some
<1>1. ASSUME NEW P \in SUBSET S PROVE Some(t \o r, P) <=> Some(t, P)
  BY <1>0, Joined
<1>2. ASSUME NEW P \in SUBSET S, NEW R \in SUBSET S
      PROVE  /\ Never(t \o r, P, R) <=> Never(t, P, R)
             /\ Covered(t \o r, P, R) <=> Covered(t, P, R)
  <2>1. Never(r, P, R) /\ Covered(r, P, R) /\ ~Some(r, R)
    BY <1>0 DEF Never, Covered, Some
  <2> QED BY <2>1, JoinedOrder
<1>3. ASSUME NEW x \in S PROVE Once(t \o r, x) <=> Once(t, x)
  <2>1. Once(r, x) /\ ~Some(r, {x})
    BY <1>0 DEF Once, Some
  <2> QED BY <2>1, JoinedOrder
<1> QED BY <1>1, <1>2, <1>3 DEF Same

\* And one after the other.
LEMMA SameTrans ==
  ASSUME NEW t, NEW u, NEW v, NEW S, Same(t, u, S), Same(u, v, S)
  PROVE  Same(t, v, S)
BY DEF Same

\* And neither.
LEMMA SameSelf == ASSUME NEW t, NEW S PROVE Same(t, t, S)
BY DEF Same

\* The order of fewer words is the same if that of more is.
LEMMA SameLess == ASSUME NEW t, NEW u, NEW S, NEW R \in SUBSET S, Same(t, u, S) PROVE Same(t, u, R)
<1>1. \A P \in SUBSET R : P \in SUBSET S
  OBVIOUS
<1>2. \A x \in R : x \in S
  OBVIOUS
<1> QED BY <1>1, <1>2 DEF Same

\* What the messages of one kind carry.
AllOf(q, kind, V) == \A i \in DOMAIN q : q[i].kind = kind => q[i].arg \in V

\* What all messages of a kind carry, those behind the first carry.
LEMMA AllOfTail ==
  ASSUME NEW q \in Seq(Any), q # <<>>, NEW kind, NEW V, AllOf(q, kind, V)
  PROVE  AllOf(Tail(q), kind, V) /\ (q[1].kind = kind => q[1].arg \in V)
<1>1. /\ Len(q) \in Nat \ {0} /\ DOMAIN q = 1..Len(q) /\ DOMAIN Tail(q) = 1..Len(q) - 1
      /\ \A j \in 1..Len(q) - 1 : Tail(q)[j] = q[j + 1]
  OBVIOUS
<1>2. \A l \in DOMAIN Tail(q) : l + 1 \in DOMAIN q /\ Tail(q)[l] = q[l + 1]
  BY <1>1
<1>3. 1 \in DOMAIN q
  BY <1>1
<1> QED BY <1>2, <1>3 DEF AllOf

\* It is kept when messages that carry it are added.
LEMMA AllOfJoin ==
  ASSUME NEW q \in Seq(Any), NEW r \in Seq(Any), NEW kind, NEW V, AllOf(q, kind, V), AllOf(r, kind, V)
  PROVE  AllOf(q \o r, kind, V)
<1>1. /\ Len(q) \in Nat /\ DOMAIN q = 1..Len(q) /\ Len(r) \in Nat /\ DOMAIN r = 1..Len(r)
      /\ DOMAIN (q \o r) = 1..Len(q) + Len(r)
  OBVIOUS
<1> SUFFICES ASSUME NEW l \in DOMAIN (q \o r), (q \o r)[l].kind = kind PROVE (q \o r)[l].arg \in V
  BY DEF AllOf
<1>2. CASE l \in DOMAIN q
  <2>1. (q \o r)[l] = q[l]
    BY <1>1, <1>2
  <2> QED BY <1>2, <2>1 DEF AllOf
<1>3. CASE l \notin DOMAIN q
  <2>1. l - Len(q) \in DOMAIN r /\ (q \o r)[l] = r[l - Len(q)]
    BY <1>1, <1>3
  <2> QED BY <2>1 DEF AllOf
<1> QED BY <1>2, <1>3

\* The last of the modes names a.
LastMode(q, a) ==
  \A i \in DOMAIN q : q[i].kind = "Mode" /\ q[i].arg.mode # a =>
    \E j \in DOMAIN q : i < j /\ q[j].kind = "Mode"

\* The last mode stays when the first message is taken, unless that was it.
LEMMA LastModeTail ==
  ASSUME NEW q \in Seq(Any), q # <<>>, NEW a, LastMode(q, a)
  PROVE  /\ LastMode(Tail(q), a)
         /\ q[1].kind = "Mode" => q[1].arg.mode = a \/ "Mode" \in Kinds(Tail(q))
<1>1. /\ Len(q) \in Nat \ {0} /\ DOMAIN q = 1..Len(q) /\ DOMAIN Tail(q) = 1..Len(q) - 1
      /\ \A j \in 1..Len(q) - 1 : Tail(q)[j] = q[j + 1]
  OBVIOUS
<1>2. \A l \in DOMAIN Tail(q) : l + 1 \in DOMAIN q /\ Tail(q)[l] = q[l + 1] /\ l \in Nat
  BY <1>1
<1>3. 1 \in DOMAIN q
  BY <1>1
<1>4. \A l \in DOMAIN q : l > 1 => l - 1 \in DOMAIN Tail(q) /\ Tail(q)[l - 1] = q[l] /\ l \in Nat
  BY <1>1
<1>5. LastMode(Tail(q), a)
  <2> SUFFICES ASSUME NEW i \in DOMAIN Tail(q), Tail(q)[i].kind = "Mode", Tail(q)[i].arg.mode # a
               PROVE  \E j \in DOMAIN Tail(q) : i < j /\ Tail(q)[j].kind = "Mode"
    BY DEF LastMode
  <2>1. PICK j \in DOMAIN q : i + 1 < j /\ q[j].kind = "Mode"
    BY <1>2 DEF LastMode
  <2>2. j > 1 /\ i < j - 1
    BY <1>1, <1>2, <2>1
  <2> QED BY <1>4, <2>1, <2>2
<1>6. ASSUME q[1].kind = "Mode", q[1].arg.mode # a PROVE "Mode" \in Kinds(Tail(q))
  <2>1. PICK j \in DOMAIN q : 1 < j /\ q[j].kind = "Mode"
    BY <1>3, <1>6 DEF LastMode
  <2>2. j > 1
    BY <1>1, <2>1
  <2>3. j - 1 \in DOMAIN Tail(q) /\ Tail(q)[j - 1].kind = "Mode"
    BY <1>4, <2>1, <2>2
  <2> QED BY <2>3 DEF Kinds
<1> QED BY <1>5, <1>6

\* A mode that is added is the last one.
LEMMA LastModeJoin ==
  ASSUME NEW q \in Seq(Any), NEW r \in Seq(Any), NEW a, LastMode(r, a),
         "Mode" \in Kinds(r) \/ LastMode(q, a)
  PROVE  LastMode(q \o r, a)
<1>1. /\ Len(q) \in Nat /\ DOMAIN q = 1..Len(q) /\ Len(r) \in Nat /\ DOMAIN r = 1..Len(r)
      /\ DOMAIN (q \o r) = 1..Len(q) + Len(r)
  OBVIOUS
<1>2. \A l \in DOMAIN q : l \in DOMAIN (q \o r) /\ (q \o r)[l] = q[l]
  BY <1>1
<1>3. \A l \in DOMAIN r : Len(q) + l \in DOMAIN (q \o r) /\ (q \o r)[Len(q) + l] = r[l]
  BY <1>1
<1>a. \A i \in DOMAIN q : \A l \in DOMAIN r : i < Len(q) + l
  BY <1>1
<1> SUFFICES ASSUME NEW i \in DOMAIN (q \o r), (q \o r)[i].kind = "Mode", (q \o r)[i].arg.mode # a
             PROVE  \E j \in DOMAIN (q \o r) : i < j /\ (q \o r)[j].kind = "Mode"
  BY DEF LastMode
<1>4. CASE i \in DOMAIN q
  <2>1. CASE "Mode" \in Kinds(r)
    <3>1. PICK j \in DOMAIN r : r[j].kind = "Mode"
      BY <2>1 DEF Kinds
    <3> QED BY <1>3, <1>4, <1>a, <3>1
  <2>2. CASE LastMode(q, a)
    <3>1. PICK j \in DOMAIN q : i < j /\ q[j].kind = "Mode"
      BY <1>2, <1>4, <2>2 DEF LastMode
    <3> QED BY <1>2, <3>1
  <2> QED BY <2>1, <2>2
<1>5. CASE i \notin DOMAIN q
  <2>1. i - Len(q) \in DOMAIN r /\ i = Len(q) + (i - Len(q))
    BY <1>1, <1>5
  <2>2. (q \o r)[i] = r[i - Len(q)]
    BY <1>3, <2>1
  <2>3. PICK j \in DOMAIN r : i - Len(q) < j /\ r[j].kind = "Mode"
    BY <2>1, <2>2 DEF LastMode
  <2>4. i < Len(q) + j
    BY <1>1, <2>1, <2>3
  <2> QED BY <1>3, <2>3, <2>4
<1> QED BY <1>4, <1>5

\* The kinds of a queue are seen in its words.
LEMMA KindsTold ==
  ASSUME NEW q \in Seq(Any)
  PROVE  /\ \A x \in Kept : x \in Kinds(q) <=> Some(Tags(q), {x})
         /\ "Engine" \in Kinds(q) <=> Some(Tags(q), {"On", "Off"})
         /\ Some(Tags(q), {"On"}) => EngineReport(TRUE) \in Range(q)
<1>1. /\ DOMAIN Tags(q) = DOMAIN q
      /\ \A k \in DOMAIN q : q[k] \in Any /\ Tags(q)[k] = Tag(q[k])
  BY TagsOf
<1>2. \A k \in DOMAIN q :
        /\ \A x \in Kept : Tags(q)[k] = x <=> q[k].kind = x
        /\ Tags(q)[k] \in {"On", "Off"} <=> q[k].kind = "Engine"
        /\ Tags(q)[k] = "On" => q[k] = EngineReport(TRUE)
  <2> TAKE k \in DOMAIN q
  <2>1. \A x \in Kept : x \notin {"On", "Off", "Measure", "Unmeasure"} \cup Statuses
    BY DEF Kept, Plain, Statuses
  <2>2. PICK m \in Any : m = q[k] /\ Tags(q)[k] = Tag(m)
    BY <1>1
  <2>3. /\ m.kind \in Kept => Tag(m) = m.kind
        /\ m.kind \in Kept \/ Tag(m) \in {"On", "Off", "Measure", "Unmeasure"} \cup Statuses
        /\ m.kind = "Engine" <=> Tag(m) \in {"On", "Off"}
        /\ Tag(m) = "On" => m = EngineReport(TRUE)
    BY Reads
  <2>4. \A x \in Kept : Tag(m) = x <=> m.kind = x
    BY <2>1, <2>3, Zenon
  <2> QED BY <2>2, <2>3, <2>4
<1>3. \A x \in Kept : x \in Kinds(q) <=> Some(Tags(q), {x})
  BY <1>1, <1>2 DEF Kinds, Some
<1>4. "Engine" \in Kinds(q) <=> Some(Tags(q), {"On", "Off"})
  BY <1>1, <1>2 DEF Kinds, Some
<1>5. Some(Tags(q), {"On"}) => EngineReport(TRUE) \in Range(q)
  BY <1>1, <1>2 DEF Some, Range
<1> QED BY <1>3, <1>4, <1>5

\* The words of the messages that are posted.
LEMMA WordsOf ==
  /\ \A k \in Plain \cup {"Error"} : Tag(Msg(k)) = k
  /\ \A c \in Criteria : Tag(MsgOf("Mode", c)) = "Mode"
  /\ \A t \in AidTypes : Tag(MsgOf("DelAid", t)) = "DelAid"
  /\ \A f \in Fixes : Tag(PositionReport(f)) = "Pos"
  /\ \A s \in Statuses : Tag(MsgOf("Status", s)) = s
  /\ Tag(MsgOf("Mask", TRUE)) = "Measure" /\ Tag(MsgOf("Mask", FALSE)) = "Unmeasure"
  /\ Tag(EngineReport(TRUE)) = "On" /\ Tag(EngineReport(FALSE)) = "Off"
<1>1. /\ \A k \in Plain \cup {"Error"} : Tag(Msg(k)) = k
      /\ \A c \in Criteria : Tag(MsgOf("Mode", c)) = "Mode"
      /\ \A t \in AidTypes : Tag(MsgOf("DelAid", t)) = "DelAid"
      /\ \A f \in Fixes : Tag(PositionReport(f)) = "Pos"
      /\ \A s \in Statuses : Tag(MsgOf("Status", s)) = s
  BY DEF Tag, Msg, MsgOf, PositionReport, Plain
<1>2. /\ Tag(MsgOf("Mask", TRUE)) = "Measure" /\ Tag(MsgOf("Mask", FALSE)) = "Unmeasure"
      /\ Tag(EngineReport(TRUE)) = "On" /\ Tag(EngineReport(FALSE)) = "Off"
  BY DEF Tag, MsgOf, EngineReport
<1> QED BY <1>1, <1>2

\* The word of one message.
LEMMA TagsOne ==
  ASSUME NEW m \in Any
  PROVE  <<m>> \in Seq(Any) /\ Tags(<<m>>) = <<Tag(m)>> /\ Tag(m) \in Words
<1>1. <<m>> \in Seq(Any) /\ Len(<<m>>) = 1 /\ <<m>>[1] = m
  OBVIOUS
<1>2. Tags(<<m>>) = <<Tag(m)>>
  BY <1>1 DEF Tags
<1>3. Tag(m) \in Words
  BY Reads DEF Words
<1> QED BY <1>1, <1>2, <1>3

\* The words of two.
LEMMA TagsTwo ==
  ASSUME NEW m \in Any, NEW n \in Any
  PROVE  <<m, n>> \in Seq(Any) /\ Tags(<<m, n>>) = <<Tag(m), Tag(n)>>
<1>1. <<m, n>> \in Seq(Any)
  OBVIOUS
<1>2. Tags(<<m, n>>) = <<Tag(m), Tag(n)>>
  BY DEF Tags
<1> QED BY <1>1, <1>2

\* The queue and the wire are sequences of words.
LEMMA Typed ==
  ASSUME Types
  PROVE  /\ queue \in Seq(Any) /\ wire \in Seq(Any)
         /\ posted \in Seq(Words) /\ coming \in Seq(Words)
         /\ \A x \in Kept : (x \in Kinds(queue) <=> Some(posted, {x})) /\ (x \in Kinds(wire) <=> Some(coming, {x}))
<1>1. queue \in Seq(Any) /\ wire \in Seq(Any)
  BY DEF Types, Any
<1> QED BY <1>1, TagsOf, KindsTold DEF posted, coming

\* A message is handled.
LEMMA Pops ==
  ASSUME Types, NEW kind, Handles(kind)
  PROVE  /\ queue # <<>> /\ Head1 = queue[1] /\ Head1 \in Any /\ Head1.kind = kind
         /\ posted # <<>> /\ posted[1] = Tag(Head1) /\ (kind \in Kept => posted[1] = kind)
         /\ Tail(posted) \in Seq(Words)
         /\ queue' = Tail(queue) => posted' = Tail(posted)
         /\ \A r \in Seq(Any) : queue' = Tail(queue) \o r => posted' = Tail(posted) \o Tags(r)
<1>1. queue \in Seq(Any) /\ queue # <<>> /\ Head1 = queue[1] /\ Head1.kind = kind
  BY Typed DEF Handles, Head1
<1>2. Head1 \in Any /\ Tail(queue) \in Seq(Any)
  BY <1>1
<1>3. posted # <<>> /\ Tags(Tail(queue)) = Tail(posted) /\ posted[1] = Tag(Head1) /\ posted \in Seq(Words)
  BY <1>1, TagsTail, Typed DEF posted
<1>4. Tail(posted) \in Seq(Words)
  BY <1>3
<1>5. queue' = Tail(queue) => posted' = Tail(posted)
  BY <1>3 DEF posted
<1>6. \A r \in Seq(Any) : queue' = Tail(queue) \o r => posted' = Tail(posted) \o Tags(r)
  BY <1>2, <1>3, TagsJoin DEF posted
<1> QED BY <1>1, <1>2, <1>3, <1>4, <1>5, <1>6, Reads

\* Messages are posted.
LEMMA Posts ==
  ASSUME Types, NEW ms \in Seq(Any), Posting(ms)
  PROVE  posted' = posted \o Tags(ms) /\ Tags(ms) \in Seq(Words)
BY Typed, TagsJoin, TagsOf DEF Posting, posted

\* One message is posted.
LEMMA PostsOne ==
  ASSUME Types, NEW m \in Any, Posting(<<m>>)
  PROVE  posted' = posted \o <<Tag(m)>> /\ Tag(m) \in Words
BY Posts, TagsOne

\* The words of u are those of t, but that some of W were taken from the front, or added.
Touch(t, u, W) == \/ u = t
                  \/ t # <<>> /\ t[1] \in W /\ u = Tail(t)
                  \/ \E r \in Seq(W) : u = t \o r

\* What is touched only in words of W keeps the order of the other words.
LEMMA TouchSame ==
  ASSUME NEW t \in Seq(Words), NEW u, NEW W \in SUBSET Words, NEW S, Touch(t, u, W), W \cap S = {}
  PROVE  Same(t, u, S) /\ u \in Seq(Words)
<1>1. CASE u = t
  BY <1>1, SameSelf
<1>2. CASE t # <<>> /\ t[1] \in W /\ u = Tail(t)
  <2>1. t[1] \notin S /\ Tail(t) \in Seq(Words)
    BY <1>2
  <2> QED BY <1>2, <2>1, SameTail
<1>3. ASSUME NEW r \in Seq(W), u = t \o r PROVE Same(t, u, S) /\ u \in Seq(Words)
  <2>1. r \in Seq(Words)
    OBVIOUS
  <2>2. \A k \in DOMAIN r : r[k] \in W
    OBVIOUS
  <2>3. ~Some(r, S)
    BY <2>2 DEF Some
  <2> QED BY <1>3, <2>1, <2>3, SameJoin
<1> QED BY <1>1, <1>2, <1>3 DEF Touch

\* Only words of W come and go in the queue; on the wire.
Touches(W) == \E u \in Seq(Words) : Touch(posted, u, W) /\ Touch(u, posted', W)
TouchesWire(W) == Touch(coming, coming', W)

\* So do the queue and the wire.
LEMMA TouchesSame ==
  ASSUME Types, NEW W \in SUBSET Words, NEW S, W \cap S = {}
  PROVE  /\ Touches(W) => Same(posted, posted', S)
         /\ TouchesWire(W) => Same(coming, coming', S)
<1>1. posted \in Seq(Words) /\ coming \in Seq(Words)
  BY Typed
<1>2. ASSUME NEW u \in Seq(Words), Touch(posted, u, W), Touch(u, posted', W) PROVE Same(posted, posted', S)
  <2>1. Same(posted, u, S) /\ Same(u, posted', S)
    BY <1>1, <1>2, TouchSame
  <2> QED BY <2>1, SameTrans
<1>3. TouchesWire(W) => Same(coming, coming', S)
  BY <1>1, TouchSame DEF TouchesWire
<1> QED BY <1>2, <1>3 DEF Touches

\* What is touched by taking the head of the queue, by adding to it, or by neither.
LEMMA TouchesWhat ==
  ASSUME Types, NEW W \in SUBSET Words
  PROVE  /\ queue' = queue => Touches(W)
         /\ \A kind \in Kept : Handles(kind) /\ queue' = Tail(queue) /\ kind \in W => Touches(W)
         /\ \A m \in Any : Posting(<<m>>) /\ Tag(m) \in W => Touches(W)
         /\ wire' = wire => TouchesWire(W)
         /\ wire # <<>> /\ wire' = Tail(wire) /\ Tag(wire[1]) \in W => TouchesWire(W)
         /\ \A m \in Any : wire' = Append(wire, m) /\ Tag(m) \in W => TouchesWire(W)
<1>1. posted \in Seq(Words) /\ coming \in Seq(Words) /\ wire \in Seq(Any)
  BY Typed
<1>2. queue' = queue => Touches(W)
  BY <1>1 DEF Touches, Touch, posted
<1>3. ASSUME NEW kind \in Kept, Handles(kind), queue' = Tail(queue), kind \in W PROVE Touches(W)
  <2>1. Touch(posted, posted', W) /\ posted' \in Seq(Words)
    BY <1>3, Pops DEF Touch
  <2>2. Touch(posted', posted', W)
    BY DEF Touch
  <2> QED BY <2>1, <2>2 DEF Touches
<1>4. ASSUME NEW m \in Any, Posting(<<m>>), Tag(m) \in W PROVE Touches(W)
  <2>1. posted' = posted \o <<Tag(m)>> /\ <<Tag(m)>> \in Seq(W)
    BY <1>4, PostsOne
  <2>2. Touch(posted, posted', W) /\ Touch(posted, posted, W)
    BY <2>1 DEF Touch
  <2> QED BY <1>1, <2>2 DEF Touches
<1>5. wire' = wire => TouchesWire(W)
  BY DEF TouchesWire, Touch, coming
<1>6. wire # <<>> /\ wire' = Tail(wire) /\ Tag(wire[1]) \in W => TouchesWire(W)
  BY <1>1, TagsTail DEF TouchesWire, Touch, coming
<1>7. ASSUME NEW m \in Any, wire' = Append(wire, m), Tag(m) \in W PROVE TouchesWire(W)
  <2>1. wire' = wire \o <<m>>
    BY <1>1, <1>7
  <2>2. /\ <<m>> \in Seq(Any) /\ Tags(<<m>>) = <<Tag(m)>> /\ <<Tag(m)>> \in Seq(W)
        /\ Tags(wire \o <<m>>) = Tags(wire) \o Tags(<<m>>)
    <3>1. <<m>> \in Seq(Any) /\ Tags(<<m>>) = <<Tag(m)>>
      BY TagsOne
    <3>2. <<Tag(m)>> \in Seq(W)
      BY <1>7
    <3> QED BY <1>1, <3>1, <3>2, TagsJoin
  <2>3. coming' = coming \o <<Tag(m)>>
    BY <2>1, <2>2 DEF coming
  <2> QED BY <2>2, <2>3 DEF TouchesWire, Touch
<1> QED BY <1>2, <1>3, <1>4, <1>5, <1>6, <1>7

-----------------------------------------------------------------------------
(* The inductive invariant of the order *)

\* The news that the modem is back follows the opening of the client at once; but the first
\* n messages may be an opening without it.
Paired(t, n) ==
  /\ \A k \in DOMAIN t : t[k] = "Up" => k = 1 \/ t[k - 1] = "Open"
  /\ \A k \in DOMAIN t : t[k] = "Open" => k <= n \/ (k + 1 \in DOMAIN t /\ t[k + 1] = "Up")

\* A crash is on its way, or is being dealt with, or was: never two of these.
Reopens ==
  /\ Once(posted, "Open") /\ Once(coming, "Error")
  /\ Some(posted, {"Open"}) => ~Some(coming, {"Error"})
  /\ conn = "open" => ~Some(posted, {"Open"}) /\ ~Some(coming, {"Error"})
  /\ Paired(posted, 1) /\ (eng.navigating => Paired(posted, 0))
  /\ Some(posted, {"Up"}) => ~modem.session
  /\ conn # "lost"

\* A fix belongs to the session of its time: no start and no report that the engine is on
\* overtakes it, and the session's mode is its own.
Shared(q) == AllOf(q, "Mode", {c \in Criteria : c.single = eng.single})
Passing(q) == AllOf(q, "Pos", {"intermediate"})
Positions ==
  /\ Never(posted, {"Pos"}, Begins)
  /\ Never(posted, {"Up"}, {"Pos"}) /\ Never(coming, {"Error"}, {"Pos"})
  /\ Some(posted, {"Up"}) => ~Some(coming, {"Pos"})
  /\ Some(posted, {"Pos"}) \/ Some(coming, {"Pos"}) => Shared(queue)
  /\ eng.single /\ "finished" \notin past => Passing(queue) /\ Passing(wire)
  /\ Never(posted, {"Pos"}, {"On"}) /\ Never(coming, {"Pos"}, {"On"})
  /\ Some(posted, {"Pos"}) => ~Some(coming, {"On"})
  /\ Some(posted, {"Stop"}) => ~Some(posted, {"On"}) /\ ~Some(coming, {"On"})

\* What the queue makes of the session is what the framework wants; a session that is started
\* again is not stopped later.
WantedBy(t, n)  == (n /\ ~Some(t, {"Stop"})) \/ ~Covered(t, Begins, {"Stop"})
LiveBy(t, n, k) == (n /\ Before(t, {"Stop"}, k)) \/ Begun(t, k)
SettledBy(t, n) == \A k \in DOMAIN t : t[k] = "Up" => After(t, {"Stop"}, k) \/ ~LiveBy(t, n, k)
Wanted  == WantedBy(posted, eng.navigating)
Settled == SettledBy(posted, eng.navigating)
Wish ==
  /\ Wanted => want
  /\ want => Wanted \/ ("refused" \in past /\ api.inSession /\ ~Some(posted, {"Stop"}))
  /\ Settled
  /\ eng.navigating => api.inSession

\* The modem has the session the engine believes in.
Runs ==
  conn = "open" /\ ~Some(posted, {"Up"}) /\ past \cap {"refused", "finished"} = {} =>
    modem.session = eng.navigating

\* The mode asked for last is the engine's, or the last one in the queue; the modem has the
\* engine's.
Use(mode) == IF mode = "ms_based" THEN mode ELSE "standalone"
Mode ==
  /\ want => Covered(posted, {"Stop"}, {"Mode"})
  /\ LastMode(queue, asked)
  /\ want => asked \in Modes
  /\ want /\ "restarted" \notin past /\ ~Some(posted, {"Mode"}) => eng.mode = asked
  /\ eng.navigating /\ modem.session /\ "refused" \notin past => modem.mode = Use(eng.mode)

\* Whatever says that the engine is on is followed by what says that it is off, unless it is
\* on and reports it when it turns off.
Offs == {"ENGINE_OFF", "Down"}
OffIsNews == Some(coming, {"Off", "Error"}) \/ Some(posted, {"Off"})
SaysOff ==
  /\ OffIsNews \/ Covered(posted, {"ENGINE_ON"}, Offs)
  /\ told.engine # "ENGINE_ON" \/ OffIsNews \/ Some(posted, Offs)
WillSayOff ==
  /\ Some(coming, {"Off"}) \/ Covered(posted, {"On"}, {"Off"})
  /\ Covered(coming, {"On"}, {"Off"})
  /\ SaysOff
QuietAt(t, e, k) == ~e /\ Before(t, {"On", "Off"}, k)
KnownAt(t, s, k) == LiveBy(t, s, k) /\ Before(t, {"Pos"}, k)
MeasuredBy(t, e, s) == \A k \in DOMAIN t : t[k] = "Measure" => QuietAt(t, e, k) \/ KnownAt(t, s, k)
Told ==
  /\ "unstopped" \in past \/ (modem.engine /\ modem.mask = "full") \/ WillSayOff
  /\ api.engineOn \/ SaysOff
  /\ Some(posted, {"On"}) \/ Some(coming, {"On"}) => api.inSession \/ "unstopped" \in past
  /\ modem.session => api.inSession \/ "unstopped" \in past
  /\ MeasuredBy(posted, api.engineOn, api.inSession)

\* Data yet to delete is named in the queue or with the engine, or was replaced there.
DueIsNamed == \A t \in aid.due : t \in aid.overtaken \/ eng.aiding = t \/ Requested(queue, t)
Deleting ==
  /\ eng.status = told.engine
  /\ "unsent" \notin past => DueIsNamed
  /\ eng.aiding # None => eng.status = "ENGINE_ON" \/ "crashed" \in past
  /\ Some(posted, {"Down"}) \/ Some(coming, {"Error"}) => "crashed" \in past

AidRec == [due : SUBSET AidTypes, overtaken : SUBSET AidTypes]
Records ==
  /\ told \in [engine : Statuses, session : BOOLEAN]
  /\ aid \in AidRec

OrderInv == Records /\ Reopens /\ Positions /\ Wish /\ Runs /\ Mode /\ Told /\ Deleting

-----------------------------------------------------------------------------
(* What the steps do to the queue, to the wire and to the modem *)

\* The first message says x and is taken; and those of r are added.
Took(x) == posted # <<>> /\ posted[1] = x /\ posted' = Tail(posted)
TookAdded(x, r) == posted # <<>> /\ posted[1] = x /\ posted' = Tail(posted) \o r

\* Taking a word of W and adding others of W touches only W.
LEMMA TookTouches ==
  ASSUME Types, NEW W \in SUBSET Words, NEW x \in W
  PROVE  /\ Took(x) => Touches(W)
         /\ \A r \in Seq(W) : TookAdded(x, r) => Touches(W)
         /\ \A r \in Seq(W) : posted' = posted \o r => Touches(W)
         /\ posted' = posted => Touches(W)
<1>1. posted \in Seq(Words)
  BY Typed
<1>2. posted # <<>> => Tail(posted) \in Seq(Words)
  BY <1>1
<1>3. Took(x) => Touches(W)
  BY <1>2 DEF Took, Touches, Touch
<1>4. \A r \in Seq(W) : TookAdded(x, r) => Touches(W)
  BY <1>2 DEF TookAdded, Touches, Touch
<1>5. \A r \in Seq(W) : posted' = posted \o r => Touches(W)
  BY <1>1 DEF Touches, Touch
<1>6. posted' = posted => Touches(W)
  BY <1>1 DEF Touches, Touch
<1> QED BY <1>3, <1>4, <1>5, <1>6

\* The handlers that take one message, and say nothing to the others.
LEMMA Taking ==
  ASSUME Types
  PROVE  /\ HandleMode => Took("Mode") /\ Touches({"Mode"})
         /\ HandleStart => (Took("Start") \/ Took("Again")) /\ Touches({"Start", "Again"})
         /\ HandleStop => Took("Stop") /\ Touches({"Stop"})
         /\ HandleDelAid => Took("DelAid") /\ Touches({"DelAid"})
         /\ HandlePos => Took("Pos") /\ Touches({"Pos"})
         /\ HandleDown => Took("Down") /\ Touches({"Down"})
         /\ HandleOpened => Took("Open") /\ Touches({"Open"})
<1>1. ASSUME NEW kind \in Kept, Handles(kind), queue' = Tail(queue) PROVE Took(kind)
  BY <1>1, Pops DEF Took
<1>2. ASSUME NEW W \in SUBSET Words, NEW x \in W, Took(x) PROVE Touches(W)
  BY <1>2, TookTouches
<1>3. /\ \A x \in Kept : x \in Words
      /\ {"Mode", "Start", "Again", "Stop", "DelAid", "Pos", "Down", "Open"} \subseteq Kept
  BY DEF Words, Kept, Plain
<1>4. HandleMode => Took("Mode")
  BY <1>1, <1>3 DEF HandleMode
<1>5. HandleStart => Took("Start") \/ Took("Again")
  BY <1>1, <1>3 DEF HandleStart
<1>6. HandleStop => Took("Stop")
  BY <1>1, <1>3 DEF HandleStop
<1>7. HandleDelAid => Took("DelAid")
  BY <1>1, <1>3 DEF HandleDelAid
<1>8. HandlePos => Took("Pos")
  BY <1>1, <1>3 DEF HandlePos
<1>9. HandleDown => Took("Down")
  BY <1>1, <1>3 DEF HandleDown
<1>10. HandleOpened => Took("Open")
  BY <1>1, <1>3 DEF HandleOpened
<1>11. \A x \in Kept : Took(x) => Touches({x})
  BY <1>2, <1>3
<1>12. Took("Start") \/ Took("Again") => Touches({"Start", "Again"})
  <2>1. {"Start", "Again"} \in SUBSET Words
    BY <1>3
  <2> QED BY <1>2, <2>1
<1> QED BY <1>3, <1>4, <1>5, <1>6, <1>7, <1>8, <1>9, <1>10, <1>11, <1>12

\* A change of what is measured, and a status for the engine.
LEMMA TakingOthers ==
  ASSUME Types
  PROVE  /\ HandleMask => /\ Touches({"Measure", "Unmeasure"})
                          /\ Head1.arg \in BOOLEAN /\ Took(IF Head1.arg THEN "Measure" ELSE "Unmeasure")
         /\ HandleStatus => Head1.arg \in Statuses /\ Took(Head1.arg) /\ Touches(Statuses)
<1>1. ASSUME HandleMask
      PROVE  /\ Touches({"Measure", "Unmeasure"})
             /\ Head1.arg \in BOOLEAN /\ Took(IF Head1.arg THEN "Measure" ELSE "Unmeasure")
  <2>1. Handles("Mask") /\ queue' = Tail(queue)
    BY <1>1 DEF HandleMask
  <2>2. Head1 \in Message /\ Head1.kind = "Mask" /\ Took(Tag(Head1))
    BY <2>1, Pops DEF Took, Types, Handles, Head1
  <2>3. PICK b \in BOOLEAN : Head1 = MsgOf("Mask", b) /\ Head1.arg = b
    BY <2>2, Carries
  <2>4. Tag(Head1) = IF b THEN "Measure" ELSE "Unmeasure"
    BY <2>3, WordsOf
  <2>5. Took(IF b THEN "Measure" ELSE "Unmeasure")
    BY <2>2, <2>4
  <2>6. {"Measure", "Unmeasure"} \in SUBSET Words
    BY DEF Words
  <2>7. Touches({"Measure", "Unmeasure"})
    BY <2>5, <2>6, TookTouches
  <2> QED BY <2>3, <2>5, <2>7
<1>2. ASSUME HandleStatus PROVE Head1.arg \in Statuses /\ Took(Head1.arg) /\ Touches(Statuses)
  <2>1. Handles("Status") /\ queue' = Tail(queue)
    BY <1>2 DEF HandleStatus
  <2>2. Head1 \in Message /\ Head1.kind = "Status" /\ Took(Tag(Head1))
    BY <2>1, Pops DEF Took, Types, Handles, Head1
  <2>3. Head1.arg \in Statuses /\ Tag(Head1) = Head1.arg
    BY <2>2, Carries DEF Tag
  <2>4. Statuses \in SUBSET Words
    BY DEF Words
  <2> QED BY <2>2, <2>3, <2>4, TookTouches
<1> QED BY <1>1, <1>2

\* A report of the engine's state, and the end of a session that is started again.
LEMMA TakingAdding ==
  ASSUME Types
  PROVE  /\ HandleEngine =>
              /\ Touches({"On", "Off"} \cup Statuses)
              /\ Head1.arg \in BOOLEAN
              /\ ~Head1.arg => TookAdded("Off", <<"SESSION_END", "ENGINE_OFF">>)
              /\ Head1.arg /\ api.inSession => TookAdded("On", <<"ENGINE_ON", "SESSION_BEGIN">>)
              /\ Head1.arg /\ ~api.inSession => Took("On")
         /\ HandleUp =>
              /\ Touches({"Up", "Again"})
              /\ eng.navigating => TookAdded("Up", <<"Again">>)
              /\ ~eng.navigating => Took("Up")
<1>1. ASSUME HandleEngine
      PROVE  /\ Touches({"On", "Off"} \cup Statuses)
             /\ Head1.arg \in BOOLEAN
             /\ ~Head1.arg => TookAdded("Off", <<"SESSION_END", "ENGINE_OFF">>)
             /\ Head1.arg /\ api.inSession => TookAdded("On", <<"ENGINE_ON", "SESSION_BEGIN">>)
             /\ Head1.arg /\ ~api.inSession => Took("On")
  <2>1. Handles("Engine")
    BY <1>1 DEF HandleEngine
  <2>2. Head1 \in Message /\ Head1.kind = "Engine"
    BY <2>1, Pops DEF Types, Handles, Head1
  <2>3. PICK on \in BOOLEAN : Head1.arg = on
    BY <2>2, Carries
  <2>4. Tag(Head1) = IF on THEN "On" ELSE "Off"
    <3>1. CASE on = TRUE
      BY <2>2, <2>3, <3>1 DEF Tag
    <3>2. CASE on = FALSE
      BY <2>2, <2>3, <3>2 DEF Tag
    <3> QED BY <3>1, <3>2
  <2> DEFINE says == IF ~on THEN <<"SESSION_END", "ENGINE_OFF">>
                     ELSE IF api.inSession THEN <<"ENGINE_ON", "SESSION_BEGIN">> ELSE <<>>
             r == [k \in DOMAIN says |-> MsgOf("Status", says[k])]
  <2>5. queue' = Tail(queue) \o r
    BY <1>1, <2>3 DEF HandleEngine
  <2>6. says \in Seq(Statuses)
    <3>1. /\ "SESSION_END" \in Statuses /\ "ENGINE_OFF" \in Statuses
          /\ "SESSION_BEGIN" \in Statuses /\ "ENGINE_ON" \in Statuses
      BY DEF Statuses
    <3>2. /\ <<"SESSION_END", "ENGINE_OFF">> \in Seq(Statuses)
          /\ <<"ENGINE_ON", "SESSION_BEGIN">> \in Seq(Statuses) /\ <<>> \in Seq(Statuses)
      BY <3>1
    <3> QED BY <3>2, Zenon
  <2>7. r \in Seq(Any) /\ Tags(r) = says
    <3> HIDE DEF says
    <3>1. DOMAIN says = 1..Len(says) /\ Len(says) \in Nat /\ \A k \in DOMAIN says : says[k] \in Statuses
      BY <2>6
    <3>2. \A s \in Statuses : MsgOf("Status", s) \in Any /\ Tag(MsgOf("Status", s)) = s
      BY Posted, WordsOf DEF Any
    <3>3. r \in Seq(Any) /\ DOMAIN r = DOMAIN says
      BY <3>1, <3>2
    <3>4. \A k \in DOMAIN r : Tag(r[k]) = says[k]
      BY <3>1, <3>2, <3>3
    <3>5. Tags(r) = [k \in DOMAIN says |-> says[k]]
      BY <3>3, <3>4 DEF Tags
    <3> QED BY <2>6, <3>3, <3>5
  <2> HIDE DEF r
  <2>8. TookAdded(IF on THEN "On" ELSE "Off", says)
    BY <2>1, <2>4, <2>5, <2>7, Pops DEF TookAdded
  <2>9. Touches({"On", "Off"} \cup Statuses)
    <3> DEFINE W == {"On", "Off"} \cup Statuses
    <3>1. W \in SUBSET Words
      BY DEF Words
    <3>2. says \in Seq(W)
      <4> HIDE DEF says
      <4>1. \A x \in Statuses : x \in W
        OBVIOUS
      <4> HIDE DEF W
      <4> QED BY <2>6, <4>1
    <3>3. (IF on THEN "On" ELSE "Off") \in W
      OBVIOUS
    <3> HIDE DEF says, W
    <3>4. Touches(W)
      BY <2>8, <3>1, <3>2, <3>3, TookTouches
    <3> QED BY <3>4 DEF W
  <2>10. CASE ~on
    BY <2>3, <2>8, <2>9, <2>10
  <2>11. CASE on /\ api.inSession
    BY <2>3, <2>8, <2>9, <2>11
  <2>12. CASE on /\ ~api.inSession
    <3>1. TookAdded("On", <<>>)
      BY <2>8, <2>12
    <3>2. Took("On")
      <4>1. Tail(posted) \in Seq(Words)
        BY <2>1, Pops
      <4> QED BY <3>1, <4>1 DEF Took, TookAdded
    <3> QED BY <2>3, <2>9, <2>12, <3>2
  <2> QED BY <2>10, <2>11, <2>12
<1>2. ASSUME HandleUp
      PROVE  /\ Touches({"Up", "Again"})
             /\ eng.navigating => TookAdded("Up", <<"Again">>)
             /\ ~eng.navigating => Took("Up")
  <2>1. Handles("Up") /\ "Up" \in Kept /\ {"Up", "Again"} \in SUBSET Words /\ Msg("Again") \in Any
    BY <1>2, Posted DEF HandleUp, Kept, Plain, Words, Any
  <2>2. CASE eng.navigating
    <3>1. queue' = Append(Tail(queue), Msg("Again")) /\ Tail(queue) \in Seq(Any)
      BY <1>2, <2>1, <2>2, Typed DEF HandleUp, Handles
    <3>2. queue' = Tail(queue) \o <<Msg("Again")>>
      BY <2>1, <3>1
    <3>3. <<Msg("Again")>> \in Seq(Any) /\ Tags(<<Msg("Again")>>) = <<"Again">>
      BY <2>1, TagsOne, WordsOf DEF Plain
    <3>4. TookAdded("Up", <<"Again">>)
      BY <2>1, <3>2, <3>3, Pops DEF TookAdded
    <3>5. <<"Again">> \in Seq({"Up", "Again"})
      OBVIOUS
    <3>6. Touches({"Up", "Again"})
      BY <2>1, <3>4, <3>5, TookTouches
    <3> QED BY <2>2, <3>4, <3>6
  <2>3. CASE ~eng.navigating
    <3>1. Took("Up")
      BY <1>2, <2>1, <2>3, Pops DEF HandleUp, Took
    <3>2. Touches({"Up", "Again"})
      BY <2>1, <3>1, TookTouches
    <3> QED BY <2>3, <3>1, <3>2
  <2> QED BY <2>2, <2>3
<1> QED BY <1>1, <1>2

\* The framework's calls.
LEMMA Calling ==
  ASSUME Types
  PROVE  /\ \A mode \in Modes, single \in BOOLEAN :
              Start(mode, single) => posted' = posted \o <<"Mode", "Start">> /\ Touches({"Mode", "Start"})
         /\ \A mode \in Modes : SetMode(mode) => posted' = posted \o <<"Mode">> /\ Touches({"Mode"})
         /\ Posting(<<Msg("Stop")>>) => posted' = posted \o <<"Stop">> /\ Touches({"Stop"})
         /\ \A t \in AidTypes : DeleteAidingData(t) => posted' = posted \o <<"DelAid">> /\ Touches({"DelAid"})
         /\ MeasurementInit => posted' = posted \o <<"Measure">> /\ Touches({"Measure"})
         /\ MeasurementClose => posted' = posted \o <<"Unmeasure">> /\ Touches({"Unmeasure"})
<1>1. ASSUME NEW m \in Any, Posting(<<m>>) PROVE posted' = posted \o <<Tag(m)>> /\ Touches({Tag(m)})
  <2>1. posted' = posted \o <<Tag(m)>> /\ Tag(m) \in Words
    BY <1>1, PostsOne
  <2>2. {Tag(m)} \in SUBSET Words /\ <<Tag(m)>> \in Seq({Tag(m)}) /\ Tag(m) \in {Tag(m)}
    BY <2>1
  <2> QED BY <2>1, <2>2, TookTouches
<1>2. ASSUME NEW mode \in Modes, NEW single \in BOOLEAN, Start(mode, single)
      PROVE  posted' = posted \o <<"Mode", "Start">> /\ Touches({"Mode", "Start"})
  <2> DEFINE m == MsgOf("Mode", [mode |-> mode, single |-> single])
  <2>1. m \in Any /\ Msg("Start") \in Any /\ Tag(m) = "Mode" /\ Tag(Msg("Start")) = "Start"
    BY Posted, WordsOf DEF Any, Criteria, Plain
  <2>2. Posting(<<m, Msg("Start")>>)
    BY <1>2 DEF Start
  <2> HIDE DEF m
  <2>3. posted' = posted \o <<"Mode", "Start">>
    BY <2>1, <2>2, Posts, TagsTwo
  <2>4. {"Mode", "Start"} \in SUBSET Words /\ <<"Mode", "Start">> \in Seq({"Mode", "Start"})
    BY DEF Words, Kept, Plain
  <2> QED BY <2>3, <2>4, TookTouches
<1>3. ASSUME NEW mode \in Modes, SetMode(mode) PROVE posted' = posted \o <<"Mode">> /\ Touches({"Mode"})
  <2> DEFINE m == MsgOf("Mode", [mode |-> mode, single |-> eng.single])
  <2>1. m \in Any /\ Tag(m) = "Mode"
    BY Posted, WordsOf DEF Any, Criteria, Types, EngType
  <2>2. Posting(<<m>>)
    BY <1>3 DEF SetMode
  <2> HIDE DEF m
  <2> QED BY <1>1, <2>1, <2>2
<1>4. ASSUME Posting(<<Msg("Stop")>>) PROVE posted' = posted \o <<"Stop">> /\ Touches({"Stop"})
  <2>1. Msg("Stop") \in Any /\ Tag(Msg("Stop")) = "Stop"
    BY Posted, WordsOf DEF Any, Plain
  <2> QED BY <1>1, <1>4, <2>1
<1>5. ASSUME NEW t \in AidTypes, DeleteAidingData(t)
      PROVE  posted' = posted \o <<"DelAid">> /\ Touches({"DelAid"})
  <2>1. MsgOf("DelAid", t) \in Any /\ Tag(MsgOf("DelAid", t)) = "DelAid"
    BY Posted, WordsOf DEF Any
  <2>2. Posting(<<MsgOf("DelAid", t)>>)
    BY <1>5 DEF DeleteAidingData
  <2> QED BY <1>1, <2>1, <2>2
<1>6. ASSUME MeasurementInit PROVE posted' = posted \o <<"Measure">> /\ Touches({"Measure"})
  <2>1. MsgOf("Mask", TRUE) \in Any /\ Tag(MsgOf("Mask", TRUE)) = "Measure"
    BY PostedMask, WordsOf DEF Any
  <2>2. Posting(<<MsgOf("Mask", TRUE)>>)
    BY <1>6 DEF MeasurementInit
  <2> QED BY <1>1, <2>1, <2>2
<1>7. ASSUME MeasurementClose PROVE posted' = posted \o <<"Unmeasure">> /\ Touches({"Unmeasure"})
  <2>1. MsgOf("Mask", FALSE) \in Any /\ Tag(MsgOf("Mask", FALSE)) = "Unmeasure"
    BY PostedMask, WordsOf DEF Any
  <2>2. Posting(<<MsgOf("Mask", FALSE)>>)
    BY <1>7 DEF MeasurementClose
  <2> QED BY <1>1, <2>1, <2>2
<1> QED BY <1>2, <1>3, <1>4, <1>5, <1>6, <1>7

\* The indications on their way: the client's callbacks take them, the modem sends them.
TookWire(x) == coming # <<>> /\ coming[1] = x /\ coming' = Tail(coming)

\* The callback of events passes one report on; that of errors posts a restart.
LEMMA Delivering ==
  ASSUME Types
  PROVE  /\ eventCb => /\ \E x \in {"On", "Off", "Pos"} : TookWire(x) /\ posted' = posted \o <<x>>
                       /\ queue' = queue \o <<wire[1]>> /\ wire' = Tail(wire) /\ wire # <<>>
                       /\ Touches({"On", "Off", "Pos"}) /\ TouchesWire({"On", "Off", "Pos"})
         /\ errorCb => /\ TookWire("Error") /\ posted' = posted \o <<"Down", "Open", "Up">>
                       /\ Touches({"Down", "Open", "Up"}) /\ TouchesWire({"Error"})
<1>1. /\ wire \in Seq(Indication)
      /\ wire # <<>> => wire[1] \in Indication
  BY DEF Types
<1>2. wire # <<>> => /\ coming # <<>> /\ coming[1] = Tag(wire[1])
                     /\ wire' = Tail(wire) => coming' = Tail(coming)
  BY Typed, TagsTail DEF coming
<1>3. ASSUME eventCb
      PROVE  /\ \E x \in {"On", "Off", "Pos"} : TookWire(x) /\ posted' = posted \o <<x>>
             /\ queue' = queue \o <<wire[1]>> /\ wire' = Tail(wire) /\ wire # <<>>
             /\ Touches({"On", "Off", "Pos"}) /\ TouchesWire({"On", "Off", "Pos"})
  <2>1. /\ wire # <<>> /\ wire[1].kind # "Error" /\ Posting(<<wire[1]>>) /\ wire' = Tail(wire)
    BY <1>3 DEF eventCb
  <2> DEFINE x == Tag(wire[1])
  <2>2. x \in {"On", "Off", "Pos"}
    <3>1. \/ \E b \in BOOLEAN : wire[1] = EngineReport(b)
          \/ \E f \in Fixes : wire[1] = PositionReport(f)
      BY <1>1, <2>1 DEF Indication, Msg
    <3>2. \A b \in BOOLEAN : b = TRUE \/ b = FALSE
      OBVIOUS
    <3> QED BY <3>1, <3>2, WordsOf
  <2>3. TookWire(x)
    BY <1>2, <2>1 DEF TookWire
  <2>4. posted' = posted \o <<x>>
    BY <1>1, <2>1, PostsOne DEF Any
  <2> HIDE DEF x
  <2> DEFINE W == {"On", "Off", "Pos"}
  <2>5. W \in SUBSET Words /\ <<x>> \in Seq(W)
    BY <2>2 DEF Words, Kept
  <2>6. Touches(W)
    BY <2>4, <2>5, TookTouches
  <2>7. TouchesWire(W)
    BY <2>2, <2>3 DEF TouchesWire, Touch, TookWire
  <2> QED BY <2>1, <2>2, <2>3, <2>4, <2>6, <2>7 DEF Posting
<1>4. ASSUME errorCb
      PROVE  /\ TookWire("Error") /\ posted' = posted \o <<"Down", "Open", "Up">>
             /\ Touches({"Down", "Open", "Up"}) /\ TouchesWire({"Error"})
  <2>1. wire # <<>> /\ wire[1].kind = "Error" /\ Posting(Restart) /\ wire' = Tail(wire)
    BY <1>4 DEF errorCb
  <2>2. Tag(wire[1]) = "Error"
    BY <2>1 DEF Tag
  <2>3. TookWire("Error")
    BY <1>2, <2>1, <2>2 DEF TookWire
  <2>4. Msg("Down") \in Any /\ Msg("Open") \in Any /\ Msg("Up") \in Any
    BY Posted DEF Any, Plain
  <2>5. Restart \in Seq(Any) /\ Tags(Restart) = <<"Down", "Open", "Up">>
    <3>1. Restart \in Seq(Any)
      BY <2>4 DEF Restart
    <3>2. Tags(Restart) = <<Tag(Msg("Down")), Tag(Msg("Open")), Tag(Msg("Up"))>>
      BY DEF Restart, Tags
    <3> QED BY <3>1, <3>2, WordsOf DEF Plain
  <2>6. posted' = posted \o <<"Down", "Open", "Up">>
    BY <2>1, <2>5, Posts
  <2>7. {"Down", "Open", "Up"} \in SUBSET Words /\ <<"Down", "Open", "Up">> \in Seq({"Down", "Open", "Up"})
    BY DEF Words, Kept, Plain
  <2>8. Touches({"Down", "Open", "Up"})
    BY <2>6, <2>7, TookTouches
  <2>9. TouchesWire({"Error"})
    BY <2>3 DEF TouchesWire, Touch, TookWire
  <2> QED BY <2>3, <2>6, <2>8, <2>9
<1> QED BY <1>3, <1>4

\* The modem sends what is registered; its crash is told to a client that is open.
LEMMA Sending ==
  ASSUME Types
  PROVE  /\ \A on \in BOOLEAN : EngineTurns(on) =>
              /\ TouchesWire({"On", "Off"})
              /\ modem.mask # "full" => coming' = coming
              /\ modem.mask = "full" => coming' = coming \o <<IF on THEN "On" ELSE "Off">>
         /\ \A fix \in Fixes : Fixed(fix) => TouchesWire({"Pos"}) /\ (coming' = coming \/ coming' = coming \o <<"Pos">>)
         /\ Crash => /\ TouchesWire({"Error"})
                     /\ conn # "open" => coming' = coming
                     /\ conn = "open" => coming' = coming \o <<"Error">>
<1>1. ASSUME NEW m \in Any, NEW W \in SUBSET Words, Tag(m) \in W, wire' = Append(wire, m)
      PROVE  coming' = coming \o <<Tag(m)>> /\ TouchesWire(W)
  <2>1. wire \in Seq(Any) /\ <<m>> \in Seq(Any) /\ Tags(<<m>>) = <<Tag(m)>>
    BY Typed, TagsOne
  <2>2. wire' = wire \o <<m>>
    BY <1>1, <2>1
  <2>3. coming' = coming \o <<Tag(m)>>
    BY <2>1, <2>2, TagsJoin DEF coming
  <2> QED BY <1>1, <2>3, TouchesWhat
<1>2. wire' = wire => coming' = coming /\ \A W : TouchesWire(W)
  BY DEF coming, TouchesWire, Touch
<1>3. ASSUME NEW on \in BOOLEAN, EngineTurns(on)
      PROVE  /\ TouchesWire({"On", "Off"})
             /\ modem.mask # "full" => coming' = coming
             /\ modem.mask = "full" => coming' = coming \o <<IF on THEN "On" ELSE "Off">>
  <2>1. EngineReport(on) \in Any /\ Tag(EngineReport(on)) = IF on THEN "On" ELSE "Off"
    <3>1. on = TRUE \/ on = FALSE
      OBVIOUS
    <3> QED BY <3>1, Posted, WordsOf DEF Any
  <2>2. {"On", "Off"} \in SUBSET Words
    BY DEF Words
  <2>3. wire' = IF modem.mask = "full" THEN Append(wire, EngineReport(on)) ELSE wire
    BY <1>3 DEF EngineTurns, Sent
  <2>4. Tag(EngineReport(on)) \in {"On", "Off"}
    BY <2>1
  <2> QED BY <1>1, <1>2, <2>1, <2>2, <2>3, <2>4
<1>4. ASSUME NEW fix \in Fixes, Fixed(fix)
      PROVE  TouchesWire({"Pos"}) /\ (coming' = coming \/ coming' = coming \o <<"Pos">>)
  <2>1. PositionReport(fix) \in Any /\ Tag(PositionReport(fix)) = "Pos"
    BY Posted, WordsOf DEF Any
  <2>2. {"Pos"} \in SUBSET Words
    BY DEF Words, Kept
  <2>3. wire' = IF modem.mask = "full" THEN Append(wire, PositionReport(fix)) ELSE wire
    BY <1>4 DEF Fixed, Sent
  <2> QED BY <1>1, <1>2, <2>1, <2>2, <2>3
<1>5. ASSUME Crash
      PROVE  /\ TouchesWire({"Error"})
             /\ conn # "open" => coming' = coming
             /\ conn = "open" => coming' = coming \o <<"Error">>
  <2>1. Msg("Error") \in Any /\ Tag(Msg("Error")) = "Error"
    BY Posted, WordsOf DEF Any
  <2>2. {"Error"} \in SUBSET Words
    BY DEF Words, Kept
  <2>3. wire' = IF conn = "open" THEN Append(wire, Msg("Error")) ELSE wire
    BY <1>5 DEF Crash
  <2> QED BY <1>1, <1>2, <2>1, <2>2, <2>3
<1> QED BY <1>3, <1>4, <1>5

\* What becomes of the client and the modem when a session is started, and what is noted.
LEMMA Starting ==
  ASSUME Types, NEW mode, NEW o \in StartOutcomes(mode), TakeEffect(o)
  PROVE  /\ api'.inSession /\ api'.engineOn = api.engineOn /\ modem'.engine = modem.engine
         /\ conn # "open" => modem' = modem /\ o.accepted /\ "refused" \notin past'
         /\ conn = "open" =>
              /\ modem'.mask = "full"
              /\ \/ "refused" \notin past' /\ o.accepted /\ modem'.session /\ modem'.mode = Use(mode)
                 \/ "refused" \in past' /\ modem'.session = modem.session
         /\ \A w \in {"finished", "crashed", "unstopped", "unsent", "restarted"} : w \in past' <=> w \in past
<1> DEFINE a == [api EXCEPT !.inSession = TRUE]
           m == registerEventMask(a)
           runs == [m EXCEPT !.session = TRUE, !.mode = Use(mode)]
<1>1. a \in ApiType /\ a.inSession /\ a.engineOn = api.engineOn
  BY DEF Types, ApiType
<1> HIDE DEF a
<1>2. /\ m \in ModemType /\ m.engine = modem.engine /\ m.session = modem.session
      /\ conn # "open" => m = modem
      /\ conn = "open" => m.mask = "full"
  <2>1. modem \in ModemType
    BY DEF Types
  <2>2. Registered(modem, a).engine = modem.engine
    BY <2>1 DEF Registered, ModemType
  <2> QED BY <1>1, <2>1, <2>2, Registering DEF registerEventMask
<1> HIDE DEF m
<1>3. /\ runs.engine = m.engine /\ runs.mask = m.mask /\ runs.session /\ runs.mode = Use(mode)
  BY <1>2 DEF ModemType
<1> HIDE DEF runs
<1> DEFINE p == [api |-> a, modem |-> m, accepted |-> TRUE, refused |-> TRUE]
<1>4. \/ conn # "open" /\ o = [p EXCEPT !.refused = FALSE]
      \/ conn = "open" /\ o \in {p, [p EXCEPT !.accepted = FALSE]}
      \/ conn = "open" /\ o = [p EXCEPT !.modem = runs, !.refused = FALSE]
  BY DEF StartOutcomes, a, m, runs, Use
<1>5. p.api = a /\ p.modem = m /\ p.accepted /\ p.refused /\ DOMAIN p = {"api", "modem", "accepted", "refused"}
  OBVIOUS
<1> HIDE DEF p
<1>6. /\ o.api = a
      /\ \/ conn # "open" /\ o.modem = m /\ o.accepted /\ ~o.refused
         \/ conn = "open" /\ o.modem = m /\ o.refused
         \/ conn = "open" /\ o.modem = runs /\ o.accepted /\ ~o.refused
  BY <1>4, <1>5
<1>7. /\ api' = a /\ modem' = o.modem
      /\ ~o.refused => past' = past \ {"refused"}
      /\ o.refused => past' = past \cup {"refused"}
  BY <1>1, <1>6 DEF TakeEffect
<1> QED BY <1>1, <1>2, <1>3, <1>6, <1>7

\* When it is stopped.
LEMMA Stopping ==
  ASSUME Types, conn # "open" => ~modem.session, NEW o \in StopOutcomes, TakeEffect(o)
  PROVE  /\ ~api'.inSession /\ api'.engineOn = api.engineOn /\ modem'.engine = modem.engine
         /\ modem'.session => modem.session /\ "unstopped" \in past' /\ "refused" \in past'
         /\ api.engineOn \/ conn # "open" => modem'.mask = modem.mask
         /\ "unstopped" \in past => "unstopped" \in past'
         /\ \A w \in {"finished", "crashed", "unsent", "restarted"} : w \in past' <=> w \in past
<1> DEFINE a == [api EXCEPT !.inSession = FALSE]
           m == IF api.engineOn THEN modem ELSE registerEventMask(a)
           ends == [m EXCEPT !.session = FALSE]
<1>1. a \in ApiType /\ ~a.inSession /\ a.engineOn = api.engineOn
  BY DEF Types, ApiType
<1> HIDE DEF a
<1>2. /\ m \in ModemType /\ m.engine = modem.engine /\ m.session = modem.session
      /\ api.engineOn \/ conn # "open" => m = modem
  <2>1. modem \in ModemType
    BY DEF Types
  <2>2. Registered(modem, a).engine = modem.engine
    BY <2>1 DEF Registered, ModemType
  <2> QED BY <1>1, <2>1, <2>2, Registering DEF registerEventMask
<1> HIDE DEF m
<1>3. ends.engine = m.engine /\ ends.mask = m.mask /\ ~ends.session
  BY <1>2 DEF ModemType
<1> HIDE DEF ends
<1> DEFINE p == [api |-> a, modem |-> ends, refused |-> FALSE]
<1>4. o = p \/ o = [p EXCEPT !.modem = m, !.refused = TRUE]
  BY DEF StopOutcomes, a, m, ends
<1>5. p.api = a /\ p.modem = ends /\ ~p.refused /\ DOMAIN p = {"api", "modem", "refused"}
  OBVIOUS
<1> HIDE DEF p
<1>6. /\ o.api = a
      /\ \/ o.modem = ends /\ ~o.refused
         \/ o.modem = m /\ o.refused
  BY <1>4, <1>5
<1>7. /\ api' = a /\ modem' = o.modem
      /\ ~o.refused => past' = past \ {"refused"}
      /\ o.refused => past' = past \cup {"refused"} \cup {"unstopped"}
  BY <1>1, <1>6 DEF TakeEffect
<1> QED BY <1>1, <1>2, <1>3, <1>6, <1>7

-----------------------------------------------------------------------------
(* Crashes and restarts *)

\* What a restart says.
LEMMA Three ==
  ASSUME NEW r, r = <<"Down", "Open", "Up">>
  PROVE  /\ r \in Seq(Words) /\ Len(r) = 3
         /\ \A P : Some(r, P) <=> "Down" \in P \/ "Open" \in P \/ "Up" \in P
         /\ \A x : Once(r, x)
         /\ \A P : ~Some(r, P) => Covered(r, P, P)
         /\ ~Some(r, {"Pos", "Start", "Again", "On", "Stop", "Mode", "Measure", "DelAid", "ENGINE_ON", "Off"})
<1>1. /\ r \in Seq(Words) /\ Len(r) = 3 /\ DOMAIN r = {1, 2, 3}
      /\ r[1] = "Down" /\ r[2] = "Open" /\ r[3] = "Up"
  BY DEF Words, Kept, Plain
<1>2. \A P : Some(r, P) <=> "Down" \in P \/ "Open" \in P \/ "Up" \in P
  BY <1>1 DEF Some
<1>3. \A x : Once(r, x)
  BY <1>1 DEF Once, After
<1>4. \A P : ~Some(r, P) => Covered(r, P, P)
  BY DEF Some, Covered
<1> QED BY <1>1, <1>2, <1>3, <1>4

\* Openings stay paired when the first word is taken, which may leave one unpaired.
LEMMA PairedTail ==
  ASSUME NEW t \in Seq(Words), t # <<>>, Paired(t, 1)
  PROVE  /\ Paired(Tail(t), 0)
         /\ t[1] = "Open" /\ Paired(t, 0) => Some(Tail(t), {"Up"})
<1>1. /\ Len(t) \in Nat \ {0} /\ DOMAIN t = 1..Len(t) /\ DOMAIN Tail(t) = 1..Len(t) - 1
      /\ \A j \in 1..Len(t) - 1 : Tail(t)[j] = t[j + 1]
  OBVIOUS
<1>2. ASSUME NEW k \in DOMAIN Tail(t)
      PROVE  /\ k + 1 \in DOMAIN t /\ Tail(t)[k] = t[k + 1] /\ k \in Nat \ {0} /\ ~(k + 1 <= 1)
             /\ k # 1 => Tail(t)[k - 1] = t[k]
             /\ k + 1 + 1 \in DOMAIN t => k + 1 \in DOMAIN Tail(t) /\ Tail(t)[k + 1] = t[k + 1 + 1]
  BY <1>1
<1>3. ASSUME NEW k \in DOMAIN Tail(t), Tail(t)[k] = "Up" PROVE k = 1 \/ Tail(t)[k - 1] = "Open"
  <2>0. PICK j \in DOMAIN t : j = k + 1 /\ t[j] = "Up"
    BY <1>2, <1>3
  <2>1. j = 1 \/ t[j - 1] = "Open"
    BY <2>0 DEF Paired
  <2>2. j - 1 = k /\ j # 1
    BY <1>2, <1>3, <2>0
  <2> QED BY <1>2, <1>3, <2>1, <2>2
<1>4. ASSUME NEW k \in DOMAIN Tail(t), Tail(t)[k] = "Open"
      PROVE  k + 1 \in DOMAIN Tail(t) /\ Tail(t)[k + 1] = "Up"
  BY <1>2, <1>4 DEF Paired
<1>5. ASSUME t[1] = "Open", Paired(t, 0) PROVE Some(Tail(t), {"Up"})
  <2>1. 1 \in DOMAIN t /\ ~(1 <= 0)
    BY <1>1
  <2>2. 2 \in DOMAIN t /\ t[2] = "Up"
    BY <1>5, <2>1 DEF Paired
  <2>3. 1 \in DOMAIN Tail(t) /\ Tail(t)[1] = t[2]
    BY <1>1, <2>2
  <2> QED BY <2>2, <2>3 DEF Some
<1> QED BY <1>3, <1>4, <1>5 DEF Paired

\* Less is allowed where nothing is.
LEMMA PairedLess == ASSUME NEW t \in Seq(Words), Paired(t, 0) PROVE Paired(t, 1)
<1>1. \A k \in DOMAIN t : k \in Nat /\ (k <= 0 => k <= 1)
  OBVIOUS
<1> QED BY <1>1 DEF Paired

\* Without an opening, the news that the modem is back can only be the first.
LEMMA PairedFirst ==
  ASSUME NEW t \in Seq(Words), NEW n, Paired(t, n), ~Some(t, {"Open"}), Some(t, {"Up"})
  PROVE  t[1] = "Up"
<1>1. PICK k \in DOMAIN t : t[k] = "Up"
  BY DEF Some
<1>2. k = 1 \/ t[k - 1] = "Open"
  BY <1>1 DEF Paired
<1>3. k = 1 \/ k - 1 \in DOMAIN t
  <2>1. DOMAIN t = 1..Len(t) /\ Len(t) \in Nat
    OBVIOUS
  <2> QED BY <2>1
<1> QED BY <1>1, <1>2, <1>3 DEF Some

\* Openings stay paired when a restart, or what is none, is added.
LEMMA PairedJoin ==
  ASSUME NEW t \in Seq(Words), NEW n \in {0, 1}, Paired(t, n), NEW r \in Seq(Words),
         ~Some(r, {"Open", "Up"}) \/ r = <<"Down", "Open", "Up">>
  PROVE  Paired(t \o r, n)
<1> DEFINE u == t \o r
<1>1. /\ Len(t) \in Nat /\ DOMAIN t = 1..Len(t) /\ Len(r) \in Nat /\ DOMAIN r = 1..Len(r)
      /\ DOMAIN u = 1..Len(t) + Len(r)
      /\ \A k \in 1..Len(t) : u[k] = t[k]
      /\ \A k \in 1..Len(r) : u[Len(t) + k] = r[k]
  OBVIOUS
<1> HIDE DEF u
<1>2. ASSUME NEW k \in DOMAIN t
      PROVE  /\ u[k] = t[k] /\ (k # 1 => u[k - 1] = t[k - 1])
             /\ k + 1 \in DOMAIN t => k + 1 \in DOMAIN u /\ u[k + 1] = t[k + 1]
  BY <1>1
<1>3. CASE ~Some(r, {"Open", "Up"})
  <2>1. \A k \in DOMAIN u : u[k] \in {"Open", "Up"} => k \in DOMAIN t
    <3> SUFFICES ASSUME NEW k \in DOMAIN u, u[k] \in {"Open", "Up"}, k \notin DOMAIN t PROVE FALSE
      OBVIOUS
    <3>1. k - Len(t) \in DOMAIN r /\ k = Len(t) + (k - Len(t))
      BY <1>1
    <3>2. u[k] = r[k - Len(t)]
      BY <1>1, <3>1
    <3> QED BY <1>3, <3>1, <3>2 DEF Some
  <2>2. ASSUME NEW k \in DOMAIN u, u[k] = "Up" PROVE k = 1 \/ u[k - 1] = "Open"
    BY <1>2, <2>1, <2>2 DEF Paired
  <2>3. ASSUME NEW k \in DOMAIN u, u[k] = "Open" PROVE k <= n \/ (k + 1 \in DOMAIN u /\ u[k + 1] = "Up")
    BY <1>2, <2>1, <2>3 DEF Paired
  <2> QED BY <2>2, <2>3 DEF Paired, u
<1>4. CASE r = <<"Down", "Open", "Up">>
  <2>1. /\ Len(r) = 3 /\ r[1] = "Down" /\ r[2] = "Open" /\ r[3] = "Up"
    BY <1>4
  <2>2. /\ u[Len(t) + 1] = "Down" /\ u[Len(t) + 2] = "Open" /\ u[Len(t) + 3] = "Up"
        /\ \A k \in DOMAIN u : k \in DOMAIN t \/ k \in {Len(t) + 1, Len(t) + 2, Len(t) + 3}
    BY <1>1, <2>1
  <2>3. ASSUME NEW k \in DOMAIN u, u[k] = "Up" PROVE k = 1 \/ u[k - 1] = "Open"
    <3>1. CASE k \in DOMAIN t
      BY <1>2, <2>3, <3>1 DEF Paired
    <3>2. CASE k \notin DOMAIN t
      <4>1. k = Len(t) + 3
        BY <2>2, <2>3, <3>2
      <4>2. k - 1 = Len(t) + 2
        BY <1>1, <4>1
      <4> QED BY <2>2, <4>2
    <3> QED BY <3>1, <3>2
  <2>4. ASSUME NEW k \in DOMAIN u, u[k] = "Open" PROVE k <= n \/ (k + 1 \in DOMAIN u /\ u[k + 1] = "Up")
    <3>1. CASE k \in DOMAIN t
      BY <1>2, <2>4, <3>1 DEF Paired
    <3>2. CASE k \notin DOMAIN t
      <4>1. k = Len(t) + 2
        BY <2>2, <2>4, <3>2
      <4>2. k + 1 = Len(t) + 3 /\ Len(t) + 3 \in DOMAIN u
        BY <1>1, <2>1, <4>1
      <4> QED BY <2>2, <4>2
    <3> QED BY <3>1, <3>2
  <2> QED BY <2>3, <2>4 DEF Paired, u
<1> QED BY <1>3, <1>4

\* They stay paired when other words come and go.
LEMMA PairedTouch ==
  ASSUME NEW t \in Seq(Words), NEW u, NEW W \in SUBSET Words, Touch(t, u, W), "Open" \notin W, "Up" \notin W,
         NEW n \in {0, 1}, Paired(t, n)
  PROVE  Paired(u, n) /\ u \in Seq(Words)
<1>1. CASE u = t
  BY <1>1
<1>2. CASE t # <<>> /\ u = Tail(t)
  <2>1. Paired(t, 1) /\ u \in Seq(Words)
    BY <1>2, PairedLess
  <2>2. Paired(u, 0)
    BY <1>2, <2>1, PairedTail
  <2> QED BY <2>1, <2>2, PairedLess
<1>3. ASSUME NEW r \in Seq(W), u = t \o r PROVE Paired(u, n) /\ u \in Seq(Words)
  <2>1. r \in Seq(Words)
    OBVIOUS
  <2>2. \A k \in DOMAIN r : r[k] \in W
    OBVIOUS
  <2>3. ~Some(r, {"Open", "Up"})
    BY <2>2 DEF Some
  <2> QED BY <1>3, <2>1, <2>3, PairedJoin
<1> QED BY <1>1, <1>2, <1>3 DEF Touch

\* A step that is about neither.
LEMMA ReopensQuiet ==
  ASSUME Types, Reopens, NEW W \in SUBSET Words, Touches(W), "Open" \notin W, "Up" \notin W,
         NEW V \in SUBSET Words, TouchesWire(V), "Error" \notin V,
         eng'.navigating => eng.navigating, modem'.session => modem.session \/ ~Some(posted, {"Up"}),
         conn' = conn
  PROVE  Reopens'
<1>1. Same(posted, posted', {"Open", "Up"}) /\ Same(coming, coming', {"Error"})
  BY TouchesSame
<1>2. /\ Once(posted', "Open") <=> Once(posted, "Open")
      /\ Once(coming', "Error") <=> Once(coming, "Error")
      /\ Some(posted', {"Open"}) <=> Some(posted, {"Open"})
      /\ Some(posted', {"Up"}) <=> Some(posted, {"Up"})
      /\ Some(coming', {"Error"}) <=> Some(coming, {"Error"})
  <2>1. {"Open"} \in SUBSET {"Open", "Up"} /\ {"Up"} \in SUBSET {"Open", "Up"} /\ {"Error"} \in SUBSET {"Error"}
    OBVIOUS
  <2> QED BY <1>1, <2>1 DEF Same
<1>3. ASSUME NEW n \in {0, 1}, Paired(posted, n) PROVE Paired(posted', n)
  <2>1. PICK u \in Seq(Words) : Touch(posted, u, W) /\ Touch(u, posted', W)
    BY DEF Touches
  <2>2. Paired(u, n)
    BY <1>3, <2>1, Typed, PairedTouch
  <2> QED BY <2>1, <2>2, PairedTouch
<1> QED BY <1>2, <1>3 DEF Reopens

\* Only words of W come and go in the queue, and words of V on the wire.
Moves(W, V) == W \in SUBSET Words /\ V \in SUBSET Words /\ Touches(W) /\ TouchesWire(V)

\* What is not changed says the same.
LEMMA Still ==
  ASSUME Types
  PROVE  /\ wire' = wire => TouchesWire({}) /\ coming' = coming
         /\ queue' = queue => Touches({}) /\ posted' = posted
         /\ {} \in SUBSET Words
<1>1. {} \in SUBSET Words
  OBVIOUS
<1> QED BY <1>1, TouchesWhat DEF posted, coming

\* What each handler takes and adds.
LEMMA HandlerMoves ==
  ASSUME Types
  PROVE  /\ HandleMode => Moves({"Mode"}, {})
         /\ HandleStart => Moves({"Start", "Again"}, {})
         /\ HandleStop => Moves({"Stop"}, {})
         /\ HandleDelAid => Moves({"DelAid"}, {})
         /\ HandlePos => Moves({"Pos"}, {})
         /\ HandleDown => Moves({"Down"}, {})
         /\ HandleOpened => Moves({"Open"}, {})
         /\ HandleOpen => Moves({}, {})
         /\ HandleMask => Moves({"Measure", "Unmeasure"}, {})
         /\ HandleStatus => Moves(Statuses, {})
         /\ HandleEngine => Moves({"On", "Off"} \cup Statuses, {})
         /\ HandleUp => Moves({"Up", "Again"}, {})
<1>1. /\ {"Mode"} \in SUBSET Words /\ {"Start", "Again"} \in SUBSET Words /\ {"Stop"} \in SUBSET Words
      /\ {"DelAid"} \in SUBSET Words /\ {"Pos"} \in SUBSET Words /\ {"Down"} \in SUBSET Words
      /\ {"Open"} \in SUBSET Words /\ {"Up", "Again"} \in SUBSET Words
  BY DEF Words, Kept, Plain
<1>2. /\ {"Measure", "Unmeasure"} \in SUBSET Words /\ Statuses \in SUBSET Words
      /\ {"On", "Off"} \cup Statuses \in SUBSET Words
  BY DEF Words
<1>3. ASSUME Handle PROVE wire' = wire
  BY <1>3 DEF Handle, HandleMode, HandleStart, HandleStop, HandleDelAid, HandlePos, HandleDown, HandleOpened,
              HandleOpen, HandleMask, HandleStatus, HandleEngine, HandleUp
<1>4. HandleOpen => queue' = queue
  BY DEF HandleOpen
<1>e. /\ wire' = wire => TouchesWire({})
      /\ queue' = queue => Touches({})
      /\ {} \in SUBSET Words
  BY Still
<1>5. /\ Handle => TouchesWire({})
      /\ HandleOpen => Touches({})
      /\ {} \in SUBSET Words
  BY <1>3, <1>4, <1>e, Zenon
<1>6. /\ HandleMode => Moves({"Mode"}, {})
      /\ HandleStart => Moves({"Start", "Again"}, {})
      /\ HandleStop => Moves({"Stop"}, {})
      /\ HandleDelAid => Moves({"DelAid"}, {})
      /\ HandlePos => Moves({"Pos"}, {})
      /\ HandleDown => Moves({"Down"}, {})
      /\ HandleOpened => Moves({"Open"}, {})
      /\ HandleOpen => Moves({}, {})
  BY <1>1, <1>5, Taking, Zenon DEF Moves, Handle
<1>7. /\ HandleMask => Moves({"Measure", "Unmeasure"}, {})
      /\ HandleStatus => Moves(Statuses, {})
  BY <1>2, <1>5, TakingOthers, Zenon DEF Moves, Handle
<1>8. /\ HandleEngine => Moves({"On", "Off"} \cup Statuses, {})
      /\ HandleUp => Moves({"Up", "Again"}, {})
  BY <1>1, <1>2, <1>5, TakingAdding, Zenon DEF Moves, Handle
<1> QED BY <1>6, <1>7, <1>8

\* What each call, callback and event of the modem takes and adds.
LEMMA OtherMoves ==
  ASSUME Types
  PROVE  /\ \A mode \in Modes, single \in BOOLEAN : Start(mode, single) => Moves({"Mode", "Start"}, {})
         /\ \A mode \in Modes : SetMode(mode) => Moves({"Mode"}, {})
         /\ Stop \/ Cleanup => Moves({"Stop"}, {})
         /\ \A t \in AidTypes : DeleteAidingData(t) => Moves({"DelAid"}, {})
         /\ MeasurementInit => Moves({"Measure"}, {})
         /\ MeasurementClose => Moves({"Unmeasure"}, {})
         /\ eventCb => Moves({"On", "Off", "Pos"}, {"On", "Off", "Pos"})
         /\ errorCb => Moves({"Down", "Open", "Up"}, {"Error"})
         /\ Crash => Moves({}, {"Error"})
         /\ Return => Moves({}, {})
         /\ \A on \in BOOLEAN : EngineTurns(on) => Moves({}, {"On", "Off"})
         /\ \A fix \in Fixes : Fixed(fix) => Moves({}, {"Pos"})
<1>1. /\ {"Mode", "Start"} \in SUBSET Words /\ {"Mode"} \in SUBSET Words /\ {"Stop"} \in SUBSET Words
      /\ {"DelAid"} \in SUBSET Words /\ {"Measure"} \in SUBSET Words /\ {"Unmeasure"} \in SUBSET Words
      /\ {"On", "Off", "Pos"} \in SUBSET Words /\ {"Down", "Open", "Up"} \in SUBSET Words
      /\ {"Error"} \in SUBSET Words /\ {"On", "Off"} \in SUBSET Words /\ {"Pos"} \in SUBSET Words
  BY DEF Words, Kept, Plain
<1>2. /\ wire' = wire => TouchesWire({})
      /\ queue' = queue => Touches({})
      /\ {} \in SUBSET Words
  BY Still
<1>3. ASSUME NEW mode \in Modes, NEW single \in BOOLEAN, Start(mode, single)
      PROVE  Moves({"Mode", "Start"}, {})
  <2>1. wire' = wire
    BY <1>3 DEF Start
  <2>2. Touches({"Mode", "Start"})
    BY <1>3, Calling
  <2> QED BY <1>1, <1>2, <2>1, <2>2, Zenon DEF Moves
<1>4. ASSUME NEW mode \in Modes, SetMode(mode) PROVE Moves({"Mode"}, {})
  <2>1. wire' = wire
    BY <1>4 DEF SetMode
  <2>2. Touches({"Mode"})
    BY <1>4, Calling
  <2> QED BY <1>1, <1>2, <2>1, <2>2, Zenon DEF Moves
<1>5. ASSUME Stop \/ Cleanup PROVE Moves({"Stop"}, {})
  <2>1. wire' = wire /\ (queue' = queue \/ Posting(<<Msg("Stop")>>))
    BY <1>5 DEF Stop, Cleanup
  <2>2. Touches({"Stop"})
    BY <1>1, <2>1, Calling, TouchesWhat
  <2> QED BY <1>1, <1>2, <2>1, <2>2, Zenon DEF Moves
<1>6. ASSUME NEW t \in AidTypes, DeleteAidingData(t) PROVE Moves({"DelAid"}, {})
  <2>1. wire' = wire
    BY <1>6 DEF DeleteAidingData
  <2>2. Touches({"DelAid"})
    BY <1>6, Calling
  <2> QED BY <1>1, <1>2, <2>1, <2>2, Zenon DEF Moves
<1>7. MeasurementInit => Moves({"Measure"}, {})
  BY <1>1, <1>2, Calling DEF Moves, MeasurementInit
<1>8. MeasurementClose => Moves({"Unmeasure"}, {})
  BY <1>1, <1>2, Calling DEF Moves, MeasurementClose
<1>9. /\ eventCb => Moves({"On", "Off", "Pos"}, {"On", "Off", "Pos"})
      /\ errorCb => Moves({"Down", "Open", "Up"}, {"Error"})
  BY <1>1, Delivering, Zenon DEF Moves
<1>10. /\ Crash => Moves({}, {"Error"})
       /\ Return => Moves({}, {})
  <2>1. Crash \/ Return => queue' = queue
    BY DEF Crash, Return
  <2>2. Return => wire' = wire
    BY DEF Return
  <2>3. Crash => TouchesWire({"Error"})
    BY Sending
  <2> QED BY <1>1, <1>2, <2>1, <2>2, <2>3, Zenon DEF Moves
<1>11. ASSUME NEW on \in BOOLEAN, EngineTurns(on) PROVE Moves({}, {"On", "Off"})
  <2>1. queue' = queue
    BY <1>11 DEF EngineTurns
  <2>2. TouchesWire({"On", "Off"})
    BY <1>11, Sending
  <2> QED BY <1>1, <1>2, <2>1, <2>2, Zenon DEF Moves
<1>12. ASSUME NEW fix \in Fixes, Fixed(fix) PROVE Moves({}, {"Pos"})
  <2>1. queue' = queue
    BY <1>12 DEF Fixed
  <2>2. TouchesWire({"Pos"})
    BY <1>12, Sending
  <2> QED BY <1>1, <1>2, <2>1, <2>2, Zenon DEF Moves
<1> QED BY <1>3, <1>4, <1>5, <1>6, <1>7, <1>8, <1>9, <1>10, <1>11, <1>12

-----------------------------------------------------------------------------
(* What the steps leave alone *)

SameWish   == want' = want /\ asked' = asked
SameEng    == eng'.navigating = eng.navigating /\ eng'.mode = eng.mode /\ eng'.single = eng.single
SameClient == conn' = conn /\ api'.inSession = api.inSession /\ api'.engineOn = api.engineOn
SameModem  == modem'.session = modem.session /\ modem'.engine = modem.engine /\ modem'.mode = modem.mode
SamePast   == \A w \in {"refused", "finished", "unstopped"} : w \in past' <=> w \in past
SameAid    == /\ eng'.status = eng.status /\ eng'.aiding = eng.aiding /\ told'.engine = told.engine
              /\ aid' = aid /\ \A w \in {"unsent", "crashed"} : w \in past' <=> w \in past

\* What the handlers of the session leave alone.
LEMMA SessionFrames ==
  ASSUME Types
  PROVE  /\ HandleMode =>
              /\ SameWish /\ SameAid /\ conn' = conn
              /\ eng'.navigating = eng.navigating /\ eng'.mode = Head1.arg.mode /\ eng'.single = Head1.arg.single
              /\ eng.navigating => \E o \in StartOutcomes(Head1.arg.mode) : TakeEffect(o)
              /\ ~eng.navigating => UNCHANGED <<api, modem, past>>
         /\ HandleStart =>
              /\ SameWish /\ SameAid /\ conn' = conn /\ eng'.mode = eng.mode /\ eng'.single = eng.single
              /\ eng.navigating => UNCHANGED <<eng, api, modem, past>>
              /\ ~eng.navigating => \E o \in StartOutcomes(eng.mode) : TakeEffect(o) /\ eng'.navigating = o.accepted
         /\ HandleStop =>
              /\ SameWish /\ SameAid /\ conn' = conn /\ eng'.single = eng.single
              /\ ~eng.navigating => UNCHANGED <<eng, api, modem, past>>
              /\ eng.navigating => ~eng'.navigating /\ \E o \in StopOutcomes : TakeEffect(o)
<1>0. eng \in EngType
  BY DEF Types
<1>1. ASSUME NEW o, TakeEffect(o)
      PROVE  \A w \in {"unsent", "crashed"} : w \in past' <=> w \in past
  BY <1>1 DEF TakeEffect
<1>2. ASSUME HandleMode
      PROVE  /\ SameWish /\ SameAid /\ conn' = conn
             /\ eng'.navigating = eng.navigating /\ eng'.mode = Head1.arg.mode /\ eng'.single = Head1.arg.single
             /\ eng.navigating => \E o \in StartOutcomes(Head1.arg.mode) : TakeEffect(o)
             /\ ~eng.navigating => UNCHANGED <<api, modem, past>>
  <2>1. /\ UNCHANGED <<want, asked, wire, conn, told, aid>>
        /\ eng' = [eng EXCEPT !.mode = Head1.arg.mode, !.single = Head1.arg.single]
        /\ eng.navigating => \E o \in StartOutcomes(Head1.arg.mode) : TakeEffect(o)
        /\ ~eng.navigating => UNCHANGED <<api, modem, past>>
    BY <1>2 DEF HandleMode, setPositionMode
  <2>2. /\ eng'.navigating = eng.navigating /\ eng'.mode = Head1.arg.mode /\ eng'.single = Head1.arg.single
        /\ eng'.status = eng.status /\ eng'.aiding = eng.aiding
    BY <1>0, <2>1 DEF EngType
  <2>3. \A w \in {"unsent", "crashed"} : w \in past' <=> w \in past
    BY <1>1, <2>1
  <2> QED BY <2>1, <2>2, <2>3 DEF SameWish, SameAid
<1>3. ASSUME HandleStart
      PROVE  /\ SameWish /\ SameAid /\ conn' = conn /\ eng'.mode = eng.mode /\ eng'.single = eng.single
             /\ eng.navigating => UNCHANGED <<eng, api, modem, past>>
             /\ ~eng.navigating => \E o \in StartOutcomes(eng.mode) : TakeEffect(o) /\ eng'.navigating = o.accepted
  <2>1. /\ UNCHANGED <<want, asked, wire, conn, told, aid>>
        /\ eng.navigating => UNCHANGED <<eng, api, modem, past>>
        /\ ~eng.navigating => \E o \in StartOutcomes(eng.mode) :
                                TakeEffect(o) /\ eng' = [eng EXCEPT !.navigating = o.accepted]
    BY <1>3 DEF HandleStart
  <2>2. CASE eng.navigating
    BY <2>1, <2>2 DEF SameWish, SameAid
  <2>3. CASE ~eng.navigating
    <3>1. PICK o \in StartOutcomes(eng.mode) : TakeEffect(o) /\ eng' = [eng EXCEPT !.navigating = o.accepted]
      BY <2>1, <2>3
    <3>2. /\ eng'.navigating = o.accepted /\ eng'.mode = eng.mode /\ eng'.single = eng.single
          /\ eng'.status = eng.status /\ eng'.aiding = eng.aiding
      BY <1>0, <3>1 DEF EngType
    <3> QED BY <1>1, <2>1, <2>3, <3>1, <3>2 DEF SameWish, SameAid
  <2> QED BY <2>2, <2>3
<1>4. ASSUME HandleStop
      PROVE  /\ SameWish /\ SameAid /\ conn' = conn /\ eng'.single = eng.single
             /\ ~eng.navigating => UNCHANGED <<eng, api, modem, past>>
             /\ eng.navigating => ~eng'.navigating /\ \E o \in StopOutcomes : TakeEffect(o)
  <2>1. /\ UNCHANGED <<want, asked, wire, conn, told, aid>>
        /\ ~eng.navigating => UNCHANGED <<eng, api, modem, past>>
        /\ eng.navigating => \E o \in StopOutcomes : TakeEffect(o) /\ eng' = EndSession(eng)
    BY <1>4 DEF HandleStop
  <2>2. CASE ~eng.navigating
    BY <2>1, <2>2 DEF SameWish, SameAid
  <2>3. CASE eng.navigating
    <3>1. PICK o \in StopOutcomes : TakeEffect(o) /\ eng' = EndSession(eng)
      BY <2>1, <2>3
    <3>2. /\ ~eng'.navigating /\ eng'.single = eng.single
          /\ eng'.status = eng.status /\ eng'.aiding = eng.aiding
      BY <1>0, <3>1 DEF EngType, EndSession
    <3> QED BY <1>1, <2>1, <2>3, <3>1, <3>2 DEF SameWish, SameAid
  <2> QED BY <2>2, <2>3
<1> QED BY <1>2, <1>3, <1>4

\* What the handlers of reports leave alone.
LEMMA ReportFrames ==
  ASSUME Types
  PROVE  /\ HandleEngine =>
              /\ SameWish /\ SameAid /\ conn' = conn /\ eng' = eng /\ past' = past /\ SameModem
              /\ api'.inSession = api.inSession /\ api'.engineOn = Head1.arg
              /\ (api.engineOn /\ ~api.inSession /\ ~Head1.arg) \/ modem' = modem
         /\ HandleStatus \/ HandleDelAid \/ HandleDown =>
              SameWish /\ SameEng /\ conn' = conn /\ api' = api /\ modem' = modem /\ SamePast
                       /\ ("restarted" \in past' <=> "restarted" \in past)
         /\ HandlePos =>
              /\ asked' = asked /\ SameAid /\ conn' = conn /\ eng'.single = eng.single
              /\ \/ want' = want /\ UNCHANGED <<eng, api, modem, past>>
                 \/ /\ eng.single /\ ~eng'.navigating /\ want' = (want /\ "Start" \in Kinds(Tail(queue)))
                    /\ IF Head1.arg = "intermediate" THEN \E o \in StopOutcomes : TakeEffect(o)
                                                     ELSE UNCHANGED <<api, modem, past>>
         /\ HandleUp =>
              /\ SameWish /\ SameAid /\ conn' = conn /\ api' = api /\ modem' = modem /\ SamePast
              /\ ~eng'.navigating /\ eng'.single = eng.single
              /\ \/ eng.navigating /\ "restarted" \in past'
                 \/ ~eng.navigating /\ eng' = eng /\ past' = past
<1>0. eng \in EngType /\ api \in ApiType /\ modem \in ModemType
  BY DEF Types
<1>1. ASSUME HandleEngine
      PROVE  /\ SameWish /\ SameAid /\ conn' = conn /\ eng' = eng /\ past' = past /\ SameModem
             /\ api'.inSession = api.inSession /\ api'.engineOn = Head1.arg
             /\ (api.engineOn /\ ~api.inSession /\ ~Head1.arg) \/ modem' = modem
  <2>1. /\ modem' = IF api.engineOn /\ ~api.inSession /\ ~Head1.arg THEN registerEventMask(api) ELSE modem
        /\ api' = [api EXCEPT !.engineOn = Head1.arg]
        /\ UNCHANGED <<want, asked, wire, eng, conn, told, aid, past, left>>
    BY <1>1 DEF HandleEngine
  <2>2. api'.inSession = api.inSession /\ api'.engineOn = Head1.arg
    BY <1>0, <2>1 DEF ApiType
  <2>3. SameModem
    BY <1>0, <2>1 DEF SameModem, registerEventMask, Registered, ModemType
  <2> QED BY <2>1, <2>2, <2>3 DEF SameWish, SameAid
<1>2. ASSUME NEW g, g.navigating = eng.navigating, g.mode = eng.mode, g.single = eng.single, g \in EngType,
             NEW a, UpdateAiding(g, a)
      PROVE  SameEng /\ SamePast /\ ("restarted" \in past' <=> "restarted" \in past)
  <2>1. eng'.navigating = g.navigating /\ eng'.mode = g.mode /\ eng'.single = g.single
    BY <1>2 DEF UpdateAiding, EngType
  <2>2. past' = past \/ past' = past \cup {"unsent"}
    BY <1>2 DEF UpdateAiding, deleteAidingData
  <2> QED BY <1>2, <2>1, <2>2 DEF SameEng, SamePast
<1>3. ASSUME HandleStatus \/ HandleDelAid \/ HandleDown
      PROVE  SameWish /\ SameEng /\ conn' = conn /\ api' = api /\ modem' = modem /\ SamePast
                      /\ ("restarted" \in past' <=> "restarted" \in past)
  <2>0. UNCHANGED <<want, asked, api, conn, modem>>
    BY <1>3 DEF HandleStatus, HandleDelAid, HandleDown
  <2>1. CASE HandleStatus
    <3> DEFINE g == Reported(Head1.arg)
    <3>1. g.navigating = eng.navigating /\ g.mode = eng.mode /\ g.single = eng.single /\ g \in EngType
      BY <1>0 DEF Reported, EngType, Statuses
    <3>2. PICK a : UpdateAiding(g, a)
      <4>1. PICK a : a = aid
        OBVIOUS
      <4> QED BY <2>1, <4>1 DEF HandleStatus
    <3> HIDE DEF g
    <3> QED BY <1>2, <2>0, <3>1, <3>2 DEF SameWish
  <2>2. CASE HandleDelAid
    <3> DEFINE g == [eng EXCEPT !.aiding = Head1.arg]
    <3>1. Handles("DelAid") /\ \E a : UpdateAiding(g, a)
      <4>1. PICK a : a = [aid EXCEPT !.overtaken = @ \cup Overtaken(Head1.arg)]
        OBVIOUS
      <4> QED BY <2>2, <4>1 DEF HandleDelAid
    <3>2. Head1.arg \in AidTypes
      <4>1. Head1 \in Message /\ Head1.kind = "DelAid"
        BY <3>1, Pops DEF Types, Handles, Head1
      <4> QED BY <4>1, Carries
    <3>3. g.navigating = eng.navigating /\ g.mode = eng.mode /\ g.single = eng.single /\ g \in EngType
      BY <1>0, <3>2 DEF EngType
    <3> HIDE DEF g
    <3> QED BY <1>2, <2>0, <3>1, <3>3 DEF SameWish
  <2>3. CASE HandleDown
    <3>1. eng' = [eng EXCEPT !.status = "ENGINE_OFF"] /\ past' = past
      BY <2>3 DEF HandleDown, Reported
    <3>2. SameEng
      BY <1>0, <3>1 DEF EngType, SameEng
    <3> QED BY <2>0, <3>1, <3>2 DEF SameWish, SamePast
  <2> QED BY <1>3, <2>1, <2>2, <2>3
<1>4. ASSUME HandlePos
      PROVE  /\ asked' = asked /\ SameAid /\ conn' = conn /\ eng'.single = eng.single
             /\ \/ want' = want /\ UNCHANGED <<eng, api, modem, past>>
                \/ /\ eng.single /\ ~eng'.navigating /\ want' = (want /\ "Start" \in Kinds(Tail(queue)))
                   /\ IF Head1.arg = "intermediate" THEN \E o \in StopOutcomes : TakeEffect(o)
                                                    ELSE UNCHANGED <<api, modem, past>>
  <2>1. /\ UNCHANGED <<asked, wire, conn, told, aid>>
        /\ \/ UNCHANGED <<eng, want, api, modem, past>>
           \/ /\ eng.single /\ eng' = EndSession(eng) /\ want' = (want /\ "Start" \in Kinds(Tail(queue)))
              /\ IF Head1.arg = "intermediate" THEN \E o \in StopOutcomes : TakeEffect(o)
                                               ELSE UNCHANGED <<api, modem, past>>
    BY <1>4 DEF HandlePos
  <2>2. eng' = EndSession(eng) => /\ ~eng'.navigating /\ eng'.single = eng.single
                                  /\ eng'.status = eng.status /\ eng'.aiding = eng.aiding
    BY <1>0 DEF EngType, EndSession
  <2>3. \A w \in {"unsent", "crashed"} : w \in past' <=> w \in past
    BY <2>1 DEF TakeEffect
  <2> QED BY <2>1, <2>2, <2>3 DEF SameAid
<1>5. ASSUME HandleUp
      PROVE  /\ SameWish /\ SameAid /\ conn' = conn /\ api' = api /\ modem' = modem /\ SamePast
             /\ ~eng'.navigating /\ eng'.single = eng.single
             /\ \/ eng.navigating /\ "restarted" \in past'
                \/ ~eng.navigating /\ eng' = eng /\ past' = past
  <2>1. /\ UNCHANGED <<want, asked, wire, api, conn, modem, told, aid, left>>
        /\ \/ eng.navigating /\ eng' = EndSession(eng) /\ past' = past \cup {"restarted"}
           \/ ~eng.navigating /\ eng' = eng /\ past' = past
    BY <1>5 DEF HandleUp
  <2>2. eng' = EndSession(eng) => /\ ~eng'.navigating /\ eng'.single = eng.single
                                  /\ eng'.status = eng.status /\ eng'.aiding = eng.aiding
    BY <1>0 DEF EngType, EndSession
  <2> QED BY <2>1, <2>2 DEF SameWish, SameAid, SamePast
<1> QED BY <1>1, <1>3, <1>4, <1>5

\* What opening the client and changing what it measures leave alone.
LEMMA ClientFrames ==
  ASSUME Types
  PROVE  /\ HandleOpen =>
              /\ SameWish /\ SameEng /\ SameModem /\ SamePast /\ SameAid
              /\ ("restarted" \in past' <=> "restarted" \in past)
              /\ conn \in {"closed", "dead"} /\ conn' = "deaf"
              /\ api'.inSession = api.inSession /\ api'.engineOn = api.engineOn
         /\ HandleOpened =>
              /\ SameWish /\ UNCHANGED <<eng, api, modem, told, aid, past>>
              /\ (conn = "deaf" /\ conn' = "open") \/ conn = "lost"
         /\ HandleMask =>
              /\ SameWish /\ SameEng /\ SameModem /\ SamePast /\ SameAid /\ SameClient
              /\ ("restarted" \in past' <=> "restarted" \in past)
              /\ \/ modem' = modem
                 \/ conn = "open" /\ Head1.arg /\ (api.inSession => modem'.mask = "full")
<1>0. eng \in EngType /\ api \in ApiType /\ modem \in ModemType
  BY DEF Types
<1>1. ASSUME NEW a \in ApiType
      PROVE  /\ Registered(modem, a).session = modem.session /\ Registered(modem, a).engine = modem.engine
             /\ Registered(modem, a).mode = modem.mode
             /\ a.inSession => Registered(modem, a).mask = "full"
  BY <1>0 DEF Registered, ModemType
<1>2. ASSUME HandleOpen
      PROVE  /\ SameWish /\ SameEng /\ SameModem /\ SamePast /\ SameAid
             /\ ("restarted" \in past' <=> "restarted" \in past)
             /\ conn \in {"closed", "dead"} /\ conn' = "deaf"
             /\ api'.inSession = api.inSession /\ api'.engineOn = api.engineOn
  <2>1. /\ conn \in {"closed", "dead"} /\ conn' = "deaf"
        /\ api' = [api EXCEPT !.meas = FALSE]
        /\ past' = past \/ past' = past \cup {"forgot"}
        /\ modem' = Registered(modem, [api EXCEPT !.inSession = FALSE])
        /\ UNCHANGED <<want, asked, queue, wire, eng, told, aid, left>>
    BY <1>2 DEF HandleOpen
  <2>2. [api EXCEPT !.inSession = FALSE] \in ApiType
    BY <1>0 DEF ApiType
  <2>3. api'.inSession = api.inSession /\ api'.engineOn = api.engineOn
    BY <1>0, <2>1 DEF ApiType
  <2>4. SameModem
    BY <1>1, <2>1, <2>2 DEF SameModem
  <2> QED BY <2>1, <2>3, <2>4 DEF SameWish, SameEng, SamePast, SameAid
<1>3. ASSUME HandleOpened
      PROVE  /\ SameWish /\ UNCHANGED <<eng, api, modem, told, aid, past>>
             /\ (conn = "deaf" /\ conn' = "open") \/ conn = "lost"
  BY <1>3 DEF HandleOpened, SameWish
<1>4. ASSUME HandleMask
      PROVE  /\ SameWish /\ SameEng /\ SameModem /\ SamePast /\ SameAid /\ SameClient
             /\ ("restarted" \in past' <=> "restarted" \in past)
             /\ \/ modem' = modem
                \/ conn = "open" /\ Head1.arg /\ (api.inSession => modem'.mask = "full")
  <2> DEFINE a == [api EXCEPT !.meas = @ \/ Head1.arg]
  <2>0. Head1.arg \in BOOLEAN
    BY <1>4, TakingOthers
  <2>1. /\ \/ a # api /\ conn = "open" /\ api' = a /\ modem' = registerEventMask(a) /\ past' = past
           \/ api' = api /\ modem' = modem /\ (past' = past \/ past' = past \cup {"forgot"})
        /\ UNCHANGED <<want, asked, wire, eng, conn, told, aid, left>>
    BY <1>4 DEF HandleMask
  <2>2. /\ a \in ApiType /\ a.inSession = api.inSession /\ a.engineOn = api.engineOn
        /\ a # api => Head1.arg
    BY <1>0, <2>0 DEF ApiType
  <2> HIDE DEF a
  <2>3. api'.inSession = api.inSession /\ api'.engineOn = api.engineOn
    BY <2>1, <2>2
  <2>4. SameModem
    BY <1>1, <2>1, <2>2 DEF SameModem, registerEventMask
  <2>5. \/ modem' = modem
        \/ conn = "open" /\ Head1.arg /\ (api.inSession => modem'.mask = "full")
    BY <1>1, <2>1, <2>2 DEF registerEventMask
  <2> QED BY <2>1, <2>3, <2>4, <2>5 DEF SameWish, SameEng, SamePast, SameAid, SameClient
<1> QED BY <1>2, <1>3, <1>4

\* What the framework's calls leave alone: all but the queue, the last call and the data to delete.
LEMMA CallFrames ==
  ASSUME Types, Call
  PROVE  /\ SameEng /\ SamePast /\ UNCHANGED <<wire, api, conn, modem, told>>
         /\ eng'.status = eng.status /\ eng'.aiding = eng.aiding
         /\ \A w \in {"unsent", "crashed"} : w \in past' <=> w \in past
<1>0. eng \in EngType
  BY DEF Types
<1>1. ASSUME NEW mode \in Modes, NEW single \in BOOLEAN, Start(mode, single)
      PROVE  UNCHANGED <<wire, eng, api, conn, modem, told, aid>> /\ past' = past \ {"restarted"}
  BY <1>1 DEF Start
<1>2. ASSUME NEW mode \in Modes, SetMode(mode)
      PROVE  UNCHANGED <<wire, eng, api, conn, modem, told, aid>> /\ past' = past \ {"restarted"}
  BY <1>2 DEF SetMode
<1>3. Stop \/ Cleanup => UNCHANGED <<wire, eng, api, conn, modem, told, aid, past>>
  BY DEF Stop, Cleanup
<1>4. ASSUME NEW t \in AidTypes, DeleteAidingData(t)
      PROVE  UNCHANGED <<wire, eng, api, conn, modem, told, past>>
  BY <1>4 DEF DeleteAidingData
<1>5. MeasurementInit \/ MeasurementClose =>
        /\ UNCHANGED <<wire, api, conn, modem, told, aid>> /\ (past' = past \/ past' = past \ {"forgot"})
        /\ \E b \in BOOLEAN : eng' = [eng EXCEPT !.meas = b]
  BY DEF MeasurementInit, MeasurementClose
<1>6. UNCHANGED <<wire, api, conn, modem, told>>
  BY <1>1, <1>2, <1>3, <1>4, <1>5 DEF Call
<1>7. eng' = eng \/ \E b \in BOOLEAN : eng' = [eng EXCEPT !.meas = b]
  BY <1>1, <1>2, <1>3, <1>4, <1>5 DEF Call
<1>8. past' = past \/ past' = past \ {"restarted"} \/ past' = past \ {"forgot"}
  BY <1>1, <1>2, <1>3, <1>4, <1>5 DEF Call
<1>9. SameEng /\ eng'.status = eng.status /\ eng'.aiding = eng.aiding
  BY <1>0, <1>7 DEF EngType, SameEng
<1> QED BY <1>6, <1>8, <1>9 DEF SamePast

\* What each of them changes of the rest.
LEMMA CallsFrames ==
  ASSUME Types
  PROVE  /\ \A mode \in Modes, single \in BOOLEAN : Start(mode, single) =>
              aid' = aid /\ want' = TRUE /\ asked' = mode
         /\ \A mode \in Modes : SetMode(mode) => aid' = aid /\ want' = want /\ want /\ asked' = mode
         /\ Stop \/ Cleanup => aid' = aid /\ want' = FALSE /\ asked' = asked /\ past' = past
         /\ \A t \in AidTypes : DeleteAidingData(t) =>
              SameWish /\ past' = past
         /\ MeasurementInit \/ MeasurementClose =>
              aid' = aid /\ SameWish /\ ("restarted" \in past' <=> "restarted" \in past)
<1>1. \A mode \in Modes, single \in BOOLEAN : Start(mode, single) =>
        aid' = aid /\ want' = TRUE /\ asked' = mode
  BY DEF Start
<1>2. \A mode \in Modes : SetMode(mode) => aid' = aid /\ want' = want /\ want /\ asked' = mode
  BY DEF SetMode
<1>3. Stop \/ Cleanup => aid' = aid /\ want' = FALSE /\ asked' = asked /\ past' = past
  BY DEF Stop, Cleanup
<1>4. MeasurementInit \/ MeasurementClose =>
        aid' = aid /\ SameWish /\ ("restarted" \in past' <=> "restarted" \in past)
  BY DEF MeasurementInit, MeasurementClose, SameWish
<1>5. \A t \in AidTypes : DeleteAidingData(t) =>
        SameWish /\ past' = past
  BY DEF DeleteAidingData, SameWish
<1> QED BY <1>1, <1>2, <1>3, <1>4, <1>5

\* What the modem and the callbacks leave alone.
LEMMA ModemFrames ==
  ASSUME Types
  PROVE  /\ Deliver => UNCHANGED <<want, asked, eng, api, conn, modem, told, aid, past>>
         /\ Crash => /\ UNCHANGED <<want, asked, queue, eng, api, told, aid>>
                     /\ modem' = Down /\ past' = past \cup {"crashed"}
         /\ Return => /\ UNCHANGED <<want, asked, queue, wire, eng, api, conn, told, aid, past>>
                      /\ SameModem /\ modem'.mask = modem.mask
         /\ \A on \in BOOLEAN : EngineTurns(on) =>
              /\ UNCHANGED <<want, asked, queue, eng, api, conn, told, aid, past>>
              /\ modem'.session = modem.session /\ modem'.mode = modem.mode /\ modem'.mask = modem.mask
              /\ modem'.engine = on /\ (on => modem.session)
         /\ \A fix \in Fixes : Fixed(fix) =>
              /\ UNCHANGED <<want, asked, queue, eng, api, conn, told, aid>> /\ modem.session
              /\ modem'.engine = modem.engine /\ modem'.mode = modem.mode /\ modem'.mask = modem.mask
              /\ modem'.session \/ "finished" \in past'
              /\ fix # "intermediate" /\ eng.single => "finished" \in past'
              /\ past \subseteq past' /\ past' \subseteq past \cup {"finished"}
<1>0. modem \in ModemType
  BY DEF Types
<1>1. Deliver => UNCHANGED <<want, asked, eng, api, conn, modem, told, aid, past>>
  BY DEF Deliver, eventCb, errorCb
<1>2. Crash => /\ UNCHANGED <<want, asked, queue, eng, api, told, aid>>
               /\ modem' = Down /\ past' = past \cup {"crashed"}
  BY DEF Crash
<1>3. Return => /\ UNCHANGED <<want, asked, queue, wire, eng, api, conn, told, aid, past>>
                /\ SameModem /\ modem'.mask = modem.mask
  BY <1>0 DEF Return, ModemType, SameModem
<1>4. ASSUME NEW on \in BOOLEAN, EngineTurns(on)
      PROVE  /\ UNCHANGED <<want, asked, queue, eng, api, conn, told, aid, past>>
             /\ modem'.session = modem.session /\ modem'.mode = modem.mode /\ modem'.mask = modem.mask
             /\ modem'.engine = on /\ (on => modem.session)
  BY <1>0, <1>4 DEF EngineTurns, ModemType
<1>5. ASSUME NEW fix \in Fixes, Fixed(fix)
      PROVE  /\ UNCHANGED <<want, asked, queue, eng, api, conn, told, aid>> /\ modem.session
             /\ modem'.engine = modem.engine /\ modem'.mode = modem.mode /\ modem'.mask = modem.mask
             /\ modem'.session \/ "finished" \in past'
             /\ fix # "intermediate" /\ eng.single => "finished" \in past'
             /\ past \subseteq past' /\ past' \subseteq past \cup {"finished"}
  <2>1. /\ UNCHANGED <<want, asked, queue, eng, api, conn, told, aid>> /\ modem.session
        /\ modem' = IF fix # "intermediate" /\ eng.single THEN [modem EXCEPT !.session = FALSE] ELSE modem
        /\ past' = IF modem' # modem THEN past \cup {"finished"} ELSE past
    BY <1>5 DEF Fixed
  <2>2. CASE fix # "intermediate" /\ eng.single
    <3>1. modem' = [modem EXCEPT !.session = FALSE]
      BY <2>1, <2>2
    <3>2. /\ ~modem'.session /\ modem'.engine = modem.engine /\ modem'.mode = modem.mode
          /\ modem'.mask = modem.mask
      BY <1>0, <3>1 DEF ModemType
    <3>3. modem' # modem
      BY <2>1, <3>2
    <3> QED BY <2>1, <3>2, <3>3
  <2>3. CASE ~(fix # "intermediate" /\ eng.single)
    BY <2>1, <2>3
  <2> QED BY <2>2, <2>3
<1> QED BY <1>1, <1>2, <1>3, <1>4, <1>5

-----------------------------------------------------------------------------
(* Each step keeps the order: crashes and restarts *)

\* A step that is about no restart keeps it.
LEMMA ReopensStill ==
  ASSUME Types, Reopens, NEW W, NEW V, Moves(W, V), "Open" \notin W, "Up" \notin W, "Error" \notin V,
         eng'.navigating => eng.navigating, modem'.session => modem.session \/ ~Some(posted, {"Up"}),
         conn' = conn
  PROVE  Reopens'
BY ReopensQuiet DEF Moves

\* While the client is open, a restart is the first message, if there is one.
LEMMA UpIsFirst ==
  ASSUME Types, Reopens, conn = "open", posted[1] # "Up"
  PROVE  ~Some(posted, {"Up"})
<1>1. posted \in Seq(Words) /\ Paired(posted, 1) /\ ~Some(posted, {"Open"})
  BY Typed DEF Reopens
<1> QED BY <1>1, PairedFirst

\* Handlers keep it: the client is opened once for each crash.
LEMMA ReopensHandled ==
  ASSUME HeardInv, Reopens, Handle
  PROVE  Reopens'
<1>0. Types /\ OpenedFirst /\ posted \in Seq(Words) /\ coming \in Seq(Words)
  BY Typed DEF HeardInv
<1>1. CASE HandleMode
  <2>1. Took("Mode") /\ Moves({"Mode"}, {})
    BY <1>0, <1>1, Taking, HandlerMoves
  <2>2. /\ conn' = conn /\ eng'.navigating = eng.navigating
        /\ eng.navigating => \E o \in StartOutcomes(Head1.arg.mode) : TakeEffect(o)
        /\ ~eng.navigating => UNCHANGED <<api, modem, past>>
    BY <1>0, <1>1, SessionFrames
  <2>3. conn # "open" => modem' = modem
    BY <1>0, <2>2, Starting
  <2>4. conn = "open" => ~Some(posted, {"Up"})
    BY <1>0, <2>1, UpIsFirst DEF Took
  <2> QED BY <1>0, <2>1, <2>2, <2>3, <2>4, ReopensStill
<1>2. CASE HandleStart
  <2>1. PICK x \in {"Start", "Again"} : Took(x)
    BY <1>0, <1>2, Taking
  <2>2. Moves({"Start", "Again"}, {})
    BY <1>0, <1>2, HandlerMoves
  <2>3. /\ conn' = conn
        /\ eng.navigating => UNCHANGED <<eng, api, modem, past>>
        /\ ~eng.navigating => \E o \in StartOutcomes(eng.mode) : TakeEffect(o) /\ eng'.navigating = o.accepted
    BY <1>0, <1>2, SessionFrames
  <2>4. conn # "open" => modem' = modem
    BY <1>0, <2>3, Starting
  <2>5. conn = "open" => ~Some(posted, {"Up"})
    BY <1>0, <2>1, UpIsFirst DEF Took
  <2>6. posted # <<>> /\ posted[1] = x /\ posted' = Tail(posted) /\ Paired(posted, 1)
    BY <2>1 DEF Took, Reopens
  <2>7. Paired(posted', 0) /\ Paired(posted', 1)
    <3>1. Paired(Tail(posted), 0) /\ Tail(posted) \in Seq(Words)
      BY <1>0, <2>6, PairedTail
    <3> QED BY <2>6, <3>1, PairedLess
  <2>8. Same(posted, posted', {"Open", "Up"}) /\ Same(coming, coming', {"Error"})
    BY <1>0, <2>2, TouchesSame DEF Moves
  <2>9. /\ Once(posted', "Open") <=> Once(posted, "Open")
        /\ Once(coming', "Error") <=> Once(coming, "Error")
        /\ Some(posted', {"Open"}) <=> Some(posted, {"Open"})
        /\ Some(posted', {"Up"}) <=> Some(posted, {"Up"})
        /\ Some(coming', {"Error"}) <=> Some(coming, {"Error"})
    <3>1. {"Open"} \in SUBSET {"Open", "Up"} /\ {"Up"} \in SUBSET {"Open", "Up"} /\ {"Error"} \in SUBSET {"Error"}
      OBVIOUS
    <3> QED BY <2>8, <3>1 DEF Same
  <2> QED BY <2>3, <2>4, <2>5, <2>7, <2>9 DEF Reopens
<1>3. CASE HandleStop
  <2>1. Moves({"Stop"}, {})
    BY <1>0, <1>3, HandlerMoves
  <2>2. /\ conn' = conn /\ (eng'.navigating => eng.navigating)
        /\ ~eng.navigating => UNCHANGED <<eng, api, modem, past>>
        /\ eng.navigating => ~eng'.navigating /\ \E o \in StopOutcomes : TakeEffect(o)
    BY <1>0, <1>3, SessionFrames
  <2>3. modem'.session => modem.session
    BY <1>0, <2>2, Stopping DEF OpenedFirst
  <2> QED BY <1>0, <2>1, <2>2, <2>3, ReopensStill
<1>4. CASE HandleEngine
  <2>1. Moves({"On", "Off"} \cup Statuses, {})
    BY <1>0, <1>4, HandlerMoves
  <2>2. "Open" \notin {"On", "Off"} \cup Statuses /\ "Up" \notin {"On", "Off"} \cup Statuses
    BY DEF Statuses
  <2>3. conn' = conn /\ eng' = eng /\ SameModem
    BY <1>0, <1>4, ReportFrames
  <2> QED BY <1>0, <2>1, <2>2, <2>3, ReopensStill DEF SameModem
<1>5. CASE HandleStatus \/ HandleDelAid \/ HandleDown
  <2>1. PICK W \in {Statuses, {"DelAid"}, {"Down"}} : Moves(W, {})
    BY <1>0, <1>5, HandlerMoves
  <2>2. "Open" \notin W /\ "Up" \notin W
    BY DEF Statuses
  <2>3. conn' = conn /\ SameEng /\ modem' = modem
    BY <1>0, <1>5, ReportFrames
  <2> QED BY <1>0, <2>1, <2>2, <2>3, ReopensStill DEF SameEng
<1>6. CASE HandlePos
  <2>1. Moves({"Pos"}, {})
    BY <1>0, <1>6, HandlerMoves
  <2>2. /\ conn' = conn
        /\ \/ UNCHANGED <<eng, api, modem, past>>
           \/ /\ ~eng'.navigating
              /\ (\E o \in StopOutcomes : TakeEffect(o)) \/ UNCHANGED <<api, modem, past>>
    BY <1>0, <1>6, ReportFrames
  <2>3. modem'.session => modem.session
    BY <1>0, <2>2, Stopping DEF OpenedFirst
  <2> QED BY <1>0, <2>1, <2>2, <2>3, ReopensStill
<1>7. CASE HandleUp
  <2>1. /\ conn' = conn /\ modem' = modem /\ ~eng'.navigating
    BY <1>0, <1>7, ReportFrames
  <2>2. Moves({"Up", "Again"}, {}) /\ posted # <<>> /\ posted[1] = "Up"
    BY <1>0, <1>7, HandlerMoves, TakingAdding DEF TookAdded, Took
  <2>3. PICK r \in Seq(Words) : posted' = Tail(posted) \o r /\ ~Some(r, {"Open", "Up"})
    <3>1. Tail(posted) \in Seq(Words)
      BY <1>0, <2>2
    <3>2. CASE eng.navigating
      <4>1. posted' = Tail(posted) \o <<"Again">> /\ "Again" \in Words
        BY <1>0, <1>7, <3>2, TakingAdding DEF TookAdded, Words, Kept, Plain
      <4> QED BY <4>1, One
    <3>3. CASE ~eng.navigating
      <4>1. posted' = Tail(posted)
        BY <1>0, <1>7, <3>3, TakingAdding DEF Took
      <4>2. <<>> \in Seq(Words) /\ posted' = Tail(posted) \o <<>> /\ ~Some(<<>>, {"Open", "Up"})
        BY <3>1, <4>1 DEF Some
      <4> QED BY <4>2
    <3> QED BY <3>2, <3>3
  <2>4. Paired(Tail(posted), 0) /\ Tail(posted) \in Seq(Words)
    BY <1>0, <2>2, PairedTail DEF Reopens
  <2>5. Paired(posted', 0) /\ Paired(posted', 1)
    <3>1. 0 \in {0, 1} /\ Tail(posted) \o r \in Seq(Words)
      BY <2>4
    <3>2. Paired(Tail(posted) \o r, 0)
      BY <2>3, <2>4, <3>1, PairedJoin
    <3> QED BY <2>3, <3>1, <3>2, PairedLess
  <2>6. Some(posted, {"Up"})
    <3>1. 1 \in DOMAIN posted
      BY <1>0, <2>2
    <3> QED BY <2>2, <3>1 DEF Some
  <2>7. ~Some(r, {"Open"})
    BY <2>3 DEF Some
  <2>8. /\ Once(posted, "Open") => Once(posted', "Open")
        /\ Some(posted', {"Open"}) => Some(posted, {"Open"})
    <3>1. Once(posted, "Open") => Once(Tail(posted), "Open")
      BY <1>0, <2>2, FirstTakenOrder
    <3>2. Some(Tail(posted), {"Open"}) => Some(posted, {"Open"})
      BY <1>0, <2>2, FirstTaken
    <3>3. Once(r, "Open")
      BY <2>7 DEF Some, Once
    <3>4. Once(Tail(posted) \o r, "Open") <=> Once(Tail(posted), "Open") /\ Once(r, "Open") /\ ~(Some(Tail(posted), {"Open"}) /\ Some(r, {"Open"}))
      BY <2>4, JoinedOrder
    <3>5. Some(Tail(posted) \o r, {"Open"}) <=> Some(Tail(posted), {"Open"}) \/ Some(r, {"Open"})
      BY <2>4, Joined
    <3> QED BY <2>3, <2>7, <3>1, <3>2, <3>3, <3>4, <3>5
  <2>9. coming' = coming
    BY <1>7, Still, <1>0 DEF HandleUp
  <2> QED BY <2>1, <2>5, <2>6, <2>8, <2>9 DEF Reopens
<1>8. CASE HandleOpen
  <2>1. SameEng /\ SameModem /\ conn' = "deaf"
    BY <1>0, <1>8, ClientFrames
  <2>2. posted' = posted /\ coming' = coming
    BY <1>0, <1>8, Still DEF HandleOpen
  <2> QED BY <2>1, <2>2 DEF Reopens, SameEng, SameModem
<1>9. CASE HandleOpened
  <2>1. /\ UNCHANGED <<eng, api, modem, told, aid, past>>
        /\ conn = "deaf" /\ conn' = "open"
    BY <1>0, <1>9, ClientFrames DEF Reopens
  <2>2. posted # <<>> /\ posted[1] = "Open" /\ posted' = Tail(posted)
    BY <1>0, <1>9, Taking DEF Took
  <2>3. coming' = coming
    BY <1>0, <1>9, Still DEF HandleOpened
  <2>4. Some(posted, {"Open"})
    <3>1. 1 \in DOMAIN posted
      BY <1>0, <2>2
    <3> QED BY <2>2, <3>1 DEF Some
  <2>5. Once(posted', "Open") /\ ~Some(posted', {"Open"})
    BY <1>0, <2>2, FirstTakenOrder DEF Reopens
  <2>6. Paired(posted', 0) /\ Paired(posted', 1)
    <3>1. Paired(Tail(posted), 0) /\ Tail(posted) \in Seq(Words)
      BY <1>0, <2>2, PairedTail DEF Reopens
    <3> QED BY <2>2, <3>1, PairedLess
  <2>7. ~modem'.session
    BY <1>0, <2>1 DEF OpenedFirst
  <2> QED BY <2>1, <2>3, <2>4, <2>5, <2>6, <2>7 DEF Reopens
<1>10. CASE HandleMask
  <2>1. Moves({"Measure", "Unmeasure"}, {})
    BY <1>0, <1>10, HandlerMoves
  <2>2. SameEng /\ SameModem /\ SameClient
    BY <1>0, <1>10, ClientFrames
  <2> QED BY <1>0, <2>1, <2>2, ReopensStill DEF SameEng, SameModem, SameClient
<1> QED BY <1>1, <1>2, <1>3, <1>4, <1>5, <1>6, <1>7, <1>8, <1>9, <1>10 DEF Handle

\* So do the calls, the callbacks and the modem, which crashes only with the client open.
LEMMA ReopensOther ==
  ASSUME HeardInv, Reopens, Allowed = {}, Next \/ UNCHANGED vars, ~Handle
  PROVE  Reopens'
<1>0. Types /\ OpenedFirst /\ posted \in Seq(Words) /\ coming \in Seq(Words)
  BY Typed DEF HeardInv
<1>1. CASE Call
  <2>1. PICK W \in {{"Mode", "Start"}, {"Mode"}, {"Stop"}, {"DelAid"}, {"Measure"}, {"Unmeasure"}} : Moves(W, {})
    BY <1>0, <1>1, OtherMoves DEF Call
  <2>2. SameEng /\ conn' = conn /\ modem' = modem
    BY <1>0, <1>1, CallFrames
  <2> QED BY <1>0, <2>1, <2>2, ReopensStill DEF SameEng
<1>2. CASE eventCb
  <2>1. Moves({"On", "Off", "Pos"}, {"On", "Off", "Pos"})
    BY <1>0, <1>2, OtherMoves
  <2>2. eng' = eng /\ conn' = conn /\ modem' = modem
    BY <1>0, <1>2, ModemFrames DEF Deliver
  <2> QED BY <1>0, <2>1, <2>2, ReopensStill
<1>3. CASE errorCb
  <2>1. eng' = eng /\ conn' = conn /\ modem' = modem
    BY <1>0, <1>3, ModemFrames DEF Deliver
  <2>2. coming # <<>> /\ coming[1] = "Error" /\ coming' = Tail(coming)
    BY <1>0, <1>3, Delivering DEF TookWire
  <2>3. PICK r : r = <<"Down", "Open", "Up">> /\ posted' = posted \o r
    BY <1>0, <1>3, Delivering
  <2>4. Some(coming, {"Error"})
    <3>1. 1 \in DOMAIN coming
      BY <1>0, <2>2
    <3> QED BY <2>2, <3>1 DEF Some
  <2>5. conn # "open" /\ ~modem.session /\ ~Some(posted, {"Open"})
    BY <1>0, <2>4 DEF Reopens, OpenedFirst
  <2>6. Once(coming', "Error") /\ ~Some(coming', {"Error"})
    BY <1>0, <2>2, FirstTakenOrder DEF Reopens
  <2>7. r \in Seq(Words) /\ Once(r, "Open")
    BY <2>3, Three
  <2>8. Once(posted', "Open")
    BY <1>0, <2>3, <2>5, <2>7, JoinedOrder DEF Reopens
  <2>9. Paired(posted', 1) /\ (Paired(posted, 0) => Paired(posted', 0))
    BY <1>0, <2>3, <2>7, PairedJoin DEF Reopens
  <2> QED BY <2>1, <2>5, <2>6, <2>8, <2>9 DEF Reopens
<1>4. CASE Crash
  <2>1. eng' = eng /\ modem' = Down /\ queue' = queue
    BY <1>0, <1>4, ModemFrames
  <2>2. conn = "open" /\ conn' = "dead"
    BY <1>4 DEF Crash
  <2>3. coming' = coming \o <<"Error">>
    BY <1>0, <1>4, <2>2, Sending
  <2>4. ~Some(coming, {"Error"}) /\ ~Some(posted, {"Open"})
    BY <2>2 DEF Reopens
  <2>5. "Error" \in Words
    BY DEF Words, Kept
  <2>6. Once(coming', "Error")
    <3>1. PICK r \in Seq(Words) : r = <<"Error">> /\ Once(r, "Error")
      BY <2>5, One
    <3>2. Once(coming \o r, "Error")
      BY <1>0, <2>4, <3>1, JoinedOrder DEF Reopens
    <3> QED BY <2>3, <3>1, <3>2
  <2>7. posted' = posted /\ ~modem'.session
    BY <1>0, <2>1, Still DEF Down
  <2> QED BY <2>1, <2>2, <2>4, <2>6, <2>7 DEF Reopens
<1>5. CASE Return
  <2>1. Moves({}, {})
    BY <1>0, <1>5, OtherMoves
  <2>2. eng' = eng /\ conn' = conn /\ SameModem
    BY <1>0, <1>5, ModemFrames
  <2> QED BY <1>0, <2>1, <2>2, ReopensStill DEF SameModem
<1>6. ASSUME NEW on \in BOOLEAN, EngineTurns(on) PROVE Reopens'
  <2>1. Moves({}, {"On", "Off"})
    BY <1>0, <1>6, OtherMoves
  <2>2. eng' = eng /\ conn' = conn /\ modem'.session = modem.session
    BY <1>0, <1>6, ModemFrames
  <2> QED BY <1>0, <2>1, <2>2, ReopensStill
<1>7. ASSUME NEW fix \in Fixes, Fixed(fix) PROVE Reopens'
  <2>1. Moves({}, {"Pos"})
    BY <1>0, <1>7, OtherMoves
  <2>2. eng' = eng /\ conn' = conn /\ modem.session
    BY <1>0, <1>7, ModemFrames
  <2> QED BY <1>0, <2>1, <2>2, ReopensStill
<1>8. CASE UNCHANGED vars
  BY <1>8 DEF vars, Reopens, posted, coming
<1> QED BY <1>1, <1>2, <1>3, <1>4, <1>5, <1>6, <1>7, <1>8 DEF Next, Deliver

-----------------------------------------------------------------------------
(* What the messages of the queue carry *)

\* No message of this kind is added; nor is one of a mode.
NoMore(kind) == \A V : AllOf(queue, kind, V) => AllOf(queue', kind, V)
NoMoreModes  == NoMore("Mode") /\ \A a : LastMode(queue, a) => LastMode(queue', a)
NoneOf(r, K) == \A k \in DOMAIN r : r[k].kind \notin K
Carriers == {"Mode", "Pos"}

\* A deletion that waits goes on waiting.
Keeps == \A t \in AidTypes : Requested(queue, t) => Requested(queue', t)

LEMMA StillRequested ==
  ASSUME NEW q \in Seq(Any), NEW t, Requested(q, t)
  PROVE  /\ q # <<>> /\ (q[1].kind # "DelAid" \/ q[1].arg # t => Requested(Tail(q), t))
         /\ \A r \in Seq(Any) : Requested(q \o r, t)
<1>1. PICK k \in 1..Len(q) : q[k].kind = "DelAid" /\ q[k].arg = t
  BY DEF Requested
<1>2. q # <<>>
  BY <1>1
<1>3. ASSUME q[1].kind # "DelAid" \/ q[1].arg # t PROVE Requested(Tail(q), t)
  <2>1. k # 1 /\ k - 1 \in 1..Len(q) - 1 /\ Len(q) # 0
    BY <1>1, <1>3
  <2>2. DOMAIN Tail(q) = 1..Len(q) - 1 /\ Tail(q)[k - 1] = q[k]
    BY <2>1
  <2> QED BY <1>1, <2>1, <2>2 DEF Requested
<1>4. ASSUME NEW r \in Seq(Any) PROVE Requested(q \o r, t)
  <2>1. k \in 1..Len(q \o r) /\ (q \o r)[k] = q[k]
    BY <1>1
  <2>2. DOMAIN (q \o r) = 1..Len(q \o r)
    OBVIOUS
  <2> QED BY <1>1, <2>1, <2>2 DEF Requested
<1> QED BY <1>2, <1>3, <1>4

\* Messages of other kinds add nothing to what those of a kind carry.
LEMMA AddsNone ==
  ASSUME NEW q \in Seq(Any), NEW r \in Seq(Any), NEW kind, NoneOf(r, {kind})
  PROVE  /\ \A V : AllOf(q, kind, V) => AllOf(q \o r, kind, V)
         /\ kind = "Mode" => \A a : LastMode(q, a) => LastMode(q \o r, a)
<1>1. \A V : AllOf(r, kind, V)
  BY DEF NoneOf, AllOf
<1>2. kind = "Mode" => \A a : LastMode(r, a)
  BY DEF NoneOf, LastMode
<1> QED BY <1>1, <1>2, AllOfJoin, LastModeJoin

\* So do steps that take the first and add messages of other kinds.
LEMMA Adds ==
  ASSUME Types, NEW r \in Seq(Any), NEW K, NoneOf(r, K),
         \/ queue' = queue \o r
         \/ queue # <<>> /\ queue' = Tail(queue) \o r
  PROVE  /\ \A kind \in K : NoMore(kind)
         /\ "Mode" \in K => NoMoreModes
         /\ queue' = queue \o r \/ queue[1].kind # "DelAid" => Keeps
<1>1. queue \in Seq(Any) /\ (queue # <<>> => Tail(queue) \in Seq(Any))
  BY Typed
<1>2. ASSUME NEW kind \in K
      PROVE  NoMore(kind) /\ (kind = "Mode" => \A a : LastMode(queue, a) => LastMode(queue', a))
  <2>1. NoneOf(r, {kind})
    BY <1>2 DEF NoneOf
  <2>2. CASE queue' = queue \o r
    BY <1>1, <2>1, <2>2, AddsNone DEF NoMore
  <2>3. CASE queue # <<>> /\ queue' = Tail(queue) \o r
    <3>1. PICK t \in Seq(Any) : t = Tail(queue) /\ queue' = t \o r
      BY <1>1, <2>3
    <3>2. /\ \A V : AllOf(queue, kind, V) => AllOf(t, kind, V)
          /\ \A a : LastMode(queue, a) => LastMode(t, a)
      BY <1>1, <2>3, <3>1, AllOfTail, LastModeTail
    <3>3. /\ \A V : AllOf(t, kind, V) => AllOf(queue', kind, V)
          /\ kind = "Mode" => \A a : LastMode(t, a) => LastMode(queue', a)
      BY <2>1, <3>1, AddsNone
    <3> QED BY <3>2, <3>3 DEF NoMore
  <2> QED BY <2>2, <2>3
<1>3. ASSUME queue' = queue \o r \/ queue[1].kind # "DelAid", NEW t \in AidTypes, Requested(queue, t)
      PROVE  Requested(queue', t)
  <2>1. CASE queue' = queue \o r
    BY <1>1, <1>3, <2>1, StillRequested
  <2>2. CASE queue # <<>> /\ queue[1].kind # "DelAid" /\ queue' = Tail(queue) \o r
    <3>1. PICK q \in Seq(Any) : q = Tail(queue) /\ queue' = q \o r
      BY <1>1, <2>2
    <3>2. Requested(q, t)
      BY <1>1, <1>3, <2>2, <3>1, StillRequested
    <3> QED BY <3>1, <3>2, StillRequested
  <2> QED BY <1>3, <2>1, <2>2
<1> QED BY <1>2, <1>3 DEF NoMoreModes, Keeps

\* Handlers add no mode, and no fix, and take a deletion only to handle it.
LEMMA HandleCarries ==
  ASSUME Types, Handle
  PROVE  NoMore("Mode") /\ NoMore("Pos") /\ NoMoreModes /\ (~HandleDelAid => Keeps)
<1>1. queue \in Seq(Any)
  BY Typed
<1>0. ~HandleDelAid => queue' = queue \/ queue[1].kind # "DelAid"
  BY DEF Handle, HandleMode, HandleStart, HandleStop, HandlePos, HandleDown, HandleOpened, HandleEngine,
         HandleOpen, HandleMask, HandleStatus, HandleUp, Handles, Head1
<1>2. ASSUME NEW r \in Seq(Any), NoneOf(r, Carriers), queue # <<>>, queue' = Tail(queue) \o r
      PROVE  NoMore("Mode") /\ NoMore("Pos") /\ NoMoreModes /\ (~HandleDelAid => Keeps)
  <2>1. NoMore("Mode") /\ NoMore("Pos") /\ NoMoreModes
    BY <1>2, Adds DEF Carriers
  <2>2. queue[1].kind # "DelAid" => Keeps
    BY <1>2, Adds
  <2>3. queue' = queue => Keeps
    BY DEF Keeps
  <2> QED BY <1>0, <2>1, <2>2, <2>3
<1>3. CASE queue # <<>> /\ queue' = Tail(queue)
  <2>1. <<>> \in Seq(Any) /\ Tail(queue) \o <<>> = Tail(queue) /\ NoneOf(<<>>, Carriers)
    BY <1>1, <1>3 DEF NoneOf
  <2> QED BY <1>2, <1>3, <2>1
<1>4. CASE queue' = queue
  BY <1>4 DEF NoMore, NoMoreModes, Keeps
<1>5. CASE HandleUp /\ eng.navigating
  <2>1. queue # <<>> /\ queue' = Append(Tail(queue), Msg("Again")) /\ Tail(queue) \in Seq(Any)
    BY <1>1, <1>5 DEF HandleUp, Handles
  <2>2. Msg("Again") \in Any
    BY Posted DEF Any, Plain
  <2>3. queue' = Tail(queue) \o <<Msg("Again")>> /\ <<Msg("Again")>> \in Seq(Any)
    BY <2>1, <2>2
  <2>4. NoneOf(<<Msg("Again")>>, Carriers)
    BY DEF NoneOf, Msg, Carriers
  <2> QED BY <1>2, <2>1, <2>3, <2>4
<1>6. CASE HandleEngine
  <2> DEFINE says == IF ~Head1.arg THEN <<"SESSION_END", "ENGINE_OFF">>
                     ELSE IF api.inSession THEN <<"ENGINE_ON", "SESSION_BEGIN">> ELSE <<>>
             r == [k \in DOMAIN says |-> MsgOf("Status", says[k])]
  <2>1. queue # <<>> /\ queue' = Tail(queue) \o r
    BY <1>6 DEF HandleEngine, Handles
  <2>2. says \in Seq(Statuses)
    <3>1. /\ <<"SESSION_END", "ENGINE_OFF">> \in Seq(Statuses) /\ <<>> \in Seq(Statuses)
          /\ <<"ENGINE_ON", "SESSION_BEGIN">> \in Seq(Statuses)
      BY DEF Statuses
    <3> QED BY <3>1
  <2> HIDE DEF says
  <2>3. r \in Seq(Any) /\ \A k \in DOMAIN r : r[k].kind = "Status"
    <3>1. DOMAIN says = 1..Len(says) /\ Len(says) \in Nat /\ \A k \in DOMAIN says : says[k] \in Statuses
      BY <2>2
    <3>2. \A s \in Statuses : MsgOf("Status", s) \in Any
      BY Posted DEF Any
    <3>3. \A k \in DOMAIN r : r[k] = MsgOf("Status", says[k])
      OBVIOUS
    <3> QED BY <3>1, <3>2, <3>3 DEF MsgOf
  <2> HIDE DEF r
  <2>4. NoneOf(r, Carriers)
    BY <2>3 DEF NoneOf, Carriers
  <2> QED BY <1>2, <2>1, <2>3, <2>4
<1>7. \/ queue # <<>> /\ queue' = Tail(queue)
      \/ queue' = queue
      \/ HandleUp /\ eng.navigating
      \/ HandleEngine
  BY DEF Handle, HandleMode, HandleStart, HandleStop, HandleDelAid, HandlePos, HandleDown, HandleOpened,
         HandleOpen, HandleMask, HandleStatus, HandleUp, Handles
<1> QED BY <1>3, <1>4, <1>5, <1>6, <1>7

\* Calls add no fix, and only some a mode; no deletion is taken.
LEMMA CallCarries ==
  ASSUME Types
  PROVE  /\ Call => NoMore("Pos") /\ Keeps
         /\ Stop \/ Cleanup \/ MeasurementInit \/ MeasurementClose => NoMoreModes
         /\ \A t \in AidTypes : DeleteAidingData(t) => NoMoreModes
<1>1. ASSUME NEW r \in Seq(Any), NEW K, NoneOf(r, K), Posting(r)
      PROVE  /\ \A kind \in K : NoMore(kind)
             /\ "Mode" \in K => NoMoreModes
             /\ Keeps
  BY <1>1, Adds DEF Posting
<1>2. queue' = queue => NoMore("Pos") /\ NoMoreModes /\ Keeps
  BY DEF NoMore, NoMoreModes, Keeps
<1>3. ASSUME NEW mode \in Modes, NEW single \in BOOLEAN, Start(mode, single)
      PROVE  NoMore("Pos") /\ Keeps
  <2> DEFINE r == <<MsgOf("Mode", [mode |-> mode, single |-> single]), Msg("Start")>>
  <2>1. r \in Seq(Any)
    BY Posted DEF Any, Criteria, Plain
  <2>2. NoneOf(r, {"Pos"})
    BY DEF NoneOf, MsgOf, Msg
  <2>3. Posting(r)
    BY <1>3 DEF Start
  <2> HIDE DEF r
  <2> QED BY <1>1, <2>1, <2>2, <2>3
<1>4. ASSUME NEW mode \in Modes, SetMode(mode)
      PROVE  NoMore("Pos") /\ Keeps
  <2> DEFINE r == <<MsgOf("Mode", [mode |-> mode, single |-> eng.single])>>
  <2>1. r \in Seq(Any)
    BY Posted DEF Any, Criteria, Types, EngType
  <2>2. NoneOf(r, {"Pos"})
    BY DEF NoneOf, MsgOf
  <2>3. Posting(r)
    BY <1>4 DEF SetMode
  <2> HIDE DEF r
  <2> QED BY <1>1, <2>1, <2>2, <2>3
<1>5. ASSUME NEW t \in AidTypes, DeleteAidingData(t) PROVE NoMore("Pos") /\ NoMoreModes /\ Keeps
  <2> DEFINE r == <<MsgOf("DelAid", t)>>
  <2>1. r \in Seq(Any)
    BY Posted DEF Any
  <2>2. NoneOf(r, {"Pos", "Mode"})
    BY DEF NoneOf, MsgOf
  <2>3. Posting(r)
    BY <1>5 DEF DeleteAidingData
  <2> HIDE DEF r
  <2> QED BY <1>1, <2>1, <2>2, <2>3
<1>6. ASSUME Stop \/ Cleanup \/ MeasurementInit \/ MeasurementClose
      PROVE  NoMore("Pos") /\ NoMoreModes /\ Keeps
  <2>1. PICK m \in {Msg("Stop"), MsgOf("Mask", TRUE), MsgOf("Mask", FALSE)} : queue' = queue \/ Posting(<<m>>)
    BY <1>6 DEF Stop, Cleanup, MeasurementInit, MeasurementClose
  <2>2. m \in Any /\ m.kind \notin Carriers
    <3>1. Msg("Stop") \in Any /\ MsgOf("Mask", TRUE) \in Any /\ MsgOf("Mask", FALSE) \in Any
      BY Posted, PostedMask DEF Any, Plain
    <3>2. /\ Msg("Stop").kind = "Stop" /\ MsgOf("Mask", TRUE).kind = "Mask"
          /\ MsgOf("Mask", FALSE).kind = "Mask"
      BY DEF Msg, MsgOf
    <3> QED BY <2>1, <3>1, <3>2 DEF Carriers
  <2>3. <<m>> \in Seq(Any) /\ NoneOf(<<m>>, Carriers)
    BY <2>2 DEF NoneOf
  <2>4. Posting(<<m>>) => NoMore("Pos") /\ NoMoreModes /\ Keeps
    BY <1>1, <2>3 DEF Carriers
  <2> QED BY <1>2, <2>1, <2>4
<1> QED BY <1>3, <1>4, <1>5, <1>6 DEF Call

\* Callbacks add no mode and take no deletion.
LEMMA DeliverCarries ==
  ASSUME Types
  PROVE  /\ eventCb => NoMoreModes /\ Keeps
         /\ errorCb => NoMoreModes /\ Keeps /\ NoMore("Pos")
<1>1. ASSUME eventCb PROVE NoMoreModes /\ Keeps
  <2>1. queue' = queue \o <<wire[1]>> /\ wire # <<>> /\ wire \in Seq(Indication)
    BY <1>1, Delivering DEF Types
  <2>2. wire[1] \in Any /\ wire[1].kind \notin {"Mode"}
    <3>1. wire[1] \in Indication
      BY <2>1
    <3> QED BY <3>1 DEF Any, Indication, Msg, MsgOf, EngineReport, PositionReport
  <2>3. <<wire[1]>> \in Seq(Any) /\ NoneOf(<<wire[1]>>, {"Mode"})
    BY <2>2 DEF NoneOf
  <2> QED BY <2>1, <2>3, Adds
<1>2. ASSUME errorCb PROVE NoMoreModes /\ Keeps /\ NoMore("Pos")
  <2>1. queue' = queue \o Restart
    BY <1>2 DEF errorCb, Posting
  <2>2. Restart \in Seq(Any) /\ NoneOf(Restart, Carriers)
    BY Posted DEF Any, Restart, NoneOf, Msg, Carriers, Plain
  <2> QED BY <2>1, <2>2, Adds DEF Carriers
<1> QED BY <1>1, <1>2

-----------------------------------------------------------------------------
(* Each step keeps the order: fixes *)

\* u says less than t of the words in S.
Fewer(t, u, S) ==
  /\ \A P \in SUBSET S : Some(u, P) => Some(t, P)
  /\ \A P, R \in SUBSET S : Never(t, P, R) => Never(u, P, R)
Ordered == {"Pos", "Start", "Again", "Up", "On", "Stop", "Error"}

\* The order holds of fewer words.
LEMMA FewerTail == ASSUME NEW t \in Seq(Words), t # <<>>, NEW S PROVE Fewer(t, Tail(t), S)
BY FirstTaken, FirstTakenOrder DEF Fewer

\* And of the same.
LEMMA FewerSame == ASSUME NEW t, NEW u, NEW S, Same(t, u, S) PROVE Fewer(t, u, S)
BY DEF Fewer, Same

\* A step that takes fixes, or is about none, keeps their order.
LEMMA PositionsStill ==
  ASSUME Types, Positions, Fewer(posted, posted', Ordered), Fewer(coming, coming', Ordered),
         NoMore("Mode"), NoMore("Pos"), Passing(wire) => Passing(wire'),
         eng'.single = eng.single, "finished" \in past => "finished" \in past'
  PROVE  Positions'
<1>1. /\ {"Pos"} \in SUBSET Ordered /\ {"Up"} \in SUBSET Ordered /\ {"Error"} \in SUBSET Ordered
      /\ {"On"} \in SUBSET Ordered /\ {"Stop"} \in SUBSET Ordered /\ Begins \in SUBSET Ordered
  BY DEF Ordered, Begins
<1>2. /\ Some(posted', {"Pos"}) => Some(posted, {"Pos"})
      /\ Some(posted', {"Up"}) => Some(posted, {"Up"})
      /\ Some(posted', {"On"}) => Some(posted, {"On"})
      /\ Some(posted', {"Stop"}) => Some(posted, {"Stop"})
      /\ Some(coming', {"Pos"}) => Some(coming, {"Pos"})
      /\ Some(coming', {"On"}) => Some(coming, {"On"})
      /\ Never(posted, {"Pos"}, Begins) => Never(posted', {"Pos"}, Begins)
      /\ Never(posted, {"Up"}, {"Pos"}) => Never(posted', {"Up"}, {"Pos"})
      /\ Never(posted, {"Pos"}, {"On"}) => Never(posted', {"Pos"}, {"On"})
      /\ Never(coming, {"Error"}, {"Pos"}) => Never(coming', {"Error"}, {"Pos"})
      /\ Never(coming, {"Pos"}, {"On"}) => Never(coming', {"Pos"}, {"On"})
  BY <1>1 DEF Fewer
<1>3. Shared(queue) => Shared(queue')
  BY DEF Shared, NoMore
<1>4. Shared(queue) => Shared(queue)'
  BY <1>3 DEF Shared
<1>5. Passing(queue) => Passing(queue)'
  BY DEF Passing, NoMore
<1>6. Passing(wire) => Passing(wire)'
  BY DEF Passing
<1> QED BY <1>2, <1>4, <1>5, <1>6 DEF Positions

\* Without a fix on its way, all that is left to say is about starts and stops.
LEMMA NoFix ==
  ASSUME Types', ~Some(posted', {"Pos"}), ~Some(coming', {"Pos"}),
         Some(posted', {"Stop"}) => ~Some(posted', {"On"}) /\ ~Some(coming', {"On"})
  PROVE  Positions'
<1>1. /\ queue' \in Seq(Any) /\ wire' \in Seq(Any) /\ posted' = Tags(queue') /\ coming' = Tags(wire')
      /\ posted' \in Seq(Words) /\ coming' \in Seq(Words)
  <2>1. queue' \in Seq(Message) /\ wire' \in Seq(Indication)
    BY DEF Types
  <2>2. queue' \in Seq(Any) /\ wire' \in Seq(Any)
    BY <2>1 DEF Any
  <2> QED BY <2>2, TagsOf DEF posted, coming
<1>2. ASSUME NEW q \in Seq(Any), ~Some(Tags(q), {"Pos"}) PROVE \A V : AllOf(q, "Pos", V)
  <2>1. \A k \in DOMAIN q : Tags(q)[k] = Tag(q[k]) /\ q[k] \in Any /\ k \in DOMAIN Tags(q)
    BY TagsOf
  <2>2. \A k \in DOMAIN q : q[k].kind = "Pos" => Tag(q[k]) = "Pos"
    BY <2>1 DEF Tag
  <2> QED BY <1>2, <2>1, <2>2 DEF AllOf, Some
<1>3. Passing(queue)' /\ Passing(wire)'
  BY <1>1, <1>2 DEF Passing
<1>4. /\ Never(posted', {"Pos"}, Begins) /\ Never(posted', {"Up"}, {"Pos"}) /\ Never(coming', {"Error"}, {"Pos"})
      /\ Never(posted', {"Pos"}, {"On"}) /\ Never(coming', {"Pos"}, {"On"})
  BY DEF Never, Some, After
<1> QED BY <1>3, <1>4 DEF Positions

\* Handlers keep the order of fixes.
LEMMA PositionsHandled ==
  ASSUME HeardInv, HeardInv', Positions, Handle
  PROVE  Positions'
<1>0. Types /\ posted \in Seq(Words) /\ coming \in Seq(Words) /\ Types'
  BY Typed DEF HeardInv
<1>1. coming' = coming /\ wire' = wire /\ Fewer(coming, coming', Ordered)
  <2>1. wire' = wire
    BY DEF Handle, HandleMode, HandleStart, HandleStop, HandleDelAid, HandlePos, HandleDown, HandleOpened,
           HandleOpen, HandleMask, HandleStatus, HandleEngine, HandleUp
  <2> QED BY <1>0, <2>1, Still DEF Fewer
<1>2. NoMore("Mode") /\ NoMore("Pos")
  BY <1>0, HandleCarries
<1>3. ASSUME NEW x, Took(x) PROVE Fewer(posted, posted', Ordered)
  BY <1>0, <1>3, FewerTail DEF Took
<1>4. ASSUME NEW W, Moves(W, {}), W \cap Ordered = {} PROVE Fewer(posted, posted', Ordered)
  BY <1>0, <1>4, TouchesSame, FewerSame DEF Moves
<1>5. CASE HandleMode
  <2>1. Fewer(posted, posted', Ordered)
    BY <1>0, <1>3, <1>5, Taking
  <2>2. /\ eng'.single = Head1.arg.single
        /\ eng.navigating => \E o \in StartOutcomes(Head1.arg.mode) : TakeEffect(o)
        /\ ~eng.navigating => UNCHANGED <<api, modem, past>>
    BY <1>0, <1>5, SessionFrames
  <2>3. "finished" \in past => "finished" \in past'
    BY <1>0, <2>2, Starting
  <2>4. CASE Some(posted, {"Pos"}) \/ Some(coming, {"Pos"})
    <3>1. Handles("Mode") /\ queue \in Seq(Any)
      BY <1>0, <1>5, Typed DEF HandleMode
    <3>2. Head1.arg \in {c \in Criteria : c.single = eng.single}
      <4>1. Shared(queue)
        BY <2>4 DEF Positions
      <4>2. queue[1].kind = "Mode" /\ queue # <<>>
        BY <3>1 DEF Handles, Head1
      <4> QED BY <3>1, <4>1, <4>2, AllOfTail DEF Shared, Head1
    <3>3. eng'.single = eng.single
      BY <2>2, <3>2
    <3> QED BY <1>0, <1>1, <1>2, <2>1, <2>3, <3>3, PositionsStill
  <2>5. CASE ~(Some(posted, {"Pos"}) \/ Some(coming, {"Pos"}))
    <3>1. {"Pos"} \in SUBSET Ordered /\ {"Stop"} \in SUBSET Ordered /\ {"On"} \in SUBSET Ordered
      BY DEF Ordered
    <3>2. /\ ~Some(posted', {"Pos"}) /\ ~Some(coming', {"Pos"})
          /\ Some(posted', {"Stop"}) => Some(posted, {"Stop"})
          /\ Some(posted', {"On"}) => Some(posted, {"On"})
      BY <1>1, <2>1, <2>5, <3>1 DEF Fewer
    <3>3. Some(posted', {"Stop"}) => ~Some(posted', {"On"}) /\ ~Some(coming', {"On"})
      BY <1>1, <3>2 DEF Positions
    <3> QED BY <1>0, <3>2, <3>3, NoFix
  <2> QED BY <2>4, <2>5
<1>6. CASE HandleStart \/ HandleStop
  <2>1. Fewer(posted, posted', Ordered)
    BY <1>0, <1>3, <1>6, Taking
  <2>2. /\ eng'.single = eng.single
        /\ \/ \E o \in StartOutcomes(eng.mode) : TakeEffect(o)
           \/ \E o \in StopOutcomes : TakeEffect(o)
           \/ past' = past
    BY <1>0, <1>6, SessionFrames
  <2>3. "finished" \in past => "finished" \in past'
    BY <2>2 DEF TakeEffect
  <2> QED BY <1>0, <1>1, <1>2, <2>1, <2>2, <2>3, PositionsStill
<1>7. CASE HandleEngine
  <2>1. Moves({"On", "Off"} \cup Statuses, {})
    BY <1>0, <1>7, HandlerMoves
  <2>2. Fewer(posted, posted', Ordered)
    <3>1. /\ posted # <<>> /\ Tail(posted) \in Seq(Words)
          /\ \/ posted' = Tail(posted)
             \/ \E x, y \in Statuses : posted' = Tail(posted) \o <<x, y>>
      <4>1. {"SESSION_END", "ENGINE_OFF", "ENGINE_ON", "SESSION_BEGIN"} \subseteq Statuses
        BY DEF Statuses
      <4>2. Head1.arg \in BOOLEAN
        BY <1>0, <1>7, TakingAdding
      <4>3. /\ posted # <<>>
            /\ \/ posted' = Tail(posted)
               \/ posted' = Tail(posted) \o <<"SESSION_END", "ENGINE_OFF">>
               \/ posted' = Tail(posted) \o <<"ENGINE_ON", "SESSION_BEGIN">>
        BY <1>0, <1>7, <4>2, TakingAdding DEF Took, TookAdded
      <4>4. Tail(posted) \in Seq(Words)
        BY <1>0, <4>3
      <4> QED BY <4>1, <4>3, <4>4
    <3>2. CASE posted' = Tail(posted)
      BY <1>0, <3>1, <3>2, FewerTail
    <3>e. ASSUME NEW x \in Statuses, NEW y \in Statuses, posted' = Tail(posted) \o <<x, y>>
          PROVE  Fewer(posted, posted', Ordered)
      <4>1. x \in Words /\ y \in Words /\ x \notin Ordered /\ y \notin Ordered
        BY DEF Words, Ordered, Statuses
      <4>2. PICK r \in Seq(Words) : r = <<x, y>> /\ ~Some(r, Ordered)
        <5>1. <<x, y>> \in Seq(Words)
          BY <4>1, Two, Zenon
        <5>2. Some(<<x, y>>, Ordered) <=> x \in Ordered \/ y \in Ordered
          BY <4>1, Two, Zenon
        <5> QED BY <4>1, <5>1, <5>2
      <4>3. Fewer(posted, Tail(posted), Ordered)
        BY <1>0, <3>1, FewerTail
      <4>4. Fewer(Tail(posted), posted', Ordered)
        BY <3>1, <3>e, <4>2, SameJoin, FewerSame
      <4> QED BY <4>3, <4>4 DEF Fewer
    <3> QED BY <3>1, <3>2, <3>e
  <2>3. eng' = eng /\ past' = past
    BY <1>0, <1>7, ReportFrames
  <2> QED BY <1>0, <1>1, <1>2, <2>2, <2>3, PositionsStill
<1>8. CASE HandleStatus \/ HandleDelAid \/ HandleDown
  <2>1. Fewer(posted, posted', Ordered)
    BY <1>0, <1>3, <1>8, Taking, TakingOthers
  <2>2. SameEng /\ SamePast
    BY <1>0, <1>8, ReportFrames
  <2> QED BY <1>0, <1>1, <1>2, <2>1, <2>2, PositionsStill DEF SameEng, SamePast
<1>9. CASE HandlePos
  <2>1. Fewer(posted, posted', Ordered)
    BY <1>0, <1>3, <1>9, Taking
  <2>2. /\ eng'.single = eng.single
        /\ (\E o \in StopOutcomes : TakeEffect(o)) \/ past' = past
    BY <1>0, <1>9, ReportFrames
  <2>3. "finished" \in past => "finished" \in past'
    BY <2>2 DEF TakeEffect
  <2> QED BY <1>0, <1>1, <1>2, <2>1, <2>2, <2>3, PositionsStill
<1>10. CASE HandleUp
  <2>1. eng'.single = eng.single /\ SamePast
    BY <1>0, <1>10, ReportFrames
  <2>2. CASE ~eng.navigating
    <3>1. Fewer(posted, posted', Ordered)
      BY <1>0, <1>3, <1>10, <2>2, TakingAdding
    <3> QED BY <1>0, <1>1, <1>2, <2>1, <3>1, PositionsStill DEF SamePast
  <2>3. CASE eng.navigating
    <3>1. posted # <<>> /\ posted[1] = "Up" /\ posted' = Tail(posted) \o <<"Again">>
      BY <1>0, <1>10, <2>3, TakingAdding DEF TookAdded
    <3>2. 1 \in DOMAIN posted /\ Tail(posted) \in Seq(Words) /\ "Again" \in Words
      BY <1>0, <3>1 DEF Words, Kept, Plain
    <3>3. ~Some(Tail(posted), {"Pos"}) /\ Some(posted, {"Up"})
      <4>1. Never(posted, {"Up"}, {"Pos"}) => ~Some(Tail(posted), {"Pos"})
        BY <1>0, <3>1, FirstTakenOrder
      <4> QED BY <3>1, <3>2, <4>1 DEF Positions, Some
    <3>4. \A P : Some(posted', P) => Some(posted, P) \/ "Again" \in P
      <4>1. PICK r \in Seq(Words) : r = <<"Again">> /\ \A P : Some(r, P) => "Again" \in P
        BY <3>2, One
      <4>2. \A P : Some(Tail(posted) \o r, P) => Some(Tail(posted), P) \/ Some(r, P)
        BY <3>2, Joined
      <4>3. \A P : Some(Tail(posted), P) => Some(posted, P)
        BY <1>0, <3>1, FirstTaken
      <4> QED BY <3>1, <4>1, <4>2, <4>3
    <3>5. ~Some(posted', {"Pos"})
      <4>1. PICK r \in Seq(Words) : r = <<"Again">> /\ \A P : Some(r, P) => "Again" \in P
        BY <3>2, One
      <4>2. Some(Tail(posted) \o r, {"Pos"}) => Some(Tail(posted), {"Pos"}) \/ Some(r, {"Pos"})
        BY <3>2, Joined
      <4> QED BY <3>1, <3>3, <4>1, <4>2
    <3>6. ~Some(coming', {"Pos"})
      BY <1>1, <3>3 DEF Positions
    <3>7. Some(posted', {"Stop"}) => ~Some(posted', {"On"}) /\ ~Some(coming', {"On"})
      <4>1. (Some(posted', {"Stop"}) => Some(posted, {"Stop"})) /\ (Some(posted', {"On"}) => Some(posted, {"On"}))
        BY <3>4
      <4> QED BY <1>1, <4>1 DEF Positions
    <3> QED BY <1>0, <3>5, <3>6, <3>7, NoFix
  <2> QED BY <2>2, <2>3
<1>11. CASE HandleOpen \/ HandleMask
  <2>1. Moves({}, {}) \/ Moves({"Measure", "Unmeasure"}, {})
    BY <1>0, <1>11, HandlerMoves
  <2>2. Fewer(posted, posted', Ordered)
    <3>1. {} \cap Ordered = {} /\ {"Measure", "Unmeasure"} \cap Ordered = {}
      BY DEF Ordered
    <3> QED BY <1>4, <2>1, <3>1
  <2>3. SameEng /\ SamePast
    BY <1>0, <1>11, ClientFrames
  <2> QED BY <1>0, <1>1, <1>2, <2>2, <2>3, PositionsStill DEF SameEng, SamePast
<1>12. CASE HandleOpened
  <2>1. Fewer(posted, posted', Ordered)
    BY <1>0, <1>3, <1>12, Taking
  <2>2. eng' = eng /\ past' = past
    BY <1>0, <1>12, ClientFrames
  <2> QED BY <1>0, <1>1, <1>2, <2>1, <2>2, PositionsStill
<1> QED BY <1>5, <1>6, <1>7, <1>8, <1>9, <1>10, <1>11, <1>12 DEF Handle

\* Calls keep it: none starts a session while a fix is on its way.
LEMMA PositionsCalled ==
  ASSUME HeardInv, HeardInv', Positions, Allowed = {}, Call
  PROVE  Positions'
<1>0. Types /\ posted \in Seq(Words) /\ coming \in Seq(Words) /\ Types' /\ queue \in Seq(Any) /\ wire \in Seq(Any)
  BY Typed DEF HeardInv
<1>1. coming' = coming /\ wire' = wire /\ Fewer(coming, coming', Ordered)
  BY <1>0, CallFrames, Still DEF Fewer
<1>2. NoMore("Pos") /\ SameEng /\ SamePast
  BY <1>0, CallCarries, CallFrames
<1>3. ASSUME NEW W, Moves(W, {}), W \cap Ordered = {} PROVE Fewer(posted, posted', Ordered)
  BY <1>0, <1>3, TouchesSame, FewerSame DEF Moves
<1>4. /\ {"Pos"} \in SUBSET Ordered /\ {"Stop"} \in SUBSET Ordered /\ {"On"} \in SUBSET Ordered
      /\ {"Up"} \in SUBSET Ordered /\ Begins \in SUBSET Ordered
  BY DEF Ordered, Begins
<1>5. ASSUME NEW mode \in Modes, NEW single \in BOOLEAN, Start(mode, single) PROVE Positions'
  <2>1. "Pos" \notin Kinds(queue) \cup Kinds(wire)
    BY <1>5 DEF Start
  <2>2. ~Some(posted, {"Pos"}) /\ ~Some(coming, {"Pos"})
    BY <1>0, <2>1, Typed DEF Kept
  <2>3. posted' = posted \o <<"Mode", "Start">> /\ "Mode" \in Words /\ "Start" \in Words
    BY <1>0, <1>5, Calling DEF Words, Kept, Plain
  <2>4. PICK r \in Seq(Words) : posted' = posted \o r /\ \A P : Some(r, P) <=> "Mode" \in P \/ "Start" \in P
    <3>1. PICK r : r = <<"Mode", "Start">>
      OBVIOUS
    <3>2. r \in Seq(Words) /\ \A P : Some(r, P) <=> "Mode" \in P \/ "Start" \in P
      BY <2>3, <3>1, Two
    <3> QED BY <2>3, <3>1, <3>2
  <2>5. \A P : Some(posted \o r, P) <=> Some(posted, P) \/ Some(r, P)
    BY <1>0, Joined
  <2>6. /\ ~Some(posted', {"Pos"})
        /\ Some(posted', {"Stop"}) => Some(posted, {"Stop"})
        /\ Some(posted', {"On"}) => Some(posted, {"On"})
    BY <2>2, <2>4, <2>5
  <2>7. Some(posted', {"Stop"}) => ~Some(posted', {"On"}) /\ ~Some(coming', {"On"})
    BY <1>1, <2>6 DEF Positions
  <2> QED BY <1>0, <1>1, <2>2, <2>6, <2>7, NoFix
<1>6. ASSUME NEW mode \in Modes, SetMode(mode) PROVE Positions'
  <2>1. Moves({"Mode"}, {}) /\ {"Mode"} \cap Ordered = {}
    BY <1>0, <1>6, OtherMoves DEF Ordered
  <2>2. Fewer(posted, posted', Ordered)
    BY <1>3, <2>1
  <2>3. /\ Some(posted', {"Pos"}) => Some(posted, {"Pos"})
        /\ Some(posted', {"Up"}) => Some(posted, {"Up"})
        /\ Some(posted', {"On"}) => Some(posted, {"On"})
        /\ Some(posted', {"Stop"}) => Some(posted, {"Stop"})
        /\ Never(posted, {"Pos"}, Begins) => Never(posted', {"Pos"}, Begins)
        /\ Never(posted, {"Up"}, {"Pos"}) => Never(posted', {"Up"}, {"Pos"})
        /\ Never(posted, {"Pos"}, {"On"}) => Never(posted', {"Pos"}, {"On"})
    BY <1>4, <2>2 DEF Fewer
  <2>4. Shared(queue) => Shared(queue)'
    <3>1. SUFFICES ASSUME Shared(queue) PROVE Shared(queue)'
      OBVIOUS
    <3> DEFINE m == MsgOf("Mode", [mode |-> mode, single |-> eng.single])
               V == {c \in Criteria : c.single = eng.single}
    <3>2. [mode |-> mode, single |-> eng.single] \in V /\ m \in Any
      BY <1>0, Posted DEF Any, Criteria, Types, EngType
    <3>3. m.arg \in V
      BY <3>2 DEF MsgOf
    <3>4. queue' = queue \o <<m>>
      BY <1>6 DEF SetMode, Posting
    <3> HIDE DEF m
    <3>5. AllOf(queue, "Mode", V)
      BY <3>1 DEF Shared
    <3> HIDE DEF V
    <3>6. <<m>> \in Seq(Any) /\ AllOf(<<m>>, "Mode", V)
      BY <3>2, <3>3 DEF AllOf
    <3>7. AllOf(queue', "Mode", V)
      BY <1>0, <3>4, <3>5, <3>6, AllOfJoin
    <3>8. eng'.single = eng.single
      BY <1>2 DEF SameEng
    <3> QED BY <3>7, <3>8 DEF Shared, V
  <2>5. Passing(queue) => Passing(queue)'
    BY <1>2 DEF Passing, NoMore
  <2>6. Passing(wire) => Passing(wire)'
    BY <1>1 DEF Passing
  <2>7. eng'.single = eng.single /\ ("finished" \in past <=> "finished" \in past')
    BY <1>2 DEF SameEng, SamePast
  <2> QED BY <1>1, <2>3, <2>4, <2>5, <2>6, <2>7 DEF Positions
<1>7. CASE Stop \/ Cleanup
  <2>1. ~OnIsNews /\ (queue' = queue \/ Posting(<<Msg("Stop")>>))
    BY <1>7 DEF Stop, Cleanup
  <2>2. ~Some(posted, {"On"}) /\ ~Some(coming, {"On"})
    BY <1>0, <2>1, KindsTold DEF OnIsNews, posted, coming
  <2>3. Moves({"Stop"}, {}) /\ NoMoreModes
    BY <1>0, <1>7, OtherMoves, CallCarries
  <2>4. Same(posted, posted', Ordered \ {"Stop"})
    BY <1>0, <2>3, TouchesSame DEF Moves
  <2>5. /\ {"Pos"} \in SUBSET (Ordered \ {"Stop"}) /\ {"On"} \in SUBSET (Ordered \ {"Stop"})
        /\ {"Up"} \in SUBSET (Ordered \ {"Stop"}) /\ Begins \in SUBSET (Ordered \ {"Stop"})
    BY DEF Ordered, Begins
  <2>6. /\ Some(posted', {"Pos"}) => Some(posted, {"Pos"})
        /\ Some(posted', {"Up"}) => Some(posted, {"Up"})
        /\ ~Some(posted', {"On"})
        /\ Never(posted, {"Pos"}, Begins) => Never(posted', {"Pos"}, Begins)
        /\ Never(posted, {"Up"}, {"Pos"}) => Never(posted', {"Up"}, {"Pos"})
        /\ Never(posted, {"Pos"}, {"On"}) => Never(posted', {"Pos"}, {"On"})
    BY <2>2, <2>4, <2>5 DEF Same
  <2>7. Shared(queue) => Shared(queue)'
    BY <1>2, <2>3 DEF Shared, NoMoreModes, NoMore, SameEng
  <2>8. Passing(queue) => Passing(queue)'
    BY <1>2 DEF Passing, NoMore
  <2>9. Passing(wire) => Passing(wire)'
    BY <1>1 DEF Passing
  <2>10. eng'.single = eng.single /\ ("finished" \in past <=> "finished" \in past')
    BY <1>2 DEF SameEng, SamePast
  <2> QED BY <1>1, <2>2, <2>6, <2>7, <2>8, <2>9, <2>10 DEF Positions
<1>8. CASE MeasurementInit \/ MeasurementClose \/ \E t \in AidTypes : DeleteAidingData(t)
  <2>1. NoMoreModes
    BY <1>0, <1>8, CallCarries
  <2>2. PICK W \in {{"DelAid"}, {"Measure"}, {"Unmeasure"}} : Moves(W, {})
    BY <1>0, <1>8, OtherMoves
  <2>3. W \cap Ordered = {}
    BY DEF Ordered
  <2>4. Fewer(posted, posted', Ordered)
    BY <1>3, <2>2, <2>3
  <2> QED BY <1>0, <1>1, <1>2, <2>1, <2>4, PositionsStill DEF SameEng, SamePast, NoMoreModes
<1> QED BY <1>5, <1>6, <1>7, <1>8 DEF Call

\* The first of the reports on their way is posted.
LEMMA PositionsPosted ==
  ASSUME HeardInv, HeardInv', Reopens, Positions, eventCb
  PROVE  Positions'
<1>0. Types /\ posted \in Seq(Words) /\ coming \in Seq(Words) /\ Types' /\ queue \in Seq(Any) /\ wire \in Seq(Any)
  BY Typed DEF HeardInv
<1>1. PICK x \in {"On", "Off", "Pos"} : TookWire(x) /\ posted' = posted \o <<x>>
  BY <1>0, Delivering
<1>2. queue' = queue \o <<wire[1]>> /\ wire' = Tail(wire) /\ wire # <<>>
  BY <1>0, Delivering
<1>3. coming # <<>> /\ coming[1] = x /\ coming' = Tail(coming) /\ 1 \in DOMAIN coming
  BY <1>0, <1>1 DEF TookWire
<1>4. PICK r \in Seq(Words) : /\ posted' = posted \o r /\ \A P : Some(r, P) <=> x \in P
                              /\ \A P, R : Never(r, P, R)
  <2>1. x \in Words
    BY DEF Words, Kept
  <2> QED BY <1>1, <2>1, One
<1>5. \A P : Some(posted', P) <=> Some(posted, P) \/ x \in P
  BY <1>0, <1>4, Joined
<1>6. \A P, R : Never(posted', P, R) <=> Never(posted, P, R) /\ ~(Some(posted, P) /\ x \in R)
  <2>1. \A P, R : Never(posted \o r, P, R) <=> Never(posted, P, R) /\ Never(r, P, R) /\ ~(Some(posted, P) /\ Some(r, R))
    BY <1>0, JoinedOrder
  <2> QED BY <1>4, <2>1
<1>7. \A P : Some(coming, P) <=> x \in P \/ Some(coming', P)
  BY <1>0, <1>3, FirstTaken
<1>8. \A P, R : Never(coming, P, R) <=> (x \in P => ~Some(coming', R)) /\ Never(coming', P, R)
  BY <1>0, <1>3, FirstTakenOrder
<1>9. eng' = eng /\ past' = past /\ NoMoreModes
  BY <1>0, ModemFrames, DeliverCarries DEF Deliver
<1>10. Shared(queue) => Shared(queue)'
  BY <1>9 DEF Shared, NoMoreModes, NoMore
<1>11. Passing(queue) /\ Passing(wire) => Passing(queue)' /\ Passing(wire)'
  <2>1. SUFFICES ASSUME Passing(queue), Passing(wire) PROVE Passing(queue)' /\ Passing(wire)'
    OBVIOUS
  <2>2. AllOf(Tail(wire), "Pos", {"intermediate"}) /\ (wire[1].kind = "Pos" => wire[1].arg \in {"intermediate"})
    BY <1>0, <1>2, <2>1, AllOfTail DEF Passing
  <2>3. <<wire[1]>> \in Seq(Any) /\ AllOf(<<wire[1]>>, "Pos", {"intermediate"})
    BY <1>0, <1>2, <2>2 DEF AllOf
  <2>4. AllOf(queue', "Pos", {"intermediate"})
    BY <1>0, <1>2, <2>1, <2>3, AllOfJoin DEF Passing
  <2> QED BY <1>2, <2>2, <2>4 DEF Passing
<1>12. /\ Never(posted', {"Pos"}, Begins) /\ Never(posted', {"Up"}, {"Pos"})
       /\ Never(coming', {"Error"}, {"Pos"}) /\ Never(posted', {"Pos"}, {"On"})
       /\ Never(coming', {"Pos"}, {"On"})
  <2>1. Never(posted', {"Pos"}, Begins)
    BY <1>6 DEF Positions, Begins
  <2>2. Never(posted', {"Up"}, {"Pos"})
    BY <1>6, <1>7 DEF Positions
  <2>3. Never(coming', {"Error"}, {"Pos"}) /\ Never(coming', {"Pos"}, {"On"})
    BY <1>8 DEF Positions
  <2>4. Never(posted', {"Pos"}, {"On"})
    BY <1>6, <1>7 DEF Positions
  <2> QED BY <2>1, <2>2, <2>3, <2>4
<1>13. /\ Some(posted', {"Up"}) => ~Some(coming', {"Pos"})
       /\ Some(posted', {"Pos"}) \/ Some(coming', {"Pos"}) => Some(posted, {"Pos"}) \/ Some(coming, {"Pos"})
       /\ Some(posted', {"Stop"}) => ~Some(posted', {"On"}) /\ ~Some(coming', {"On"})
  BY <1>5, <1>7 DEF Positions
<1>14. Some(posted', {"Pos"}) => ~Some(coming', {"On"})
  BY <1>5, <1>7, <1>8 DEF Positions
<1> QED BY <1>9, <1>10, <1>11, <1>12, <1>13, <1>14 DEF Positions

\* The modem keeps it: a fix is of the running session.
LEMMA PositionsOther ==
  ASSUME HeardInv, HeardInv', Reopens, Positions, Allowed = {}, Next \/ UNCHANGED vars, ~Handle, ~Call, ~eventCb
  PROVE  Positions'
<1>0. Types /\ posted \in Seq(Words) /\ coming \in Seq(Words) /\ Types' /\ queue \in Seq(Any) /\ wire \in Seq(Any)
  BY Typed DEF HeardInv
<1>4. /\ {"Pos"} \in SUBSET Ordered /\ {"Stop"} \in SUBSET Ordered /\ {"On"} \in SUBSET Ordered
      /\ {"Up"} \in SUBSET Ordered /\ Begins \in SUBSET Ordered
  BY DEF Ordered, Begins
<1>1. CASE errorCb
  <2>1. /\ eng' = eng /\ past' = past /\ NoMoreModes /\ NoMore("Pos")
    BY <1>0, <1>1, ModemFrames, DeliverCarries DEF Deliver
  <2>2. coming # <<>> /\ coming[1] = "Error" /\ coming' = Tail(coming) /\ wire # <<>> /\ wire' = Tail(wire)
    BY <1>0, <1>1, Delivering DEF TookWire, errorCb
  <2>3. PICK r : r = <<"Down", "Open", "Up">> /\ posted' = posted \o r
    BY <1>0, <1>1, Delivering
  <2>4. /\ r \in Seq(Words) /\ ~Some(r, {"Pos"}) /\ ~Some(r, {"On"}) /\ ~Some(r, {"Stop"}) /\ ~Some(r, Begins)
        /\ Never(r, {"Pos"}, Begins) /\ Never(r, {"Up"}, {"Pos"}) /\ Never(r, {"Pos"}, {"On"})
    <3>1. /\ r \in Seq(Words)
          /\ ~Some(r, {"Pos", "Start", "Again", "On", "Stop", "Mode", "Measure", "DelAid", "ENGINE_ON", "Off"})
      BY <2>3, Three
    <3> QED BY <3>1 DEF Some, Never, After, Begins
  <2>5. /\ \A P : Some(posted', P) <=> Some(posted, P) \/ Some(r, P)
        /\ \A P, R : Never(posted', P, R) <=> Never(posted, P, R) /\ Never(r, P, R) /\ ~(Some(posted, P) /\ Some(r, R))
    <3>1. \A P : Some(posted \o r, P) <=> Some(posted, P) \/ Some(r, P)
      BY <1>0, <2>4, Joined
    <3>2. \A P, R : Never(posted \o r, P, R) <=> Never(posted, P, R) /\ Never(r, P, R) /\ ~(Some(posted, P) /\ Some(r, R))
      BY <1>0, <2>4, JoinedOrder
    <3> QED BY <2>3, <3>1, <3>2
  <2>6. /\ \A P : Some(coming, P) <=> "Error" \in P \/ Some(coming', P)
        /\ \A P, R : Never(coming, P, R) <=> ("Error" \in P => ~Some(coming', R)) /\ Never(coming', P, R)
    <3>1. PICK x : x = "Error"
      OBVIOUS
    <3>2. coming \in Seq(Words) /\ coming # <<>> /\ coming[1] = x /\ coming' = Tail(coming)
      BY <1>0, <2>2, <3>1
    <3>3. \A P : Some(coming, P) <=> x \in P \/ Some(coming', P)
      BY <3>2, FirstTaken
    <3>4. \A P, R : Never(coming, P, R) <=> (x \in P => ~Some(coming', R)) /\ Never(coming', P, R)
      BY <3>2, FirstTakenOrder
    <3> QED BY <3>1, <3>3, <3>4
  <2>7. ~Some(coming', {"Pos"})
    BY <2>6 DEF Positions
  <2>8. /\ Never(posted', {"Pos"}, Begins) /\ Never(posted', {"Up"}, {"Pos"}) /\ Never(posted', {"Pos"}, {"On"})
        /\ Never(coming', {"Error"}, {"Pos"}) /\ Never(coming', {"Pos"}, {"On"})
    BY <2>4, <2>5, <2>6 DEF Positions
  <2>9. Shared(queue) => Shared(queue)'
    BY <2>1 DEF Shared, NoMoreModes, NoMore
  <2>10. Passing(queue) => Passing(queue)'
    BY <2>1 DEF Passing, NoMore
  <2>11. Passing(wire) => Passing(wire)'
    BY <1>0, <2>2, AllOfTail DEF Passing
  <2>12. /\ Some(posted', {"Pos"}) => Some(posted, {"Pos"})
         /\ Some(posted', {"On"}) => Some(posted, {"On"})
         /\ Some(posted', {"Stop"}) => Some(posted, {"Stop"})
         /\ Some(coming', {"On"}) => Some(coming, {"On"})
    BY <2>4, <2>5, <2>6
  <2> QED BY <2>1, <2>7, <2>8, <2>9, <2>10, <2>11, <2>12 DEF Positions
<1>2. CASE Crash
  <2>1. eng' = eng /\ queue' = queue /\ past' = past \cup {"crashed"} /\ posted' = posted
    BY <1>0, <1>2, ModemFrames, Still
  <2>2. coming' = coming \o <<"Error">> /\ wire' = Append(wire, Msg("Error"))
    BY <1>0, <1>2, Sending DEF Crash
  <2>3. PICK r \in Seq(Words) : /\ coming' = coming \o r /\ \A P : Some(r, P) <=> "Error" \in P
                                /\ \A P, R : Never(r, P, R)
    <3>1. "Error" \in Words
      BY DEF Words, Kept
    <3> QED BY <2>2, <3>1, One
  <2>4. /\ \A P : Some(coming', P) <=> Some(coming, P) \/ "Error" \in P
        /\ \A P, R : Never(coming', P, R) <=> Never(coming, P, R) /\ ~(Some(coming, P) /\ "Error" \in R)
    <3>1. /\ \A P : Some(coming \o r, P) <=> Some(coming, P) \/ Some(r, P)
          /\ \A P, R : Never(coming \o r, P, R) <=> Never(coming, P, R) /\ Never(r, P, R) /\ ~(Some(coming, P) /\ Some(r, R))
      BY <1>0, Joined, JoinedOrder
    <3> QED BY <2>3, <3>1
  <2>5. Never(coming', {"Error"}, {"Pos"}) /\ Never(coming', {"Pos"}, {"On"})
    BY <2>4 DEF Positions
  <2>6. (Some(coming', {"Pos"}) => Some(coming, {"Pos"})) /\ (Some(coming', {"On"}) => Some(coming, {"On"}))
    BY <2>4
  <2>7. Passing(wire) => Passing(wire)'
    <3>1. Msg("Error") \in Any /\ Msg("Error").kind = "Error"
      BY Posted DEF Any, Msg
    <3>2. <<Msg("Error")>> \in Seq(Any) /\ AllOf(<<Msg("Error")>>, "Pos", {"intermediate"})
      BY <3>1 DEF AllOf
    <3>3. wire' = wire \o <<Msg("Error")>>
      BY <1>0, <2>2, <3>1
    <3> QED BY <1>0, <3>2, <3>3, AllOfJoin DEF Passing
  <2>8. Shared(queue) => Shared(queue)'
    BY <2>1 DEF Shared
  <2>9. Passing(queue) => Passing(queue)'
    BY <2>1 DEF Passing
  <2> QED BY <2>1, <2>5, <2>6, <2>7, <2>8, <2>9 DEF Positions
<1>3. ASSUME Return \/ UNCHANGED vars PROVE Positions'
  <2>1. UNCHANGED <<queue, wire, eng, past>>
    BY <1>3 DEF Return, vars
  <2> QED BY <2>1 DEF Positions, posted, coming, Shared, Passing
<1>5. ASSUME NEW on \in BOOLEAN, EngineTurns(on) PROVE Positions'
  <2>1. eng' = eng /\ queue' = queue /\ past' = past /\ posted' = posted
    BY <1>0, <1>5, ModemFrames, Still
  <2>2. CASE coming' = coming /\ wire' = wire
    BY <2>1, <2>2 DEF Positions, Shared, Passing
  <2>3. CASE ~(coming' = coming /\ wire' = wire)
    <3>1. wire' = Append(wire, EngineReport(on)) /\ modem.mask = "full"
      BY <1>0, <1>5, <2>3, Still DEF EngineTurns, Sent
    <3>2. PICK x \in {"On", "Off"} : coming' = coming \o <<x>> /\ x = IF on THEN "On" ELSE "Off"
      BY <1>0, <1>5, <3>1, Sending
    <3>3. PICK r \in Seq(Words) : /\ coming' = coming \o r /\ \A P : Some(r, P) <=> x \in P
                                  /\ \A P, R : Never(r, P, R)
      <4>1. x \in Words
        BY DEF Words
      <4> QED BY <3>2, <4>1, One
    <3>4. /\ \A P : Some(coming', P) <=> Some(coming, P) \/ x \in P
          /\ \A P, R : Never(coming', P, R) <=> Never(coming, P, R) /\ ~(Some(coming, P) /\ x \in R)
      <4>1. /\ \A P : Some(coming \o r, P) <=> Some(coming, P) \/ Some(r, P)
            /\ \A P, R : Never(coming \o r, P, R) <=> Never(coming, P, R) /\ Never(r, P, R) /\ ~(Some(coming, P) /\ Some(r, R))
        BY <1>0, Joined, JoinedOrder
      <4> QED BY <3>3, <4>1
    <3>5. CASE x = "On"
      <4>1. {"Stop", "Pos"} \cap (Kinds(queue) \cup Kinds(wire)) = {}
        BY <1>5, <3>2, <3>5 DEF EngineTurns
      <4>2. ~Some(posted, {"Pos"}) /\ ~Some(coming, {"Pos"}) /\ ~Some(posted, {"Stop"})
        BY <1>0, <4>1, Typed DEF Kept, Plain
      <4> QED BY <1>0, <2>1, <3>4, <3>5, <4>2, NoFix
    <3>6. CASE x = "Off"
      <4>1. Passing(wire) => Passing(wire)'
        <5>1. EngineReport(on) \in Any /\ EngineReport(on).kind = "Engine"
          BY Posted DEF Any, EngineReport, MsgOf
        <5>2. <<EngineReport(on)>> \in Seq(Any) /\ AllOf(<<EngineReport(on)>>, "Pos", {"intermediate"})
          BY <5>1 DEF AllOf
        <5>3. wire' = wire \o <<EngineReport(on)>>
          BY <1>0, <3>1, <5>1
        <5> QED BY <1>0, <5>2, <5>3, AllOfJoin DEF Passing
      <4>2. /\ Never(coming', {"Error"}, {"Pos"}) /\ Never(coming', {"Pos"}, {"On"})
            /\ Some(coming', {"Pos"}) => Some(coming, {"Pos"})
            /\ Some(coming', {"On"}) => Some(coming, {"On"})
        BY <3>4, <3>6 DEF Positions
      <4>3. (Shared(queue) => Shared(queue)') /\ (Passing(queue) => Passing(queue)')
        BY <2>1 DEF Shared, Passing
      <4> QED BY <2>1, <4>1, <4>2, <4>3 DEF Positions
    <3> QED BY <3>5, <3>6
  <2> QED BY <2>2, <2>3
<1>6. ASSUME NEW fix \in Fixes, Fixed(fix) PROVE Positions'
  <2>1. /\ eng' = eng /\ queue' = queue /\ posted' = posted /\ modem.session
        /\ fix # "intermediate" /\ eng.single => "finished" \in past'
        /\ past \subseteq past'
    BY <1>0, <1>6, ModemFrames, Still
  <2>2. CASE coming' = coming /\ wire' = wire
    BY <2>1, <2>2 DEF Positions, Shared, Passing
  <2>3. CASE ~(coming' = coming /\ wire' = wire)
    <3>1. wire' = Append(wire, PositionReport(fix)) /\ "Mode" \notin Kinds(queue)
      BY <1>0, <1>6, <2>3, Still DEF Fixed, Sent
    <3>2. conn = "open" /\ ~Some(coming, {"Error"}) /\ ~Some(posted, {"Up"})
      BY <2>1 DEF HeardInv, OpenedFirst, Reopens
    <3>3. PositionReport(fix) \in Any /\ Tag(PositionReport(fix)) = "Pos" /\ PositionReport(fix).arg = fix
      BY Posted, WordsOf DEF Any, PositionReport, MsgOf
    <3>4. <<PositionReport(fix)>> \in Seq(Any) /\ wire' = wire \o <<PositionReport(fix)>>
      BY <1>0, <3>1, <3>3
    <3>5. PICK r \in Seq(Words) : /\ coming' = coming \o r /\ \A P : Some(r, P) <=> "Pos" \in P
                                  /\ \A P, R : Never(r, P, R)
      <4>1. "Pos" \in Words
        BY DEF Words, Kept
      <4>2. coming' = coming \o <<"Pos">>
        BY <1>0, <3>3, <3>4, TagsJoin, TagsOne DEF coming
      <4> QED BY <4>1, <4>2, One
    <3>6. /\ \A P : Some(coming', P) <=> Some(coming, P) \/ "Pos" \in P
          /\ \A P, R : Never(coming', P, R) <=> Never(coming, P, R) /\ ~(Some(coming, P) /\ "Pos" \in R)
      <4>1. /\ \A P : Some(coming \o r, P) <=> Some(coming, P) \/ Some(r, P)
            /\ \A P, R : Never(coming \o r, P, R) <=> Never(coming, P, R) /\ Never(r, P, R) /\ ~(Some(coming, P) /\ Some(r, R))
        BY <1>0, Joined, JoinedOrder
      <4> QED BY <3>5, <4>1
    <3>7. /\ Never(coming', {"Error"}, {"Pos"}) /\ Never(coming', {"Pos"}, {"On"})
          /\ Some(coming', {"On"}) => Some(coming, {"On"})
      BY <3>2, <3>6 DEF Positions
    <3>8. Shared(queue)'
      <4>1. \A k \in DOMAIN queue : queue[k].kind # "Mode"
        BY <3>1 DEF Kinds
      <4> QED BY <2>1, <4>1 DEF Shared, AllOf
    <3>9. eng.single /\ "finished" \notin past' => fix = "intermediate"
      BY <2>1
    <3>10. Passing(wire) /\ fix = "intermediate" => Passing(wire)'
      <4>1. fix = "intermediate" => AllOf(<<PositionReport(fix)>>, "Pos", {"intermediate"})
        BY <3>3 DEF AllOf
      <4> QED BY <1>0, <3>4, <4>1, AllOfJoin DEF Passing
    <3>11. Passing(queue) => Passing(queue)'
      BY <2>1 DEF Passing
    <3> QED BY <2>1, <3>2, <3>7, <3>8, <3>9, <3>10, <3>11 DEF Positions
  <2> QED BY <2>2, <2>3
<1> QED BY <1>1, <1>2, <1>3, <1>5, <1>6 DEF Next, Deliver

-----------------------------------------------------------------------------
(* Each step keeps the order: sessions that are wanted *)

\* Taking the first word keeps restarts apart from later stops.
LEMMA SettledTail ==
  ASSUME NEW t \in Seq(Words), t # <<>>, NEW n \in BOOLEAN, NEW m \in BOOLEAN, SettledBy(t, n),
         m => (n /\ t[1] # "Stop") \/ t[1] \in Begins
  PROVE  SettledBy(Tail(t), m)
<1> SUFFICES ASSUME NEW k \in DOMAIN Tail(t), Tail(t)[k] = "Up", LiveBy(Tail(t), m, k)
             PROVE  After(Tail(t), {"Stop"}, k)
  BY DEF SettledBy
<1>1. PICK j \in DOMAIN t : j = k + 1 /\ t[j] = "Up" /\ k \in Nat \ {0}
  OBVIOUS
<1>2. /\ Before(t, {"Stop"}, k + 1) <=> t[1] \notin {"Stop"} /\ Before(Tail(t), {"Stop"}, k)
      /\ After(t, {"Stop"}, k + 1) <=> After(Tail(t), {"Stop"}, k)
  BY <1>1, FirstTaken
<1>3. Begun(t, k + 1) <=> (t[1] \in Begins /\ Before(Tail(t), {"Stop"}, k)) \/ Begun(Tail(t), k)
  BY <1>1, FirstTakenBegun
<1>4. LiveBy(t, n, j)
  BY <1>1, <1>2, <1>3 DEF LiveBy
<1> QED BY <1>1, <1>2, <1>4 DEF SettledBy

\* So does adding words, if no stop is added behind a restart of a live session.
LEMMA SettledAdd ==
  ASSUME NEW t \in Seq(Words), NEW r \in Seq(Words), NEW n \in BOOLEAN, SettledBy(t, n),
         \A k \in DOMAIN r : r[k] = "Up" => After(r, {"Stop"}, k),
         Some(r, {"Stop"}) => \A k \in DOMAIN t : t[k] = "Up" => ~LiveBy(t, n, k)
  PROVE  SettledBy(t \o r, n)
<1> DEFINE u == t \o r
<1>1. /\ Len(t) \in Nat /\ DOMAIN t = 1..Len(t) /\ Len(r) \in Nat /\ DOMAIN r = 1..Len(r)
      /\ DOMAIN u = 1..Len(t) + Len(r)
      /\ \A k \in 1..Len(t) : u[k] = t[k]
      /\ \A k \in 1..Len(r) : u[Len(t) + k] = r[k]
  OBVIOUS
<1>2. /\ \A k \in 1..Len(t) + 1 : Before(u, {"Stop"}, k) <=> Before(t, {"Stop"}, k)
      /\ \A k \in DOMAIN t : After(u, {"Stop"}, k) <=> After(t, {"Stop"}, k) /\ ~Some(r, {"Stop"})
      /\ \A k \in DOMAIN r : After(u, {"Stop"}, Len(t) + k) <=> After(r, {"Stop"}, k)
  BY Joined
<1>3. \A k \in 1..Len(t) + 1 : Begun(u, k) <=> Begun(t, k)
  BY JoinedBegun
<1> HIDE DEF u
<1>4. ASSUME NEW k \in DOMAIN u, u[k] = "Up", LiveBy(u, n, k) PROVE After(u, {"Stop"}, k)
  <2>1. CASE k \in DOMAIN t
    <3>1. t[k] = "Up" /\ k \in 1..Len(t) + 1
      BY <1>1, <1>4, <2>1
    <3>2. LiveBy(t, n, k)
      BY <1>2, <1>3, <1>4, <3>1 DEF LiveBy
    <3> QED BY <1>2, <2>1, <3>1, <3>2 DEF SettledBy
  <2>2. CASE k \notin DOMAIN t
    <3>1. PICK j \in DOMAIN r : k = Len(t) + j
      <4>1. k - Len(t) \in DOMAIN r /\ k = Len(t) + (k - Len(t))
        BY <1>1, <2>2
      <4> QED BY <4>1
    <3>2. r[j] = "Up"
      BY <1>1, <1>4, <3>1
    <3> QED BY <1>2, <3>1, <3>2
  <2> QED BY <2>1, <2>2
<1> QED BY <1>4 DEF SettledBy, u

\* So do other words that come and go.
LEMMA SettledTouch ==
  ASSUME NEW t \in Seq(Words), NEW u, NEW W \in SUBSET Words, Touch(t, u, W), NEW n \in BOOLEAN,
         W \cap {"Up", "Stop", "Start", "Again"} = {}, SettledBy(t, n)
  PROVE  SettledBy(u, n) /\ u \in Seq(Words)
<1>1. CASE u = t
  BY <1>1
<1>2. CASE t # <<>> /\ t[1] \in W /\ u = Tail(t)
  BY <1>2, SettledTail
<1>3. ASSUME NEW r \in Seq(W), u = t \o r PROVE SettledBy(u, n) /\ u \in Seq(Words)
  <2>1. r \in Seq(Words) /\ \A k \in DOMAIN r : r[k] \in W
    OBVIOUS
  <2>2. ~Some(r, {"Stop"}) /\ \A k \in DOMAIN r : r[k] # "Up"
    BY <2>1 DEF Some
  <2> QED BY <1>3, <2>1, <2>2, SettledAdd
<1> QED BY <1>1, <1>2, <1>3 DEF Touch

\* What is wanted is told by starts and stops alone.
LEMMA WantedSame ==
  ASSUME NEW t, NEW u, NEW n \in BOOLEAN, Same(t, u, {"Stop", "Start", "Again"})
  PROVE  (WantedBy(u, n) <=> WantedBy(t, n)) /\ (Some(u, {"Stop"}) <=> Some(t, {"Stop"}))
<1>1. {"Stop"} \in SUBSET {"Stop", "Start", "Again"} /\ Begins \in SUBSET {"Stop", "Start", "Again"}
  BY DEF Begins
<1> QED BY <1>1 DEF WantedBy, Same

\* A step that is about neither keeps the wish.
LEMMA WishStill ==
  ASSUME Types, Wish, NEW W, NEW V, Moves(W, V), W \cap {"Up", "Stop", "Start", "Again"} = {},
         want' = want, eng'.navigating = eng.navigating, api.inSession => api'.inSession,
         eng.navigating \/ ("refused" \in past => "refused" \in past')
  PROVE  Wish'
<1>1. eng.navigating \in BOOLEAN /\ posted \in Seq(Words)
  BY Typed DEF Types, EngType
<1>2. Same(posted, posted', {"Stop", "Start", "Again"})
  <2>1. W \cap {"Stop", "Start", "Again"} = {}
    OBVIOUS
  <2> QED BY <2>1, TouchesSame DEF Moves
<1>3. (Wanted' <=> Wanted) /\ (Some(posted', {"Stop"}) <=> Some(posted, {"Stop"}))
  BY <1>1, <1>2, WantedSame DEF Wanted
<1>4. Settled'
  <2>1. PICK u \in Seq(Words) : Touch(posted, u, W) /\ Touch(u, posted', W)
    BY DEF Moves, Touches
  <2>2. SettledBy(posted, eng.navigating)
    BY DEF Wish, Settled
  <2>3. SettledBy(u, eng.navigating)
    BY <1>1, <2>1, <2>2, SettledTouch DEF Moves
  <2>4. SettledBy(posted', eng.navigating)
    BY <1>1, <2>1, <2>3, SettledTouch DEF Moves
  <2> QED BY <2>4 DEF Settled
<1>5. want' => Wanted' \/ ("refused" \in past' /\ api'.inSession /\ ~Some(posted', {"Stop"}))
  BY <1>3 DEF Wish, Wanted, WantedBy
<1> QED BY <1>3, <1>4, <1>5 DEF Wish

\* Handlers keep it.
LEMMA WishHandled ==
  ASSUME HeardInv, HeardInv', OrderInv, Handle
  PROVE  Wish'
<1>0. Types /\ posted \in Seq(Words) /\ coming \in Seq(Words) /\ Types' /\ Wish /\ Positions
      /\ eng.navigating \in BOOLEAN /\ eng'.navigating \in BOOLEAN
  BY Typed DEF HeardInv, OrderInv, Types, EngType
\* The head is taken.
<1>1. ASSUME posted # <<>>, posted' = Tail(posted)
      PROVE  /\ Some(posted, {"Stop"}) <=> posted[1] = "Stop" \/ Some(posted', {"Stop"})
             /\ Covered(posted, Begins, {"Stop"}) <=>
                  (posted[1] \in Begins => Some(posted', {"Stop"})) /\ Covered(posted', Begins, {"Stop"})
             /\ (eng'.navigating => (eng.navigating /\ posted[1] # "Stop") \/ posted[1] \in Begins) => Settled'
  <2>1. Some(posted, {"Stop"}) <=> posted[1] = "Stop" \/ Some(posted', {"Stop"})
    BY <1>0, <1>1, FirstTaken
  <2>2. Covered(posted, Begins, {"Stop"}) <=>
          (posted[1] \in Begins => Some(posted', {"Stop"})) /\ Covered(posted', Begins, {"Stop"})
    BY <1>0, <1>1, FirstTakenOrder
  <2>3. ASSUME eng'.navigating => (eng.navigating /\ posted[1] # "Stop") \/ posted[1] \in Begins PROVE Settled'
    <3>1. SettledBy(posted, eng.navigating)
      BY <1>0 DEF Wish, Settled
    <3>2. SettledBy(posted', eng'.navigating)
      BY <1>0, <1>1, <2>3, <3>1, SettledTail
    <3> QED BY <3>2 DEF Settled
  <2> QED BY <2>1, <2>2, <2>3
<1>2. CASE HandleMode
  <2>1. Moves({"Mode"}, {})
    BY <1>0, <1>2, HandlerMoves
  <2>2. /\ SameWish /\ eng'.navigating = eng.navigating
        /\ eng.navigating => \E o \in StartOutcomes(Head1.arg.mode) : TakeEffect(o)
        /\ ~eng.navigating => UNCHANGED <<api, modem, past>>
    BY <1>0, <1>2, SessionFrames
  <2>3. eng.navigating => api'.inSession
    BY <1>0, <2>2, Starting
  <2>4. {"Mode"} \cap {"Up", "Stop", "Start", "Again"} = {}
    OBVIOUS
  <2> QED BY <1>0, <2>1, <2>2, <2>3, <2>4, WishStill DEF SameWish
<1>3. CASE HandleStart
  <2>1. posted # <<>> /\ posted' = Tail(posted) /\ posted[1] \in Begins
    BY <1>0, <1>3, Taking DEF Took, Begins
  <2>2. /\ want' = want
        /\ eng.navigating => UNCHANGED <<eng, api, modem, past>>
        /\ ~eng.navigating => \E o \in StartOutcomes(eng.mode) : TakeEffect(o) /\ eng'.navigating = o.accepted
    BY <1>0, <1>3, SessionFrames DEF SameWish
  <2>3. /\ Some(posted, {"Stop"}) <=> Some(posted', {"Stop"})
        /\ Covered(posted, Begins, {"Stop"}) <=> Some(posted', {"Stop"}) /\ Covered(posted', Begins, {"Stop"})
        /\ Settled'
    BY <1>1, <2>1 DEF Begins
  <2>4. CASE eng.navigating
    BY <1>0, <2>2, <2>3, <2>4 DEF Wish, Wanted, WantedBy
  <2>5. CASE ~eng.navigating
    <3>1. PICK o \in StartOutcomes(eng.mode) : TakeEffect(o) /\ eng'.navigating = o.accepted
      BY <2>2, <2>5
    <3>2. /\ api'.inSession
          /\ eng'.navigating \/ "refused" \in past'
      BY <1>0, <3>1, Starting
    <3> QED BY <1>0, <2>2, <2>3, <2>5, <3>2 DEF Wish, Wanted, WantedBy
  <2> QED BY <2>4, <2>5
<1>4. CASE HandleStop
  <2>1. posted # <<>> /\ posted' = Tail(posted) /\ posted[1] = "Stop"
    BY <1>0, <1>4, Taking DEF Took
  <2>2. /\ want' = want /\ ~eng'.navigating
    BY <1>0, <1>4, SessionFrames DEF SameWish
  <2>3. /\ Some(posted, {"Stop"})
        /\ Covered(posted, Begins, {"Stop"}) <=> Covered(posted', Begins, {"Stop"})
        /\ Settled'
    BY <1>1, <2>1, <2>2 DEF Begins
  <2> QED BY <1>0, <2>2, <2>3 DEF Wish, Wanted, WantedBy
<1>5. CASE HandleEngine
  <2>1. Moves({"On", "Off"} \cup Statuses, {})
    BY <1>0, <1>5, HandlerMoves
  <2>2. ({"On", "Off"} \cup Statuses) \cap {"Up", "Stop", "Start", "Again"} = {}
    BY DEF Statuses
  <2>3. want' = want /\ eng' = eng /\ past' = past /\ api'.inSession = api.inSession
    BY <1>0, <1>5, ReportFrames DEF SameWish
  <2> QED BY <1>0, <2>1, <2>2, <2>3, WishStill
<1>6. CASE HandleStatus \/ HandleDelAid \/ HandleDown
  <2>1. PICK W \in {Statuses, {"DelAid"}, {"Down"}} : Moves(W, {})
    BY <1>0, <1>6, HandlerMoves
  <2>2. W \cap {"Up", "Stop", "Start", "Again"} = {}
    BY DEF Statuses
  <2>3. want' = want /\ SameEng /\ api' = api /\ SamePast
    BY <1>0, <1>6, ReportFrames DEF SameWish
  <2> QED BY <1>0, <2>1, <2>2, <2>3, WishStill DEF SameEng, SamePast
<1>7. CASE HandlePos
  <2>1. posted # <<>> /\ posted' = Tail(posted) /\ posted[1] = "Pos"
    BY <1>0, <1>7, Taking DEF Took
  <2>2. CASE want' = want /\ UNCHANGED <<eng, api, modem, past>>
    <3>1. Moves({"Pos"}, {}) /\ {"Pos"} \cap {"Up", "Stop", "Start", "Again"} = {}
      BY <1>0, <1>7, HandlerMoves
    <3> QED BY <1>0, <2>2, <3>1, WishStill
  <2>3. CASE ~eng'.navigating /\ want' = (want /\ "Start" \in Kinds(Tail(queue)))
    <3>1. ~Some(posted', Begins)
      <4>1. Never(posted, {"Pos"}, Begins)
        BY <1>0 DEF Positions
      <4>2. Never(posted, {"Pos"}, Begins) => (posted[1] \in {"Pos"} => ~Some(Tail(posted), Begins))
        BY <1>0, <2>1, FirstTakenOrder
      <4> QED BY <2>1, <4>1, <4>2
    <3>2. "Start" \notin Kinds(Tail(queue))
      <4>1. queue' = Tail(queue)
        BY <1>7 DEF HandlePos
      <4>2. queue' \in Seq(Any) /\ "Start" \in Kept /\ posted' = Tags(queue')
        <5>1. queue' \in Seq(Message)
          BY <1>0 DEF Types
        <5> QED BY <5>1 DEF Any, Kept, Plain, posted
      <4>3. "Start" \in Kinds(queue') <=> Some(posted', {"Start"})
        BY <4>2, KindsTold
      <4> QED BY <3>1, <4>1, <4>3 DEF Some, Begins
    <3>3. Covered(posted', Begins, {"Stop"})
      BY <3>1 DEF Covered, Some
    <3>4. Settled'
      BY <1>1, <2>1, <2>3
    <3> QED BY <2>3, <3>2, <3>3, <3>4 DEF Wish, Wanted, WantedBy
  <2> QED BY <1>0, <1>7, <2>2, <2>3, ReportFrames
<1>8. CASE HandleUp
  <2>1. want' = want /\ api' = api /\ ~eng'.navigating /\ SamePast
    BY <1>0, <1>8, ReportFrames DEF SameWish
  <2>2. CASE ~eng.navigating
    <3>1. posted # <<>> /\ posted' = Tail(posted) /\ posted[1] = "Up"
      BY <1>0, <1>8, <2>2, TakingAdding DEF Took
    <3>2. /\ Some(posted, {"Stop"}) <=> Some(posted', {"Stop"})
          /\ Covered(posted, Begins, {"Stop"}) <=> Covered(posted', Begins, {"Stop"})
          /\ Settled'
      BY <1>1, <2>1, <3>1 DEF Begins
    <3> QED BY <1>0, <2>1, <2>2, <3>2 DEF Wish, Wanted, WantedBy, SamePast
  <2>3. CASE eng.navigating
    <3>1. posted # <<>> /\ posted[1] = "Up" /\ posted' = Tail(posted) \o <<"Again">>
      BY <1>0, <1>8, <2>3, TakingAdding DEF TookAdded
    <3>2. 1 \in DOMAIN posted /\ Tail(posted) \in Seq(Words) /\ "Again" \in Words
      BY <1>0, <3>1 DEF Words, Kept, Plain
    <3>3. PICK r \in Seq(Words) : r = <<"Again">> /\ DOMAIN r = {1} /\ r[1] = "Again" /\ ~Some(r, {"Stop"})
      BY <3>2, One
    <3>4. Some(r, Begins)
      BY <3>3 DEF Some, Begins
    <3>5. ~Covered(posted', Begins, {"Stop"})
      <4>1. ~Covered(r, Begins, {"Stop"})
        BY <3>3 DEF Covered, After, Begins
      <4>2. Covered(Tail(posted) \o r, Begins, {"Stop"}) => Covered(r, Begins, {"Stop"})
        BY <3>2, JoinedOrder
      <4> QED BY <3>1, <3>3, <4>1, <4>2
    <3>6. Wanted
      <4>1. LiveBy(posted, eng.navigating, 1)
        <5>1. Before(posted, {"Stop"}, 1)
          BY <1>0, <3>1, FirstTaken
        <5> QED BY <2>3, <5>1 DEF LiveBy
      <4>2. After(posted, {"Stop"}, 1)
        BY <1>0, <3>1, <3>2, <4>1 DEF Wish, Settled, SettledBy
      <4>3. ~Some(Tail(posted), {"Stop"})
        BY <1>0, <3>1, <4>2, FirstTaken
      <4>4. ~Some(posted, {"Stop"})
        BY <1>0, <3>1, <4>3, FirstTaken
      <4> QED BY <2>3, <4>4 DEF Wanted, WantedBy
    <3>7. Settled'
      <4>1. SettledBy(posted, eng.navigating)
        BY <1>0 DEF Wish, Settled
      <4>2. SettledBy(Tail(posted), eng'.navigating)
        BY <1>0, <2>1, <3>1, <4>1, SettledTail
      <4>3. SettledBy(Tail(posted) \o r, eng'.navigating)
        BY <1>0, <3>2, <3>3, <4>2, SettledAdd
      <4> QED BY <3>1, <3>3, <4>3 DEF Settled
    <3> QED BY <1>0, <2>1, <3>5, <3>6, <3>7 DEF Wish, Wanted, WantedBy
  <2> QED BY <2>2, <2>3
<1>9. CASE HandleOpen \/ HandleMask
  <2>1. PICK W \in {{}, {"Measure", "Unmeasure"}} : Moves(W, {})
    BY <1>0, <1>9, HandlerMoves
  <2>2. W \cap {"Up", "Stop", "Start", "Again"} = {}
    OBVIOUS
  <2>3. want' = want /\ SameEng /\ api'.inSession = api.inSession /\ SamePast
    BY <1>0, <1>9, ClientFrames DEF SameWish, SameClient
  <2> QED BY <1>0, <2>1, <2>2, <2>3, WishStill DEF SameEng, SamePast
<1>10. CASE HandleOpened
  <2>1. Moves({"Open"}, {}) /\ {"Open"} \cap {"Up", "Stop", "Start", "Again"} = {}
    BY <1>0, <1>10, HandlerMoves
  <2>2. want' = want /\ UNCHANGED <<eng, api, past>>
    BY <1>0, <1>10, ClientFrames DEF SameWish
  <2> QED BY <1>0, <2>1, <2>2, WishStill
<1> QED BY <1>2, <1>3, <1>4, <1>5, <1>6, <1>7, <1>8, <1>9, <1>10 DEF Handle

\* Calls make it, and all else keeps it.
LEMMA WishOther ==
  ASSUME HeardInv, OrderInv, Allowed = {}, Next \/ UNCHANGED vars, ~Handle
  PROVE  Wish'
<1>0. Types /\ posted \in Seq(Words) /\ coming \in Seq(Words) /\ Wish /\ eng.navigating \in BOOLEAN
  BY Typed DEF HeardInv, OrderInv, Types, EngType
<1>1. Call => SameEng /\ SamePast /\ api' = api
  BY <1>0, CallFrames
\* Messages are added.
<1>2. ASSUME NEW r \in Seq(Words), posted' = posted \o r, eng'.navigating = eng.navigating,
             \A k \in DOMAIN r : r[k] = "Up" => After(r, {"Stop"}, k),
             Some(r, {"Stop"}) => \A k \in DOMAIN posted : posted[k] = "Up" => ~LiveBy(posted, eng.navigating, k)
      PROVE  /\ Some(posted', {"Stop"}) <=> Some(posted, {"Stop"}) \/ Some(r, {"Stop"})
             /\ Covered(posted', Begins, {"Stop"}) <=>
                  Covered(r, Begins, {"Stop"}) /\ (Some(r, {"Stop"}) \/ Covered(posted, Begins, {"Stop"}))
             /\ Settled'
  <2>1. Some(posted', {"Stop"}) <=> Some(posted, {"Stop"}) \/ Some(r, {"Stop"})
    BY <1>0, <1>2, Joined
  <2>2. Covered(posted', Begins, {"Stop"}) <=>
          Covered(r, Begins, {"Stop"}) /\ (Some(r, {"Stop"}) \/ Covered(posted, Begins, {"Stop"}))
    BY <1>0, <1>2, JoinedOrder
  <2>3. SettledBy(posted, eng.navigating)
    BY <1>0 DEF Wish, Settled
  <2>4. SettledBy(posted', eng.navigating)
    BY <1>0, <1>2, <2>3, SettledAdd
  <2> QED BY <1>2, <2>1, <2>2, <2>4 DEF Settled
<1>3. ASSUME NEW mode \in Modes, NEW single \in BOOLEAN, Start(mode, single) PROVE Wish'
  <2>1. posted' = posted \o <<"Mode", "Start">> /\ want' = TRUE
    BY <1>0, <1>3, Calling, CallsFrames
  <2>2. SameEng /\ SamePast /\ api' = api
    BY <1>1, <1>3 DEF Call
  <2>3. PICK r : r = <<"Mode", "Start">>
    OBVIOUS
  <2>4. /\ r \in Seq(Words) /\ ~Some(r, {"Stop"}) /\ ~Covered(r, Begins, {"Stop"})
        /\ DOMAIN r = {1, 2} /\ r[1] # "Up" /\ r[2] # "Up"
    <3>1. "Mode" \in Words /\ "Start" \in Words
      BY DEF Words, Kept, Plain
    <3>2. /\ r \in Seq(Words) /\ DOMAIN r = {1, 2} /\ r[1] = "Mode" /\ r[2] = "Start"
      BY <2>3, <3>1
    <3>3. ~Some(r, {"Stop"})
      BY <3>2 DEF Some
    <3>4. ~Covered(r, Begins, {"Stop"})
      BY <3>2 DEF Covered, Begins, After
    <3> QED BY <3>2, <3>3, <3>4
  <2>5. Settled' /\ ~Covered(posted', Begins, {"Stop"})
    BY <1>2, <2>1, <2>2, <2>3, <2>4 DEF SameEng
  <2> QED BY <1>0, <2>1, <2>2, <2>5 DEF Wish, Wanted, WantedBy, SameEng
<1>4. ASSUME NEW mode \in Modes, SetMode(mode) PROVE Wish'
  <2>1. Moves({"Mode"}, {}) /\ {"Mode"} \cap {"Up", "Stop", "Start", "Again"} = {} /\ want' = want
    BY <1>0, <1>4, OtherMoves, CallsFrames
  <2>2. SameEng /\ SamePast /\ api' = api
    BY <1>1, <1>4 DEF Call
  <2> QED BY <1>0, <2>1, <2>2, WishStill DEF SameEng, SamePast
<1>5. ASSUME NEW W \in {{"DelAid"}, {"Measure"}, {"Unmeasure"}}, Moves(W, {}), SameWish, Call PROVE Wish'
  <2>1. W \cap {"Up", "Stop", "Start", "Again"} = {}
    OBVIOUS
  <2> QED BY <1>0, <1>1, <1>5, <2>1, WishStill DEF SameEng, SamePast, SameWish
<1>6. CASE MeasurementInit \/ MeasurementClose \/ \E t \in AidTypes : DeleteAidingData(t)
  BY <1>0, <1>5, <1>6, OtherMoves, CallsFrames DEF Call
<1>7. CASE Stop \/ Cleanup
  <2>1. want' = FALSE /\ past' = past /\ SameEng /\ api' = api
    BY <1>0, <1>1, <1>7, CallsFrames DEF Call
  <2>2. CASE Posting(<<Msg("Stop")>>)
    <3>1. posted' = posted \o <<"Stop">> /\ "Stop" \in Words
      BY <1>0, <2>2, Calling DEF Words, Kept, Plain
    <3>2. PICK r \in Seq(Words) : r = <<"Stop">> /\ Some(r, {"Stop"}) /\ Covered(r, Begins, {"Stop"})
                                  /\ DOMAIN r = {1} /\ r[1] = "Stop"
      <4>1. Covered(<<"Stop">>, Begins, {"Stop"}) <=> "Stop" \notin Begins
        BY <3>1, One
      <4>2. Covered(<<"Stop">>, Begins, {"Stop"})
        BY <4>1 DEF Begins
      <4>3. /\ <<"Stop">> \in Seq(Words) /\ DOMAIN <<"Stop">> = {1} /\ <<"Stop">>[1] = "Stop"
            /\ Some(<<"Stop">>, {"Stop"})
        BY <3>1, One
      <4> QED BY <4>2, <4>3
    <3>3. ASSUME NEW k \in DOMAIN posted, posted[k] = "Up" PROVE ~LiveBy(posted, eng.navigating, k)
      <4>1. "Up" \notin Kinds(queue) => ~Some(posted, {"Up"})
        BY <1>0, Typed DEF Kept, Plain
      <4>2. "Up" \in Kinds(queue)
        BY <3>3, <4>1 DEF Some
      <4>3. ~want
        BY <1>7, <4>2 DEF Stop, Cleanup, Restarting
      <4>4. ~Wanted
        BY <1>0, <4>3 DEF Wish
      <4> SUFFICES ASSUME LiveBy(posted, eng.navigating, k) PROVE FALSE
        OBVIOUS
      <4>5. After(posted, {"Stop"}, k)
        BY <1>0, <3>3 DEF Wish, Settled, SettledBy
      <4>6. DOMAIN posted = 1..Len(posted) /\ Len(posted) \in Nat
        BY <1>0
      <4>7. CASE eng.navigating /\ Before(posted, {"Stop"}, k)
        <5>1. ~Some(posted, {"Stop"})
          BY <3>3, <4>5, <4>6, <4>7 DEF Some, Before, After
        <5> QED BY <4>4, <4>7, <5>1 DEF Wanted, WantedBy
      <4>8. CASE Begun(posted, k)
        <5>1. PICK i \in DOMAIN posted : /\ i < k /\ posted[i] \in Begins
                                         /\ \A l \in DOMAIN posted : i < l /\ l < k => posted[l] # "Stop"
          BY <4>8 DEF Begun
        <5>2. After(posted, {"Stop"}, i)
          BY <3>3, <4>5, <4>6, <5>1 DEF After
        <5> QED BY <4>4, <5>1, <5>2 DEF Wanted, WantedBy, Covered
      <4> QED BY <4>7, <4>8 DEF LiveBy
    <3>4. Some(posted', {"Stop"}) /\ Covered(posted', Begins, {"Stop"}) /\ Settled'
      <4>1. eng'.navigating = eng.navigating
        BY <2>1 DEF SameEng
      <4>2. \A k \in DOMAIN r : r[k] = "Up" => After(r, {"Stop"}, k)
        BY <3>2
      <4> QED BY <1>2, <3>1, <3>2, <3>3, <4>1, <4>2
    <3> QED BY <1>0, <2>1, <3>4 DEF Wish, Wanted, WantedBy, SameEng
  <2>3. CASE ~Posting(<<Msg("Stop")>>)
    <3>1. Cleanup /\ ~eng.navigating /\ queue' = queue /\ ~want
      BY <1>7, <2>3 DEF Stop, Cleanup
    <3>2. posted' = posted
      BY <1>0, <3>1, Still
    <3> QED BY <1>0, <2>1, <3>1, <3>2 DEF Wish, Wanted, WantedBy, Settled, SettledBy, SameEng
  <2> QED BY <2>2, <2>3
<1>8. CASE eventCb
  <2>1. Moves({"On", "Off", "Pos"}, {"On", "Off", "Pos"})
        /\ {"On", "Off", "Pos"} \cap {"Up", "Stop", "Start", "Again"} = {}
    BY <1>0, <1>8, OtherMoves
  <2>2. UNCHANGED <<want, eng, api, past>>
    BY <1>0, <1>8, ModemFrames DEF Deliver
  <2> QED BY <1>0, <2>1, <2>2, WishStill
<1>9. CASE errorCb
  <2>1. UNCHANGED <<want, eng, api, past>>
    BY <1>0, <1>9, ModemFrames DEF Deliver
  <2>2. PICK r : r = <<"Down", "Open", "Up">> /\ posted' = posted \o r
    BY <1>0, <1>9, Delivering
  <2>3. r \in Seq(Words) /\ ~Some(r, {"Stop"}) /\ ~Some(r, Begins)
    <3>1. /\ r \in Seq(Words)
          /\ ~Some(r, {"Pos", "Start", "Again", "On", "Stop", "Mode", "Measure", "DelAid", "ENGINE_ON", "Off"})
      BY <2>2, Three
    <3> QED BY <3>1 DEF Some, Begins
  <2>4. \A k \in DOMAIN r : After(r, {"Stop"}, k)
    BY <2>3 DEF Some, After
  <2>5. Covered(r, Begins, {"Stop"})
    BY <2>3 DEF Some, Covered
  <2>6. /\ Some(posted', {"Stop"}) <=> Some(posted, {"Stop"})
        /\ Covered(posted', Begins, {"Stop"}) <=> Covered(posted, Begins, {"Stop"})
        /\ Settled'
    BY <1>2, <2>1, <2>2, <2>3, <2>4, <2>5
  <2> QED BY <1>0, <2>1, <2>6 DEF Wish, Wanted, WantedBy
<1>10. CASE Crash \/ Return
  <2>1. posted' = posted /\ UNCHANGED <<want, eng, api>> /\ ("refused" \in past => "refused" \in past')
    BY <1>0, <1>10, ModemFrames, Still
  <2> QED BY <1>0, <2>1 DEF Wish, Wanted, WantedBy, Settled, SettledBy
<1>11. ASSUME NEW on \in BOOLEAN, EngineTurns(on) PROVE Wish'
  <2>1. posted' = posted /\ UNCHANGED <<want, eng, api, past>>
    BY <1>0, <1>11, ModemFrames, Still
  <2> QED BY <1>0, <2>1 DEF Wish, Wanted, WantedBy, Settled, SettledBy
<1>12. ASSUME NEW fix \in Fixes, Fixed(fix) PROVE Wish'
  <2>1. posted' = posted /\ UNCHANGED <<want, eng, api>> /\ past \subseteq past'
    BY <1>0, <1>12, ModemFrames, Still
  <2> QED BY <1>0, <2>1 DEF Wish, Wanted, WantedBy, Settled, SettledBy
<1>13. CASE UNCHANGED vars
  BY <1>0, <1>13 DEF Wish, Wanted, WantedBy, Settled, SettledBy, vars, posted
<1> QED BY <1>3, <1>4, <1>6, <1>7, <1>8, <1>9, <1>10, <1>11, <1>12, <1>13 DEF Next, Deliver, Call

-----------------------------------------------------------------------------
(* Each step keeps the order: sessions that run *)

\* A step that leaves session, engine and client alone keeps the session.
LEMMA RunsStill ==
  ASSUME Types, Runs, NEW W, NEW V, Moves(W, V), "Up" \notin W, conn' = conn,
         eng'.navigating = eng.navigating, modem'.session = modem.session,
         \A w \in {"refused", "finished"} : w \in past => w \in past'
  PROVE  Runs'
<1>1. W \cap {"Up"} = {}
  OBVIOUS
<1>2. Some(posted', {"Up"}) <=> Some(posted, {"Up"})
  BY <1>1, TouchesSame DEF Moves, Same
<1> QED BY <1>2 DEF Runs

\* Handlers keep it: they start and stop both.
LEMMA RunsHandled ==
  ASSUME HeardInv, OrderInv, Handle
  PROVE  Runs'
<1>0. Types /\ posted \in Seq(Words) /\ Runs /\ OpenedFirst /\ eng.navigating \in BOOLEAN /\ modem.session \in BOOLEAN
      /\ Positions /\ Reopens
  BY Typed DEF HeardInv, OrderInv, Types, EngType, ModemType
<1>5. HeardInv' => eng'.navigating \in BOOLEAN /\ modem'.session \in BOOLEAN
  BY DEF HeardInv, Types, EngType, ModemType
<1>14. HeardInv'
  BY NextInv DEF Next
<1>1. ASSUME NEW mode, NEW o \in StartOutcomes(mode), TakeEffect(o), conn' = conn,
             (eng'.navigating = eng.navigating /\ eng.navigating) \/ eng'.navigating = o.accepted
      PROVE  Runs'
  <2>1. CASE conn # "open"
    BY <1>1, <2>1 DEF Runs
  <2>2. CASE conn = "open"
    <3>1. \/ "refused" \notin past' /\ o.accepted /\ modem'.session
          \/ "refused" \in past'
      BY <1>0, <1>1, <2>2, Starting
    <3>2. CASE "refused" \in past'
      BY <3>2 DEF Runs
    <3>3. CASE o.accepted /\ modem'.session
      <4>1. modem'.session = TRUE
        BY <1>5, <1>14, <3>3
      <4>2. eng'.navigating = TRUE
        BY <1>0, <1>1, <1>5, <1>14, <3>3, StartEffect
      <4> QED BY <4>1, <4>2 DEF Runs
    <3> QED BY <3>1, <3>2, <3>3
  <2> QED BY <2>1, <2>2
<1>2. ASSUME NEW o \in StopOutcomes, TakeEffect(o), ~eng'.navigating, eng'.navigating \in BOOLEAN, modem'.session \in BOOLEAN
      PROVE  Runs'
  <2>1. modem'.session => "refused" \in past'
    BY <1>0, <1>2, Stopping DEF OpenedFirst
  <2> QED BY <1>2, <2>1 DEF Runs
<1>3. CASE HandleMode
  <2>1. Moves({"Mode"}, {})
    BY <1>0, <1>3, HandlerMoves
  <2>2. /\ conn' = conn /\ eng'.navigating = eng.navigating
        /\ eng.navigating => \E o \in StartOutcomes(Head1.arg.mode) : TakeEffect(o)
        /\ ~eng.navigating => UNCHANGED <<api, modem, past>>
    BY <1>0, <1>3, SessionFrames
  <2> QED BY <1>0, <1>1, <2>1, <2>2, RunsStill
<1>4. CASE HandleStart
  <2>1. Moves({"Start", "Again"}, {})
    BY <1>0, <1>4, HandlerMoves
  <2>2. /\ conn' = conn
        /\ eng.navigating => UNCHANGED <<eng, api, modem, past>>
        /\ ~eng.navigating => \E o \in StartOutcomes(eng.mode) : TakeEffect(o) /\ eng'.navigating = o.accepted
    BY <1>0, <1>4, SessionFrames
  <2> QED BY <1>0, <1>1, <2>1, <2>2, RunsStill
<1>6. CASE HandleStop
  <2>1. Moves({"Stop"}, {})
    BY <1>0, <1>6, HandlerMoves
  <2>2. /\ conn' = conn
        /\ ~eng.navigating => UNCHANGED <<eng, api, modem, past>>
        /\ eng.navigating => ~eng'.navigating /\ \E o \in StopOutcomes : TakeEffect(o)
    BY <1>0, <1>6, SessionFrames
  <2> QED BY <1>0, <1>2, <1>5, <1>14, <2>1, <2>2, RunsStill
<1>7. CASE HandleEngine
  <2>1. Moves({"On", "Off"} \cup Statuses, {}) /\ "Up" \notin {"On", "Off"} \cup Statuses
    BY <1>0, <1>7, HandlerMoves DEF Statuses
  <2>2. conn' = conn /\ eng' = eng /\ past' = past /\ SameModem
    BY <1>0, <1>7, ReportFrames
  <2> QED BY <1>0, <2>1, <2>2, RunsStill DEF SameModem
<1>8. CASE HandleStatus \/ HandleDelAid \/ HandleDown
  <2>1. PICK W \in {Statuses, {"DelAid"}, {"Down"}} : Moves(W, {})
    BY <1>0, <1>8, HandlerMoves
  <2>2. "Up" \notin W
    BY DEF Statuses
  <2>3. conn' = conn /\ SameEng /\ modem' = modem /\ SamePast
    BY <1>0, <1>8, ReportFrames
  <2> QED BY <1>0, <2>1, <2>2, <2>3, RunsStill DEF SameEng, SamePast
<1>9. CASE HandlePos
  <2>1. Moves({"Pos"}, {})
    BY <1>0, <1>9, HandlerMoves
  <2>2. conn' = conn
    BY <1>0, <1>9, ReportFrames
  <2>3. CASE UNCHANGED <<eng, api, modem, past>>
    BY <1>0, <2>1, <2>2, <2>3, RunsStill
  <2>4. CASE /\ eng.single /\ ~eng'.navigating
             /\ IF Head1.arg = "intermediate" THEN \E o \in StopOutcomes : TakeEffect(o)
                                              ELSE UNCHANGED <<api, modem, past>>
    <3>1. CASE Head1.arg = "intermediate"
      BY <1>2, <1>5, <1>14, <2>4, <3>1
    <3>2. CASE Head1.arg # "intermediate"
      <4>1. queue \in Seq(Any) /\ queue # <<>> /\ queue[1].kind = "Pos"
        BY <1>0, <1>9, Typed DEF HandlePos, Handles, Head1
      <4>2. ~Passing(queue)
        BY <3>2, <4>1, AllOfTail DEF Passing, Head1
      <4>3. "finished" \in past
        BY <1>0, <2>4, <4>2 DEF Positions
      <4> QED BY <2>4, <3>2, <4>3 DEF Runs
    <3> QED BY <3>1, <3>2
  <2> QED BY <1>0, <1>9, <2>3, <2>4, ReportFrames
<1>10. CASE HandleUp
  <2>1. modem' = modem /\ ~eng'.navigating
    BY <1>0, <1>10, ReportFrames
  <2>2. posted # <<>> /\ posted[1] = "Up"
    BY <1>0, <1>10, TakingAdding DEF Took, TookAdded
  <2>3. Some(posted, {"Up"})
    <3>1. 1 \in DOMAIN posted
      BY <1>0, <2>2
    <3> QED BY <2>2, <3>1 DEF Some
  <2>4. ~modem.session
    BY <1>0, <2>3 DEF Reopens
  <2> QED BY <1>5, <1>14, <2>1, <2>4 DEF Runs
<1>11. CASE HandleOpen
  <2>1. conn' = "deaf"
    BY <1>0, <1>11, ClientFrames
  <2> QED BY <2>1 DEF Runs
<1>12. CASE HandleOpened
  <2>1. /\ UNCHANGED <<eng, modem>> /\ conn # "open"
    BY <1>0, <1>12, ClientFrames
  <2>2. posted # <<>> /\ posted[1] = "Open" /\ posted' = Tail(posted)
    BY <1>0, <1>12, Taking DEF Took
  <2>3. ~modem.session
    BY <1>0, <2>1 DEF OpenedFirst
  <2>4. eng.navigating => Some(posted', {"Up"})
    BY <1>0, <2>2, PairedTail DEF Reopens
  <2> QED BY <1>0, <2>1, <2>3, <2>4 DEF Runs
<1>13. CASE HandleMask
  <2>1. Moves({"Measure", "Unmeasure"}, {})
    BY <1>0, <1>13, HandlerMoves
  <2>2. SameEng /\ SameModem /\ SameClient /\ SamePast
    BY <1>0, <1>13, ClientFrames
  <2> QED BY <1>0, <2>1, <2>2, RunsStill DEF SameEng, SameModem, SameClient, SamePast
<1> QED BY <1>3, <1>4, <1>6, <1>7, <1>8, <1>9, <1>10, <1>11, <1>12, <1>13 DEF Handle

\* All other steps keep it: a modem that crashes leaves no open client.
LEMMA RunsOther ==
  ASSUME HeardInv, OrderInv, Next \/ UNCHANGED vars, ~Handle
  PROVE  Runs'
<1>0. Types /\ posted \in Seq(Words) /\ coming \in Seq(Words) /\ Runs /\ Reopens
      /\ eng.navigating \in BOOLEAN /\ modem.session \in BOOLEAN
  BY Typed DEF HeardInv, OrderInv, Types, EngType, ModemType
<1>1. CASE Call
  <2>1. PICK W \in {{"Mode", "Start"}, {"Mode"}, {"Stop"}, {"DelAid"}, {"Measure"}, {"Unmeasure"}} : Moves(W, {})
    BY <1>0, <1>1, OtherMoves DEF Call
  <2>2. SameEng /\ conn' = conn /\ modem' = modem /\ SamePast
    BY <1>0, <1>1, CallFrames
  <2> QED BY <1>0, <2>1, <2>2, RunsStill DEF SameEng, SamePast
<1>2. CASE eventCb
  <2>1. Moves({"On", "Off", "Pos"}, {"On", "Off", "Pos"})
    BY <1>0, <1>2, OtherMoves
  <2>2. eng' = eng /\ conn' = conn /\ modem' = modem /\ past' = past
    BY <1>0, <1>2, ModemFrames DEF Deliver
  <2> QED BY <1>0, <2>1, <2>2, RunsStill
<1>3. CASE errorCb
  <2>1. conn' = conn
    BY <1>0, <1>3, ModemFrames DEF Deliver
  <2>2. coming # <<>> /\ coming[1] = "Error"
    BY <1>0, <1>3, Delivering DEF TookWire
  <2>3. Some(coming, {"Error"})
    <3>1. 1 \in DOMAIN coming
      BY <1>0, <2>2
    <3> QED BY <2>2, <3>1 DEF Some
  <2> QED BY <1>0, <2>1, <2>3 DEF Reopens, Runs
<1>4. CASE Crash
  <2>1. conn' \in {"dead", "lost"}
    BY <1>4 DEF Crash
  <2> QED BY <2>1 DEF Runs
<1>5. CASE Return
  <2>1. Moves({}, {})
    BY <1>0, <1>5, OtherMoves
  <2>2. eng' = eng /\ conn' = conn /\ SameModem /\ past' = past
    BY <1>0, <1>5, ModemFrames
  <2> QED BY <1>0, <2>1, <2>2, RunsStill DEF SameModem
<1>6. ASSUME NEW on \in BOOLEAN, EngineTurns(on) PROVE Runs'
  <2>1. Moves({}, {"On", "Off"})
    BY <1>0, <1>6, OtherMoves
  <2>2. eng' = eng /\ conn' = conn /\ modem'.session = modem.session /\ past' = past
    BY <1>0, <1>6, ModemFrames
  <2> QED BY <1>0, <2>1, <2>2, RunsStill
<1>7. ASSUME NEW fix \in Fixes, Fixed(fix) PROVE Runs'
  <2>1. Moves({}, {"Pos"})
    BY <1>0, <1>7, OtherMoves
  <2>2. eng' = eng /\ conn' = conn /\ past \subseteq past' /\ (modem'.session \/ "finished" \in past') /\ modem.session
    BY <1>0, <1>7, ModemFrames
  <2>3. CASE modem'.session = modem.session
    BY <1>0, <2>1, <2>2, <2>3, RunsStill
  <2>4. CASE modem'.session # modem.session
    <3>1. modem'.session \in BOOLEAN
      <4>1. HeardInv'
        BY <1>7, NextInv DEF Next
      <4> QED BY <4>1 DEF HeardInv, Types, ModemType
    <3> QED BY <1>0, <2>2, <2>4, <3>1 DEF Runs
  <2> QED BY <2>3, <2>4
<1>8. CASE UNCHANGED vars
  BY <1>0, <1>8 DEF vars, Runs, posted
<1> QED BY <1>1, <1>2, <1>3, <1>4, <1>5, <1>6, <1>7, <1>8 DEF Next, Deliver

-----------------------------------------------------------------------------
(* Each step keeps the order: modes *)

\* A step that is about no mode and no session keeps the mode.
LEMMA ModeStill ==
  ASSUME Types, Mode, NEW W, NEW V, Moves(W, V), W \cap {"Stop", "Mode"} = {}, NoMoreModes,
         want' => want, asked' = asked, eng'.mode = eng.mode, eng'.navigating => eng.navigating,
         modem'.session => modem.session, modem'.mode = modem.mode,
         \A w \in {"refused", "restarted"} : w \in past => w \in past'
  PROVE  Mode'
<1>1. /\ Some(posted', {"Mode"}) <=> Some(posted, {"Mode"})
      /\ Covered(posted', {"Stop"}, {"Mode"}) <=> Covered(posted, {"Stop"}, {"Mode"})
  <2>1. {"Stop"} \in SUBSET {"Stop", "Mode"} /\ {"Mode"} \in SUBSET {"Stop", "Mode"}
    OBVIOUS
  <2>2. Same(posted, posted', {"Stop", "Mode"})
    BY TouchesSame DEF Moves
  <2> QED BY <2>1, <2>2 DEF Same
<1>2. LastMode(queue, asked) => LastMode(queue', asked')
  BY DEF NoMoreModes
<1> QED BY <1>1, <1>2 DEF Mode

\* Handlers keep it.
LEMMA ModeHandled ==
  ASSUME HeardInv, OrderInv, Handle
  PROVE  Mode'
<1>0. Types /\ posted \in Seq(Words) /\ queue \in Seq(Any) /\ Mode /\ OpenedFirst /\ NoMoreModes /\ Positions
  BY Typed, HandleCarries DEF HeardInv, OrderInv
<1>1. LastMode(queue, asked) => \A a : a = asked => LastMode(queue', a)
  BY <1>0 DEF NoMoreModes
<1>2. ASSUME posted # <<>>, posted' = Tail(posted)
      PROVE  /\ Some(posted, {"Mode"}) <=> posted[1] = "Mode" \/ Some(posted', {"Mode"})
             /\ Covered(posted, {"Stop"}, {"Mode"}) <=>
                  (posted[1] = "Stop" => Some(posted', {"Mode"})) /\ Covered(posted', {"Stop"}, {"Mode"})
  <2>1. Some(posted, {"Mode"}) <=> posted[1] = "Mode" \/ Some(posted', {"Mode"})
    BY <1>0, <1>2, FirstTaken
  <2>2. Covered(posted, {"Stop"}, {"Mode"}) <=>
          (posted[1] = "Stop" => Some(posted', {"Mode"})) /\ Covered(posted', {"Stop"}, {"Mode"})
    BY <1>0, <1>2, FirstTakenOrder
  <2> QED BY <2>1, <2>2
<1>3. CASE HandleMode
  <2>1. posted # <<>> /\ posted' = Tail(posted) /\ posted[1] = "Mode"
    BY <1>0, <1>3, Taking DEF Took
  <2>2. /\ SameWish /\ conn' = conn
        /\ eng'.navigating = eng.navigating /\ eng'.mode = Head1.arg.mode
        /\ eng.navigating => \E o \in StartOutcomes(Head1.arg.mode) : TakeEffect(o)
        /\ ~eng.navigating => UNCHANGED <<api, modem, past>>
    BY <1>0, <1>3, SessionFrames
  <2>3. Covered(posted, {"Stop"}, {"Mode"}) => Covered(posted', {"Stop"}, {"Mode"})
    BY <1>2, <2>1
  <2>4. ~Some(posted', {"Mode"}) => eng'.mode = asked
    <3>1. queue # <<>> /\ queue[1].kind = "Mode" /\ queue' = Tail(queue) /\ Head1 = queue[1]
      BY <1>3 DEF HandleMode, Handles, Head1
    <3>2. Head1.arg.mode = asked \/ "Mode" \in Kinds(queue')
      BY <1>0, <3>1, LastModeTail DEF Mode
    <3>3. "Mode" \in Kinds(queue') => Some(posted', {"Mode"})
      <4>1. queue' \in Seq(Any) /\ posted' = Tags(queue') /\ "Mode" \in Kept
        BY <1>0, <3>1 DEF posted, Kept
      <4> QED BY <4>1, KindsTold
    <3> QED BY <2>2, <3>2, <3>3
  <2>5. eng'.navigating /\ modem'.session /\ "refused" \notin past' => modem'.mode = Use(eng'.mode)
    BY <1>0, <2>2, Starting DEF OpenedFirst
  <2>6. LastMode(queue', asked') /\ want' = want /\ asked' = asked
    BY <1>0, <1>1, <2>2 DEF Mode, SameWish
  <2> QED BY <1>0, <2>3, <2>4, <2>5, <2>6 DEF Mode
<1>4. CASE HandleStart
  <2>1. Moves({"Start", "Again"}, {}) /\ {"Start", "Again"} \cap {"Stop", "Mode"} = {}
    BY <1>0, <1>4, HandlerMoves
  <2>2. /\ SameWish /\ conn' = conn /\ eng'.mode = eng.mode
        /\ eng.navigating => UNCHANGED <<eng, api, modem, past>>
        /\ ~eng.navigating => \E o \in StartOutcomes(eng.mode) : TakeEffect(o) /\ eng'.navigating = o.accepted
    BY <1>0, <1>4, SessionFrames
  <2>3. CASE eng.navigating
    BY <1>0, <2>1, <2>2, <2>3, ModeStill DEF SameWish
  <2>4. CASE ~eng.navigating
    <3>1. eng'.navigating /\ modem'.session /\ "refused" \notin past' => modem'.mode = Use(eng'.mode)
      BY <1>0, <2>2, <2>4, Starting DEF OpenedFirst
    <3>2. "restarted" \in past' <=> "restarted" \in past
      BY <1>0, <2>2, <2>4, Starting
    <3>3. /\ Some(posted', {"Mode"}) <=> Some(posted, {"Mode"})
          /\ Covered(posted', {"Stop"}, {"Mode"}) <=> Covered(posted, {"Stop"}, {"Mode"})
      <4>1. {"Stop"} \in SUBSET {"Stop", "Mode"} /\ {"Mode"} \in SUBSET {"Stop", "Mode"}
        OBVIOUS
      <4>2. Same(posted, posted', {"Stop", "Mode"})
        BY <1>0, <2>1, TouchesSame DEF Moves
      <4> QED BY <4>1, <4>2 DEF Same
    <3>4. LastMode(queue', asked') /\ want' = want /\ asked' = asked
      BY <1>0, <1>1, <2>2 DEF Mode, SameWish
    <3> QED BY <1>0, <2>2, <3>1, <3>2, <3>3, <3>4 DEF Mode
  <2> QED BY <2>3, <2>4
<1>5. CASE HandleStop
  <2>1. posted # <<>> /\ posted' = Tail(posted) /\ posted[1] = "Stop"
    BY <1>0, <1>5, Taking DEF Took
  <2>2. /\ SameWish /\ conn' = conn
        /\ ~eng.navigating => UNCHANGED <<eng, api, modem, past>>
        /\ eng.navigating => ~eng'.navigating /\ \E o \in StopOutcomes : TakeEffect(o)
    BY <1>0, <1>5, SessionFrames
  <2>3. want => Some(posted', {"Mode"}) /\ Covered(posted', {"Stop"}, {"Mode"})
    BY <1>0, <1>2, <2>1 DEF Mode
  <2>4. LastMode(queue', asked') /\ want' = want /\ asked' = asked
    BY <1>0, <1>1, <2>2 DEF Mode, SameWish
  <2>5. eng'.navigating => UNCHANGED <<eng, modem, past>>
    BY <2>2
  <2> QED BY <1>0, <2>3, <2>4, <2>5 DEF Mode
<1>6. CASE HandleEngine
  <2>1. Moves({"On", "Off"} \cup Statuses, {}) /\ ({"On", "Off"} \cup Statuses) \cap {"Stop", "Mode"} = {}
    BY <1>0, <1>6, HandlerMoves DEF Statuses
  <2>2. SameWish /\ eng' = eng /\ past' = past /\ SameModem
    BY <1>0, <1>6, ReportFrames
  <2> QED BY <1>0, <2>1, <2>2, ModeStill DEF SameModem, SameWish
<1>7. CASE HandleStatus \/ HandleDelAid \/ HandleDown
  <2>1. PICK W \in {Statuses, {"DelAid"}, {"Down"}} : Moves(W, {})
    BY <1>0, <1>7, HandlerMoves
  <2>2. W \cap {"Stop", "Mode"} = {}
    BY DEF Statuses
  <2>3. SameWish /\ SameEng /\ modem' = modem /\ SamePast /\ ("restarted" \in past' <=> "restarted" \in past)
    BY <1>0, <1>7, ReportFrames
  <2> QED BY <1>0, <2>1, <2>2, <2>3, ModeStill DEF SameEng, SamePast, SameWish
<1>8. CASE HandlePos
  <2>1. Moves({"Pos"}, {}) /\ {"Pos"} \cap {"Stop", "Mode"} = {} /\ asked' = asked
    BY <1>0, <1>8, HandlerMoves, ReportFrames
  <2>2. CASE want' = want /\ UNCHANGED <<eng, api, modem, past>>
    BY <1>0, <2>1, <2>2, ModeStill
  <2>3. CASE ~eng'.navigating /\ want' = (want /\ "Start" \in Kinds(Tail(queue)))
    <3>1. ~want'
      <4>1. Some(posted', Begins) => FALSE
        <5>1. posted # <<>> /\ posted' = Tail(posted) /\ posted[1] = "Pos"
          BY <1>0, <1>8, Taking DEF Took
        <5>2. Never(posted, {"Pos"}, Begins)
          BY <1>0 DEF Positions
        <5>3. Never(posted, {"Pos"}, Begins) => (posted[1] \in {"Pos"} => ~Some(Tail(posted), Begins))
          BY <1>0, <5>1, FirstTakenOrder
        <5> QED BY <5>1, <5>2, <5>3
      <4>2. queue' = Tail(queue) /\ queue # <<>>
        BY <1>8 DEF HandlePos, Handles
      <4>3. queue' \in Seq(Any) /\ "Start" \in Kept /\ posted' = Tags(queue')
        BY <1>0, <4>2 DEF Kept, Plain, posted
      <4>4. "Start" \in Kinds(queue') <=> Some(posted', {"Start"})
        BY <4>3, KindsTold
      <4> QED BY <2>3, <4>1, <4>2, <4>4 DEF Some, Begins
    <3>2. LastMode(queue', asked')
      BY <1>0, <1>1, <2>1 DEF Mode
    <3> QED BY <2>3, <3>1, <3>2 DEF Mode
  <2> QED BY <1>0, <1>8, <2>2, <2>3, ReportFrames
<1>9. CASE HandleUp
  <2>1. Moves({"Up", "Again"}, {}) /\ {"Up", "Again"} \cap {"Stop", "Mode"} = {}
    BY <1>0, <1>9, HandlerMoves
  <2>2. /\ SameWish /\ modem' = modem /\ SamePast /\ ~eng'.navigating
        /\ \/ eng.navigating /\ "restarted" \in past'
           \/ ~eng.navigating /\ eng' = eng /\ past' = past
    BY <1>0, <1>9, ReportFrames
  <2>3. CASE ~eng.navigating
    BY <1>0, <2>1, <2>2, <2>3, ModeStill DEF SameWish
  <2>4. CASE eng.navigating
    <3>1. Covered(posted', {"Stop"}, {"Mode"}) <=> Covered(posted, {"Stop"}, {"Mode"})
      <4>1. {"Stop"} \in SUBSET {"Stop", "Mode"} /\ {"Mode"} \in SUBSET {"Stop", "Mode"}
        OBVIOUS
      <4>2. Same(posted, posted', {"Stop", "Mode"})
        BY <1>0, <2>1, TouchesSame DEF Moves
      <4> QED BY <4>1, <4>2 DEF Same
    <3>2. LastMode(queue', asked') /\ want' = want /\ asked' = asked
      BY <1>0, <1>1, <2>2 DEF Mode, SameWish
    <3> QED BY <1>0, <2>2, <2>4, <3>1, <3>2 DEF Mode
  <2> QED BY <2>3, <2>4
<1>10. CASE HandleOpen \/ HandleMask
  <2>1. PICK W \in {{}, {"Measure", "Unmeasure"}} : Moves(W, {})
    BY <1>0, <1>10, HandlerMoves
  <2>2. W \cap {"Stop", "Mode"} = {}
    OBVIOUS
  <2>3. SameWish /\ SameEng /\ SameModem /\ SamePast /\ ("restarted" \in past' <=> "restarted" \in past)
    BY <1>0, <1>10, ClientFrames
  <2> QED BY <1>0, <2>1, <2>2, <2>3, ModeStill DEF SameEng, SamePast, SameModem, SameWish
<1>11. CASE HandleOpened
  <2>1. Moves({"Open"}, {}) /\ {"Open"} \cap {"Stop", "Mode"} = {}
    BY <1>0, <1>11, HandlerMoves
  <2>2. SameWish /\ UNCHANGED <<eng, modem, past>>
    BY <1>0, <1>11, ClientFrames
  <2> QED BY <1>0, <2>1, <2>2, ModeStill DEF SameWish
<1> QED BY <1>3, <1>4, <1>5, <1>6, <1>7, <1>8, <1>9, <1>10, <1>11 DEF Handle

\* The framework's calls keep the modes in order.
LEMMA ModeCalled ==
  ASSUME HeardInv, OrderInv, Call
  PROVE  Mode'
<1>0. Types /\ posted \in Seq(Words) /\ queue \in Seq(Any) /\ Mode
  BY Typed DEF HeardInv, OrderInv
<1>1. SameEng /\ SamePast /\ modem' = modem
  BY <1>0, CallFrames
<1>2. ASSUME NEW ms \in Seq(Any), NEW r, r = Tags(ms), posted' = posted \o r, queue' = queue \o ms,
             asked' \in Modes, LastMode(ms, asked'), Some(r, {"Mode"}), Covered(r, {"Stop"}, {"Mode"})
      PROVE  Mode'
  <2>1. r \in Seq(Words) /\ ("Mode" \in Kinds(ms) <=> Some(r, {"Mode"}))
    BY <1>2, TagsOf, KindsTold DEF Kept
  <2>2. LastMode(queue', asked')
    BY <1>0, <1>2, <2>1, LastModeJoin
  <2>3. Covered(posted', {"Stop"}, {"Mode"})
    BY <1>0, <1>2, <2>1, JoinedOrder
  <2>4. Some(posted', {"Mode"})
    BY <1>0, <1>2, <2>1, Joined
  <2> QED BY <1>0, <1>1, <1>2, <2>2, <2>3, <2>4 DEF Mode, SameEng, SamePast
<1>3. ASSUME NEW mode \in Modes, NEW single \in BOOLEAN, Start(mode, single) PROVE Mode'
  <2>1. PICK c : c = [mode |-> mode, single |-> single]
    OBVIOUS
  <2>2. c \in Criteria
    BY <2>1 DEF Criteria
  <2>11. MsgOf("Mode", c) \in Any /\ Msg("Start") \in Any
    BY <2>2, Posted DEF Any, Plain
  <2>3. PICK ms : ms = <<MsgOf("Mode", c), Msg("Start")>>
    OBVIOUS
  <2>12. ms \in Seq(Any)
    BY <2>3, <2>11, TagsTwo
  <2>4. Tags(ms) = <<Tag(MsgOf("Mode", c)), Tag(Msg("Start"))>>
    BY <2>11, <2>3, TagsTwo
  <2>5. Tag(MsgOf("Mode", c)) = "Mode" /\ Tag(Msg("Start")) = "Start"
    BY <2>2, WordsOf DEF Plain
  <2>6. PICK r : r = <<"Mode", "Start">> /\ r = Tags(ms)
    BY <2>4, <2>5
  <2>7. Some(r, {"Mode"}) /\ Covered(r, {"Stop"}, {"Mode"})
    <3>1. "Mode" \in Words /\ "Start" \in Words
      BY DEF Words, Kept, Plain
    <3> QED BY <2>6, <3>1, Two
  <2>8. LastMode(ms, mode)
    <3>1. DOMAIN ms = {1, 2} /\ ms[1].kind = "Mode" /\ ms[1].arg.mode = mode /\ ms[2].kind = "Start"
      BY <2>1, <2>3 DEF MsgOf, Msg, Criteria
    <3> QED BY <3>1 DEF LastMode
  <2>9. queue' = queue \o ms
    BY <1>3, <2>1, <2>3 DEF Start, Posting
  <2>10. posted' = posted \o r /\ asked' = mode
    BY <1>0, <1>3, <2>6, Calling, CallsFrames
  <2> QED BY <1>2, <2>12, <2>6, <2>7, <2>8, <2>9, <2>10
<1>4. ASSUME NEW mode \in Modes, SetMode(mode) PROVE Mode'
  <2>1. PICK c : c = [mode |-> mode, single |-> eng.single]
    OBVIOUS
  <2>2. c \in Criteria
    BY <1>0, <2>1 DEF Criteria, Types, EngType
  <2>11. MsgOf("Mode", c) \in Any
    BY <2>2, Posted DEF Any
  <2>3. PICK ms : ms = <<MsgOf("Mode", c)>>
    OBVIOUS
  <2>12. ms \in Seq(Any)
    BY <2>3, <2>11, TagsOne
  <2>4. Tags(ms) = <<Tag(MsgOf("Mode", c))>>
    BY <2>11, <2>3, TagsOne
  <2>5. Tag(MsgOf("Mode", c)) = "Mode"
    BY <2>2, WordsOf
  <2>6. PICK r : r = <<"Mode">> /\ r = Tags(ms)
    BY <2>4, <2>5
  <2>7. Some(r, {"Mode"}) /\ Covered(r, {"Stop"}, {"Mode"})
    <3>1. "Mode" \in Words
      BY DEF Words, Kept, Plain
    <3> QED BY <2>6, <3>1, One
  <2>8. LastMode(ms, mode)
    <3>1. DOMAIN ms = {1} /\ ms[1].kind = "Mode" /\ ms[1].arg.mode = mode
      BY <2>1, <2>3 DEF MsgOf
    <3> QED BY <3>1 DEF LastMode
  <2>9. queue' = queue \o ms
    BY <1>4, <2>1, <2>3 DEF SetMode, Posting
  <2>10. posted' = posted \o r /\ asked' = mode
    BY <1>0, <1>4, <2>6, Calling, CallsFrames
  <2> QED BY <1>2, <2>12, <2>6, <2>7, <2>8, <2>9, <2>10
<1>5. CASE Stop \/ Cleanup
  <2>1. want' = FALSE /\ asked' = asked /\ past' = past /\ NoMoreModes
    BY <1>0, <1>5, CallsFrames, CallCarries
  <2> QED BY <1>0, <1>1, <2>1 DEF Mode, NoMoreModes, SameEng
<1>6. CASE MeasurementInit \/ MeasurementClose \/ \E t \in AidTypes : DeleteAidingData(t)
  <2>1. PICK W \in {{"DelAid"}, {"Measure"}, {"Unmeasure"}} : Moves(W, {})
    BY <1>0, <1>6, OtherMoves
  <2>2. W \cap {"Stop", "Mode"} = {}
    OBVIOUS
  <2>3. SameWish /\ NoMoreModes /\ ("restarted" \in past' <=> "restarted" \in past)
    BY <1>0, <1>6, CallsFrames, CallCarries
  <2> QED BY <1>0, <1>1, <2>1, <2>2, <2>3, ModeStill DEF SameEng, SamePast, SameWish
<1> QED BY <1>3, <1>4, <1>5, <1>6 DEF Call

\* So do the modem and the client's callbacks.
LEMMA ModeOther ==
  ASSUME HeardInv, OrderInv, Next \/ UNCHANGED vars, ~Handle
  PROVE  Mode'
<1>0. Types /\ Mode
  BY DEF HeardInv, OrderInv
<1>1. queue' = queue => NoMoreModes
  BY DEF NoMoreModes, NoMore
<1>2. CASE Call
  BY <1>2, ModeCalled
<1>3. CASE Deliver
  <2>1. PICK W \in {{"On", "Off", "Pos"}, {"Down", "Open", "Up"}} : \E V : Moves(W, V)
    BY <1>0, <1>3, OtherMoves DEF Deliver
  <2>2. W \cap {"Stop", "Mode"} = {}
    OBVIOUS
  <2>3. NoMoreModes
    BY <1>0, <1>3, DeliverCarries DEF Deliver
  <2>4. UNCHANGED <<want, asked, eng, modem, past>>
    BY <1>0, <1>3, ModemFrames
  <2> QED BY <1>0, <2>1, <2>2, <2>3, <2>4, ModeStill
<1>4. ASSUME \/ Crash \/ Return \/ UNCHANGED vars
             \/ \E on \in BOOLEAN : EngineTurns(on)
             \/ \E fix \in Fixes : Fixed(fix)
      PROVE  Mode'
  <2>1. UNCHANGED <<want, asked, queue, eng>> /\ past \subseteq past'
    BY <1>0, <1>4, ModemFrames DEF vars
  <2>2. modem'.session => modem.session /\ modem'.mode = modem.mode
    <3>1. CASE Crash
      BY <1>0, <3>1, ModemFrames DEF Down
    <3>2. CASE ~Crash
      BY <1>0, <1>4, <3>2, ModemFrames DEF SameModem, vars
    <3> QED BY <3>1, <3>2
  <2>3. posted' = posted
    BY <2>1 DEF posted
  <2> QED BY <1>0, <2>1, <2>2, <2>3 DEF Mode
<1> QED BY <1>2, <1>3, <1>4 DEF Next

-----------------------------------------------------------------------------
(* Each step keeps the order: what is told of the engine *)

\* A message is taken: what is to be measured is still asked for in time.
LEMMA MeasuredTail ==
  ASSUME NEW t \in Seq(Words), t # <<>>,
         NEW e \in BOOLEAN, NEW s \in BOOLEAN, NEW f \in BOOLEAN, NEW z \in BOOLEAN, MeasuredBy(t, e, s),
         t[1] \in {"On", "Off"} \/ (f => e),
         t[1] \in {"Stop", "Pos"} \/ (s \/ t[1] \in Begins => z)
  PROVE  MeasuredBy(Tail(t), f, z)
<1> SUFFICES ASSUME NEW k \in DOMAIN Tail(t), Tail(t)[k] = "Measure"
             PROVE  QuietAt(Tail(t), f, k) \/ KnownAt(Tail(t), z, k)
  BY DEF MeasuredBy
<1>1. k \in Nat \ {0} /\ k + 1 \in DOMAIN t /\ Tail(t)[k] = t[k + 1]
  OBVIOUS
<1>2. QuietAt(t, e, k + 1) \/ KnownAt(t, s, k + 1)
  BY <1>1 DEF MeasuredBy
<1>3. \A P : Before(t, P, k + 1) <=> t[1] \notin P /\ Before(Tail(t), P, k)
  BY <1>1, FirstTaken
<1>4. Begun(t, k + 1) <=> (t[1] \in Begins /\ Before(Tail(t), {"Stop"}, k)) \/ Begun(Tail(t), k)
  BY <1>1, FirstTakenBegun
<1>5. CASE QuietAt(t, e, k + 1)
  <2>1. ~e /\ t[1] \notin {"On", "Off"} /\ Before(Tail(t), {"On", "Off"}, k)
    BY <1>3, <1>5 DEF QuietAt
  <2> QED BY <2>1 DEF QuietAt
<1>6. CASE KnownAt(t, s, k + 1)
  <2>1. t[1] \notin {"Pos"} /\ Before(Tail(t), {"Pos"}, k)
    BY <1>3, <1>6 DEF KnownAt
  <2>2. CASE s /\ Before(t, {"Stop"}, k + 1)
    <3>1. t[1] \notin {"Stop"} /\ Before(Tail(t), {"Stop"}, k)
      BY <1>3, <2>2
    <3> QED BY <2>1, <2>2, <3>1 DEF KnownAt, LiveBy
  <2>3. CASE Begun(t, k + 1)
    <3>1. CASE Begun(Tail(t), k)
      BY <2>1, <3>1 DEF KnownAt, LiveBy
    <3>2. CASE t[1] \in Begins /\ Before(Tail(t), {"Stop"}, k)
      <4>1. t[1] \notin {"Stop", "Pos"}
        BY <3>2 DEF Begins
      <4> QED BY <2>1, <3>2, <4>1 DEF KnownAt, LiveBy
    <3> QED BY <1>4, <2>3, <3>1, <3>2
  <2> QED BY <1>6, <2>2, <2>3 DEF KnownAt, LiveBy
<1> QED BY <1>2, <1>5, <1>6

\* Messages are added: one that asks to measure comes to an engine that is off and not reported
\* on, or to a session that is to run and has no fix on its way.
LEMMA MeasuredJoin ==
  ASSUME NEW t \in Seq(Words), NEW r \in Seq(Words), NEW e \in BOOLEAN, NEW s \in BOOLEAN, MeasuredBy(t, e, s),
         \/ ~Some(r, {"Measure"})
         \/ /\ DOMAIN r = {1}
            /\ (~e /\ ~Some(t, {"On", "Off"})) \/ (WantedBy(t, s) /\ ~Some(t, {"Pos"}))
  PROVE  MeasuredBy(t \o r, e, s)
<1> SUFFICES ASSUME NEW k \in DOMAIN (t \o r), (t \o r)[k] = "Measure"
             PROVE  QuietAt(t \o r, e, k) \/ KnownAt(t \o r, s, k)
  BY DEF MeasuredBy
<1>1. /\ Len(t) \in Nat /\ DOMAIN t = 1..Len(t) /\ DOMAIN r = 1..Len(r) /\ Len(r) \in Nat
      /\ DOMAIN (t \o r) = 1..Len(t) + Len(r)
  OBVIOUS
<1>2. ASSUME NEW j \in 1..Len(t) + 1
      PROVE  /\ \A P : Before(t \o r, P, j) <=> Before(t, P, j)
             /\ Begun(t \o r, j) <=> Begun(t, j)
  BY Joined, JoinedBegun
<1>3. CASE k \in DOMAIN t
  <2>1. k \in 1..Len(t) + 1 /\ t[k] = "Measure"
    BY <1>1, <1>3
  <2>2. QuietAt(t, e, k) \/ KnownAt(t, s, k)
    BY <1>3, <2>1 DEF MeasuredBy
  <2> QED BY <1>2, <2>1, <2>2 DEF QuietAt, KnownAt, LiveBy
<1>4. CASE k \notin DOMAIN t
  <2>1. k - Len(t) \in DOMAIN r /\ r[k - Len(t)] = "Measure"
    BY <1>1, <1>4
  <2>2. Some(r, {"Measure"})
    BY <2>1 DEF Some
  <2>3. k = Len(t) + 1
    BY <1>1, <2>1, <2>2
  <2>4. \A P : Before(t, P, k) <=> ~Some(t, P)
    BY <2>3, Joined
  <2>5. Begun(t, k) <=> ~Covered(t, Begins, {"Stop"})
    BY <2>3, JoinedBegun
  <2>6. k \in 1..Len(t) + 1
    BY <1>1, <2>3
  <2>7. CASE ~e /\ ~Some(t, {"On", "Off"})
    BY <1>2, <2>4, <2>6, <2>7 DEF QuietAt
  <2>8. CASE WantedBy(t, s) /\ ~Some(t, {"Pos"})
    BY <1>2, <2>4, <2>5, <2>6, <2>8 DEF KnownAt, LiveBy, WantedBy
  <2> QED BY <2>2, <2>7, <2>8
<1> QED BY <1>3, <1>4

\* Nothing that says whether the engine is on comes or goes.
News == {"On", "Off", "ENGINE_ON", "ENGINE_OFF", "Down"}
\* A step that is about no report leaves the news as they are.
LEMMA NewsStill ==
  ASSUME Types, NEW W, NEW V, Moves(W, V), W \cap News = {}, V \cap {"On", "Off", "Error"} = {},
         told'.engine = told.engine
  PROVE  /\ SaysOff => SaysOff'
         /\ WillSayOff => WillSayOff'
         /\ Some(posted', {"On"}) <=> Some(posted, {"On"})
         /\ Some(coming', {"On"}) <=> Some(coming, {"On"})
<1>1. Same(posted, posted', News) /\ Same(coming, coming', {"On", "Off", "Error"})
  BY TouchesSame DEF Moves
<1>2. /\ {"On"} \in SUBSET News /\ {"Off"} \in SUBSET News /\ Offs \in SUBSET News /\ {"ENGINE_ON"} \in SUBSET News
      /\ {"On"} \in SUBSET {"On", "Off", "Error"} /\ {"Off"} \in SUBSET {"On", "Off", "Error"}
      /\ {"Off", "Error"} \in SUBSET {"On", "Off", "Error"}
  BY DEF News, Offs
<1>3. \A P \in SUBSET News : Some(posted', P) <=> Some(posted, P)
  BY <1>1 DEF Same
<1>4. \A P \in SUBSET News, R \in SUBSET News : Covered(posted', P, R) <=> Covered(posted, P, R)
  BY <1>1 DEF Same
<1>5. \A P \in SUBSET {"On", "Off", "Error"} : Some(coming', P) <=> Some(coming, P)
  BY <1>1 DEF Same
<1>6. \A P, R \in SUBSET {"On", "Off", "Error"} : Covered(coming', P, R) <=> Covered(coming, P, R)
  BY <1>1 DEF Same
<1>7. OffIsNews' <=> OffIsNews
  BY <1>2, <1>3, <1>5 DEF OffIsNews
<1>8. /\ Covered(posted', {"ENGINE_ON"}, Offs) <=> Covered(posted, {"ENGINE_ON"}, Offs)
      /\ Covered(posted', {"On"}, {"Off"}) <=> Covered(posted, {"On"}, {"Off"})
      /\ Covered(coming', {"On"}, {"Off"}) <=> Covered(coming, {"On"}, {"Off"})
      /\ Some(posted', Offs) <=> Some(posted, Offs)
      /\ Some(posted', {"On"}) <=> Some(posted, {"On"})
      /\ Some(coming', {"On"}) <=> Some(coming, {"On"})
      /\ Some(coming', {"Off"}) <=> Some(coming, {"Off"})
  BY <1>2, <1>3, <1>4, <1>5, <1>6
<1>9. SaysOff => SaysOff'
  BY <1>7, <1>8 DEF SaysOff
<1> QED BY <1>8, <1>9 DEF WillSayOff

\* What the framework is told next is the first of the queue.
LEMMA NewsTaken ==
  ASSUME Types, posted # <<>>, posted' = Tail(posted), coming' = coming, posted[1] \notin {"On", "Off"},
         told'.engine = "ENGINE_ON" =>
           posted[1] = "ENGINE_ON" \/ (told.engine = "ENGINE_ON" /\ posted[1] \notin Offs)
  PROVE  /\ SaysOff => SaysOff'
         /\ WillSayOff => WillSayOff'
         /\ Some(posted', {"On"}) <=> Some(posted, {"On"})
<1>0. posted \in Seq(Words)
  BY Typed
<1>1. /\ Some(posted, {"On"}) <=> Some(posted', {"On"})
      /\ Some(posted, {"Off"}) <=> Some(posted', {"Off"})
      /\ Some(posted, Offs) <=> posted[1] \in Offs \/ Some(posted', Offs)
  BY <1>0, FirstTaken
<1>2. /\ Covered(posted, {"ENGINE_ON"}, Offs) =>
           (posted[1] = "ENGINE_ON" => Some(posted', Offs)) /\ Covered(posted', {"ENGINE_ON"}, Offs)
      /\ Covered(posted, {"On"}, {"Off"}) => Covered(posted', {"On"}, {"Off"})
  BY <1>0, FirstTakenOrder
<1>3. OffIsNews' <=> OffIsNews
  BY <1>1 DEF OffIsNews
<1>4. SaysOff => SaysOff'
  BY <1>1, <1>2, <1>3 DEF SaysOff
<1> QED BY <1>1, <1>2, <1>4 DEF WillSayOff

\* So it is kept by a step that changes none of it.
LEMMA ToldKeeps ==
  ASSUME Told, SaysOff => SaysOff', WillSayOff => WillSayOff',
         Some(posted', {"On"}) => Some(posted, {"On"}), Some(coming', {"On"}) => Some(coming, {"On"}),
         "unstopped" \in past => "unstopped" \in past',
         api'.engineOn = api.engineOn,
         \/ modem.engine /\ modem.mask = "full" => modem'.engine /\ modem'.mask = "full"
         \/ "unstopped" \in past'
         \/ WillSayOff,
         Some(posted', {"On"}) \/ Some(coming', {"On"}) => (api.inSession => api'.inSession),
         modem'.session => api'.inSession \/ "unstopped" \in past',
         MeasuredBy(posted', api'.engineOn, api'.inSession)
  PROVE  Told'
<1>1. \/ "unstopped" \in past'
      \/ modem'.engine /\ modem'.mask = "full"
      \/ WillSayOff'
  BY DEF Told
<1>2. api'.engineOn \/ SaysOff'
  BY DEF Told
<1>3. Some(posted', {"On"}) \/ Some(coming', {"On"}) => api'.inSession \/ "unstopped" \in past'
  BY DEF Told
<1> QED BY <1>1, <1>2, <1>3 DEF Told

\* A step that moves no news and changes neither client nor modem keeps it.
LEMMA ToldStill ==
  ASSUME Types, Told, NEW W, NEW V, Moves(W, V), W \cap News = {}, V \cap {"On", "Off", "Error"} = {},
         told'.engine = told.engine, SamePast, api'.engineOn = api.engineOn, api'.inSession = api.inSession,
         modem'.engine = modem.engine, modem'.mask = modem.mask, modem'.session => modem.session,
         MeasuredBy(posted', api.engineOn, api.inSession)
  PROVE  Told'
<1>1. /\ SaysOff => SaysOff'
      /\ WillSayOff => WillSayOff'
      /\ Some(posted', {"On"}) <=> Some(posted, {"On"})
      /\ Some(coming', {"On"}) <=> Some(coming, {"On"})
  BY NewsStill
<1>2. "unstopped" \in past' <=> "unstopped" \in past
  BY DEF SamePast
<1>3. modem'.session => api'.inSession \/ "unstopped" \in past'
  BY <1>2 DEF Told
<1> QED BY <1>1, <1>2, <1>3, ToldKeeps

\* A session is started, or started again.
LEMMA ToldRunning ==
  ASSUME Types, Types', Told, OpenedFirst, posted # <<>>, posted' = Tail(posted), coming' = coming,
         NEW mode, NEW o \in StartOutcomes(mode), TakeEffect(o), conn' = conn, told'.engine = told.engine,
         posted[1] \in {"Mode", "Start", "Again"}
  PROVE  Told'
<1>0. posted \in Seq(Words) /\ api.engineOn \in BOOLEAN /\ api.inSession \in BOOLEAN
      /\ api'.engineOn \in BOOLEAN /\ api'.inSession \in BOOLEAN
  BY Typed DEF Types, ApiType
<1>1. /\ api'.inSession /\ api'.engineOn = api.engineOn /\ modem'.engine = modem.engine
      /\ conn # "open" => modem' = modem
      /\ conn = "open" => modem'.mask = "full"
      /\ "unstopped" \in past' <=> "unstopped" \in past
  BY Starting
<1>2. posted[1] \notin {"On", "Off"} /\ posted[1] \notin Offs
  BY DEF Offs
<1>3. /\ SaysOff => SaysOff'
      /\ WillSayOff => WillSayOff'
      /\ Some(posted', {"On"}) <=> Some(posted, {"On"})
  BY <1>2, NewsTaken
<1>4. MeasuredBy(posted', api'.engineOn, api'.inSession)
  <2>1. MeasuredBy(posted, api.engineOn, api.inSession)
    BY DEF Told
  <2>2. MeasuredBy(Tail(posted), api'.engineOn, api'.inSession)
    BY <1>0, <1>1, <2>1, MeasuredTail
  <2> QED BY <2>2
<1> QED BY <1>1, <1>3, <1>4, ToldKeeps

\* A session is stopped: no report that the engine is on is on its way.
LEMMA ToldEnding ==
  ASSUME Types, Types', Told, OpenedFirst, posted # <<>>, posted' = Tail(posted), coming' = coming,
         NEW o \in StopOutcomes, TakeEffect(o), conn' = conn, told'.engine = told.engine,
         posted[1] \in {"Stop", "Pos"}, ~Some(posted, {"On"}), ~Some(coming, {"On"})
  PROVE  Told'
<1>0. posted \in Seq(Words) /\ api.engineOn \in BOOLEAN /\ api.inSession \in BOOLEAN
      /\ api'.engineOn \in BOOLEAN /\ api'.inSession \in BOOLEAN
  BY Typed DEF Types, ApiType
<1>1. /\ ~api'.inSession /\ api'.engineOn = api.engineOn /\ modem'.engine = modem.engine
      /\ modem'.session => "unstopped" \in past'
      /\ api.engineOn \/ conn # "open" => modem'.mask = modem.mask
      /\ "unstopped" \in past => "unstopped" \in past'
  BY Stopping DEF OpenedFirst
<1>2. posted[1] \notin {"On", "Off"} /\ posted[1] \notin Offs
  BY DEF Offs
<1>3. /\ SaysOff => SaysOff'
      /\ WillSayOff => WillSayOff'
      /\ Some(posted', {"On"}) <=> Some(posted, {"On"})
  BY <1>2, NewsTaken
<1>4. MeasuredBy(posted', api'.engineOn, api'.inSession)
  <2>1. MeasuredBy(posted, api.engineOn, api.inSession)
    BY DEF Told
  <2>2. MeasuredBy(Tail(posted), api'.engineOn, api'.inSession)
    BY <1>0, <1>1, <2>1, MeasuredTail
  <2> QED BY <2>2
<1>5. ~api.engineOn => WillSayOff
  <2>1. Covered(posted, {"On"}, {"Off"}) /\ Covered(coming, {"On"}, {"Off"})
    BY DEF Covered, Some
  <2> QED BY <2>1 DEF Told, WillSayOff
<1>6. (modem.engine /\ modem.mask = "full" => modem'.engine /\ modem'.mask = "full") \/ WillSayOff
  BY <1>1, <1>5
<1> QED BY <1>1, <1>3, <1>4, <1>6, ToldKeeps

\* Of a report about the engine the client learns whether it is on.
LEMMA ToldReported ==
  ASSUME HeardInv, HeardInv', OrderInv, HandleEngine
  PROVE  Told'
<1>0. /\ Types /\ Types' /\ posted \in Seq(Words) /\ coming \in Seq(Words) /\ Told
      /\ api.engineOn \in BOOLEAN /\ api.inSession \in BOOLEAN
      /\ api'.engineOn \in BOOLEAN /\ api'.inSession \in BOOLEAN
  BY Typed DEF HeardInv, OrderInv, Types, ApiType
<1>1. /\ told' = told /\ past' = past /\ modem'.session = modem.session /\ modem'.engine = modem.engine
      /\ api'.inSession = api.inSession /\ api'.engineOn = Head1.arg /\ coming' = coming
      /\ (api.engineOn /\ ~api.inSession /\ ~Head1.arg) \/ modem' = modem
  <2>1. wire' = wire /\ told' = told
    BY DEF HandleEngine
  <2> QED BY <1>0, <2>1, ReportFrames, Still DEF SameModem
<1>2. /\ Head1.arg \in BOOLEAN
      /\ ~Head1.arg => TookAdded("Off", <<"SESSION_END", "ENGINE_OFF">>)
      /\ Head1.arg /\ api.inSession => TookAdded("On", <<"ENGINE_ON", "SESSION_BEGIN">>)
      /\ Head1.arg /\ ~api.inSession => Took("On")
  BY <1>0, TakingAdding
<1>3. {"SESSION_END", "ENGINE_OFF", "ENGINE_ON", "SESSION_BEGIN"} \subseteq Words
  BY DEF Words, Statuses
<1>4. MeasuredBy(posted, api.engineOn, api.inSession)
  BY <1>0 DEF Told
<1>5. modem'.session => api'.inSession \/ "unstopped" \in past'
  BY <1>0, <1>1 DEF Told
<1>6. CASE ~Head1.arg
  <2>1. PICK t : t = Tail(posted)
    OBVIOUS
  <2>2. PICK r : r = <<"SESSION_END", "ENGINE_OFF">>
    OBVIOUS
  <2>3. posted # <<>> /\ posted[1] = "Off" /\ posted' = t \o r
    BY <1>2, <1>6, <2>1, <2>2 DEF TookAdded
  <2>4. t \in Seq(Words) /\ r \in Seq(Words)
    BY <1>0, <1>3, <2>1, <2>2, <2>3, Two
  <2>5. /\ Some(r, Offs) /\ ~Some(r, {"On"}) /\ ~Some(r, {"Off"}) /\ ~Some(r, {"Measure"})
        /\ Covered(r, {"ENGINE_ON"}, Offs) /\ Covered(r, {"On"}, {"Off"})
    <3>1. DOMAIN r = {1, 2} /\ r[1] = "SESSION_END" /\ r[2] = "ENGINE_OFF"
      BY <2>2
    <3> QED BY <3>1 DEF Some, Covered, Offs
  <2>6. SaysOff'
    <3>1. Some(posted', Offs)
      BY <2>3, <2>4, <2>5, Joined
    <3>2. Covered(t \o r, {"ENGINE_ON"}, Offs) <=>
            Covered(r, {"ENGINE_ON"}, Offs) /\ (Some(r, Offs) \/ Covered(t, {"ENGINE_ON"}, Offs))
      BY <2>4, JoinedOrder, Zenon
    <3>3. Covered(t \o r, {"ENGINE_ON"}, Offs)
      BY <2>5, <3>2
    <3>4. posted' = t \o r
      BY <2>3
    <3>5. Covered(posted', {"ENGINE_ON"}, Offs)
      BY <3>3, <3>4
    <3> QED BY <3>1, <3>5 DEF SaysOff
  <2>7. /\ Some(posted', {"On"}) <=> Some(t, {"On"})
        /\ Some(t, {"On"}) => Some(posted, {"On"})
    <3>1. Some(posted', {"On"}) <=> Some(t, {"On"})
      BY <2>3, <2>4, <2>5, Joined
    <3>2. Some(t, {"On"}) => Some(posted, {"On"})
      BY <1>0, <2>1, <2>3, FirstTaken
    <3> QED BY <3>1, <3>2
  <2>8. Covered(t, {"On"}, {"Off"}) => Covered(posted', {"On"}, {"Off"})
    BY <2>3, <2>4, <2>5, JoinedOrder
  <2>9. Covered(posted, {"On"}, {"Off"}) => Covered(posted', {"On"}, {"Off"})
    <3>1. Covered(posted, {"On"}, {"Off"}) => Covered(t, {"On"}, {"Off"})
      BY <1>0, <2>1, <2>3, FirstTakenOrder
    <3> QED BY <2>8, <3>1
  <2>10. WillSayOff => WillSayOff'
    BY <1>1, <2>6, <2>9 DEF WillSayOff
  <2>11. \/ "unstopped" \in past'
         \/ modem'.engine /\ modem'.mask = "full"
         \/ WillSayOff'
    <3>1. CASE WillSayOff \/ "unstopped" \in past
      BY <1>1, <2>10, <3>1
    <3>2. CASE modem.engine /\ modem.mask = "full" /\ modem' = modem
      BY <3>2
    <3>3. CASE ~api.inSession /\ "unstopped" \notin past
      <4>1. ~Some(posted, {"On"}) /\ ~Some(coming, {"On"})
        BY <1>0, <3>3 DEF Told
      <4>2. Covered(posted', {"On"}, {"Off"}) /\ Covered(coming', {"On"}, {"Off"})
        BY <1>1, <2>7, <4>1 DEF Covered, Some
      <4> QED BY <2>6, <4>2 DEF WillSayOff
    <3> QED BY <1>0, <1>1, <3>1, <3>2, <3>3 DEF Told
  <2>12. MeasuredBy(posted', api'.engineOn, api'.inSession)
    <3>1. MeasuredBy(t, api'.engineOn, api'.inSession)
      BY <1>0, <1>1, <1>4, <2>1, <2>3, MeasuredTail DEF Begins
    <3> QED BY <1>0, <2>3, <2>4, <2>5, <3>1, MeasuredJoin
  <2>13. Some(posted', {"On"}) \/ Some(coming', {"On"}) => api'.inSession \/ "unstopped" \in past'
    BY <1>0, <1>1, <2>7 DEF Told
  <2> QED BY <1>5, <2>6, <2>11, <2>12, <2>13 DEF Told
<1>7. CASE Head1.arg
  <2>1. PICK t : t = Tail(posted)
    OBVIOUS
  <2>2. PICK r \in {<<>>, <<"ENGINE_ON", "SESSION_BEGIN">>} : posted # <<>> /\ posted[1] = "On" /\ posted' = t \o r
    <3>1. posted # <<>>
      BY <1>0, <1>2, <1>7 DEF Took, TookAdded
    <3>2. t \in Seq(Words)
      BY <1>0, <2>1, <3>1
    <3>3. t \o <<>> = t
      BY <3>2
    <3> QED BY <1>0, <1>2, <1>7, <2>1, <3>3 DEF Took, TookAdded
  <2>4. t \in Seq(Words) /\ r \in Seq(Words)
    <3>1. <<"ENGINE_ON", "SESSION_BEGIN">> \in Seq(Words) /\ <<>> \in Seq(Words)
      BY <1>3
    <3>2. r \in Seq(Words)
      BY <2>2, <3>1, Zenon
    <3> QED BY <1>0, <2>1, <2>2, <3>2
  <2>5. ~Some(r, {"On"}) /\ ~Some(r, {"Off"}) /\ ~Some(r, {"Measure"}) /\ Covered(r, {"On"}, {"Off"})
    <3>1. DOMAIN r = {} \/ (DOMAIN r = {1, 2} /\ r[1] = "ENGINE_ON" /\ r[2] = "SESSION_BEGIN")
      BY <2>2
    <3> QED BY <3>1 DEF Some, Covered
  <2>6. /\ Some(posted', {"On"}) <=> Some(t, {"On"})
        /\ Some(t, {"On"}) => Some(posted, {"On"})
        /\ Some(t, {"Off"}) <=> Some(posted', {"Off"})
    <3>1. (Some(posted', {"On"}) <=> Some(t, {"On"})) /\ (Some(t, {"Off"}) <=> Some(posted', {"Off"}))
      BY <2>2, <2>4, <2>5, Joined
    <3>2. Some(t, {"On"}) => Some(posted, {"On"})
      BY <1>0, <2>1, <2>2, FirstTaken
    <3> QED BY <3>1, <3>2
  <2>7. WillSayOff => WillSayOff'
    <3> SUFFICES ASSUME WillSayOff PROVE WillSayOff'
      OBVIOUS
    <3>1. Covered(posted, {"On"}, {"Off"}) => Some(t, {"Off"}) /\ Covered(t, {"On"}, {"Off"})
      BY <1>0, <2>1, <2>2, FirstTakenOrder
    <3>2. Some(coming, {"Off"}) \/ (Some(t, {"Off"}) /\ Covered(t, {"On"}, {"Off"}))
      BY <3>1 DEF WillSayOff
    <3>3. Some(coming, {"Off"}) => Some(coming, {"Off", "Error"})
      BY DEF Some
    <3>4. OffIsNews'
      BY <1>1, <2>6, <3>2, <3>3 DEF OffIsNews
    <3>5. SaysOff'
      BY <3>4 DEF SaysOff
    <3>6. Covered(t, {"On"}, {"Off"}) => Covered(posted', {"On"}, {"Off"})
      BY <2>2, <2>4, <2>5, JoinedOrder
    <3>7. Some(coming', {"Off"}) \/ Covered(posted', {"On"}, {"Off"})
      BY <1>1, <3>2, <3>6
    <3>8. Covered(coming', {"On"}, {"Off"})
      BY <1>1 DEF WillSayOff
    <3> QED BY <3>5, <3>7, <3>8 DEF WillSayOff
  <2>8. \/ "unstopped" \in past'
        \/ modem'.engine /\ modem'.mask = "full"
        \/ WillSayOff'
    <3>1. modem' = modem
      BY <1>1, <1>7
    <3> QED BY <1>0, <1>1, <2>7, <3>1 DEF Told
  <2>9. MeasuredBy(posted', api'.engineOn, api'.inSession)
    <3>1. MeasuredBy(t, api'.engineOn, api'.inSession)
      BY <1>0, <1>1, <1>4, <2>1, <2>2, MeasuredTail DEF Begins
    <3> QED BY <1>0, <2>2, <2>4, <2>5, <3>1, MeasuredJoin
  <2>10. Some(posted', {"On"}) \/ Some(coming', {"On"}) => api'.inSession \/ "unstopped" \in past'
    BY <1>0, <1>1, <2>6 DEF Told
  <2>11. api'.engineOn
    BY <1>1, <1>7
  <2> QED BY <1>5, <2>8, <2>9, <2>10, <2>11 DEF Told
<1> QED BY <1>6, <1>7

\* Handlers keep it.
LEMMA ToldHandled ==
  ASSUME HeardInv, HeardInv', OrderInv, Handle
  PROVE  Told'
<1>0. /\ Types /\ Types' /\ posted \in Seq(Words) /\ coming \in Seq(Words) /\ Told /\ OpenedFirst /\ MaskIsMeant
      /\ api.engineOn \in BOOLEAN /\ api.inSession \in BOOLEAN
      /\ api'.engineOn \in BOOLEAN /\ api'.inSession \in BOOLEAN
      /\ MeasuredBy(posted, api.engineOn, api.inSession) /\ Positions
  BY Typed DEF HeardInv, OrderInv, Types, ApiType, Told
<1>w. coming' = coming
  BY <1>0, Still DEF Handle, HandleMode, HandleStart, HandleStop, HandleEngine, HandleStatus, HandleDelAid, HandlePos,
                     HandleDown, HandleUp, HandleOpen, HandleOpened, HandleMask
\* One is taken, which changes nothing of this.
<1>1. ASSUME posted # <<>>, posted' = Tail(posted), posted[1] \notin {"On", "Off"} \cup Offs \cup {"ENGINE_ON"},
             UNCHANGED <<api, modem>>, SamePast, told'.engine = told.engine,
             posted[1] \in Begins => api.inSession
      PROVE  Told'
  <2>1. MeasuredBy(posted', api.engineOn, api.inSession)
    BY <1>0, <1>1, MeasuredTail
  <2>2. /\ SaysOff => SaysOff'
        /\ WillSayOff => WillSayOff'
        /\ Some(posted', {"On"}) <=> Some(posted, {"On"})
    BY <1>0, <1>1, <1>w, NewsTaken
  <2>3. "unstopped" \in past' <=> "unstopped" \in past
    BY <1>1 DEF SamePast
  <2>4. modem'.session => api'.inSession \/ "unstopped" \in past'
    BY <1>0, <1>1, <2>3 DEF Told
  <2> QED BY <1>0, <1>1, <1>w, <2>1, <2>2, <2>3, <2>4, ToldKeeps
<1>2. past' = past => SamePast
  BY DEF SamePast
<1>3. \A x \in {"Mode", "Start", "Again", "Stop", "DelAid", "Pos", "Open"} :
        x \notin {"On", "Off"} \cup Offs \cup {"ENGINE_ON"}
  BY DEF Offs
<1>4. CASE HandleMode
  <2>1. posted # <<>> /\ posted[1] = "Mode" /\ posted' = Tail(posted)
    BY <1>0, <1>4, Taking DEF Took
  <2>2. /\ conn' = conn /\ told'.engine = told.engine
        /\ eng.navigating => \E o \in StartOutcomes(Head1.arg.mode) : TakeEffect(o)
        /\ ~eng.navigating => UNCHANGED <<api, modem, past>>
    BY <1>0, <1>4, SessionFrames DEF SameAid
  <2>3. CASE eng.navigating
    BY <1>0, <1>w, <2>1, <2>2, <2>3, ToldRunning
  <2>4. CASE ~eng.navigating
    BY <1>1, <1>2, <1>3, <2>1, <2>2, <2>4 DEF Begins
  <2> QED BY <2>3, <2>4
<1>5. CASE HandleStart
  <2>1. posted # <<>> /\ posted[1] \in {"Start", "Again"} /\ posted' = Tail(posted)
    BY <1>0, <1>5, Taking DEF Took
  <2>2. /\ conn' = conn /\ told'.engine = told.engine
        /\ eng.navigating => UNCHANGED <<api, modem, past>>
        /\ ~eng.navigating => \E o \in StartOutcomes(eng.mode) : TakeEffect(o)
    BY <1>0, <1>5, SessionFrames DEF SameAid
  <2>3. CASE ~eng.navigating
    BY <1>0, <1>w, <2>1, <2>2, <2>3, ToldRunning
  <2>4. CASE eng.navigating
    <3>1. api.inSession
      BY <2>4 DEF OrderInv, Wish
    <3> QED BY <1>1, <1>2, <1>3, <2>1, <2>2, <2>4, <3>1
  <2> QED BY <2>3, <2>4
<1>6. CASE HandleStop
  <2>1. posted # <<>> /\ posted[1] = "Stop" /\ posted' = Tail(posted)
    BY <1>0, <1>6, Taking DEF Took
  <2>2. /\ conn' = conn /\ told'.engine = told.engine
        /\ ~eng.navigating => UNCHANGED <<api, modem, past>>
        /\ eng.navigating => \E o \in StopOutcomes : TakeEffect(o)
    BY <1>0, <1>6, SessionFrames DEF SameAid
  <2>3. CASE eng.navigating
    <3>1. Some(posted, {"Stop"})
      <4>1. 1 \in DOMAIN posted
        BY <1>0, <2>1
      <4> QED BY <2>1, <4>1 DEF Some
    <3>2. ~Some(posted, {"On"}) /\ ~Some(coming, {"On"})
      BY <1>0, <3>1 DEF Positions
    <3> QED BY <1>0, <1>w, <2>1, <2>2, <2>3, <3>2, ToldEnding
  <2>4. CASE ~eng.navigating
    BY <1>1, <1>2, <1>3, <2>1, <2>2, <2>4 DEF Begins
  <2> QED BY <2>3, <2>4
<1>7. CASE HandleEngine
  BY <1>7, ToldReported
<1>8. CASE HandleStatus
  <2>1. PICK s \in Statuses : s = Head1.arg /\ posted # <<>> /\ posted[1] = s /\ posted' = Tail(posted)
    BY <1>0, <1>8, TakingOthers DEF Took
  <2>2. told' = Telling(s) /\ told \in [engine : Statuses, session : BOOLEAN]
    BY <1>8, <2>1 DEF HandleStatus, OrderInv, Records
  <2>3. told'.engine = IF s \in {"ENGINE_ON", "ENGINE_OFF"} THEN s ELSE told.engine
    BY <2>2 DEF Telling
  <2>4. UNCHANGED <<api, modem>> /\ SamePast
    BY <1>0, <1>8, ReportFrames
  <2>5. s \notin {"On", "Off", "Down", "Start", "Again", "Stop", "Pos"}
    BY DEF Statuses
  <2>6. told'.engine = "ENGINE_ON" => s = "ENGINE_ON" \/ (told.engine = "ENGINE_ON" /\ s \notin Offs)
    BY <2>3, <2>5 DEF Offs
  <2>7. /\ SaysOff => SaysOff'
        /\ WillSayOff => WillSayOff'
        /\ Some(posted', {"On"}) <=> Some(posted, {"On"})
    BY <1>0, <1>w, <2>1, <2>5, <2>6, NewsTaken
  <2>8. MeasuredBy(posted', api.engineOn, api.inSession)
    BY <1>0, <2>1, <2>5, MeasuredTail DEF Begins
  <2>9. modem'.session => api'.inSession \/ "unstopped" \in past'
    BY <1>0, <2>4 DEF Told, SamePast
  <2> QED BY <1>0, <1>w, <2>4, <2>7, <2>8, <2>9, ToldKeeps DEF SamePast
<1>9. CASE HandleDelAid
  <2>1. posted # <<>> /\ posted[1] = "DelAid" /\ posted' = Tail(posted)
    BY <1>0, <1>9, Taking DEF Took
  <2>2. UNCHANGED <<api, modem, told>> /\ SamePast
    BY <1>0, <1>9, ReportFrames DEF HandleDelAid
  <2> QED BY <1>1, <1>3, <2>1, <2>2 DEF Begins
<1>10. CASE HandlePos
  <2>1. posted # <<>> /\ posted[1] = "Pos" /\ posted' = Tail(posted)
    BY <1>0, <1>10, Taking DEF Took
  <2>2. /\ conn' = conn /\ told'.engine = told.engine
        /\ \/ UNCHANGED <<api, modem, past>>
           \/ \E o \in StopOutcomes : TakeEffect(o)
    BY <1>0, <1>10, ReportFrames DEF SameAid
  <2>3. CASE \E o \in StopOutcomes : TakeEffect(o)
    <3>1. Some(posted, {"Pos"})
      <4>1. 1 \in DOMAIN posted
        BY <1>0, <2>1
      <4> QED BY <2>1, <4>1 DEF Some
    <3>2. ~Some(coming, {"On"}) /\ Never(posted, {"Pos"}, {"On"})
      BY <1>0, <3>1 DEF Positions
    <3>3. ~Some(Tail(posted), {"On"})
      BY <1>0, <2>1, <3>2, FirstTakenOrder
    <3>4. ~Some(posted, {"On"})
      BY <1>0, <2>1, <3>3, FirstTaken
    <3> QED BY <1>0, <1>w, <2>1, <2>2, <2>3, <3>2, <3>4, ToldEnding
  <2>4. CASE UNCHANGED <<api, modem, past>>
    BY <1>1, <1>2, <1>3, <2>1, <2>2, <2>4 DEF Begins
  <2> QED BY <2>2, <2>3, <2>4
<1>11. CASE HandleDown
  <2>1. posted # <<>> /\ posted[1] = "Down" /\ posted' = Tail(posted)
    BY <1>0, <1>11, Taking DEF Took
  <2>2. told' = Telling("ENGINE_OFF") /\ told \in [engine : Statuses, session : BOOLEAN]
    BY <1>11 DEF HandleDown, OrderInv, Records
  <2>3. told'.engine = "ENGINE_OFF"
    BY <2>2 DEF Telling
  <2>4. UNCHANGED <<api, modem>> /\ SamePast
    BY <1>0, <1>11, ReportFrames
  <2>5. /\ SaysOff => SaysOff'
        /\ WillSayOff => WillSayOff'
        /\ Some(posted', {"On"}) <=> Some(posted, {"On"})
    BY <1>0, <1>w, <2>1, <2>3, NewsTaken
  <2>6. MeasuredBy(posted', api.engineOn, api.inSession)
    BY <1>0, <2>1, MeasuredTail DEF Begins
  <2>7. modem'.session => api'.inSession \/ "unstopped" \in past'
    BY <1>0, <2>4 DEF Told, SamePast
  <2> QED BY <1>0, <1>w, <2>4, <2>5, <2>6, <2>7, ToldKeeps DEF SamePast
<1>12. CASE HandleUp
  <2>1. posted # <<>> /\ posted[1] = "Up"
        /\ (posted' = Tail(posted) \/ posted' = Tail(posted) \o <<"Again">>)
    BY <1>0, <1>12, TakingAdding DEF Took, TookAdded
  <2>2. Moves({"Up", "Again"}, {}) /\ {"Up", "Again"} \cap News = {}
    BY <1>0, <1>12, HandlerMoves DEF News
  <2>3. UNCHANGED <<api, modem, told>> /\ SamePast
    BY <1>0, <1>12, ReportFrames DEF HandleUp
  <2>4. MeasuredBy(posted', api.engineOn, api.inSession)
    <3>1. PICK t : t = Tail(posted)
      OBVIOUS
    <3>4. t \in Seq(Words)
      BY <1>0, <2>1, <3>1
    <3>2. MeasuredBy(t, api.engineOn, api.inSession)
      BY <1>0, <2>1, <3>1, MeasuredTail DEF Begins
    <3>3. <<"Again">> \in Seq(Words) /\ ~Some(<<"Again">>, {"Measure"})
      <4>1. "Again" \in Words
        BY DEF Words, Kept, Plain
      <4> QED BY <4>1, One
    <3> QED BY <1>0, <2>1, <3>1, <3>2, <3>3, <3>4, MeasuredJoin
  <2> QED BY <1>0, <2>2, <2>3, <2>4, ToldStill
<1>13. CASE HandleOpen
  <2>1. SamePast /\ SameModem /\ told'.engine = told.engine /\ conn \in {"closed", "dead"}
        /\ api'.inSession = api.inSession /\ api'.engineOn = api.engineOn
    BY <1>0, <1>13, ClientFrames DEF SameAid
  <2>2. posted' = posted
    BY <1>0, <1>13, Still DEF HandleOpen
  <2>3. Moves({}, {})
    BY <1>0, <1>13, HandlerMoves
  <2>4. /\ SaysOff => SaysOff'
        /\ WillSayOff => WillSayOff'
    BY <1>0, <2>1, <2>3, NewsStill DEF SameAid
  <2>5. modem.mask # "full"
    BY <1>0, <2>1 DEF OpenedFirst
  <2>6. modem'.session => api'.inSession \/ "unstopped" \in past'
    BY <1>0, <2>1 DEF Told, SamePast, SameModem
  <2> QED BY <1>0, <1>w, <2>1, <2>2, <2>4, <2>5, <2>6, ToldKeeps DEF SamePast
<1>14. CASE HandleOpened
  <2>1. posted # <<>> /\ posted[1] = "Open" /\ posted' = Tail(posted)
    BY <1>0, <1>14, Taking DEF Took
  <2>2. UNCHANGED <<api, modem, told, past>>
    BY <1>0, <1>14, ClientFrames
  <2> QED BY <1>1, <1>2, <1>3, <2>1, <2>2 DEF Begins
<1>15. CASE HandleMask
  <2>1. posted # <<>> /\ posted' = Tail(posted) /\ Head1.arg \in BOOLEAN
        /\ posted[1] = (IF Head1.arg THEN "Measure" ELSE "Unmeasure")
    BY <1>0, <1>15, TakingOthers DEF Took
  <2>2. /\ SamePast /\ SameModem /\ told'.engine = told.engine /\ SameClient
        /\ \/ modem' = modem
           \/ conn = "open" /\ Head1.arg /\ (api.inSession => modem'.mask = "full")
    BY <1>0, <1>15, ClientFrames DEF SameAid
  <2>3. posted[1] \notin {"On", "Off", "Start", "Again"} \cup Offs
    BY <2>1 DEF Offs
  <2>4. /\ SaysOff => SaysOff'
        /\ WillSayOff => WillSayOff'
        /\ Some(posted', {"On"}) <=> Some(posted, {"On"})
    BY <1>0, <1>w, <2>1, <2>2, <2>3, NewsTaken
  <2>5. MeasuredBy(posted', api.engineOn, api.inSession)
    BY <1>0, <2>1, <2>3, MeasuredTail DEF Begins
  <2>6. modem.engine /\ modem.mask = "full" => modem'.engine /\ modem'.mask = "full"
    <3>1. CASE modem' = modem
      BY <3>1
    <3>2. CASE conn = "open" /\ Head1.arg /\ (api.inSession => modem'.mask = "full") /\ modem.mask = "full"
      <4>1. 1 \in DOMAIN posted /\ posted[1] = "Measure"
        BY <1>0, <2>1, <3>2
      <4>2. QuietAt(posted, api.engineOn, 1) \/ KnownAt(posted, api.inSession, 1)
        BY <1>0, <4>1 DEF MeasuredBy
      <4>3. ~Begun(posted, 1)
        BY <1>0, <2>1, FirstTakenBegun
      <4>4. ~api.engineOn \/ api.inSession
        BY <4>2, <4>3 DEF QuietAt, KnownAt, LiveBy
      <4>5. api.inSession
        BY <1>0, <3>2, <4>4 DEF MaskIsMeant
      <4> QED BY <2>2, <3>2, <4>5 DEF SameModem
    <3> QED BY <2>2, <3>1, <3>2
  <2>7. modem'.session => api'.inSession \/ "unstopped" \in past'
    BY <1>0, <2>2 DEF Told, SamePast, SameModem, SameClient
  <2> QED BY <1>0, <1>w, <2>2, <2>4, <2>5, <2>6, <2>7, ToldKeeps DEF SamePast, SameClient
<1> QED BY <1>4, <1>5, <1>6, <1>7, <1>8, <1>9, <1>10, <1>11, <1>12, <1>13, <1>14, <1>15 DEF Handle

\* The framework's calls keep it.
LEMMA ToldCalled ==
  ASSUME HeardInv, OrderInv, Allowed = {}, Call
  PROVE  Told'
<1>0. /\ Types /\ posted \in Seq(Words) /\ Told /\ api.engineOn \in BOOLEAN /\ api.inSession \in BOOLEAN
      /\ MeasuredBy(posted, api.engineOn, api.inSession)
  BY Typed DEF HeardInv, OrderInv, Types, ApiType, Told
<1>1. SamePast /\ UNCHANGED <<wire, api, modem, told>>
  BY <1>0, CallFrames
<1>2. PICK W \in {{"Mode", "Start"}, {"Mode"}, {"Stop"}, {"DelAid"}, {"Measure"}, {"Unmeasure"}} : Moves(W, {})
  BY <1>0, OtherMoves DEF Call
<1>3. W \cap News = {}
  BY DEF News
<1>4. ASSUME NEW r \in Seq(Words), posted' = posted \o r,
             \/ ~Some(r, {"Measure"})
             \/ /\ DOMAIN r = {1}
                /\ \/ ~api.engineOn /\ ~Some(posted, {"On", "Off"})
                   \/ WantedBy(posted, api.inSession) /\ ~Some(posted, {"Pos"})
      PROVE  Told'
  <2>1. MeasuredBy(posted', api.engineOn, api.inSession)
    BY <1>0, <1>4, MeasuredJoin
  <2> QED BY <1>0, <1>1, <1>2, <1>3, <2>1, ToldStill
<1>5. ASSUME NEW x \in {"Mode", "Stop", "DelAid", "Unmeasure"}, posted' = posted \o <<x>> PROVE Told'
  <2>1. x \in Words /\ x # "Measure"
    BY DEF Words, Kept, Plain
  <2>2. <<x>> \in Seq(Words) /\ ~Some(<<x>>, {"Measure"})
    BY <2>1, One
  <2> QED BY <1>4, <1>5, <2>2
<1>6. ASSUME posted' = posted PROVE Told'
  BY <1>0, <1>1, <1>2, <1>3, <1>6, ToldStill
<1>7. ASSUME NEW mode \in Modes, NEW single \in BOOLEAN, Start(mode, single) PROVE Told'
  <2>1. posted' = posted \o <<"Mode", "Start">>
    BY <1>0, <1>7, Calling
  <2>2. "Mode" \in Words /\ "Start" \in Words
    BY DEF Words, Kept, Plain
  <2>3. <<"Mode", "Start">> \in Seq(Words) /\ ~Some(<<"Mode", "Start">>, {"Measure"})
    BY <2>2, Two
  <2> QED BY <1>4, <2>1, <2>3
<1>8. CASE \E mode \in Modes : SetMode(mode)
  BY <1>0, <1>5, <1>8, Calling
<1>9. CASE Stop \/ Cleanup
  <2>1. Posting(<<Msg("Stop")>>) \/ queue' = queue
    BY <1>9 DEF Stop, Cleanup
  <2>2. posted' = posted \o <<"Stop">> \/ posted' = posted
    BY <1>0, <2>1, Calling, Still
  <2> QED BY <1>5, <1>6, <2>2
<1>10. CASE (\E t \in AidTypes : DeleteAidingData(t)) \/ MeasurementClose
  BY <1>0, <1>5, <1>10, Calling
<1>11. CASE MeasurementInit
  <2>1. PICK r : r = <<"Measure">> /\ posted' = posted \o r
    BY <1>0, <1>11, Calling
  <2>2. r \in Seq(Words) /\ DOMAIN r = {1}
    BY <2>1, One DEF Words
  <2>5. posted' = posted \o r
    BY <2>1
  <2>3. \/ want /\ ~Some(posted, {"Pos"})
        \/ ~api.engineOn /\ ~Some(posted, {"On", "Off"})
    <3>1. \/ want /\ "Pos" \notin Kinds(queue)
          \/ ~api.engineOn /\ "Engine" \notin Kinds(queue)
      BY <1>11 DEF MeasurementInit
    <3>2. "Pos" \notin Kinds(queue) => ~Some(posted, {"Pos"})
      BY <1>0, Typed DEF Kept
    <3>3. "Engine" \notin Kinds(queue) => ~Some(posted, {"On", "Off"})
      BY <1>0, Typed, KindsTold DEF posted
    <3> QED BY <3>1, <3>2, <3>3
  <2>4. want => WantedBy(posted, api.inSession)
    BY DEF OrderInv, Wish, Wanted, WantedBy
  <2>6. \/ ~api.engineOn /\ ~Some(posted, {"On", "Off"})
        \/ WantedBy(posted, api.inSession) /\ ~Some(posted, {"Pos"})
    BY <2>3, <2>4
  <2> QED BY <1>4, <2>2, <2>5, <2>6
<1> QED BY <1>7, <1>8, <1>9, <1>10, <1>11 DEF Call

\* A report of the modem that is posted keeps it.
LEMMA ToldPosted ==
  ASSUME HeardInv, OrderInv, eventCb
  PROVE  Told'
<1>0. /\ Types /\ posted \in Seq(Words) /\ coming \in Seq(Words) /\ Told
      /\ api.engineOn \in BOOLEAN /\ api.inSession \in BOOLEAN
      /\ MeasuredBy(posted, api.engineOn, api.inSession)
  BY Typed DEF HeardInv, OrderInv, Types, ApiType, Told
<1>1. PICK x \in {"On", "Off", "Pos"} : TookWire(x) /\ posted' = posted \o <<x>>
  BY <1>0, Delivering
<1>2. UNCHANGED <<api, modem, told, past>>
  BY <1>0, ModemFrames DEF Deliver
<1>3. PICK r : r = <<x>>
  OBVIOUS
<1>4. r \in Seq(Words) /\ posted' = posted \o r /\ \A P : Some(r, P) <=> x \in P
  <2>1. x \in Words
    BY DEF Words, Kept
  <2> QED BY <1>1, <1>3, <2>1, One
<1>5. MeasuredBy(posted', api.engineOn, api.inSession)
  BY <1>0, <1>4, MeasuredJoin
<1>7. CASE x = "Pos"
  <2>1. SamePast
    BY <1>2 DEF SamePast
  <2>2. {"Pos"} \in SUBSET Words /\ "Pos" \in {"Pos"}
    BY DEF Words, Kept
  <2>3. r \in Seq({"Pos"})
    BY <1>3, <1>7
  <2>4. Touches({"Pos"})
    BY <1>0, <1>4, <2>2, <2>3, TookTouches
  <2>5. TouchesWire({"Pos"})
    BY <1>1, <1>7 DEF TookWire, TouchesWire, Touch
  <2>6. Moves({"Pos"}, {"Pos"}) /\ {"Pos"} \cap News = {} /\ {"Pos"} \cap {"On", "Off", "Error"} = {}
    BY <2>2, <2>4, <2>5 DEF Moves, News
  <2> QED BY <1>0, <1>2, <1>5, <2>1, <2>6, ToldStill
<1>8. /\ coming # <<>> /\ coming' = Tail(coming) /\ coming[1] = x
  BY <1>1 DEF TookWire
<1>9. \A P : Some(coming, P) <=> x \in P \/ Some(coming', P)
  BY <1>0, <1>8, FirstTaken
<1>10. Covered(coming, {"On"}, {"Off"}) <=>
         (x = "On" => Some(coming', {"Off"})) /\ Covered(coming', {"On"}, {"Off"})
  BY <1>0, <1>8, FirstTakenOrder
<1>11. \A P : Some(posted', P) <=> Some(posted, P) \/ x \in P
  BY <1>0, <1>4, Joined
<1>12. modem'.session => api'.inSession \/ "unstopped" \in past'
  BY <1>0, <1>2 DEF Told
<1>13. Some(posted', {"On"}) \/ Some(coming', {"On"}) => Some(posted, {"On"}) \/ Some(coming, {"On"})
  BY <1>9, <1>11
<1>14. ASSUME SaysOff => SaysOff', WillSayOff => WillSayOff' PROVE Told'
  BY <1>0, <1>2, <1>5, <1>12, <1>13, <1>14 DEF Told
<1>15. CASE x = "On"
  <2>1. OffIsNews' <=> OffIsNews
    BY <1>9, <1>11, <1>15 DEF OffIsNews
  <2>2. Covered(posted, {"ENGINE_ON"}, Offs) => Covered(posted', {"ENGINE_ON"}, Offs)
    <3>1. Covered(r, {"ENGINE_ON"}, Offs)
      BY <1>3, <1>15 DEF Covered
    <3> QED BY <1>0, <1>4, <3>1, JoinedOrder
  <2>3. SaysOff => SaysOff'
    BY <1>2, <1>11, <2>1, <2>2 DEF SaysOff
  <2>4. WillSayOff => WillSayOff'
    BY <1>10, <1>15, <2>3 DEF WillSayOff
  <2> QED BY <1>14, <2>3, <2>4
<1>16. CASE x = "Off"
  <2>1. OffIsNews'
    BY <1>11, <1>16 DEF OffIsNews
  <2>2. SaysOff'
    BY <2>1 DEF SaysOff
  <2>3. Covered(posted', {"On"}, {"Off"})
    <3>1. Covered(r, {"On"}, {"Off"}) /\ Some(r, {"Off"})
      BY <1>3, <1>4, <1>16 DEF Covered
    <3> QED BY <1>0, <1>4, <3>1, JoinedOrder
  <2>4. WillSayOff => WillSayOff'
    BY <1>10, <2>2, <2>3 DEF WillSayOff
  <2> QED BY <1>14, <2>2, <2>4
<1> QED BY <1>7, <1>15, <1>16

\* So do the crash of the modem, its return and what it reports.
LEMMA ToldOther ==
  ASSUME HeardInv, OrderInv, Allowed = {}, Next \/ UNCHANGED vars, ~Handle
  PROVE  Told'
<1>0. /\ Types /\ posted \in Seq(Words) /\ coming \in Seq(Words) /\ Told
      /\ api.engineOn \in BOOLEAN /\ api.inSession \in BOOLEAN
      /\ MeasuredBy(posted, api.engineOn, api.inSession)
  BY Typed DEF HeardInv, OrderInv, Types, ApiType, Told
<1>1. ASSUME NEW V, Moves({}, V), V \cap {"On", "Off", "Error"} = {}, posted' = posted,
             UNCHANGED <<api, told>>, SamePast, modem'.engine = modem.engine, modem'.mask = modem.mask,
             modem'.session => modem.session
      PROVE  Told'
  BY <1>0, <1>1, ToldStill
<1>2. CASE Call
  BY <1>2, ToldCalled
<1>3. CASE eventCb
  BY <1>3, ToldPosted
<1>4. CASE errorCb
  <2>1. PICK r : r = <<"Down", "Open", "Up">> /\ posted' = posted \o r
    BY <1>0, <1>4, Delivering
  <2>12. posted' = posted \o r
    BY <2>1
  <2>2. UNCHANGED <<api, modem, told, past>>
    BY <1>0, <1>4, ModemFrames DEF Deliver
  <2>3. /\ r \in Seq(Words) /\ ~Some(r, {"Measure"}) /\ ~Some(r, {"On"}) /\ Some(r, Offs)
        /\ Covered(r, {"ENGINE_ON"}, Offs) /\ Covered(r, {"On"}, {"Off"})
    <3>1. /\ r \in Seq(Words) /\ Some(r, Offs)
          /\ ~Some(r, {"Pos", "Start", "Again", "On", "Stop", "Mode", "Measure", "DelAid", "ENGINE_ON", "Off"})
      BY <2>1, Three DEF Offs
    <3> QED BY <3>1 DEF Some, Covered
  <2>4. coming # <<>> /\ coming' = Tail(coming) /\ coming[1] = "Error"
    BY <1>0, <1>4, Delivering DEF TookWire
  <2>5. SaysOff'
    <3>1. Some(posted', Offs)
      BY <1>0, <2>12, <2>3, Joined
    <3>4. Covered(posted \o r, {"ENGINE_ON"}, Offs) <=>
            Covered(r, {"ENGINE_ON"}, Offs) /\ (Some(r, Offs) \/ Covered(posted, {"ENGINE_ON"}, Offs))
      <4>1. posted \in Seq(Words) /\ r \in Seq(Words)
        BY <1>0, <2>3
      <4> QED BY <4>1, JoinedOrder, Zenon
    <3>2. Covered(posted \o r, {"ENGINE_ON"}, Offs)
      BY <2>3, <3>4
    <3>3. Covered(posted', {"ENGINE_ON"}, Offs)
      BY <2>12, <3>2
    <3> QED BY <3>1, <3>3 DEF SaysOff
  <2>6. /\ Some(posted', {"On"}) <=> Some(posted, {"On"})
        /\ Some(coming', {"On"}) <=> Some(coming, {"On"})
        /\ Some(coming', {"Off"}) <=> Some(coming, {"Off"})
    <3>1. Some(posted', {"On"}) <=> Some(posted, {"On"})
      BY <1>0, <2>12, <2>3, Joined
    <3>2. \A P : Some(coming, P) <=> coming[1] \in P \/ Some(coming', P)
      BY <1>0, <2>4, FirstTaken
    <3>3. coming[1] \notin {"On"} /\ coming[1] \notin {"Off"}
      BY <2>4
    <3> QED BY <3>1, <3>2, <3>3
  <2>7. Covered(posted, {"On"}, {"Off"}) => Covered(posted', {"On"}, {"Off"})
    BY <1>0, <2>12, <2>3, JoinedOrder
  <2>8. Covered(coming, {"On"}, {"Off"}) => Covered(coming', {"On"}, {"Off"})
    BY <1>0, <2>4, FirstTakenOrder
  <2>9. WillSayOff => WillSayOff'
    BY <2>5, <2>6, <2>7, <2>8 DEF WillSayOff
  <2>10. MeasuredBy(posted', api'.engineOn, api'.inSession)
    BY <1>0, <2>12, <2>2, <2>3, MeasuredJoin
  <2>11. modem'.session => api'.inSession \/ "unstopped" \in past'
    BY <1>0, <2>2 DEF Told
  <2> QED BY <1>0, <2>2, <2>5, <2>6, <2>9, <2>10, <2>11, ToldKeeps
<1>5. CASE Crash
  <2>1. /\ UNCHANGED <<queue, api, told>> /\ modem' = Down /\ past' = past \cup {"crashed"}
        /\ conn = "open" /\ "Engine" \notin Kinds(queue) \cup Kinds(wire)
    BY <1>0, <1>5, ModemFrames DEF Crash
  <2>2. posted' = posted
    BY <2>1 DEF posted
  <2>3. PICK r : r = <<"Error">> /\ coming' = coming \o r
    BY <1>0, <1>5, <2>1, Sending
  <2>4. r \in Seq(Words) /\ Some(r, {"Off", "Error"}) /\ ~Some(r, {"On"})
    <3>1. "Error" \in Words
      BY DEF Words, Kept
    <3> QED BY <2>3, <3>1, One
  <2>5. ~Some(posted, {"On", "Off"}) /\ ~Some(coming, {"On", "Off"})
    BY <1>0, <2>1, Typed, KindsTold DEF posted, coming
  <2>6. ~Some(posted', {"On"}) /\ ~Some(coming', {"On"})
    <3>1. ~Some(coming, {"On"}) /\ ~Some(posted, {"On"})
      BY <2>5 DEF Some
    <3> QED BY <1>0, <2>2, <2>3, <2>4, <3>1, Joined
  <2>7. OffIsNews'
    BY <1>0, <2>3, <2>4, Joined DEF OffIsNews
  <2>8. SaysOff'
    BY <2>7 DEF SaysOff
  <2>9. WillSayOff'
    BY <2>6, <2>8 DEF WillSayOff, Covered, Some
  <2>10. MeasuredBy(posted', api'.engineOn, api'.inSession)
    BY <1>0, <2>1, <2>2
  <2>11. ~modem'.session
    BY <2>1 DEF Down
  <2> QED BY <2>6, <2>8, <2>9, <2>10, <2>11 DEF Told
<1>6. CASE Return
  <2>1. UNCHANGED <<queue, api, told, past>> /\ SameModem /\ modem'.mask = modem.mask
    BY <1>0, <1>6, ModemFrames
  <2>2. Moves({}, {}) /\ SamePast /\ posted' = posted
    BY <1>0, <1>6, <2>1, OtherMoves, Still DEF SamePast
  <2> QED BY <1>1, <2>1, <2>2 DEF SameModem
<1>7. ASSUME NEW on \in BOOLEAN, EngineTurns(on) PROVE Told'
  <2>1. /\ UNCHANGED <<queue, api, told, past>> /\ posted' = posted
        /\ modem'.session = modem.session /\ modem'.mask = modem.mask
        /\ modem'.engine = on /\ (on => modem.session)
    BY <1>0, <1>7, ModemFrames, Still
  <2>2. /\ modem.mask # "full" => coming' = coming
        /\ modem.mask = "full" => coming' = coming \o <<IF on THEN "On" ELSE "Off">>
    BY <1>0, <1>7, Sending
  <2>3. on => api'.inSession \/ "unstopped" \in past'
    BY <1>0, <2>1 DEF Told
  <2>4. modem'.session => api'.inSession \/ "unstopped" \in past'
    BY <1>0, <2>1 DEF Told
  <2>5. MeasuredBy(posted', api'.engineOn, api'.inSession)
    BY <1>0, <2>1
  <2>6. CASE modem.mask # "full"
    <3>1. coming' = coming
      BY <2>2, <2>6
    <3>2. SaysOff' = SaysOff /\ WillSayOff' = WillSayOff
      BY <2>1, <3>1 DEF SaysOff, WillSayOff, OffIsNews
    <3> QED BY <1>0, <2>1, <2>4, <2>5, <2>6, <3>1, <3>2 DEF Told
  <2>7. CASE modem.mask = "full" /\ on
    <3>1. PICK r : r = <<"On">> /\ coming' = coming \o r
      BY <2>2, <2>7
    <3>2. r \in Seq(Words)
      <4>1. "On" \in Words
        BY DEF Words
      <4> QED BY <3>1, <4>1
    <3>3. Some(coming, {"Off", "Error"}) => Some(coming', {"Off", "Error"})
      BY <1>0, <3>1, <3>2, Joined
    <3>4. SaysOff => SaysOff'
      BY <2>1, <3>3 DEF SaysOff, OffIsNews
    <3> QED BY <1>0, <2>1, <2>3, <2>4, <2>5, <2>7, <3>4 DEF Told
  <2>8. CASE modem.mask = "full" /\ ~on
    <3>1. PICK r : r = <<"Off">> /\ coming' = coming \o r
      BY <2>2, <2>8
    <3>2. r \in Seq(Words) /\ Some(r, {"Off"}) /\ Some(r, {"Off", "Error"}) /\ ~Some(r, {"On"})
          /\ Covered(r, {"On"}, {"Off"})
      <4>1. "Off" \in Words
        BY DEF Words
      <4> QED BY <3>1, <4>1, One
    <3>7. coming' = coming \o r
      BY <3>1
    <3>3. /\ Some(coming', {"Off"}) /\ Some(coming', {"Off", "Error"})
          /\ Some(coming', {"On"}) <=> Some(coming, {"On"})
      BY <1>0, <3>7, <3>2, Joined
    <3>4. Covered(coming', {"On"}, {"Off"})
      BY <1>0, <3>7, <3>2, JoinedOrder
    <3>5. SaysOff'
      BY <3>3 DEF SaysOff, OffIsNews
    <3>6. WillSayOff'
      BY <3>3, <3>4, <3>5 DEF WillSayOff
    <3> QED BY <1>0, <2>1, <2>4, <2>5, <3>3, <3>5, <3>6 DEF Told
  <2> QED BY <2>6, <2>7, <2>8
<1>8. ASSUME NEW fix \in Fixes, Fixed(fix) PROVE Told'
  <2>1. /\ UNCHANGED <<queue, api, told>> /\ modem.session /\ posted' = posted
        /\ modem'.engine = modem.engine /\ modem'.mask = modem.mask
        /\ past \subseteq past' /\ past' \subseteq past \cup {"finished"}
    BY <1>0, <1>8, ModemFrames, Still
  <2>2. Moves({}, {"Pos"}) /\ {"Pos"} \cap {"On", "Off", "Error"} = {} /\ {} \cap News = {}
    BY <1>0, <1>8, OtherMoves
  <2>3. /\ SaysOff => SaysOff'
        /\ WillSayOff => WillSayOff'
        /\ Some(posted', {"On"}) <=> Some(posted, {"On"})
        /\ Some(coming', {"On"}) <=> Some(coming, {"On"})
    BY <1>0, <2>1, <2>2, NewsStill
  <2>4. api'.inSession \/ "unstopped" \in past'
    BY <1>0, <2>1 DEF Told
  <2> QED BY <1>0, <2>1, <2>3, <2>4, ToldKeeps
<1>9. CASE UNCHANGED vars
  <2>1. UNCHANGED <<posted, coming, api, told, past, modem>>
    BY <1>9 DEF vars, posted, coming
  <2> QED BY <1>0, <2>1 DEF Told, WillSayOff, SaysOff, OffIsNews
<1> QED BY <1>2, <1>3, <1>4, <1>5, <1>6, <1>7, <1>8, <1>9 DEF Next, Deliver

-----------------------------------------------------------------------------
(* Each step keeps the order: what is deleted *)

\* What is asked for is sent, or kept for an engine that is on.
LEMMA Updating ==
  ASSUME Types, NEW g \in EngType, NEW a \in AidRec, UpdateAiding(g, a)
  PROVE  /\ aid' \in AidRec /\ aid'.due \subseteq a.due /\ aid'.overtaken = a.overtaken
         /\ eng'.status = g.status
         /\ "crashed" \in past' <=> "crashed" \in past
         /\ "unsent" \in past => "unsent" \in past'
         /\ \/ /\ g.status # "ENGINE_ON" /\ g.aiding # None /\ eng'.aiding = None
               /\ "unsent" \in past' \/ g.aiding \notin aid'.due \/ Requested(Tail(queue), g.aiding)
            \/ (g.status = "ENGINE_ON" \/ g.aiding = None) /\ eng'.aiding = g.aiding
<1>1. CASE g.status # "ENGINE_ON" /\ g.aiding # None
  <2>1. eng' = [g EXCEPT !.aiding = None] /\ deleteAidingData(g.aiding, a)
    BY <1>1 DEF UpdateAiding
  <2>2. eng'.status = g.status /\ eng'.aiding = None
    BY <2>1 DEF EngType
  <2>3. g.aiding \in AidTypes
    BY <1>1 DEF EngType
  <2>4. CASE conn = "open" /\ ~Requested(Tail(queue), g.aiding)
    <3>1. past' = past /\ aid' = [a EXCEPT !.due = @ \ {g.aiding}]
      BY <2>1, <2>4 DEF deleteAidingData
    <3>2. aid' \in AidRec /\ aid'.due = a.due \ {g.aiding} /\ aid'.overtaken = a.overtaken
      BY <2>3, <3>1 DEF AidRec
    <3> QED BY <1>1, <2>2, <3>1, <3>2
  <2>5. CASE ~(conn = "open" /\ ~Requested(Tail(queue), g.aiding))
    <3>1. aid' = a /\ ((past' = past /\ Requested(Tail(queue), g.aiding)) \/ past' = past \cup {"unsent"})
      BY <2>1, <2>5 DEF deleteAidingData
    <3> QED BY <1>1, <2>2, <3>1
  <2> QED BY <2>4, <2>5
<1>2. CASE ~(g.status # "ENGINE_ON" /\ g.aiding # None)
  <2>1. eng' = g /\ aid' = a /\ past' = past
    BY <1>2 DEF UpdateAiding
  <2> QED BY <1>2, <2>1
<1> QED BY <1>1, <1>2

\* The records keep their types.
LEMMA TellingKeeps ==
  ASSUME Types, Records, NEW s \in Statuses
  PROVE  /\ Telling(s) \in [engine : Statuses, session : BOOLEAN]
         /\ Telling(s).engine = IF s \in {"ENGINE_ON", "ENGINE_OFF"} THEN s ELSE told.engine
         /\ Reported(s) \in EngType /\ Reported(s).aiding = eng.aiding
         /\ Reported(s).status = IF s \in {"ENGINE_ON", "ENGINE_OFF"} THEN s ELSE eng.status
<1>1. PICK t : t = told
  OBVIOUS
<1>2. t \in [engine : Statuses, session : BOOLEAN]
  BY <1>1 DEF Records
<1>3. "ENGINE_ON" \in Statuses /\ "ENGINE_OFF" \in Statuses
  BY DEF Statuses
<1>4. Telling(s) \in {[t EXCEPT !.engine = s], [t EXCEPT !.session = TRUE], [t EXCEPT !.session = FALSE], t}
      /\ (s \in {"ENGINE_ON", "ENGINE_OFF"} => Telling(s) = [t EXCEPT !.engine = s])
      /\ (s \notin {"ENGINE_ON", "ENGINE_OFF"} =>
            Telling(s) \in {[t EXCEPT !.session = TRUE], [t EXCEPT !.session = FALSE], t})
  BY <1>1 DEF Telling
<1>5. /\ Telling(s) \in [engine : Statuses, session : BOOLEAN]
      /\ Telling(s).engine = IF s \in {"ENGINE_ON", "ENGINE_OFF"} THEN s ELSE told.engine
  BY <1>1, <1>2, <1>4
<1>6. PICK e \in EngType : e = eng
  BY DEF Types
<1>7. Reported(s) = IF s \in {"ENGINE_ON", "ENGINE_OFF"} THEN [e EXCEPT !.status = s] ELSE e
  BY <1>6 DEF Reported
<1>8. [e EXCEPT !.status = s] \in EngType /\ [e EXCEPT !.status = s].aiding = e.aiding
      /\ [e EXCEPT !.status = s].status = s
  BY <1>6 DEF EngType
<1> QED BY <1>5, <1>6, <1>7, <1>8

\* Nothing about deletions comes or goes.
LEMMA DeletingStill ==
  ASSUME Types, Deleting, NEW W, NEW V, Moves(W, V), W \cap {"DelAid", "Down"} = {}, V \cap {"Error"} = {},
         Records, Keeps, SameAid
  PROVE  Deleting'
<1>1. Same(posted, posted', {"DelAid", "Down"}) /\ Same(coming, coming', {"Error"})
  BY TouchesSame DEF Moves
<1>2. {"DelAid"} \in SUBSET {"DelAid", "Down"} /\ {"Down"} \in SUBSET {"DelAid", "Down"}
      /\ {"Error"} \in SUBSET {"Error"}
  OBVIOUS
<1>3. /\ Some(posted', {"Down"}) <=> Some(posted, {"Down"})
      /\ Some(coming', {"Error"}) <=> Some(coming, {"Error"})
  BY <1>1, <1>2 DEF Same
<1>4. DueIsNamed => DueIsNamed'
  BY DEF DueIsNamed, Keeps, SameAid, Records, AidRec
<1> QED BY <1>3, <1>4 DEF Deleting, SameAid

\* Handlers keep the deletions.
LEMMA DeletingHandled ==
  ASSUME HeardInv, OrderInv, Handle
  PROVE  Deleting'
<1>0. Types /\ Records /\ Deleting /\ posted \in Seq(Words) /\ coming \in Seq(Words) /\ queue \in Seq(Any)
      /\ eng \in EngType /\ (~HandleDelAid => Keeps)
  BY Typed, HandleCarries DEF HeardInv, OrderInv, Types
<1>1. HandleMode \/ HandleStart \/ HandleStop \/ HandleEngine \/ HandlePos \/ HandleUp \/ HandleOpen \/ HandleMask
        \/ HandleOpened \/ HandleStatus \/ HandleDown => Keeps
  BY <1>0 DEF HandleMode, HandleStart, HandleStop, HandleEngine, HandlePos, HandleUp, HandleOpen, HandleMask,
              HandleOpened, HandleStatus, HandleDown, HandleDelAid, Handles
<1>2. ASSUME NEW W \in {{"Mode"}, {"Start", "Again"}, {"Stop"}, {"On", "Off"} \cup Statuses, {"Pos"}, {"Up", "Again"},
                        {}, {"Measure", "Unmeasure"}, {"Open"}}, Moves(W, {}), SameAid, Keeps
      PROVE  Deleting'
  <2>1. W \cap {"DelAid", "Down"} = {} /\ {} \cap {"Error"} = {}
    BY DEF Statuses
  <2> QED BY <1>0, <1>2, <2>1, DeletingStill
<1>3. CASE HandleMode \/ HandleStart \/ HandleStop
  BY <1>0, <1>1, <1>2, <1>3, SessionFrames, HandlerMoves
<1>4. CASE HandleEngine \/ HandlePos \/ HandleUp
  <2>1. SameAid
    <3>1. CASE HandleEngine \/ HandlePos
      BY <1>0, <3>1, ReportFrames
    <3>2. CASE HandleUp
      <4>1. told' = told /\ aid' = aid /\ past' \in {past, past \cup {"restarted"}}
        BY <3>2 DEF HandleUp
      <4>2. eng'.status = eng.status /\ eng'.aiding = eng.aiding
        BY <1>0, <3>2 DEF HandleUp, EndSession, EngType
      <4> QED BY <4>1, <4>2 DEF SameAid
    <3> QED BY <1>4, <3>1, <3>2
  <2> QED BY <1>0, <1>1, <1>2, <1>4, <2>1, HandlerMoves
<1>5. CASE HandleOpen \/ HandleMask
  BY <1>0, <1>1, <1>2, <1>5, ClientFrames, HandlerMoves
<1>6. CASE HandleOpened
  <2>1. UNCHANGED <<eng, told, aid, past>>
    BY <1>0, <1>6, ClientFrames
  <2> QED BY <1>0, <1>1, <1>2, <1>6, <2>1, HandlerMoves DEF SameAid
<1>7. coming' = coming
  BY <1>0, Still DEF Handle, HandleMode, HandleStart, HandleStop, HandleEngine, HandleStatus, HandleDelAid, HandlePos,
                     HandleDown, HandleUp, HandleOpen, HandleOpened, HandleMask
<1>8. ASSUME posted # <<>>, posted' = Tail(posted)
      PROVE  Some(posted, {"Down"}) <=> posted[1] = "Down" \/ Some(posted', {"Down"})
  BY <1>0, <1>8, FirstTaken
<1>9. CASE HandleStatus
  <2>1. PICK s \in Statuses : s = Head1.arg /\ posted # <<>> /\ posted[1] = s /\ posted' = Tail(posted)
    BY <1>0, <1>9, TakingOthers DEF Took
  <2>2. told' = Telling(s) /\ UpdateAiding(Reported(s), aid) /\ queue' = Tail(queue)
    BY <1>9, <2>1 DEF HandleStatus
  <2>3. PICK a \in AidRec : a = aid
    BY <1>0 DEF Records
  <2>4. PICK g \in EngType : /\ UpdateAiding(g, a) /\ g.aiding = eng.aiding
                             /\ g.status = IF s \in {"ENGINE_ON", "ENGINE_OFF"} THEN s ELSE eng.status
    BY <1>0, <2>2, <2>3, TellingKeeps
  <2>5. told'.engine = IF s \in {"ENGINE_ON", "ENGINE_OFF"} THEN s ELSE told.engine
    BY <1>0, <2>2, TellingKeeps
  <2>6. /\ aid'.due \subseteq a.due /\ aid'.overtaken = a.overtaken /\ eng'.status = g.status
        /\ "crashed" \in past' <=> "crashed" \in past
        /\ "unsent" \in past => "unsent" \in past'
        /\ \/ /\ g.status # "ENGINE_ON" /\ g.aiding # None /\ eng'.aiding = None
              /\ "unsent" \in past' \/ g.aiding \notin aid'.due \/ Requested(Tail(queue), g.aiding)
           \/ (g.status = "ENGINE_ON" \/ g.aiding = None) /\ eng'.aiding = g.aiding
    BY <1>0, <2>4, Updating
  <2>7. s # "Down"
    BY DEF Statuses
  <2>8. Some(posted', {"Down"}) <=> Some(posted, {"Down"})
    BY <1>8, <2>1, <2>7
  <2>9. eng'.status = told'.engine
    BY <1>0, <2>4, <2>5, <2>6 DEF Deleting
  <2>10. ASSUME "unsent" \notin past', NEW t \in AidTypes, t \in aid'.due
         PROVE  t \in aid'.overtaken \/ eng'.aiding = t \/ Requested(queue', t)
    <3>1. t \in aid.overtaken \/ eng.aiding = t \/ Requested(queue, t)
      BY <1>0, <2>3, <2>6, <2>10 DEF Deleting, DueIsNamed
    <3>2. Requested(queue, t) => Requested(queue', t)
      BY <1>1, <1>9 DEF Keeps
    <3>3. eng.aiding = t => eng'.aiding = t \/ Requested(queue', t)
      BY <2>2, <2>4, <2>6, <2>10
    <3> QED BY <2>3, <2>6, <3>1, <3>2, <3>3
  <2>11. "unsent" \notin past' => DueIsNamed'
    BY <2>6, <2>10 DEF DueIsNamed, AidRec
  <2>12. eng'.aiding # None => eng'.status = "ENGINE_ON" \/ "crashed" \in past'
    BY <2>6
  <2> QED BY <1>0, <1>7, <2>6, <2>8, <2>9, <2>11, <2>12 DEF Deleting
<1>10. CASE HandleDelAid
  <2>1. posted # <<>> /\ posted[1] = "DelAid" /\ posted' = Tail(posted)
    BY <1>0, <1>10, Taking DEF Took
  <2>2. /\ Handles("DelAid") /\ told' = told /\ queue' = Tail(queue)
        /\ UpdateAiding([eng EXCEPT !.aiding = Head1.arg],
                        [aid EXCEPT !.overtaken = @ \cup Overtaken(Head1.arg)])
    BY <1>10 DEF HandleDelAid
  <2>3. queue # <<>> /\ queue[1].kind = "DelAid" /\ Head1 = queue[1] /\ Head1 \in Message
    BY <1>0, <2>2 DEF Handles, Head1, Types
  <2>4. PICK t \in AidTypes : t = Head1.arg
    BY <2>3, Carries
  <2>5. PICK o \in SUBSET AidTypes : o = Overtaken(t)
    BY <1>0 DEF Overtaken, EngType
  <2>6. PICK b \in AidRec : b = aid
    BY <1>0 DEF Records
  <2>7. PICK a \in AidRec : a = [b EXCEPT !.overtaken = @ \cup o] /\ a.due = b.due /\ a.overtaken = b.overtaken \cup o
    <3> DEFINE n == [b EXCEPT !.overtaken = @ \cup o]
    <3>1. n \in AidRec /\ n.due = b.due /\ n.overtaken = b.overtaken \cup o
      BY DEF AidRec
    <3> QED BY <3>1
  <2>8. PICK g \in EngType : UpdateAiding(g, a) /\ g.aiding = t /\ g.status = eng.status
    <3>1. PICK e \in EngType : e = eng
      BY <1>0
    <3>2. [e EXCEPT !.aiding = t] \in EngType /\ [e EXCEPT !.aiding = t].aiding = t
          /\ [e EXCEPT !.aiding = t].status = e.status
      BY <2>4, <3>1 DEF EngType
    <3>3. UpdateAiding([e EXCEPT !.aiding = t], a)
      BY <2>2, <2>4, <2>5, <2>6, <2>7, <3>1
    <3> QED BY <3>1, <3>2, <3>3
  <2>9. /\ aid'.due \subseteq a.due /\ aid'.overtaken = a.overtaken /\ eng'.status = g.status
        /\ "crashed" \in past' <=> "crashed" \in past
        /\ "unsent" \in past => "unsent" \in past'
        /\ \/ /\ g.status # "ENGINE_ON" /\ g.aiding # None /\ eng'.aiding = None
              /\ "unsent" \in past' \/ g.aiding \notin aid'.due \/ Requested(Tail(queue), g.aiding)
           \/ (g.status = "ENGINE_ON" \/ g.aiding = None) /\ eng'.aiding = g.aiding
    BY <1>0, <2>8, Updating
  <2>10. t # None
    BY <2>4, BoundsAssumption
  <2>11. Some(posted', {"Down"}) => Some(posted, {"Down"})
    BY <1>8, <2>1
  <2>12. eng'.status = told'.engine
    BY <1>0, <2>2, <2>8, <2>9 DEF Deleting
  <2>13. ASSUME "unsent" \notin past', NEW u \in AidTypes, u \in aid'.due
         PROVE  u \in aid'.overtaken \/ eng'.aiding = u \/ Requested(queue', u)
    <3>1. u \in aid.overtaken \/ eng.aiding = u \/ Requested(queue, u)
      BY <1>0, <2>6, <2>7, <2>9, <2>13 DEF Deleting, DueIsNamed
    <3>2. CASE u = t
      BY <2>2, <2>8, <2>9, <2>10, <2>13, <3>2
    <3>3. CASE u # t
      <4>1. Requested(queue, u) => Requested(Tail(queue), u)
        BY <1>0, <2>3, <2>4, <3>3, StillRequested
      <4>2. u # None
        BY BoundsAssumption
      <4>3. eng.aiding = u => u \in o \/ Requested(Tail(queue), u)
        BY <2>5, <3>3, <4>2 DEF Overtaken
      <4> QED BY <2>2, <2>6, <2>7, <2>9, <3>1, <4>1, <4>3
    <3> QED BY <3>2, <3>3
  <2>14. "unsent" \notin past' => DueIsNamed'
    BY <2>7, <2>9, <2>13 DEF DueIsNamed, AidRec
  <2>15. eng'.aiding # None => eng'.status = "ENGINE_ON" \/ "crashed" \in past'
    BY <2>8, <2>9, <2>10
  <2> QED BY <1>0, <1>7, <2>9, <2>11, <2>12, <2>14, <2>15 DEF Deleting
<1>11. CASE HandleDown
  <2>1. posted # <<>> /\ posted[1] = "Down" /\ posted' = Tail(posted)
    BY <1>0, <1>11, Taking DEF Took
  <2>2. told' = Telling("ENGINE_OFF") /\ eng' = Reported("ENGINE_OFF") /\ aid' = aid /\ past' = past
    BY <1>11 DEF HandleDown
  <2>3. told'.engine = "ENGINE_OFF" /\ eng'.status = "ENGINE_OFF" /\ eng'.aiding = eng.aiding
    <3>1. "ENGINE_OFF" \in Statuses
      BY DEF Statuses
    <3> QED BY <1>0, <2>2, <3>1, TellingKeeps
  <2>4. "crashed" \in past'
    <3>1. Some(posted, {"Down"})
      BY <1>8, <2>1
    <3> QED BY <1>0, <2>2, <3>1 DEF Deleting
  <2>5. DueIsNamed => DueIsNamed'
    BY <1>0, <1>1, <1>11, <2>2, <2>3 DEF DueIsNamed, Keeps, Records, AidRec
  <2> QED BY <1>0, <2>2, <2>3, <2>4, <2>5 DEF Deleting
<1> QED BY <1>3, <1>4, <1>5, <1>6, <1>9, <1>10, <1>11 DEF Handle

\* The calls and the modem keep them, and a new request is one of them.
LEMMA DeletingAsked ==
  ASSUME HeardInv, OrderInv, NEW t \in AidTypes, DeleteAidingData(t)
  PROVE  Deleting' /\ aid' \in AidRec /\ told' = told
<1>0. Types /\ Records /\ Deleting /\ posted \in Seq(Words) /\ queue \in Seq(Any)
  BY Typed DEF HeardInv, OrderInv
<1>1. UNCHANGED <<wire, eng, api, conn, modem, told, past>> /\ Posting(<<MsgOf("DelAid", t)>>)
  BY DEF DeleteAidingData
<1>2. PICK a \in AidRec : a = aid
  BY <1>0 DEF Records
<1>3. aid' = [due |-> a.due \cup {t}, overtaken |-> a.overtaken \ {t}]
  BY <1>2 DEF DeleteAidingData
<1>4. aid' \in AidRec /\ aid'.due = a.due \cup {t} /\ aid'.overtaken = a.overtaken \ {t}
  BY <1>3 DEF AidRec
<1>5. Requested(queue', t)
  <2> DEFINE m == MsgOf("DelAid", t)
  <2>1. m.kind = "DelAid" /\ m.arg = t
    BY DEF MsgOf
  <2>2. queue' = queue \o <<m>>
    BY <1>1 DEF Posting
  <2>3. m \in Any
    BY Posted DEF Any
  <2> HIDE DEF m
  <2>4. Len(queue) \in Nat /\ DOMAIN queue' = 1..Len(queue) + 1 /\ queue'[Len(queue) + 1] = m
    BY <1>0, <2>2, <2>3
  <2>5. Len(queue) + 1 \in DOMAIN queue'
    BY <2>4
  <2> QED BY <2>1, <2>4, <2>5 DEF Requested
<1>6. DueIsNamed => DueIsNamed'
  <2>1. Keeps
    BY <1>0, CallCarries DEF Call
  <2>2. eng' = eng
    BY <1>1
  <2> SUFFICES ASSUME DueIsNamed, NEW u \in AidTypes, u \in aid'.due
               PROVE  u \in aid'.overtaken \/ eng'.aiding = u \/ Requested(queue', u)
    BY <1>4 DEF DueIsNamed, AidRec
  <2>3. CASE u = t
    BY <1>5, <2>3
  <2>4. CASE u # t
    BY <1>2, <1>4, <2>1, <2>2, <2>4 DEF DueIsNamed, Keeps
  <2> QED BY <2>3, <2>4
<1>7. PICK r : r = <<"DelAid">> /\ posted' = posted \o r
  BY <1>0, Calling
<1>8. posted' = posted \o r
  BY <1>7
<1>9. r \in Seq(Words) /\ ~Some(r, {"Down"})
  <2>1. "DelAid" \in Words
    BY DEF Words, Kept
  <2> QED BY <1>7, <2>1, One
<1>10. Some(posted', {"Down"}) <=> Some(posted, {"Down"})
  BY <1>0, <1>8, <1>9, Joined
<1>11. coming' = coming
  BY <1>0, <1>1, Still
<1>12. /\ eng'.status = told'.engine
       /\ eng'.aiding # None => eng'.status = "ENGINE_ON" \/ "crashed" \in past'
       /\ Some(posted', {"Down"}) \/ Some(coming', {"Error"}) => "crashed" \in past'
  BY <1>0, <1>1, <1>10, <1>11 DEF Deleting
<1> QED BY <1>0, <1>1, <1>4, <1>6, <1>12 DEF Deleting

\* The other calls keep them.
LEMMA DeletingCalled ==
  ASSUME HeardInv, OrderInv, Call
  PROVE  Deleting' /\ aid' \in AidRec /\ told' = told
<1>0. Types /\ Records /\ Deleting /\ Keeps
  BY CallCarries DEF HeardInv, OrderInv
<1>1. /\ told' = told /\ eng'.status = eng.status /\ eng'.aiding = eng.aiding
      /\ \A w \in {"unsent", "crashed"} : w \in past' <=> w \in past
  BY <1>0, CallFrames
<1>2. ASSUME NEW W \in {{"Mode", "Start"}, {"Mode"}, {"Stop"}, {"Measure"}, {"Unmeasure"}}, Moves(W, {}),
             aid' = aid, Keeps
      PROVE  Deleting' /\ aid' \in AidRec /\ told' = told
  <2>1. W \cap {"DelAid", "Down"} = {} /\ {} \cap {"Error"} = {}
    OBVIOUS
  <2>2. SameAid
    BY <1>1, <1>2 DEF SameAid
  <2>3. Deleting'
    BY <1>0, <1>2, <2>1, <2>2, DeletingStill
  <2> QED BY <1>0, <1>1, <1>2, <2>3 DEF Records
<1>3. ASSUME NEW mode \in Modes, NEW single \in BOOLEAN, Start(mode, single)
      PROVE  Moves({"Mode", "Start"}, {}) /\ aid' = aid /\ Keeps
  BY <1>0, <1>3, OtherMoves, CallsFrames, CallCarries
<1>4. ASSUME NEW mode \in Modes, SetMode(mode)
      PROVE  Moves({"Mode"}, {}) /\ aid' = aid /\ Keeps
  BY <1>0, <1>4, OtherMoves, CallsFrames, CallCarries
<1>5. Stop \/ Cleanup => Moves({"Stop"}, {}) /\ aid' = aid /\ Keeps
  BY <1>0, OtherMoves, CallsFrames, CallCarries
<1>6. /\ MeasurementInit => Moves({"Measure"}, {}) /\ aid' = aid /\ Keeps
      /\ MeasurementClose => Moves({"Unmeasure"}, {}) /\ aid' = aid /\ Keeps
  BY <1>0, OtherMoves, CallsFrames, CallCarries
<1> QED BY <1>2, <1>3, <1>4, <1>5, <1>6, DeletingAsked DEF Call

\* So do the callbacks and the modem.
LEMMA DeletingOther ==
  ASSUME HeardInv, OrderInv, Next \/ UNCHANGED vars, ~Handle
  PROVE  Deleting' /\ aid' \in AidRec /\ told' = told
<1>0. Types /\ Records /\ Deleting /\ posted \in Seq(Words) /\ coming \in Seq(Words)
      /\ aid \in AidRec
  BY Typed DEF HeardInv, OrderInv, Records
<1>1. ASSUME NEW W, NEW V, Moves(W, V), W \cap {"DelAid", "Down"} = {}, V \cap {"Error"} = {},
             Keeps, UNCHANGED <<eng, told, aid>>, past \subseteq past', past' \subseteq past \cup {"finished"}
      PROVE  Deleting' /\ aid' \in AidRec /\ told' = told
  <2>1. SameAid
    BY <1>1 DEF SameAid
  <2> QED BY <1>0, <1>1, <2>1, DeletingStill
<1>2. queue' = queue => Keeps
  BY DEF Keeps
<1>3. CASE Call
  BY <1>3, DeletingCalled
<1>4. CASE eventCb
  <2>1. Moves({"On", "Off", "Pos"}, {"On", "Off", "Pos"}) /\ Keeps
    BY <1>0, <1>4, OtherMoves, DeliverCarries
  <2>2. UNCHANGED <<eng, told, aid, past>>
    BY <1>0, <1>4, ModemFrames DEF Deliver
  <2> QED BY <1>1, <2>1, <2>2
<1>5. CASE errorCb
  <2>1. UNCHANGED <<eng, told, aid, past>> /\ Keeps
    BY <1>0, <1>5, ModemFrames, DeliverCarries DEF Deliver
  <2>2. coming # <<>> /\ coming[1] = "Error" /\ coming' = Tail(coming)
    BY <1>0, <1>5, Delivering DEF TookWire
  <2>3. Some(coming, {"Error"})
    BY <1>0, <2>2, FirstTaken
  <2>4. "crashed" \in past
    BY <1>0, <2>3 DEF Deleting
  <2>5. DueIsNamed => DueIsNamed'
    BY <1>0, <2>1 DEF DueIsNamed, Keeps, AidRec
  <2> QED BY <1>0, <2>1, <2>4, <2>5 DEF Deleting
<1>6. CASE Crash
  <2>1. UNCHANGED <<eng, told, aid, queue>> /\ past' = past \cup {"crashed"}
    BY <1>0, <1>6, ModemFrames
  <2>2. posted' = posted
    BY <1>0, <2>1, Still
  <2> QED BY <1>0, <2>1, <2>2 DEF Deleting, DueIsNamed
<1>7. CASE Return
  BY <1>0, <1>1, <1>2, <1>7, ModemFrames, OtherMoves
<1>8. ASSUME NEW on \in BOOLEAN, EngineTurns(on)
      PROVE  Deleting' /\ aid' \in AidRec /\ told' = told
  BY <1>0, <1>1, <1>2, <1>8, ModemFrames, OtherMoves
<1>9. ASSUME NEW fix \in Fixes, Fixed(fix)
      PROVE  Deleting' /\ aid' \in AidRec /\ told' = told
  BY <1>0, <1>1, <1>2, <1>9, ModemFrames, OtherMoves
<1>10. CASE UNCHANGED vars
  <2>1. UNCHANGED <<queue, posted, coming, eng, told, past, aid>>
    BY <1>10 DEF vars, posted, coming
  <2> QED BY <1>0, <2>1 DEF Deleting, DueIsNamed
<1> QED BY <1>3, <1>4, <1>5, <1>6, <1>7, <1>8, <1>9, <1>10 DEF Next, Deliver

\* The records keep their types.
LEMMA RecordsHandled ==
  ASSUME HeardInv, OrderInv, Handle
  PROVE  Records'
<1>0. Types /\ Records /\ eng \in EngType
  BY DEF HeardInv, OrderInv, Types
<1>1. CASE UNCHANGED <<told, aid>>
  BY <1>0, <1>1 DEF Records
<1>2. HandleMode \/ HandleStart \/ HandleStop \/ HandleEngine \/ HandlePos \/ HandleUp => UNCHANGED <<told, aid>>
  BY DEF HandleMode, HandleStart, HandleStop, HandleEngine, HandlePos, HandleUp
<1>3. HandleOpen \/ HandleOpened \/ HandleMask => UNCHANGED <<told, aid>>
  BY DEF HandleOpen, HandleOpened, HandleMask
<1>4. CASE HandleStatus
  <2>1. PICK s \in Statuses : s = Head1.arg
    BY <1>0, <1>4, TakingOthers
  <2>2. told' = Telling(s) /\ UpdateAiding(Reported(s), aid)
    BY <1>4, <2>1 DEF HandleStatus
  <2>3. Telling(s) \in [engine : Statuses, session : BOOLEAN] /\ Reported(s) \in EngType
    BY <1>0, TellingKeeps
  <2>4. aid' \in AidRec
    <3>1. PICK a \in AidRec : a = aid
      BY <1>0 DEF Records
    <3>2. PICK g \in EngType : UpdateAiding(g, a)
      BY <2>2, <2>3, <3>1
    <3> QED BY <1>0, <3>2, Updating
  <2> QED BY <2>2, <2>3, <2>4 DEF Records
<1>5. CASE HandleDelAid
  <2>1. /\ told' = told /\ Handles("DelAid")
        /\ UpdateAiding([eng EXCEPT !.aiding = Head1.arg],
                        [aid EXCEPT !.overtaken = @ \cup Overtaken(Head1.arg)])
    BY <1>5 DEF HandleDelAid
  <2>2. Head1.arg \in AidTypes
    <3>1. queue # <<>> /\ queue[1].kind = "DelAid" /\ Head1 = queue[1] /\ Head1 \in Message
      BY <1>0, <2>1 DEF Handles, Head1, Types
    <3> QED BY <3>1, Carries
  <2>3. PICK g \in EngType, a \in AidRec : UpdateAiding(g, a)
    <3>1. PICK e \in EngType : e = eng
      BY <1>0
    <3>2. PICK t \in AidTypes : t = Head1.arg
      BY <2>2
    <3>3. [e EXCEPT !.aiding = t] \in EngType
      BY <3>1 DEF EngType
    <3>4. PICK b \in AidRec : b = aid
      BY <1>0 DEF Records
    <3>5. PICK o \in SUBSET AidTypes : o = Overtaken(t)
      BY <1>0 DEF Overtaken, EngType
    <3>6. [b EXCEPT !.overtaken = @ \cup o] \in AidRec
      BY <3>4, <3>5 DEF AidRec
    <3>7. UpdateAiding([e EXCEPT !.aiding = t], [b EXCEPT !.overtaken = @ \cup o])
      BY <2>1, <3>1, <3>2, <3>4, <3>5
    <3> QED BY <3>3, <3>6, <3>7
  <2>4. aid' \in AidRec
    BY <1>0, <2>3, Updating
  <2> QED BY <1>0, <2>1, <2>4 DEF Records
<1>6. CASE HandleDown
  <2>1. told' = Telling("ENGINE_OFF") /\ aid' = aid /\ "ENGINE_OFF" \in Statuses
    BY <1>6 DEF HandleDown, Statuses
  <2>2. told' \in [engine : Statuses, session : BOOLEAN]
    BY <1>0, <2>1, TellingKeeps
  <2> QED BY <1>0, <2>1, <2>2 DEF Records
<1> QED BY <1>1, <1>2, <1>3, <1>4, <1>5, <1>6 DEF Handle

-----------------------------------------------------------------------------
(* The order is kept, and what it says at rest *)

\* It holds at first, when the client is yet to be opened.
LEMMA InitOrder == Init => OrderInv
<1> SUFFICES ASSUME Init PROVE OrderInv
  OBVIOUS
<1>1. /\ want = FALSE /\ asked = Invalid /\ queue = <<Msg("Open")>> /\ wire = <<>>
      /\ eng = [navigating |-> FALSE, mode |-> Invalid, single |-> FALSE, status |-> "NONE", aiding |-> None,
                meas |-> FALSE]
      /\ api = [inSession |-> FALSE, engineOn |-> FALSE, meas |-> FALSE] /\ conn = "closed"
      /\ modem = [Down EXCEPT !.up = TRUE]
      /\ told = [engine |-> "NONE", session |-> FALSE] /\ aid = [due |-> {}, overtaken |-> {}] /\ past = {}
  BY DEF Init
<1>2. ~eng.navigating /\ eng.status = "NONE" /\ eng.aiding = None
      /\ ~api.engineOn /\ ~modem.session /\ told.engine = "NONE" /\ aid.due = {}
  BY <1>1 DEF Down
<1>3. /\ Len(posted) = 1 /\ posted[1] = "Open" /\ DOMAIN posted = {1}
      /\ Len(coming) = 0 /\ DOMAIN coming = {}
  <2>1. Msg("Open") \in Any /\ Tag(Msg("Open")) = "Open"
    BY Posted, WordsOf DEF Any, Plain
  <2>2. <<Msg("Open")>> \in Seq(Any) /\ Tags(<<Msg("Open")>>) = <<"Open">>
    BY <2>1, TagsOne
  <2>3. posted = <<"Open">>
    BY <1>1, <2>2 DEF posted
  <2>4. Len(coming) = 0 /\ DOMAIN coming = {}
    <3>1. <<>> \in Seq(Any) /\ Len(<<>>) = 0 /\ DOMAIN <<>> = {}
      OBVIOUS
    <3>2. coming = Tags(<<>>)
      BY <1>1 DEF coming
    <3> QED BY <3>1, <3>2, TagsOf
  <2> QED BY <2>3, <2>4
<1>4. /\ queue[1].kind = "Open" /\ DOMAIN queue = {1} /\ DOMAIN wire = {}
  BY <1>1 DEF Msg
<1>5. Records
  BY <1>1 DEF Records, AidRec, Statuses
<1>6. Reopens
  BY <1>1, <1>2, <1>3 DEF Reopens, Once, After, Some, Paired
<1>7. Positions
  BY <1>1, <1>2, <1>3, <1>4 DEF Positions, Never, Some, Shared, Passing, AllOf
<1>8. Wish
  BY <1>1, <1>2, <1>3 DEF Wish, Wanted, WantedBy, Settled, SettledBy, Covered, Begins
<1>9. Runs
  BY <1>1 DEF Runs
<1>10. Mode
  BY <1>1, <1>2, <1>4 DEF Mode, LastMode
<1>11. Told
  BY <1>2, <1>3 DEF Told, WillSayOff, SaysOff, Covered, Some, MeasuredBy
<1>12. Deleting
  BY <1>1, <1>2, <1>3, <1>4 DEF Deleting, DueIsNamed, Some
<1> QED BY <1>5, <1>6, <1>7, <1>8, <1>9, <1>10, <1>11, <1>12 DEF OrderInv

\* Every step keeps it, unless a course of events happens that the code does not stand.
LEMMA NextOrder ==
  ASSUME Allowed = {}, HeardInv, OrderInv, [Next]_vars
  PROVE  OrderInv'
<1>0. HeardInv' /\ (Next \/ UNCHANGED vars) /\ Reopens /\ Positions
  BY NextInv DEF OrderInv
<1>1. CASE Handle
  <2>1. Records' /\ Reopens' /\ Positions' /\ Wish'
    BY <1>0, <1>1, RecordsHandled, ReopensHandled, PositionsHandled, WishHandled
  <2>2. Runs' /\ Mode' /\ Told' /\ Deleting'
    BY <1>0, <1>1, RunsHandled, ModeHandled, ToldHandled, DeletingHandled
  <2> QED BY <2>1, <2>2 DEF OrderInv
<1>2. CASE ~Handle
  <2>1. Reopens' /\ Wish'
    BY <1>0, <1>2, ReopensOther, WishOther
  <2>2. Positions'
    BY <1>0, <1>2, PositionsCalled, PositionsPosted, PositionsOther
  <2>3. Runs' /\ Mode' /\ Told'
    BY <1>0, <1>2, RunsOther, ModeOther, ToldOther
  <2>4. Deleting' /\ aid' \in AidRec /\ told' = told
    BY <1>0, <1>2, DeletingOther
  <2>5. Records'
    BY <2>4 DEF OrderInv, Records
  <2> QED BY <2>1, <2>2, <2>3, <2>4, <2>5 DEF OrderInv
<1> QED BY <1>1, <1>2

\* What the order says when everything is handled.
LEMMA AtRestAll ==
  ASSUME HeardInv, OrderInv
  PROVE  LastCallWins /\ DeletedOrWaiting
<1> SUFFICES ASSUME AtRest PROVE LastCallWins /\ DeletedOrWaiting
  BY DEF LastCallWins, DeletedOrWaiting
<1>0. eng.navigating \in BOOLEAN /\ want \in BOOLEAN
  BY DEF HeardInv, Types, EngType
<1>1. conn = "open" /\ DOMAIN posted = {} /\ DOMAIN coming = {} /\ DOMAIN queue = {}
  <2>1. queue = <<>> /\ wire = <<>> /\ conn = "open"
    BY DEF AtRest
  <2>2. <<>> \in Seq(Any) /\ DOMAIN <<>> = {}
    OBVIOUS
  <2> QED BY <2>1, <2>2, TagsOf DEF posted, coming
<1>2. \A P : ~Some(posted, P) /\ ~Some(coming, P)
  BY <1>1 DEF Some
<1>3. ASSUME "refused" \notin past PROVE eng.navigating = want
  <2>1. Wanted => eng.navigating
    BY <1>1, <1>2 DEF Wanted, WantedBy, Covered
  <2>2. eng.navigating => Wanted
    BY <1>2 DEF Wanted, WantedBy
  <2>3. Wanted <=> want
    BY <1>3 DEF OrderInv, Wish
  <2> QED BY <2>1, <2>2, <2>3, <1>0
<1>4. "refused" \notin past => modem.session = want \/ "finished" \in past
  BY <1>1, <1>2, <1>3 DEF OrderInv, Runs
<1>5. ASSUME modem.session, want, past \cap {"refused", "restarted"} = {} PROVE modem.mode = asked
  <2>1. eng.mode = asked /\ asked \in Modes /\ modem.mode = Use(eng.mode)
    BY <1>2, <1>3, <1>5 DEF OrderInv, Mode
  <2> QED BY <2>1 DEF Use, Modes
<1>6. told.engine = "ENGINE_ON" /\ "unstopped" \notin past => modem.engine
  BY <1>2 DEF OrderInv, Told, WillSayOff, SaysOff, OffIsNews
<1>7. LastCallWins
  BY <1>3, <1>4, <1>5, <1>6 DEF LastCallWins
<1>8. DeletedOrWaiting
  <2> SUFFICES ASSUME past \cap {"unsent", "crashed", "unstopped"} = {}, NEW t \in AidTypes, t \in aid.due,
                      t \notin aid.overtaken
               PROVE  eng.aiding = t /\ modem.engine
    BY DEF DeletedOrWaiting, OrderInv, Records, AidRec
  <2>1. ~Requested(queue, t)
    BY <1>1 DEF Requested
  <2>2. eng.aiding = t
    BY <2>1 DEF OrderInv, Deleting, DueIsNamed
  <2>3. told.engine = "ENGINE_ON"
    BY <2>2, BoundsAssumption DEF OrderInv, Deleting
  <2> QED BY <1>6, <2>2, <2>3
<1> QED BY <1>7, <1>8

\* The last call wins: once every message is handled and every indication delivered, the
\* engine and the modem are in the session the framework asked for last, in its mode, and it
\* was not told of an engine that is off that it is on; however the calls of loc.cpp, the
\* handlers of loc_eng.cpp and the callbacks and restarts of LocApiV02.cpp were interleaved,
\* as long as none of the named courses was taken.
THEOREM LastCallHolds ==
  ASSUME Allowed = {}
  PROVE  Spec => []LastCallWins
<1>1. Init => HeardInv /\ OrderInv
  BY InitInv, InitOrder
<1>2. HeardInv /\ OrderInv /\ [Next]_vars => (HeardInv /\ OrderInv)'
  BY NextInv, NextOrder
<1>3. HeardInv /\ OrderInv => LastCallWins
  BY AtRestAll
<1> QED BY <1>1, <1>2, <1>3, PTL DEF Spec

\* Every kind of aiding data asked to be deleted (loc_eng_delete_aiding_data) and not deleted since
\* waits in the engine for a positioning engine that is on, or has been replaced there by a later
\* request for another kind (loc_eng.cpp:1301), unless the modem crashed, refused to stop, or could
\* not be told.
THEOREM AskedWaits ==
  ASSUME Allowed = {}
  PROVE  Spec => []DeletedOrWaiting
<1>1. Init => HeardInv /\ OrderInv
  BY InitInv, InitOrder
<1>2. HeardInv /\ OrderInv /\ [Next]_vars => (HeardInv /\ OrderInv)'
  BY NextInv, NextOrder
<1>3. HeardInv /\ OrderInv => DeletedOrWaiting
  BY AtRestAll
<1> QED BY <1>1, <1>2, <1>3, PTL DEF Spec
=============================================================================
