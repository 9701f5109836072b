-------------------------- MODULE LocThreadsProofs --------------------------
(* Theorems about the places of gps/ where threads meet at locks and time-outs. *)
(* About LocNi, for every number of requests and restarts: the types, that a    *)
(* request in a session has its thread, and that the modem hears at most one    *)
(* answer to it.  About SyncReq, for any number of threads, slots, keys and     *)
(* calls: the types, that an indication is written only into a buffer whose     *)
(* caller still waits, and that a call returns the answer to its own request.   *)
EXTENDS LocNi, SyncReq, TLAPS

-----------------------------------------------------------------------------
(* LocNi: the invariant *)

\* Threads that took a request carry its number to the modem.
Owns(m, n) ==
  thread[m].at \in {"took", "ending", "sent"} /\ thread[m].msg.req = n

\* Requests not begun have neither thread nor answer; the one the worker is giving a thread has
\* none yet, though an older thread of its session may have taken it already.
Numbered ==
  /\ \A n \in Requests :
       n > reqIDCounter =>
         thread[n].at = "none" /\ answers[n] = <<>> /\ \A m \in Requests : ~Owns(m, n)
  /\ \A s \in Sessions : session[s].rawRequest <= reqIDCounter
  /\ worker.at = "filling" => /\ reqIDCounter # 0
                              /\ thread[reqIDCounter].at = "none"
                              /\ session[worker.s].rawRequest \in {0, reqIDCounter}

\* A request still in its session has no owner but one that holds the lock of the session, and
\* no answer; a request with an answer has no owner, and no request has two.
OwnedOnce ==
  /\ \A s \in Sessions, n \in Requests :
       session[s].rawRequest = n =>
         /\ answers[n] = <<>>
         /\ \A m \in Requests : Owns(m, n) => thread[m].at = "took" /\ thread[m].s = s
  /\ \A m, n \in Requests : Owns(m, n) => answers[n] = <<>>
  /\ \A m, k, n \in Requests : Owns(m, n) /\ Owns(k, n) => m = k

\* The inductive invariant.
NiInv == TypeOK /\ GuardedByThread /\ Numbered /\ OwnedOnce /\ OneAnswer

-----------------------------------------------------------------------------
(* Types *)

\* The initial state has the types.
LEMMA InitType == Init => TypeOK
<1> SUFFICES ASSUME Init PROVE TypeOK
  OBVIOUS
<1>0. 0 \in 0..MaxRequests /\ 0 \in 0..MaxRestarts
  BY BoundsAssumption
<1> USE <1>0 DEF Init
<1>1. session \in [Sessions -> SessionType]
  BY DEF SessionType, Resps
<1>2. thread \in [Requests -> ThreadType]
  <2>1. [at |-> "none", s |-> "ni", msg |-> NoMsg] \in ThreadType
    BY DEF ThreadType, MsgType, NoMsg, Sessions, Resps
  <2> QED BY <2>1
<1>3. worker \in WorkerType
  BY DEF WorkerType, Idle, Sessions
<1>4. user \in UserType
  BY DEF UserType, Sessions, Resps
<1>5. said \in [Requests -> Words \cup {"nothing"}] /\ answers \in [Requests -> Seq(Words \cup {"NORESP"})]
  OBVIOUS
<1> QED BY <1>1, <1>2, <1>3, <1>4, <1>5 DEF TypeOK

\* Each action keeps the types.
LEMMA NextType == TypeOK /\ [Next]_vars => TypeOK'
<1> SUFFICES ASSUME TypeOK, [Next]_vars PROVE TypeOK'
  OBVIOUS
<1>z. 0 \in 0..MaxRequests
  BY BoundsAssumption
<1> USE BoundsAssumption
<1>0. /\ session \in [Sessions -> SessionType] /\ thread \in [Requests -> ThreadType]
      /\ worker \in WorkerType /\ user \in UserType
      /\ reqIDCounter \in 0..MaxRequests /\ restarts \in 0..MaxRestarts
  BY DEF TypeOK
<1>w. ThenNext \in WorkerType
  BY <1>0 DEF ThenNext, WorkerType, Idle, Sessions
<1>1. ASSUME NEW s \in Sessions, request(s) PROVE TypeOK'
  <2>1. session' \in [Sessions -> SessionType]
    BY <1>0, <1>1 DEF request, SessionType
  <2>2. worker' \in WorkerType
    BY <1>1 DEF request, WorkerType
  <2> QED BY <1>1, <2>1, <2>2 DEF request, TypeOK
<1>2. ASSUME notify PROVE TypeOK'
  <2>1. session' \in [Sessions -> SessionType]
    BY <1>0, <1>2 DEF notify, SessionType
  <2>2. thread' \in [Requests -> ThreadType]
    <3>1. [at |-> "waiting", s |-> worker.s, msg |-> NoMsg] \in ThreadType
      BY <1>0 DEF ThreadType, MsgType, NoMsg, Resps, WorkerType
    <3> QED BY <1>0, <1>2, <3>1 DEF notify
  <2>3. worker' \in WorkerType
    BY <1>2 DEF notify, WorkerType, Idle, Sessions
  <2> QED BY <1>2, <2>1, <2>2, <2>3 DEF notify, TypeOK
<1>3. ASSUME engine_down PROVE TypeOK'
  <2>1. worker' \in WorkerType
    BY <1>3 DEF engine_down, WorkerType, Sessions
  <2> QED BY <1>3, <2>1 DEF engine_down, TypeOK
<1>4. ASSUME reset_looks PROVE TypeOK'
  <2>1. worker' \in WorkerType
    <3>1. [worker EXCEPT !.at = "freed"] \in WorkerType
      BY <1>0 DEF WorkerType
    <3> QED BY <1>4, <1>w, <3>1 DEF reset_looks
  <2> QED BY <1>4, <2>1 DEF reset_looks, TypeOK
<1>5. ASSUME reset_clears PROVE TypeOK'
  <2>1. session' \in [Sessions -> SessionType]
    BY <1>0, <1>z, <1>5 DEF reset_clears, SessionType
  <2>2. worker' \in WorkerType
    BY <1>0, <1>5 DEF reset_clears, WorkerType
  <2> QED BY <1>5, <2>1, <2>2 DEF reset_clears, TypeOK
<1>6. ASSUME reset_wakes PROVE TypeOK'
  <2>1. session' \in [Sessions -> SessionType]
    BY <1>0, <1>6 DEF reset_wakes, SessionType
  <2> QED BY <1>6, <1>w, <2>1 DEF reset_wakes, TypeOK
<1>7. ASSUME NEW n \in Requests, informNiResponse(n) PROVE TypeOK'
  <2>1. thread' \in [Requests -> ThreadType]
    BY <1>0, <1>7 DEF informNiResponse, ThreadType
  <2>2. answers' \in [Requests -> Seq(Words \cup {"NORESP"})]
    <3> DEFINE T == Words \cup {"NORESP"}
               m == thread[n].msg
    <3>1. answers \in [Requests -> Seq(T)]
      BY DEF TypeOK
    <3>2. CASE m.resp \notin T
      BY <1>7, <3>1, <3>2 DEF informNiResponse
    <3>3. CASE m.resp \in T
      <4>1. answers' = [answers EXCEPT ![m.req] = Append(@, m.resp)]
        BY <1>7, <3>3 DEF informNiResponse
      <4>2. m.req \in Requests => Append(answers[m.req], m.resp) \in Seq(T)
        BY <3>1, <3>3
      <4> QED BY <3>1, <4>1, <4>2
    <3> QED BY <3>2, <3>3
  <2> QED BY <1>7, <2>1, <2>2 DEF informNiResponse, TypeOK
<1>8. ASSUME NEW n \in Requests, NEW word \in Words, respond(n, word) PROVE TypeOK'
  <2>1. user' \in UserType
    <3>1. \A s \in Sessions : session[s].rawRequest \in 0..MaxRequests
      BY <1>0 DEF SessionType
    <3>2. word \in Resps /\ n \in 0..MaxRequests /\ "ni" \in Sessions /\ "es" \in Sessions
      BY DEF Resps, Requests, Sessions
    <3> QED BY <1>0, <1>8, <3>1, <3>2 DEF respond, UserType
  <2> QED BY <1>8, <2>1 DEF respond, TypeOK
<1>9. ASSUME respond_ignores PROVE TypeOK'
  <2>1. session' \in [Sessions -> SessionType]
    BY <1>0, <1>9 DEF respond_ignores, Stores, SessionType, Resps
  <2>2. user' \in UserType
    BY <1>0, <1>9 DEF respond_ignores, UserType
  <2> QED BY <1>9, <2>1, <2>2 DEF respond_ignores, Stores, TypeOK
<1>10. ASSUME respond_stores PROVE TypeOK'
  <2>1. session' \in [Sessions -> SessionType]
    BY <1>0, <1>10 DEF respond_stores, Stores, SessionType, UserType
  <2>2. user' \in UserType
    BY <1>0, <1>10 DEF respond_stores, UserType
  <2> QED BY <1>10, <2>1, <2>2 DEF respond_stores, Stores, TypeOK
<1>11. ASSUME NEW n \in Requests, take(n) PROVE TypeOK'
  <2>1. PICK resp \in Outcomes(thread[n].s) :
          /\ session' = [session EXCEPT ![thread[n].s].resp = resp, ![thread[n].s].respRecvd = FALSE]
          /\ thread' = [thread EXCEPT
               ![n].at  = IF session[thread[n].s].rawRequest = 0 THEN "ending" ELSE "took",
               ![n].msg = IF session[thread[n].s].rawRequest = 0 \/ resp = "IGNORE" THEN NoMsg
                          ELSE [req |-> session[thread[n].s].rawRequest, resp |-> resp]]
    BY <1>11 DEF take
  <2>2. thread[n].s \in Sessions
    BY <1>0 DEF ThreadType
  <2>3. session[thread[n].s] \in SessionType
    BY <1>0, <2>2
  <2>4. resp \in Resps
    BY <2>1, <2>3 DEF Outcomes, SessionType, Resps
  <2>5. session' \in [Sessions -> SessionType]
    BY <1>0, <2>1, <2>4 DEF SessionType
  <2>6. (IF session[thread[n].s].rawRequest = 0 \/ resp = "IGNORE" THEN NoMsg
         ELSE [req |-> session[thread[n].s].rawRequest, resp |-> resp]) \in MsgType
    BY <2>3, <2>4 DEF MsgType, SessionType, NoMsg, Resps
  <2>7. thread' \in [Requests -> ThreadType]
    <3> DEFINE at  == IF session[thread[n].s].rawRequest = 0 THEN "ending" ELSE "took"
               msg == IF session[thread[n].s].rawRequest = 0 \/ resp = "IGNORE" THEN NoMsg
                      ELSE [req |-> session[thread[n].s].rawRequest, resp |-> resp]
    <3>1. thread' = [thread EXCEPT ![n] = [@ EXCEPT !.at = at, !.msg = msg]]
      BY <1>0, <2>1 DEF ThreadType
    <3>2. at \in {"none", "waiting", "took", "ending", "sent", "done"} /\ msg \in MsgType
      BY <2>6
    <3> HIDE DEF at, msg
    <3>3. [thread[n] EXCEPT !.at = at, !.msg = msg] \in ThreadType
      BY <1>0, <3>2 DEF ThreadType
    <3> QED BY <1>0, <3>1, <3>3
  <2> QED BY <1>11, <2>5, <2>7 DEF take, TypeOK
<1>12. ASSUME NEW n \in Requests, unlock(n) PROVE TypeOK'
  <2>1. session' \in [Sessions -> SessionType]
    BY <1>0, <1>z, <1>12 DEF unlock, SessionType
  <2>2. thread' \in [Requests -> ThreadType]
    BY <1>0, <1>12 DEF unlock, ThreadType
  <2> QED BY <1>12, <2>1, <2>2 DEF unlock, TypeOK
<1>13. ASSUME NEW n \in Requests, end(n) PROVE TypeOK'
  <2>1. session' \in [Sessions -> SessionType]
    BY <1>0, <1>z, <1>13 DEF end, SessionType
  <2>2. thread' \in [Requests -> ThreadType]
    BY <1>0, <1>13 DEF end, ThreadType
  <2> QED BY <1>13, <2>1, <2>2 DEF end, TypeOK
<1>14. CASE UNCHANGED vars
  BY <1>14 DEF vars, TypeOK
<1> QED
  BY <1>1, <1>2, <1>3, <1>4, <1>5, <1>6, <1>7, <1>8, <1>9, <1>10, <1>11, <1>12, <1>13, <1>14
  DEF Next

\* The fields keep their types (loc_eng_ni.h).
THEOREM TypeCorrect == Spec => []TypeOK
BY InitType, NextType, PTL DEF Spec

-----------------------------------------------------------------------------
(* A request has its thread, and one answer *)

LEMMA InitInv == Init => NiInv
<1> SUFFICES ASSUME Init PROVE NiInv
  OBVIOUS
<1>1. TypeOK
  BY InitType
<1>2. \A s \in Sessions : session[s].rawRequest = 0
  BY DEF Init
<1>3. GuardedByThread
  BY <1>2 DEF GuardedByThread, Requests
<1>4. Numbered
  BY <1>2 DEF Init, Numbered, Owns, Idle, Requests
<1>5. OwnedOnce
  BY <1>2 DEF Init, OwnedOnce, Owns
<1>6. OneAnswer
  BY DEF Init, OneAnswer
<1> QED BY <1>1, <1>3, <1>4, <1>5, <1>6 DEF NiInv

\* A step that at most empties sessions, and leaves the threads, the answers and a request the
\* worker is taking up as they are, keeps the invariant: the restart and the user's answers.
LEMMA EmptyingKeeps ==
  ASSUME NiInv, TypeOK', UNCHANGED <<thread, answers, reqIDCounter>>,
         \A s \in Sessions : session'[s].rawRequest \in {0, session[s].rawRequest},
         worker' = worker \/ (worker.at # "filling" /\ worker'.at # "filling")
  PROVE  NiInv'
<1> USE DEF NiInv
<1>0. \A m, n \in Requests : Owns(m, n)' <=> Owns(m, n)
  BY DEF Owns
<1>1. GuardedByThread'
  BY DEF GuardedByThread, Requests
<1>2. Numbered'
  <2>1. \A s \in Sessions : session'[s].rawRequest <= reqIDCounter'
    <3>1. reqIDCounter \in Nat /\ reqIDCounter' = reqIDCounter
      BY BoundsAssumption DEF TypeOK
    <3> QED BY <3>1 DEF Numbered
  <2>2. worker'.at = "filling" => worker' = worker /\ worker.s \in Sessions
    BY DEF TypeOK, WorkerType
  <2> QED BY <1>0, <2>1, <2>2 DEF Numbered
<1>3. OwnedOnce'
  <2>1. \A s \in Sessions, n \in Requests :
          session'[s].rawRequest = n => session[s].rawRequest = n
    BY DEF Requests
  <2> QED BY <1>0, <2>1 DEF OwnedOnce
<1>4. OneAnswer'
  BY DEF OneAnswer
<1> QED BY <1>1, <1>2, <1>3, <1>4

\* Only the thread that takes the request holds the lock for more than a step.
LEMMA TookIsLocked ==
  ASSUME NEW s \in Sessions, NEW m \in Requests, thread[m].at = "took", thread[m].s = s
  PROVE  Locked(s)
BY DEF Locked

\* No request is in both sessions.
LEMMA OneSession ==
  ASSUME NiInv, NEW s \in Sessions, NEW u \in Sessions, NEW k \in Requests,
         session[s].rawRequest = k, session[u].rawRequest = k
  PROVE  s = u
<1>1. ASSUME NEW v \in Sessions, NEW w \in Sessions, worker = [at |-> "filling", s |-> v],
             session[v].rawRequest = k, thread[k].s = w, thread[k].at \in {"waiting", "took"}
      PROVE  FALSE
  <2>1. k = reqIDCounter /\ thread[reqIDCounter].at = "none"
    BY <1>1 DEF NiInv, Numbered, Requests
  <2> QED BY <1>1, <2>1
<1>2. \/ worker = [at |-> "filling", s |-> s]
      \/ thread[k].s = s /\ thread[k].at \in {"waiting", "took"}
  BY DEF NiInv, GuardedByThread
<1>3. \/ worker = [at |-> "filling", s |-> u]
      \/ thread[k].s = u /\ thread[k].at \in {"waiting", "took"}
  BY DEF NiInv, GuardedByThread
<1>4. CASE worker = [at |-> "filling", s |-> s] /\ worker = [at |-> "filling", s |-> u]
  <2>1. worker.s = s /\ worker.s = u
    BY <1>4
  <2> QED BY <2>1
<1> QED BY <1>1, <1>2, <1>3, <1>4

\* Each action keeps the invariant.
LEMMA NextInv == NiInv /\ [Next]_vars => NiInv'
<1> SUFFICES ASSUME NiInv, [Next]_vars PROVE NiInv'
  OBVIOUS
<1>t. TypeOK /\ TypeOK'
  BY NextType DEF NiInv
<1>f. /\ session \in [Sessions -> SessionType] /\ thread \in [Requests -> ThreadType]
      /\ worker \in WorkerType /\ user \in UserType /\ reqIDCounter \in 0..MaxRequests
      /\ answers \in [Requests -> Seq(Words \cup {"NORESP"})]
  BY <1>t DEF TypeOK
<1>n. reqIDCounter \in Nat /\ \A u \in Sessions : session[u].rawRequest \in Nat
  <2>1. \A i \in 0..MaxRequests : i \in Nat
    BY BoundsAssumption
  <2>2. \A u \in Sessions : session[u].rawRequest \in 0..MaxRequests
    BY <1>f DEF SessionType
  <2>3. \A u \in Sessions : session[u].rawRequest \in Nat
    BY <2>1, <2>2
  <2> QED BY <1>f, <2>1, <2>3
<1>3. ASSUME engine_down PROVE NiInv'
  BY <1>t, <1>3, EmptyingKeeps DEF engine_down
<1>4. ASSUME reset_looks PROVE NiInv'
  <2>1. worker.at # "filling" /\ worker'.at # "filling"
    BY <1>4, <1>f DEF reset_looks, ThenNext, Idle, WorkerType
  <2> QED BY <1>t, <1>4, <2>1, EmptyingKeeps DEF reset_looks
<1>5. ASSUME reset_clears PROVE NiInv'
  <2>1. worker.at # "filling" /\ worker'.at # "filling"
    BY <1>5, <1>f DEF reset_clears, WorkerType
  <2>2. \A s \in Sessions : session'[s].rawRequest \in {0, session[s].rawRequest}
    BY <1>5, <1>f DEF reset_clears, WorkerType, SessionType
  <2> QED BY <1>t, <1>5, <2>1, <2>2, EmptyingKeeps DEF reset_clears
<1>6. ASSUME reset_wakes PROVE NiInv'
  <2>1. worker.at # "filling" /\ worker'.at # "filling"
    BY <1>6 DEF reset_wakes, ThenNext, Idle
  <2>2. \A s \in Sessions : session'[s].rawRequest \in {0, session[s].rawRequest}
    BY <1>6, <1>f DEF reset_wakes, WorkerType, SessionType
  <2> QED BY <1>t, <1>6, <2>1, <2>2, EmptyingKeeps DEF reset_wakes
<1>8. ASSUME NEW n \in Requests, NEW word \in Words, respond(n, word) PROVE NiInv'
  BY <1>t, <1>8, EmptyingKeeps DEF respond
<1>9. ASSUME respond_ignores PROVE NiInv'
  <2>1. \A s \in Sessions : session'[s].rawRequest \in {0, session[s].rawRequest}
    BY <1>9, <1>f DEF respond_ignores, Stores, SessionType
  <2> QED BY <1>t, <1>9, <2>1, EmptyingKeeps DEF respond_ignores, Stores
<1>10. ASSUME respond_stores PROVE NiInv'
  <2>1. \A s \in Sessions : session'[s].rawRequest \in {0, session[s].rawRequest}
    BY <1>10, <1>f DEF respond_stores, Stores, SessionType
  <2> QED BY <1>t, <1>10, <2>1, EmptyingKeeps DEF respond_stores, Stores
<1>14. CASE UNCHANGED vars
  BY <1>t, <1>14, EmptyingKeeps DEF vars
<1>1. ASSUME NEW s \in Sessions, request(s) PROVE NiInv'
  <2>1. /\ reqIDCounter' = reqIDCounter + 1 /\ reqIDCounter' \in Requests
        /\ thread' = thread /\ answers' = answers
        /\ worker.at = "idle" /\ worker' = [at |-> "filling", s |-> s]
    BY <1>1, <1>f, BoundsAssumption DEF request, Requests
  <2>2. /\ session'[s].rawRequest = reqIDCounter'
        /\ \A u \in Sessions : u # s => session'[u].rawRequest = session[u].rawRequest
    BY <1>1, <1>f, <2>1 DEF request, SessionType
  <2>3. \A m, n \in Requests : Owns(m, n)' <=> Owns(m, n)
    BY <2>1 DEF Owns
  <2>4. /\ thread[reqIDCounter'].at = "none" /\ answers[reqIDCounter'] = <<>>
        /\ \A m \in Requests : ~Owns(m, reqIDCounter')
    BY <1>f, <2>1, BoundsAssumption DEF NiInv, Numbered
  <2>5. GuardedByThread'
    BY <2>1, <2>2 DEF GuardedByThread, NiInv
  <2>6. Numbered'
    <3>1. \A n \in Requests : n > reqIDCounter' => n > reqIDCounter
      BY <1>f, <2>1, BoundsAssumption DEF Requests
    <3>2. \A u \in Sessions : session'[u].rawRequest <= reqIDCounter'
      <4>1. \A u \in Sessions : session[u].rawRequest <= reqIDCounter
        BY DEF NiInv, Numbered
      <4> QED BY <1>n, <2>1, <2>2, <4>1
    <3>3. reqIDCounter' # 0
      BY <2>1 DEF Requests
    <3> QED BY <2>1, <2>2, <2>3, <2>4, <3>1, <3>2, <3>3 DEF NiInv, Numbered
  <2>7. OwnedOnce'
    BY <2>1, <2>2, <2>3, <2>4 DEF NiInv, OwnedOnce
  <2>8. OneAnswer'
    BY <2>1 DEF NiInv, OneAnswer
  <2> QED BY <1>t, <2>5, <2>6, <2>7, <2>8 DEF NiInv
<1>2. ASSUME notify PROVE NiInv'
  <2>1. /\ worker.at = "filling" /\ worker'.at = "idle" /\ worker.s \in Sessions
        /\ reqIDCounter' = reqIDCounter /\ answers' = answers
        /\ reqIDCounter \in Requests /\ thread[reqIDCounter].at = "none"
    BY <1>2, <1>f, BoundsAssumption DEF notify, Idle, WorkerType, NiInv, Numbered, Requests
  <2>2. \A u \in Sessions : session'[u].rawRequest = session[u].rawRequest
    BY <1>2, <1>f, <2>1 DEF notify, SessionType
  <2>3. /\ thread'[reqIDCounter].at = "waiting" /\ thread'[reqIDCounter].s = worker.s
        /\ \A n \in Requests : n # reqIDCounter => thread'[n] = thread[n]
    BY <1>2, <1>f, <2>1 DEF notify
  <2>4. \A m, n \in Requests : Owns(m, n)' <=> Owns(m, n)
    BY <2>1, <2>3 DEF Owns
  <2>5. GuardedByThread'
    <3> SUFFICES ASSUME NEW u \in Sessions, NEW n \in Requests, session[u].rawRequest = n
                 PROVE  thread'[n].s = u /\ thread'[n].at \in {"waiting", "took"}
      BY <2>2 DEF GuardedByThread
    <3>1. CASE u = worker.s
      BY <2>1, <2>3, <3>1 DEF NiInv, Numbered, Requests
    <3>2. CASE u # worker.s
      <4>1. worker # [at |-> "filling", s |-> u]
        BY <3>2
      <4>2. thread[n].s = u /\ thread[n].at \in {"waiting", "took"}
        BY <4>1 DEF NiInv, GuardedByThread
      <4>3. n # reqIDCounter
        BY <2>1, <4>2
      <4> QED BY <2>3, <4>2, <4>3
    <3> QED BY <3>1, <3>2
  <2>6. Numbered'
    <3>1. \A n \in Requests : n > reqIDCounter => n # reqIDCounter
      BY <2>1 DEF Requests
    <3> QED BY <2>1, <2>2, <2>3, <2>4, <3>1 DEF NiInv, Numbered
  <2>7. OwnedOnce'
    <3>1. \A m, n \in Requests : Owns(m, n) => thread'[m] = thread[m]
      BY <2>1, <2>3 DEF Owns
    <3> QED BY <2>1, <2>2, <2>4, <3>1 DEF NiInv, OwnedOnce
  <2>8. OneAnswer'
    BY <2>1 DEF NiInv, OneAnswer
  <2> QED BY <1>t, <2>5, <2>6, <2>7, <2>8 DEF NiInv
<1>7. ASSUME NEW n \in Requests, informNiResponse(n) PROVE NiInv'
  <2> DEFINE r == thread[n].msg.req
  <2>1. /\ session' = session /\ reqIDCounter' = reqIDCounter /\ worker' = worker
        /\ worker.at = "idle" /\ thread[n].at = "sent"
        /\ thread'[n].at = "done"
        /\ \A m \in Requests : m # n => thread'[m] = thread[m]
    BY <1>7, <1>f DEF informNiResponse
  <2>2. \A m, k \in Requests : Owns(m, k)' => Owns(m, k) /\ m # n
    BY <2>1 DEF Owns
  <2>3. \A k \in Requests : k # r => answers'[k] = answers[k]
    BY <1>7, <1>f DEF informNiResponse
  <2>4. r \in Requests => Owns(n, r)
    BY <2>1 DEF Owns
  <2>5. r \in Requests => answers[r] = <<>> /\ Len(answers'[r]) <= 1
    <3>1. r \in Requests => answers[r] = <<>>
      BY <2>4 DEF NiInv, OwnedOnce
    <3>2. CASE answers' = answers
      BY <3>1, <3>2
    <3>3. CASE answers' = [answers EXCEPT ![r] = Append(@, thread[n].msg.resp)]
      BY <1>f, <3>1, <3>3
    <3> QED BY <1>7, <3>1, <3>2, <3>3 DEF informNiResponse
  <2>6. GuardedByThread'
    BY <2>1 DEF NiInv, GuardedByThread
  <2>7. Numbered'
    <3>1. \A k \in Requests : k > reqIDCounter => k # r /\ k # n
      BY <2>1, <2>4 DEF NiInv, Numbered
    <3> QED BY <2>1, <2>2, <2>3, <3>1 DEF NiInv, Numbered
  <2>8. OwnedOnce'
    <3>1. \A m, k \in Requests : Owns(m, k)' => k # r /\ Owns(m, k) /\ thread'[m] = thread[m]
      BY <2>1, <2>2, <2>4 DEF NiInv, OwnedOnce
    <3>2. \A s \in Sessions : session[s].rawRequest # r \/ r \notin Requests
      BY <2>1, <2>4 DEF NiInv, OwnedOnce
    <3> QED BY <2>1, <2>3, <3>1, <3>2 DEF NiInv, OwnedOnce
  <2>9. OneAnswer'
    BY <2>3, <2>5 DEF NiInv, OneAnswer
  <2> QED BY <1>t, <2>6, <2>7, <2>8, <2>9 DEF NiInv
<1>12. ASSUME NEW n \in Requests, unlock(n) PROVE NiInv'
  <2>1. /\ reqIDCounter' = reqIDCounter /\ worker' = worker /\ answers' = answers
        /\ thread[n].at = "took" /\ thread'[n].at = "ending" /\ thread'[n].msg = thread[n].msg
        /\ \A m \in Requests : m # n => thread'[m] = thread[m]
    BY <1>12, <1>f DEF unlock, ThreadType
  <2>2. /\ session'[thread[n].s].rawRequest = 0
        /\ \A u \in Sessions : u # thread[n].s => session'[u] = session[u]
    BY <1>12, <1>f DEF unlock, ThreadType, SessionType
  <2>3. \A m, k \in Requests : Owns(m, k)' <=> Owns(m, k)
    BY <2>1 DEF Owns
  <2>4. \A u \in Sessions, k \in Requests :
          session'[u].rawRequest = k => session[u].rawRequest = k /\ u # thread[n].s
    BY <2>2 DEF Requests
  <2>5. GuardedByThread'
    BY <2>1, <2>4 DEF NiInv, GuardedByThread
  <2>6. Numbered'
    <3>1. \A u \in Sessions : session'[u].rawRequest <= reqIDCounter'
      <4>1. 0 <= reqIDCounter
        BY <1>f, BoundsAssumption
      <4> QED BY <2>1, <2>2, <4>1 DEF NiInv, Numbered
    <3>2. worker'.at = "filling" => session'[worker'.s].rawRequest \in {0, reqIDCounter'}
      BY <1>f, <2>1, <2>2 DEF NiInv, Numbered, WorkerType
    <3>3. \A k \in Requests : thread[k].at = "none" => thread'[k].at = "none"
      BY <2>1
    <3>4. worker.at = "filling" => reqIDCounter \in Requests
      BY <1>f, BoundsAssumption DEF NiInv, Numbered, Requests
    <3> QED BY <2>1, <2>3, <3>1, <3>2, <3>3, <3>4 DEF NiInv, Numbered
  <2>7. OwnedOnce'
    <3>1. \A u \in Sessions, k \in Requests :
            session'[u].rawRequest = k => answers'[k] = <<>>
      BY <2>1, <2>4 DEF NiInv, OwnedOnce
    <3>2. ASSUME NEW u \in Sessions, NEW k \in Requests, session'[u].rawRequest = k,
                 NEW m \in Requests, Owns(m, k)'
          PROVE  thread'[m].at = "took" /\ thread'[m].s = u
      <4>1. thread[m].at = "took" /\ thread[m].s = u /\ u # thread[n].s
        BY <2>3, <2>4, <3>2 DEF NiInv, OwnedOnce
      <4> QED BY <2>1, <4>1
    <3> QED BY <2>1, <2>3, <3>1, <3>2 DEF NiInv, OwnedOnce
  <2>8. OneAnswer'
    BY <2>1 DEF NiInv, OneAnswer
  <2> QED BY <1>t, <2>5, <2>6, <2>7, <2>8 DEF NiInv
<1>11. ASSUME NEW n \in Requests, take(n) PROVE NiInv'
  <2> DEFINE s == thread[n].s
             r == session[s].rawRequest
  <2>s. s \in Sessions
    BY <1>f DEF ThreadType
  <2>1. PICK resp \in Outcomes(s) :
          /\ session' = [session EXCEPT ![s].resp = resp, ![s].respRecvd = FALSE]
          /\ thread' = [thread EXCEPT
               ![n].at  = IF r = 0 THEN "ending" ELSE "took",
               ![n].msg = IF r = 0 \/ resp = "IGNORE" THEN NoMsg ELSE [req |-> r, resp |-> resp]]
    BY <1>11 DEF take
  <2>2. /\ reqIDCounter' = reqIDCounter /\ worker' = worker /\ answers' = answers
        /\ thread[n].at = "waiting" /\ ~Locked(s)
    BY <1>11 DEF take
  <2>3. \A u \in Sessions : session'[u].rawRequest = session[u].rawRequest
    BY <1>f, <2>1, <2>s DEF SessionType
  <2>4. /\ thread'[n].s = s
        /\ thread'[n].at = IF r = 0 THEN "ending" ELSE "took"
        /\ thread'[n].msg.req \in {0, r}
        /\ \A m \in Requests : m # n => thread'[m] = thread[m]
    BY <1>f, <2>1 DEF ThreadType, NoMsg
  <2>5. \A m, k \in Requests :
          Owns(m, k)' => (m # n /\ Owns(m, k)) \/ (m = n /\ k = r)
    BY <2>4 DEF Owns, Requests
  <2>6. r \in Requests => \A m \in Requests : ~Owns(m, r)
    BY <2>2, <2>s, TookIsLocked DEF NiInv, OwnedOnce
  <2>7. GuardedByThread'
    <3> SUFFICES ASSUME NEW u \in Sessions, NEW k \in Requests, session[u].rawRequest = k,
                        worker # [at |-> "filling", s |-> u]
                 PROVE  thread'[k].s = u /\ thread'[k].at \in {"waiting", "took"}
      BY <2>2, <2>3 DEF GuardedByThread
    <3>1. thread[k].s = u /\ thread[k].at \in {"waiting", "took"}
      BY DEF NiInv, GuardedByThread
    <3>2. k = n => r # 0
      BY <3>1 DEF Requests
    <3> QED BY <2>4, <3>1, <3>2
  <2>8. Numbered'
    <3>1. \A k \in Requests : k > reqIDCounter => k # r
      <4>1. reqIDCounter \in Nat /\ r \in Nat /\ r <= reqIDCounter
        BY <1>n, <2>s DEF NiInv, Numbered
      <4> QED BY <4>1 DEF Requests
    <3>2. \A k \in Requests : thread[k].at = "none" => thread'[k].at = "none"
      BY <2>2, <2>4
    <3>3. worker.at = "filling" => reqIDCounter \in Requests /\ worker.s \in Sessions
      BY <1>f, BoundsAssumption DEF NiInv, Numbered, Requests, WorkerType
    <3> QED BY <2>2, <2>3, <2>5, <3>1, <3>2, <3>3 DEF NiInv, Numbered
  <2>9. OwnedOnce'
    <3>1. ASSUME NEW u \in Sessions, NEW k \in Requests, session[u].rawRequest = k,
                 NEW m \in Requests, Owns(m, k)'
          PROVE  thread'[m].at = "took" /\ thread'[m].s = u
      <4>1. CASE m # n /\ Owns(m, k)
        BY <2>4, <3>1, <4>1 DEF NiInv, OwnedOnce
      <4>2. CASE m = n /\ k = r
        <5>1. u = s
          BY <2>s, <3>1, <4>2, OneSession
        <5>2. r # 0
          BY <4>2 DEF Requests
        <5> QED BY <2>4, <4>2, <5>1, <5>2
      <4> QED BY <2>5, <3>1, <4>1, <4>2
    <3>2. \A m, k \in Requests : Owns(m, k)' => answers[k] = <<>>
      BY <2>5, <2>s DEF NiInv, OwnedOnce
    <3>3. \A m, l, k \in Requests : Owns(m, k)' /\ Owns(l, k)' => m = l
      BY <2>5, <2>6 DEF NiInv, OwnedOnce
    <3> QED BY <2>2, <2>3, <3>1, <3>2, <3>3 DEF NiInv, OwnedOnce
  <2>10. OneAnswer'
    BY <2>2 DEF NiInv, OneAnswer
  <2> QED BY <1>t, <2>7, <2>8, <2>9, <2>10 DEF NiInv
<1>13. ASSUME NEW n \in Requests, end(n) PROVE NiInv'
  <2>1. /\ reqIDCounter' = reqIDCounter /\ worker' = worker /\ answers' = answers
        /\ thread[n].at = "ending"
        /\ thread'[n].at \in {"done", "sent"} /\ thread'[n].msg = thread[n].msg
        /\ \A m \in Requests : m # n => thread'[m] = thread[m]
    BY <1>13, <1>f DEF end, ThreadType
  <2>2. \A u \in Sessions : session'[u].rawRequest = session[u].rawRequest
    BY <1>13, <1>f DEF end, ThreadType, SessionType
  <2>3. \A m, k \in Requests : Owns(m, k)' => Owns(m, k)
    BY <2>1 DEF Owns
  <2>4. GuardedByThread'
    BY <2>1, <2>2 DEF NiInv, GuardedByThread
  <2>5. Numbered'
    <3>1. \A k \in Requests : thread[k].at = "none" => thread'[k].at = "none"
      BY <2>1
    <3>2. worker.at = "filling" => reqIDCounter \in Requests /\ worker.s \in Sessions
      BY <1>f, BoundsAssumption DEF NiInv, Numbered, Requests, WorkerType
    <3> QED BY <2>1, <2>2, <2>3, <3>1, <3>2 DEF NiInv, Numbered
  <2>6. OwnedOnce'
    <3>1. \A m \in Requests : thread[m].at = "took" => thread'[m] = thread[m]
      BY <2>1
    <3> QED BY <2>1, <2>2, <2>3, <3>1 DEF NiInv, OwnedOnce
  <2>7. OneAnswer'
    BY <2>1 DEF NiInv, OneAnswer
  <2> QED BY <1>t, <2>4, <2>5, <2>6, <2>7 DEF NiInv
<1> QED
  BY <1>1, <1>2, <1>3, <1>4, <1>5, <1>6, <1>7, <1>8, <1>9, <1>10, <1>11, <1>12, <1>13, <1>14
  DEF Next

\* The inductive invariant holds throughout.
THEOREM InvariantHolds == Spec => []NiInv
BY InitInv, NextInv, PTL DEF Spec

\* A request in a session always has its own thread still to take it up (ni_thread_proc).
THEOREM AlwaysGuarded == Spec => []GuardedByThread
<1>1. NiInv => GuardedByThread
  BY DEF NiInv
<1> QED BY InvariantHolds, <1>1, PTL

\* The modem hears at most one answer to each request (informNiResponse).
THEOREM AlwaysOneAnswer == Spec => []OneAnswer
<1>1. NiInv => OneAnswer
  BY DEF NiInv
<1> QED BY InvariantHolds, <1>1, PTL

-----------------------------------------------------------------------------
(* What the modem is told is what the user said *)

\* No answer came late, and the modem did not restart.
InTime == ~late /\ restarts = 0

\* A flag that is set is about the request in its session, and no thread has just taken that up.
FlagsTell ==
  \A s \in Sessions :
    session[s].respRecvd =>
      /\ session[s].rawRequest \in Requests
      /\ session[s].resp \in {said[session[s].rawRequest], "IGNORE"}
      /\ \A n \in Requests : thread[n].at = "took" => thread[n].s # s

\* The framework's call carries what the user said of the request it is about.
UserTells ==
  user.at # "idle" => user.req \in Requests /\ user.resp = said[user.req]
                      /\ (user.at = "ignoring" => user.other \in Requests)

\* A thread carries what the user said of the request it took.
ThreadsTell ==
  \A m, n \in Requests : Owns(m, n) => thread[m].msg.resp \in {said[n], "NORESP"}

\* The inductive invariant of what is said.
InTimeInv ==
  /\ TypeOK
  /\ worker.at \notin {"idle", "filling"} => restarts # 0
  /\ InTime => FlagsTell /\ UserTells /\ ThreadsTell
  /\ InTimeIsOwn

\* The initial state satisfies it.
LEMMA InitInTime == Init => InTimeInv
<1> SUFFICES ASSUME Init PROVE InTimeInv
  OBVIOUS
<1>1. worker.at = "idle" /\ user.at = "idle"
  BY DEF Init, Idle
<1>2. FlagsTell
  BY DEF Init, FlagsTell
<1>3. ThreadsTell
  BY DEF Init, ThreadsTell, Owns
<1>4. InTimeIsOwn
  BY DEF Init, InTimeIsOwn
<1> QED BY <1>1, <1>2, <1>3, <1>4, InitType DEF InTimeInv, UserTells

\* A step in which the user says nothing keeps what the user said, and what the modem was told.
LEMMA SaidKept ==
  ASSUME InTimeInv, InTime' => InTime, UNCHANGED <<said, answers>>
  PROVE  InTimeIsOwn'
BY DEF InTimeInv, InTimeIsOwn, InTime

\* Each action keeps it.
LEMMA NextInTime == InTimeInv /\ [Next]_vars => InTimeInv'
<1> SUFFICES ASSUME InTimeInv, [Next]_vars PROVE InTimeInv'
  OBVIOUS
<1>t. TypeOK /\ TypeOK'
  BY NextType DEF InTimeInv
<1>f. /\ session \in [Sessions -> SessionType] /\ thread \in [Requests -> ThreadType]
      /\ worker \in WorkerType /\ user \in UserType /\ restarts \in Nat /\ late \in BOOLEAN
      /\ said \in [Requests -> Words \cup {"nothing"}]
      /\ answers \in [Requests -> Seq(Words \cup {"NORESP"})]
  BY <1>t, BoundsAssumption DEF TypeOK
<1>i. InTime => FlagsTell /\ UserTells /\ ThreadsTell
  BY DEF InTimeInv
<1>w. worker.at \notin {"idle", "filling"} => restarts # 0
  BY DEF InTimeInv
<1>1. ASSUME NEW s \in Sessions, request(s) PROVE InTimeInv'
  <2>1. /\ UNCHANGED <<thread, user, said, answers, late, restarts>>
        /\ worker'.at = "filling" /\ reqIDCounter + 1 \in Requests
        /\ session[s].rawRequest = 0
    BY <1>1, <1>t, BoundsAssumption DEF request, Free, Sessions, TypeOK, Requests
  <2>2. /\ session'[s].respRecvd = session[s].respRecvd
        /\ \A u \in Sessions : u # s => session'[u] = session[u]
    BY <1>1, <1>f DEF request, SessionType
  <2>3. InTime' => FlagsTell'
    <3> SUFFICES ASSUME InTime PROVE FlagsTell'
      BY <2>1 DEF InTime
    <3>1. ~session[s].respRecvd
      BY <1>i, <2>1 DEF FlagsTell, Requests
    <3> QED BY <1>i, <2>1, <2>2, <3>1 DEF FlagsTell
  <2>4. InTime' => UserTells' /\ ThreadsTell'
    BY <1>i, <2>1 DEF InTime, UserTells, ThreadsTell, Owns
  <2>5. InTimeIsOwn'
    BY <2>1, SaidKept DEF InTime
  <2> QED BY <1>t, <2>1, <2>3, <2>4, <2>5 DEF InTimeInv
<1>2. ASSUME notify PROVE InTimeInv'
  <2>1. UNCHANGED <<user, said, answers, late, restarts>> /\ worker'.at = "idle"
    BY <1>2 DEF notify, Idle
  <2>2. \A u \in Sessions : /\ session'[u].rawRequest = session[u].rawRequest
                            /\ session'[u].resp = session[u].resp
                            /\ session'[u].respRecvd = session[u].respRecvd
    BY <1>2, <1>f DEF notify, SessionType
  <2>3. \A n \in Requests : thread'[n] = thread[n] \/ thread'[n].at = "waiting"
    BY <1>2, <1>f DEF notify
  <2>4. InTime' => FlagsTell'
    BY <1>i, <2>1, <2>2, <2>3 DEF InTime, FlagsTell
  <2>5. InTime' => UserTells' /\ ThreadsTell'
    BY <1>i, <2>1, <2>3 DEF InTime, UserTells, ThreadsTell, Owns
  <2>6. InTimeIsOwn'
    BY <2>1, SaidKept DEF InTime
  <2> QED BY <1>t, <2>1, <2>4, <2>5, <2>6 DEF InTimeInv
\* The modem restarts: nothing is promised from here on.
<1>3. ASSUME engine_down PROVE InTimeInv'
  <2>1. restarts' # 0 /\ UNCHANGED <<said, answers>>
    BY <1>3, <1>f DEF engine_down
  <2> QED BY <1>t, <2>1 DEF InTimeInv, InTime, InTimeIsOwn
<1>4. ASSUME reset_looks \/ reset_clears \/ reset_wakes PROVE InTimeInv'
  <2>1. restarts' # 0 /\ UNCHANGED <<said, answers>>
    BY <1>4, <1>w DEF reset_looks, reset_clears, reset_wakes
  <2> QED BY <1>t, <2>1 DEF InTimeInv, InTime, InTimeIsOwn
<1>5. ASSUME NEW n \in Requests, informNiResponse(n) PROVE InTimeInv'
  <2> DEFINE m == thread[n].msg
  <2>1. /\ UNCHANGED <<session, worker, user, said, late, restarts>>
        /\ thread[n].at = "sent" /\ thread'[n].at = "done"
        /\ \A k \in Requests : k # n => thread'[k] = thread[k]
    BY <1>5, <1>f DEF informNiResponse
  <2>2. InTime' => FlagsTell' /\ UserTells'
    BY <1>i, <2>1 DEF InTime, FlagsTell, UserTells
  <2>3. InTime' => ThreadsTell'
    BY <1>i, <2>1 DEF InTime, ThreadsTell, Owns
  <2>4. InTimeIsOwn'
    <3> SUFFICES ASSUME InTime', NEW k \in Requests, NEW i \in DOMAIN answers'[k]
                 PROVE  answers'[k][i] \in {said[k], "NORESP"}
      BY <2>1 DEF InTimeIsOwn, InTime
    <3>1. CASE answers'[k] = answers[k]
      BY <2>1, <3>1 DEF InTimeInv, InTimeIsOwn, InTime
    <3>2. CASE m.req = k /\ answers'[k] = Append(answers[k], m.resp)
      <4>1. m.resp \in {said[k], "NORESP"}
        BY <1>i, <2>1, <3>2 DEF InTime, ThreadsTell, Owns
      <4>2. \A j \in DOMAIN answers[k] : answers[k][j] \in {said[k], "NORESP"}
        BY <2>1 DEF InTimeInv, InTimeIsOwn, InTime
      <4>3. answers[k] \in Seq(Words \cup {"NORESP"})
        BY <1>f
      <4> HIDE DEF m
      <4>4. \/ i \in DOMAIN answers[k] /\ answers'[k][i] = answers[k][i]
            \/ answers'[k][i] = m.resp
        BY <3>2, <4>3
      <4> QED BY <4>1, <4>2, <4>4
    <3>3. \/ answers'[k] = answers[k]
          \/ m.req = k /\ answers'[k] = Append(answers[k], m.resp)
      BY <1>5, <1>f DEF informNiResponse
    <3> QED BY <3>1, <3>2, <3>3
  <2> QED BY <1>t, <1>w, <2>1, <2>2, <2>3, <2>4 DEF InTimeInv
<1>6. ASSUME NEW n \in Requests, NEW word \in Words, respond(n, word) PROVE InTimeInv'
  <2>1. /\ UNCHANGED <<session, thread, worker, answers, late, restarts>>
        /\ user.at = "idle" /\ said[n] = "nothing" /\ said'[n] = word
        /\ \A k \in Requests : said[k] # "nothing" => said'[k] = said[k]
    BY <1>6, <1>f DEF respond
  <2>2. \A r \in Resps : r # "nothing"
    BY DEF Resps, Words
  <2>3. InTime' => FlagsTell'
    <3>1. \A s \in Sessions : session[s].resp \in Resps
      BY <1>f DEF SessionType
    <3> QED BY <1>i, <2>1, <2>2, <3>1 DEF InTime, FlagsTell
  <2>4. InTime' => UserTells'
    <3>1. /\ user'.at # "idle" => user'.req = n /\ user'.resp = word
          /\ user'.at = "ignoring" => user'.other = session["ni"].rawRequest /\ user'.other # 0
      BY <1>6, <2>1 DEF respond
    <3>2. user'.at = "ignoring" => user'.other \in Requests
      BY <1>t, <3>1, BoundsAssumption DEF TypeOK, UserType, Requests
    <3> QED BY <2>1, <3>1, <3>2 DEF UserTells
  <2>5. InTime' => ThreadsTell'
    <3>1. \A m \in Requests : thread[m].msg.resp \in Resps
      BY <1>f DEF ThreadType, MsgType
    <3> QED BY <1>i, <2>1, <2>2, <3>1 DEF InTime, ThreadsTell, Owns
  <2>6. InTimeIsOwn'
    <3> SUFFICES ASSUME InTime, NEW k \in Requests, NEW i \in DOMAIN answers[k]
                 PROVE  answers[k][i] \in {said'[k], "NORESP"}
      BY <2>1 DEF InTimeIsOwn, InTime
    <3>1. answers[k][i] \in {said[k], "NORESP"}
      BY DEF InTimeInv, InTimeIsOwn, InTime
    <3>2. answers[k] \in Seq(Words \cup {"NORESP"})
      BY <1>f
    <3>3. answers[k][i] \in Words \cup {"NORESP"}
      BY <3>2
    <3> QED BY <2>1, <3>1, <3>3 DEF Words
  <2> QED BY <1>t, <1>w, <2>1, <2>3, <2>4, <2>5, <2>6 DEF InTimeInv
<1>7. ASSUME NEW s \in Sessions, NEW r, NEW resp, Stores(s, r, resp),
             InTime => r \in Requests /\ resp \in {said[r], "IGNORE"},
             \/ user' = [user EXCEPT !.at = "storing"] /\ user.at = "ignoring"
             \/ user'.at = "idle"
      PROVE  InTimeInv'
  <2>1. /\ UNCHANGED <<thread, worker, said, answers, restarts>>
        /\ ~Locked(s) /\ late' = (late \/ session[s].rawRequest # r)
    BY <1>7 DEF Stores
  <2>2. /\ session'[s].resp = resp /\ session'[s].rawRequest = session[s].rawRequest
        /\ \A u \in Sessions : u # s => session'[u] = session[u]
    BY <1>7, <1>f DEF Stores, SessionType
  <2>3. InTime' => InTime /\ session[s].rawRequest = r
    BY <1>f, <2>1 DEF InTime
  <2>4. InTime' => FlagsTell'
    BY <1>7, <1>i, <2>1, <2>2, <2>3 DEF FlagsTell, Locked
  <2>5. InTime' => ThreadsTell'
    BY <1>i, <2>1, <2>3 DEF ThreadsTell, Owns
  <2>6. InTime' => UserTells'
    BY <1>7, <1>f, <1>i, <2>1, <2>3 DEF UserTells, UserType
  <2>7. InTimeIsOwn'
    BY <2>1, <2>3, SaidKept
  <2> QED BY <1>t, <1>w, <2>1, <2>4, <2>5, <2>6, <2>7 DEF InTimeInv
<1>8. ASSUME respond_ignores PROVE InTimeInv'
  <2>1. /\ user.at = "ignoring" /\ Stores("ni", user.other, "IGNORE")
        /\ user' = [user EXCEPT !.at = "storing"]
    BY <1>8 DEF respond_ignores
  <2>2. InTime => user.other \in Requests
    BY <1>i, <2>1 DEF UserTells
  <2>3. "ni" \in Sessions
    BY DEF Sessions
  <2> QED BY <1>7, <2>1, <2>2, <2>3
<1>9. ASSUME respond_stores PROVE InTimeInv'
  <2>1. /\ user.at = "storing" /\ Stores(user.s, user.req, user.resp) /\ user.s \in Sessions
        /\ user'.at = "idle"
    BY <1>9, <1>f DEF respond_stores, UserType
  <2>2. InTime => user.req \in Requests /\ user.resp = said[user.req]
    BY <1>i, <2>1 DEF UserTells
  <2> QED BY <1>7, <2>1, <2>2
<1>10. ASSUME NEW n \in Requests, take(n) PROVE InTimeInv'
  <2> DEFINE s == thread[n].s
             r == session[s].rawRequest
  <2>s. s \in Sessions
    BY <1>f DEF ThreadType
  <2>1. PICK resp \in Outcomes(s) :
          /\ session' = [session EXCEPT ![s].resp = resp, ![s].respRecvd = FALSE]
          /\ thread' = [thread EXCEPT
               ![n].at  = IF r = 0 THEN "ending" ELSE "took",
               ![n].msg = IF r = 0 \/ resp = "IGNORE" THEN NoMsg ELSE [req |-> r, resp |-> resp]]
    BY <1>10 DEF take
  <2>2. UNCHANGED <<worker, user, said, answers, late, restarts>>
    BY <1>10 DEF take
  <2>3. /\ ~session'[s].respRecvd
        /\ \A u \in Sessions : u # s => session'[u] = session[u]
    BY <1>f, <2>1, <2>s DEF SessionType
  <2>4. /\ thread'[n].s = s
        /\ thread'[n].msg = IF r = 0 \/ resp = "IGNORE" THEN NoMsg ELSE [req |-> r, resp |-> resp]
        /\ \A m \in Requests : m # n => thread'[m] = thread[m]
    BY <1>f, <2>1 DEF ThreadType
  <2>5. InTime' => FlagsTell'
    BY <1>i, <2>2, <2>3, <2>4 DEF InTime, FlagsTell
  <2>6. InTime' => UserTells'
    BY <1>i, <2>2 DEF InTime, UserTells
  <2>7. InTime' => ThreadsTell'
    <3> SUFFICES ASSUME InTime, NEW m \in Requests, NEW k \in Requests, Owns(m, k)'
                 PROVE  thread'[m].msg.resp \in {said[k], "NORESP"}
      BY <2>2 DEF ThreadsTell, InTime
    <3>1. CASE m # n
      BY <1>i, <2>4, <3>1 DEF ThreadsTell, Owns
    <3>2. CASE m = n
      <4>1. thread'[n].msg.req = k /\ k # 0
        BY <3>2 DEF Owns, Requests
      <4>2. r = k /\ resp # "IGNORE" /\ thread'[n].msg.resp = resp
        BY <2>4, <4>1 DEF NoMsg
      <4>3. resp = "NORESP" \/ (session[s].respRecvd /\ resp = session[s].resp)
        BY <2>1 DEF Outcomes
      <4> QED BY <1>i, <2>s, <3>2, <4>2, <4>3 DEF FlagsTell
    <3> QED BY <3>1, <3>2
  <2>8. InTimeIsOwn'
    BY <2>2, SaidKept DEF InTime
  <2> QED BY <1>t, <1>w, <2>2, <2>5, <2>6, <2>7, <2>8 DEF InTimeInv
<1>11. ASSUME NEW n \in Requests, unlock(n) PROVE InTimeInv'
  <2>1. /\ UNCHANGED <<worker, user, said, answers, late, restarts>>
        /\ thread[n].at = "took" /\ thread'[n].at = "ending" /\ thread'[n].msg = thread[n].msg
        /\ \A m \in Requests : m # n => thread'[m] = thread[m]
    BY <1>11, <1>f DEF unlock, ThreadType
  <2>2. /\ session'[thread[n].s].respRecvd = session[thread[n].s].respRecvd
        /\ \A u \in Sessions : u # thread[n].s => session'[u] = session[u]
    BY <1>11, <1>f DEF unlock, ThreadType, SessionType
  <2>3. InTime' => FlagsTell'
    BY <1>i, <2>1, <2>2 DEF InTime, FlagsTell
  <2>4. InTime' => UserTells' /\ ThreadsTell'
    BY <1>i, <2>1 DEF InTime, UserTells, ThreadsTell, Owns
  <2>5. InTimeIsOwn'
    BY <2>1, SaidKept DEF InTime
  <2> QED BY <1>t, <1>w, <2>1, <2>3, <2>4, <2>5 DEF InTimeInv
<1>12. ASSUME NEW n \in Requests, end(n) PROVE InTimeInv'
  <2>1. /\ UNCHANGED <<worker, user, said, answers, late, restarts>>
        /\ thread[n].at = "ending"
        /\ thread'[n].at \in {"done", "sent"} /\ thread'[n].msg = thread[n].msg
        /\ \A m \in Requests : m # n => thread'[m] = thread[m]
    BY <1>12, <1>f DEF end, ThreadType
  <2>2. \A u \in Sessions : /\ session'[u].rawRequest = session[u].rawRequest
                            /\ session'[u].resp = session[u].resp
                            /\ session'[u].respRecvd = session[u].respRecvd
    BY <1>12, <1>f DEF end, ThreadType, SessionType
  <2>3. InTime' => FlagsTell'
    BY <1>i, <2>1, <2>2 DEF InTime, FlagsTell
  <2>4. InTime' => UserTells' /\ ThreadsTell'
    BY <1>i, <2>1 DEF InTime, UserTells, ThreadsTell, Owns
  <2>5. InTimeIsOwn'
    BY <2>1, SaidKept DEF InTime
  <2> QED BY <1>t, <1>w, <2>1, <2>3, <2>4, <2>5 DEF InTimeInv
<1>13. CASE UNCHANGED vars
  <2>1. InTime' => FlagsTell' /\ UserTells' /\ ThreadsTell'
    BY <1>13, <1>i DEF vars, InTime, FlagsTell, UserTells, ThreadsTell, Owns
  <2> QED BY <1>13, <1>t, <1>w, <2>1, SaidKept DEF vars, InTimeInv, InTime
<1> QED
  BY <1>1, <1>2, <1>3, <1>4, <1>5, <1>6, <1>8, <1>9, <1>10, <1>11, <1>12, <1>13 DEF Next

\* While no answer comes late and the modem does not restart, what the modem is told of a request
\* is what the user said of that very request, or that the user said nothing.
THEOREM AlwaysOwnInTime == Spec => []InTimeIsOwn
<1>1. InTimeInv => InTimeIsOwn
  BY DEF InTimeInv
<1> QED BY <1>1, InitInTime, NextInTime, PTL DEF Spec

-----------------------------------------------------------------------------
(* SyncReq: the invariant *)

\* A call has a slot; a call whose slot knows what it waits for.
Holding == {"select", "send", "wait", "asleep", "woken", "free"}
Waiting == Holding \ {"select"}

\* What the place of a call tells of its slot and of the answer it has.
Tells(t) ==
  LET c == call[t]
      s == slot[call[t].slot]
  IN /\ c.at = "out" => c = NoCall
     /\ c.at # "out" => c.n \in 1..calls /\ c.key \in Keys
     /\ c.at \in {"alloc", "select"} => c.answer = 0
     /\ c.at \in Holding => c.slot \in Slots
     /\ c.at = "alloc" => c.slot = 0
     /\ c.at # "free" => c.status = "none"
     /\ c.at = "woken" => c.answer # 0
     /\ c.at \in Waiting => s.buffer = c.n /\ s.key = c.key
     /\ c.at = "select" => s.buffer = 0
     /\ c.at \in {"send", "wait", "free"} => ~s.is_waiting
     /\ c.at \in {"send", "wait"} => (s.has_arrived <=> c.answer # 0)
     /\ c.at = "asleep" => s.is_waiting

PlacesTell == \A t \in Threads : Tells(t)

\* No two calls have the same number, and a slot without a buffer is not looked for.
NumbersDiffer ==
  /\ \A t, u \in Threads : call[t].n = call[u].n => t = u \/ At(t, "out")
  /\ \A s \in Slots : slot[s].buffer = 0 => slot[s].key = "none"

\* A clean key has one call at most, which has no answer before it has sent its request; and
\* what the modem has yet to answer for it is the request of that call, which waits.
CleanIsExclusive ==
  /\ \A t, u \in Threads : call[t].key \in clean /\ call[u].key = call[t].key => t = u
  /\ \A t \in Threads : At(t, "send") /\ call[t].key \in clean => call[t].answer = 0
  /\ \A r \in modem : r.key \in clean =>
       \E t \in Threads : /\ call[t].key = r.key /\ call[t].n = r.n
                          /\ call[t].at \in {"wait", "asleep"} /\ call[t].answer = 0

\* The inductive invariant.
SyncInv ==
  SyncTypeOK /\ BuffersAreLive /\ AnswersFit /\ PlacesTell /\ NumbersDiffer /\ CleanIsExclusive

-----------------------------------------------------------------------------
(* What the steps have in common *)

\* The fields of a call and of a slot have their types.
LEMMA Fields ==
  ASSUME SyncTypeOK
  PROVE  /\ \A t \in Threads : /\ call[t] \in CallType
                               /\ call[t].n \in Nat /\ call[t].answer \in Nat
                               /\ call[t].slot \in Slots \cup {0}
         /\ \A s \in Slots : slot[s] \in SlotType /\ slot[s].buffer \in Nat
         /\ \A s \in Slots : s \in Nat /\ s # 0
         /\ calls \in Nat
<1> USE SyncBoundsAssumption
<1>1. /\ \A t \in Threads : call[t] \in CallType
      /\ \A s \in Slots : slot[s] \in SlotType
      /\ calls \in 0..MaxCalls
  BY DEF SyncTypeOK
<1>2. \A c \in CallType : c.n \in 0..MaxCalls /\ c.answer \in 0..MaxCalls /\ c.slot \in Slots \cup {0}
  BY DEF CallType
<1>3. \A s \in SlotType : s.buffer \in 0..MaxCalls
  BY DEF SlotType
<1> QED BY <1>1, <1>2, <1>3 DEF Slots

\* Slots and buffers change hands only when a call is given its slot, writes into it or returns:
\* a step that leaves alone who has which slot and which buffer keeps these two.
LEMMA HoldingKept ==
  ASSUME BuffersAreLive, NumbersDiffer, in_use' = in_use,
         \A t \in Threads : /\ call'[t].n = call[t].n /\ call'[t].slot = call[t].slot
                            /\ call'[t].at = "out" <=> call[t].at = "out",
         \A s \in Slots : /\ slot'[s].slot_in_use = slot[s].slot_in_use
                          /\ slot'[s].buffer = slot[s].buffer /\ slot'[s].key = slot[s].key
  PROVE  BuffersAreLive' /\ NumbersDiffer'
<1>1. BuffersAreLive'
  BY DEF BuffersAreLive, At
<1>2. NumbersDiffer'
  BY DEF NumbersDiffer, At
<1> QED BY <1>1, <1>2

\* A step of one thread, on a slot no other call has, tells the others nothing.
LEMMA OthersTell ==
  ASSUME SyncInv, NEW t \in Threads, NEW x, calls' \in Nat, calls <= calls',
         \A u \in Threads : u # t => call'[u] = call[u] /\ call[u].slot # x,
         \A s \in Slots : s # x => slot'[s] = slot[s]
  PROVE  \A u \in Threads : u # t => Tells(u)'
<1> SUFFICES ASSUME NEW u \in Threads, u # t PROVE Tells(u)'
  OBVIOUS
<1>1. call'[u] = call[u] /\ call[u].slot # x /\ Tells(u) /\ calls \in Nat /\ call[u].n \in Nat
  BY Fields DEF SyncInv, PlacesTell
<1>2. call[u].n \in 1..calls => call[u].n \in 1..calls'
  BY <1>1
<1>3. call[u].slot \in Slots => slot'[call[u].slot] = slot[call[u].slot]
  BY <1>1
<1>4. call[u].at \in Waiting \cup {"select"} => call[u].at \in Holding
  BY DEF Waiting, Holding
<1>5. call[u].at \in {"send", "wait", "free", "asleep"} => call[u].at \in Holding
  BY DEF Holding
<1> QED BY <1>1, <1>2, <1>3, <1>4, <1>5 DEF Tells

\* No other call has the slot of a call that has one.
LEMMA SlotIsOwn ==
  ASSUME SyncInv, NEW t \in Threads, call[t].slot \in Slots
  PROVE  \A u \in Threads : u # t => call[u].slot # call[t].slot
BY Fields DEF SyncInv, BuffersAreLive

-----------------------------------------------------------------------------
(* Types *)

\* The initial state has the types.
LEMMA SyncInitType == loc_sync_req_init => SyncTypeOK
<1> SUFFICES ASSUME loc_sync_req_init PROVE SyncTypeOK
  OBVIOUS
<1>0. 0 \in 0..MaxCalls
  BY SyncBoundsAssumption
<1>1. FreeSlot \in SlotType
  BY <1>0 DEF FreeSlot, SlotType
<1>2. NoCall \in CallType
  BY <1>0 DEF NoCall, CallType
<1>3. call \in [Threads -> CallType] /\ slot \in [Slots -> SlotType]
  BY <1>1, <1>2 DEF loc_sync_req_init
<1> QED BY <1>0, <1>3 DEF loc_sync_req_init, SyncTypeOK

-----------------------------------------------------------------------------
(* Each step keeps the invariant *)

\* A call begins: its number is new, and the key it asks for is clean only if nobody else asks.
LEMMA Begins ==
  ASSUME SyncInv, NEW t \in Threads, NEW k \in Keys, loc_sync_send_req(t, k)
  PROVE  SyncInv'
<1> USE SyncBoundsAssumption DEF At
<1>0. /\ SyncTypeOK /\ BuffersAreLive /\ AnswersFit /\ PlacesTell /\ NumbersDiffer
      /\ CleanIsExclusive
  BY DEF SyncInv
<1> DEFINE c == [NoCall EXCEPT !.at = "alloc", !.key = k, !.n = calls + 1]
<1>1. /\ call[t] = NoCall /\ calls' = calls + 1 /\ calls \in Nat /\ calls' \in 1..MaxCalls
      /\ call' = [call EXCEPT ![t] = c]
      /\ UNCHANGED <<in_use, slot, modem>>
  BY <1>0 DEF SyncTypeOK, PlacesTell, Tells, loc_sync_send_req
<1>2. /\ c.at = "alloc" /\ c.key = k /\ c.n = calls' /\ c.slot = 0
      /\ c.answer = 0 /\ c.status = "none" /\ c \in CallType
  <2>1. NoCall \in CallType /\ calls + 1 \in 0..MaxCalls
    BY <1>0, <1>1, Fields
  <2>2. NoCall.slot = 0 /\ NoCall.answer = 0 /\ NoCall.status = "none"
    BY DEF NoCall
  <2> QED BY <1>1, <2>1, <2>2 DEF CallType
<1>3. /\ call[t].at = "out" /\ call[t].n = 0 /\ call[t].slot = 0
  BY <1>1 DEF NoCall
<1>4. call'[t] = c /\ (\A u \in Threads : u # t => call'[u] = call[u]) /\ call' \in [Threads -> CallType]
  BY <1>0, <1>1, <1>2 DEF SyncTypeOK
<1>5. clean' \subseteq clean /\ \A u \in Threads : call[u].key = k => k \notin clean'
  BY DEF loc_sync_send_req
<1> HIDE DEF c
<1>6. SyncTypeOK'
  BY <1>0, <1>1, <1>4, <1>5 DEF SyncTypeOK
<1>7. BuffersAreLive'
  BY <1>0, <1>1, <1>2, <1>3, <1>4, Fields DEF BuffersAreLive
<1>8. AnswersFit'
  BY <1>0, <1>2, <1>4, <1>5 DEF AnswersFit
<1>9. PlacesTell'
  <2>1. Tells(t)'
    BY <1>1, <1>2, <1>4 DEF Tells, Holding, Waiting
  <2>2. \A u \in Threads : u # t => Tells(u)'
    <3>1. calls' \in Nat /\ calls <= calls'
      BY <1>1
    <3>2. \A u \in Threads : call[u].slot # LOC_SYNC_REQ_BUFFER_SIZE + 1
      BY <1>0, Fields DEF Slots
    <3> QED BY <1>1, <1>4, <3>1, <3>2, OthersTell
  <2> QED BY <2>1, <2>2 DEF PlacesTell
<1>10. NumbersDiffer'
  <2>1. \A u \in Threads : u # t => call[u].n # calls'
    BY <1>0, <1>1, Fields DEF PlacesTell, Tells, NoCall
  <2> QED BY <1>0, <1>1, <1>2, <1>4, <2>1 DEF NumbersDiffer
<1>11. CleanIsExclusive'
  BY <1>0, <1>1, <1>2, <1>3, <1>4, <1>5 DEF CleanIsExclusive
<1> QED BY <1>6, <1>7, <1>8, <1>9, <1>10, <1>11 DEF SyncInv

\* The slot is told its call's buffer: the call's own, which has no answer yet.
LEMMA Selects ==
  ASSUME SyncInv, NEW t \in Threads, loc_sync_select_ind(t)
  PROVE  SyncInv'
<1> USE SyncBoundsAssumption DEF At
<1>0. /\ SyncTypeOK /\ BuffersAreLive /\ AnswersFit /\ PlacesTell /\ NumbersDiffer
      /\ CleanIsExclusive
  BY DEF SyncInv
<1> DEFINE x == call[t].slot
           c == [call[t] EXCEPT !.at = "send"]
           z == [slot[x] EXCEPT !.key = call[t].key, !.buffer = call[t].n,
                                !.is_waiting = FALSE, !.has_arrived = FALSE]
<1>1. /\ call[t].at = "select" /\ call' = [call EXCEPT ![t] = c] /\ slot' = [slot EXCEPT ![x] = z]
      /\ UNCHANGED <<in_use, modem, calls, clean>>
  BY DEF loc_sync_select_ind, Goes
<1>2. /\ x \in Slots /\ call[t].answer = 0 /\ call[t].status = "none" /\ slot[x].buffer = 0
      /\ call[t].n \in 1..calls /\ call[t].key \in Keys
  BY <1>0, <1>1 DEF PlacesTell, Tells, Holding
<1>3. /\ c.at = "send" /\ c.key = call[t].key /\ c.n = call[t].n /\ c.slot = x
      /\ c.answer = call[t].answer /\ c.status = call[t].status /\ c \in CallType
  BY <1>0, Fields DEF CallType
<1>4. /\ z.slot_in_use = slot[x].slot_in_use /\ z.key = call[t].key /\ z.buffer = call[t].n
      /\ ~z.is_waiting /\ ~z.has_arrived /\ z \in SlotType
  <2>1. call[t].n \in 0..MaxCalls
    BY <1>0, Fields DEF CallType
  <2>2. slot[x] \in SlotType
    BY <1>0, <1>2, Fields
  <2> DEFINE key == call[t].key
             n   == call[t].n
  <2>3. key \in Keys \cup {"none"} /\ n \in 0..MaxCalls
    BY <1>2, <2>1
  <2> HIDE DEF key, n, x
  <2>4. z = [slot[x] EXCEPT !.key = key, !.buffer = n, !.is_waiting = FALSE, !.has_arrived = FALSE]
    BY DEF key, n
  <2>5. /\ z.slot_in_use = slot[x].slot_in_use /\ z.key = key /\ z.buffer = n
        /\ ~z.is_waiting /\ ~z.has_arrived
    BY <2>2 DEF SlotType, key, n
  <2>6. z \in SlotType
    BY <2>2, <2>3, <2>4 DEF SlotType
  <2> QED BY <2>5, <2>6 DEF key, n
<1>5. call'[t] = c /\ (\A u \in Threads : u # t => call'[u] = call[u]) /\ call' \in [Threads -> CallType]
  BY <1>0, <1>1, <1>3 DEF SyncTypeOK
<1>6. slot'[x] = z /\ (\A s \in Slots : s # x => slot'[s] = slot[s]) /\ slot' \in [Slots -> SlotType]
  BY <1>0, <1>1, <1>2, <1>4 DEF SyncTypeOK
<1>7. \A u \in Threads : u # t => call[u].slot # x
  BY <1>2, SlotIsOwn
<1>8. call[t].n \in Nat /\ call[t].n # 0 /\ calls \in Nat
  BY <1>0, <1>2, Fields
<1> HIDE DEF c, z
<1>9. SyncTypeOK'
  BY <1>0, <1>1, <1>5, <1>6 DEF SyncTypeOK
<1>10. BuffersAreLive'
  <2>1. slot[x].slot_in_use
    BY <1>0, <1>1, <1>2 DEF BuffersAreLive
  <2>2. \A s \in Slots : slot'[s].slot_in_use = slot[s].slot_in_use
    BY <1>4, <1>6
  <2>3. \A u \in Threads : /\ call'[u].slot = call[u].slot /\ call'[u].n = call[u].n
                           /\ call'[u].at = "out" <=> call[u].at = "out"
    BY <1>1, <1>3, <1>5
  <2>4. ASSUME NEW s \in Slots, slot'[s].buffer # 0
        PROVE  /\ slot'[s].slot_in_use
               /\ \E u \in Threads : /\ call'[u].n = slot'[s].buffer /\ call'[u].at # "out"
                                     /\ call'[u].slot = s
    <3>1. CASE s = x
      BY <1>1, <1>3, <1>4, <1>5, <1>6, <2>1, <3>1
    <3>2. CASE s # x
      BY <1>0, <1>6, <2>2, <2>3, <2>4, <3>2 DEF BuffersAreLive
    <3> QED BY <3>1, <3>2
  <2> QED BY <1>0, <1>1, <2>2, <2>3, <2>4 DEF BuffersAreLive
<1>11. AnswersFit'
  BY <1>0, <1>1, <1>2, <1>3, <1>5 DEF AnswersFit
<1>12. PlacesTell'
  <2>1. Tells(t)'
    BY <1>1, <1>2, <1>3, <1>4, <1>5, <1>6 DEF Tells, Holding, Waiting
  <2>2. \A u \in Threads : u # t => Tells(u)'
    BY <1>1, <1>5, <1>6, <1>7, <1>8, OthersTell
  <2> QED BY <2>1, <2>2 DEF PlacesTell
<1>13. NumbersDiffer'
  BY <1>0, <1>1, <1>3, <1>4, <1>5, <1>6, <1>8 DEF NumbersDiffer
<1>14. CleanIsExclusive'
  BY <1>0, <1>1, <1>2, <1>3, <1>5 DEF CleanIsExclusive
<1> QED BY <1>9, <1>10, <1>11, <1>12, <1>13, <1>14 DEF SyncInv

\* The first free slot is the call's; a call that finds none is over.
LEMMA Allocates ==
  ASSUME SyncInv, NEW t \in Threads, loc_alloc_slot(t)
  PROVE  SyncInv'
<1> USE SyncBoundsAssumption DEF At
<1>0. /\ SyncTypeOK /\ BuffersAreLive /\ AnswersFit /\ PlacesTell /\ NumbersDiffer
      /\ CleanIsExclusive
  BY DEF SyncInv
<1>1. call[t].at = "alloc" /\ UNCHANGED <<modem, calls, clean>>
  BY DEF loc_alloc_slot
<1>2. /\ call[t].slot = 0 /\ call[t].answer = 0 /\ call[t].status = "none"
      /\ call[t].n \in 1..calls /\ call[t].key \in Keys
  BY <1>0, <1>1 DEF PlacesTell, Tells
<1>3. call[t].n \in Nat /\ call[t].n # 0 /\ calls \in Nat
  BY <1>0, <1>2, Fields
<1>4. CASE call' = [call EXCEPT ![t] = NoCall] /\ UNCHANGED <<in_use, slot>>
  <2>1. /\ NoCall.at = "out" /\ NoCall.key = "none" /\ NoCall.n = 0 /\ NoCall.slot = 0
        /\ NoCall.answer = 0 /\ NoCall.status = "none" /\ NoCall \in CallType
    BY DEF NoCall, CallType
  <2>2. /\ call'[t] = NoCall /\ \A u \in Threads : u # t => call'[u] = call[u]
        /\ call' \in [Threads -> CallType]
    BY <1>0, <1>4, <2>1 DEF SyncTypeOK
  <2>3. SyncTypeOK'
    BY <1>0, <1>1, <1>4, <2>2 DEF SyncTypeOK
  <2>4. BuffersAreLive'
    BY <1>0, <1>1, <1>2, <1>4, <2>1, <2>2, Fields DEF BuffersAreLive
  <2>5. AnswersFit'
    BY <1>0, <1>1, <2>1, <2>2 DEF AnswersFit
  <2>6. PlacesTell'
    <3>1. Tells(t)'
      BY <2>1, <2>2 DEF Tells, Holding, Waiting
    <3>2. \A u \in Threads : call[u].slot # LOC_SYNC_REQ_BUFFER_SIZE + 1
      BY <1>0, Fields DEF Slots
    <3>3. calls' \in Nat /\ calls <= calls'
      BY <1>1, <1>3
    <3>4. \A u \in Threads : u # t => Tells(u)'
      BY <1>4, <2>2, <3>2, <3>3, OthersTell
    <3> QED BY <3>1, <3>4 DEF PlacesTell
  <2>7. NumbersDiffer'
    <3>1. \A u \in Threads : call[u].n = 0 => call[u].at = "out"
      BY <1>0, <1>3, Fields DEF PlacesTell, Tells
    <3> QED BY <1>0, <1>4, <2>1, <2>2, <3>1 DEF NumbersDiffer
  <2>8. CleanIsExclusive'
    <3>1. "none" \notin clean
      BY <1>0, KeysAssumption DEF SyncTypeOK
    <3> QED BY <1>0, <1>1, <2>1, <2>2, <3>1 DEF CleanIsExclusive
  <2> QED BY <2>3, <2>4, <2>5, <2>6, <2>7, <2>8 DEF SyncInv
<1>5. ASSUME NEW s \in FreeSlots,
             slot' = [slot EXCEPT ![s].slot_in_use = TRUE], in_use' = TRUE,
             call' = [call EXCEPT ![t].at = "select", ![t].slot = s]
      PROVE  SyncInv'
  <2> DEFINE c == [call[t] EXCEPT !.at = "select", !.slot = s]
             z == [slot[s] EXCEPT !.slot_in_use = TRUE]
  <2>1. s \in Slots /\ ~slot[s].slot_in_use
    BY DEF FreeSlots
  <2>2. slot[s].buffer = 0 /\ \A u \in Threads : call[u].slot = s => call[u].at = "out"
    BY <1>0, <2>1 DEF BuffersAreLive
  <2>3. \A u \in Threads : call[u].slot # s
    <3>1. \A u \in Threads : call[u].at = "out" => call[u].slot = 0
      BY <1>0 DEF PlacesTell, Tells, NoCall
    <3> QED BY <1>0, <2>1, <2>2, <3>1, Fields
  <2>4. /\ c.at = "select" /\ c.key = call[t].key /\ c.n = call[t].n /\ c.slot = s
        /\ c.answer = call[t].answer /\ c.status = call[t].status /\ c \in CallType
    BY <1>0, <2>1, Fields DEF CallType
  <2>5. /\ z.slot_in_use /\ z.key = slot[s].key /\ z.buffer = slot[s].buffer
        /\ z.is_waiting = slot[s].is_waiting /\ z.has_arrived = slot[s].has_arrived
        /\ z \in SlotType
    BY <1>0, <2>1, Fields DEF SlotType
  <2>6. /\ call'[t] = c /\ \A u \in Threads : u # t => call'[u] = call[u]
        /\ call' \in [Threads -> CallType]
    <3>1. call' = [call EXCEPT ![t] = c]
      BY <1>0, <1>5 DEF SyncTypeOK
    <3> QED BY <1>0, <2>4, <3>1 DEF SyncTypeOK
  <2>7. /\ slot'[s] = z /\ \A r \in Slots : r # s => slot'[r] = slot[r]
        /\ slot' \in [Slots -> SlotType]
    BY <1>0, <1>5, <2>1, <2>5 DEF SyncTypeOK
  <2> HIDE DEF c, z
  <2>8. SyncTypeOK'
    BY <1>0, <1>1, <1>5, <2>6, <2>7 DEF SyncTypeOK
  <2>9. BuffersAreLive'
    <3>1. \A r \in Slots : slot'[r].buffer = slot[r].buffer
      BY <2>5, <2>7
    <3>2. ASSUME NEW r \in Slots, slot'[r].buffer # 0
          PROVE  /\ slot'[r].slot_in_use
                 /\ \E u \in Threads : /\ call'[u].n = slot'[r].buffer /\ call'[u].at # "out"
                                       /\ call'[u].slot = r
      <4>1. r # s /\ slot'[r] = slot[r]
        BY <2>2, <2>7, <3>1, <3>2
      <4>2. call[t].slot # r
        BY <1>0, <1>2, Fields
      <4> QED BY <1>0, <2>6, <3>2, <4>1, <4>2 DEF BuffersAreLive
    <3>3. ASSUME NEW r \in Slots
          PROVE  slot'[r].slot_in_use <=>
                   \E u \in Threads : call'[u].slot = r /\ call'[u].at # "out"
      <4>1. CASE r = s
        BY <2>4, <2>5, <2>6, <2>7, <4>1
      <4>2. CASE r # s
        <5>1. call[t].slot # r /\ call'[t].slot # r
          BY <1>0, <1>2, <2>4, <2>6, <4>2, Fields
        <5> QED BY <1>0, <2>6, <2>7, <4>2, <5>1 DEF BuffersAreLive
      <4> QED BY <4>1, <4>2
    <3>4. \A u, v \in Threads : call'[u].slot = call'[v].slot => u = v \/ call'[u].slot = 0
      BY <1>0, <2>3, <2>4, <2>6 DEF BuffersAreLive
    <3>5. in_use' <=> \E r \in Slots : slot'[r].slot_in_use
      BY <1>5, <2>1, <2>5, <2>7
    <3> QED BY <3>2, <3>3, <3>4, <3>5 DEF BuffersAreLive
  <2>10. AnswersFit'
    BY <1>0, <1>1, <2>4, <2>6 DEF AnswersFit
  <2>11. PlacesTell'
    <3>1. Tells(t)'
      BY <1>1, <1>2, <2>1, <2>2, <2>4, <2>5, <2>6, <2>7 DEF Tells, Holding, Waiting
    <3>2. \A u \in Threads : u # t => Tells(u)'
      BY <1>1, <1>3, <2>3, <2>6, <2>7, OthersTell
    <3> QED BY <3>1, <3>2 DEF PlacesTell
  <2>12. NumbersDiffer'
    BY <1>0, <1>1, <2>4, <2>5, <2>6, <2>7 DEF NumbersDiffer
  <2>13. CleanIsExclusive'
    BY <1>0, <1>1, <2>4, <2>6 DEF CleanIsExclusive
  <2> QED BY <2>8, <2>9, <2>10, <2>11, <2>12, <2>13 DEF SyncInv
<1> QED BY <1>4, <1>5 DEF loc_alloc_slot

\* The request goes out with no answer to it yet, if its key is clean; or it does not.
LEMMA Sends ==
  ASSUME SyncInv, NEW t \in Threads, locClientSendReq(t)
  PROVE  SyncInv'
<1> USE SyncBoundsAssumption DEF At
<1>0. /\ SyncTypeOK /\ BuffersAreLive /\ AnswersFit /\ PlacesTell /\ NumbersDiffer
      /\ CleanIsExclusive
  BY DEF SyncInv
<1>1. call[t].at = "send" /\ UNCHANGED <<in_use, slot, calls, clean>>
  BY DEF locClientSendReq
<1> DEFINE r == [key |-> call[t].key, n |-> call[t].n]
<1>2. PICK c \in CallType :
        /\ call' = [call EXCEPT ![t] = c]
        /\ c.key = call[t].key /\ c.n = call[t].n /\ c.slot = call[t].slot /\ c.answer = call[t].answer
        /\ \/ c.at = "wait" /\ c.status = call[t].status /\ modem' = modem \cup {r}
           \/ c.at = "free" /\ c.status = "ERROR" /\ modem' = modem
  <2>1. call \in [Threads -> CallType] /\ call[t] \in CallType
    BY <1>0 DEF SyncTypeOK
  <2>2. CASE modem' = modem \cup {r} /\ call' = [call EXCEPT ![t].at = "wait"]
    <3> DEFINE c == [call[t] EXCEPT !.at = "wait"]
    <3>1. /\ c.key = call[t].key /\ c.n = call[t].n /\ c.slot = call[t].slot
          /\ c.answer = call[t].answer /\ c.at = "wait" /\ c.status = call[t].status
          /\ c \in CallType
      BY <2>1 DEF CallType
    <3>2. call' = [call EXCEPT ![t] = c]
      BY <2>2
    <3> HIDE DEF c
    <3> QED BY <2>2, <3>1, <3>2
  <2>3. CASE modem' = modem /\ call' = [call EXCEPT ![t].at = "free", ![t].status = "ERROR"]
    <3> DEFINE c == [call[t] EXCEPT !.at = "free", !.status = "ERROR"]
    <3>1. /\ c.key = call[t].key /\ c.n = call[t].n /\ c.slot = call[t].slot
          /\ c.answer = call[t].answer /\ c.at = "free" /\ c.status = "ERROR"
          /\ c \in CallType
      BY <2>1 DEF CallType
    <3>2. call' = [call EXCEPT ![t] = c]
      BY <2>1, <2>3
    <3> HIDE DEF c
    <3> QED BY <2>3, <3>1, <3>2
  <2> QED BY <2>2, <2>3 DEF locClientSendReq, Goes
<1>3. /\ call'[t] = c /\ \A u \in Threads : u # t => call'[u] = call[u]
      /\ call' \in [Threads -> CallType]
  BY <1>0, <1>2 DEF SyncTypeOK
<1>4. /\ call[t].n \in 1..calls /\ call[t].key \in Keys /\ call[t].slot \in Slots
      /\ call[t].status = "none"
  BY <1>0, <1>1 DEF PlacesTell, Tells, Holding
<1>5. SyncTypeOK'
  <2>1. r \in [key : Keys, n : 1..MaxCalls]
    BY <1>0, <1>4 DEF SyncTypeOK
  <2> HIDE DEF r
  <2> QED BY <1>0, <1>1, <1>2, <1>3, <2>1 DEF SyncTypeOK
<1>6. BuffersAreLive' /\ NumbersDiffer'
  BY <1>0, <1>1, <1>2, <1>3, HoldingKept
<1>7. AnswersFit'
  BY <1>0, <1>1, <1>2, <1>3, <1>4 DEF AnswersFit
<1>8. PlacesTell'
  <2>1. Tells(t)'
    <3>1. Tells(t)
      BY <1>0 DEF PlacesTell
    <3> QED BY <1>1, <1>2, <1>3, <1>4, <3>1 DEF Tells, Holding, Waiting
  <2>2. \A u \in Threads : u # t => Tells(u)'
    <3>1. \A u \in Threads : u # t => call[u].slot # call[t].slot
      BY <1>4, SlotIsOwn
    <3>2. calls' \in Nat /\ calls <= calls'
      BY <1>0, <1>1, Fields
    <3> QED BY <1>1, <1>3, <3>1, <3>2, OthersTell
  <2> QED BY <2>1, <2>2 DEF PlacesTell
<1>9. CleanIsExclusive'
  <2>1. r.key = call[t].key /\ r.n = call[t].n
    OBVIOUS
  <2> HIDE DEF r
  <2>2. ASSUME NEW q \in modem', q.key \in clean
        PROVE  \E u \in Threads : /\ call'[u].key = q.key /\ call'[u].n = q.n
                                  /\ call'[u].at \in {"wait", "asleep"} /\ call'[u].answer = 0
    <3>1. CASE q \in modem
      BY <1>0, <1>1, <1>3, <2>2, <3>1 DEF CleanIsExclusive
    <3>2. CASE q \notin modem
      BY <1>0, <1>1, <1>2, <1>3, <2>1, <2>2, <3>2 DEF CleanIsExclusive
    <3> QED BY <3>1, <3>2
  <2> QED BY <1>0, <1>1, <1>2, <1>3, <2>2 DEF CleanIsExclusive
<1> QED BY <1>5, <1>6, <1>7, <1>8, <1>9 DEF SyncInv

\* A call whose answer has come goes on with it; the others sleep, without one.
LEMMA Waits ==
  ASSUME SyncInv, NEW t \in Threads, loc_sync_wait_for_ind(t)
  PROVE  SyncInv'
<1> USE SyncBoundsAssumption DEF At
<1>0. /\ SyncTypeOK /\ BuffersAreLive /\ AnswersFit /\ PlacesTell /\ NumbersDiffer
      /\ CleanIsExclusive
  BY DEF SyncInv
<1> DEFINE x == call[t].slot
<1>1. call[t].at = "wait" /\ UNCHANGED <<in_use, modem, calls, clean>>
  BY DEF loc_sync_wait_for_ind
<1>2. /\ x \in Slots /\ call[t].status = "none" /\ slot[x].buffer = call[t].n
      /\ slot[x].key = call[t].key /\ ~slot[x].is_waiting
      /\ slot[x].has_arrived <=> call[t].answer # 0
      /\ call[t].n \in 1..calls /\ call[t].key \in Keys
  BY <1>0, <1>1 DEF PlacesTell, Tells, Holding, Waiting
<1>3. PICK c \in CallType, z \in SlotType :
        /\ call' = [call EXCEPT ![t] = c] /\ slot' = [slot EXCEPT ![x] = z]
        /\ c.key = call[t].key /\ c.n = call[t].n /\ c.slot = x /\ c.answer = call[t].answer
        /\ z.slot_in_use = slot[x].slot_in_use /\ z.key = slot[x].key
        /\ z.buffer = slot[x].buffer /\ z.has_arrived = slot[x].has_arrived
        /\ \/ c.at = "free" /\ c.status = "SUCCESS" /\ ~z.is_waiting /\ slot[x].has_arrived
           \/ c.at = "asleep" /\ c.status = "none" /\ z.is_waiting /\ ~slot[x].has_arrived
  <2>1. call \in [Threads -> CallType] /\ call[t] \in CallType
    BY <1>0 DEF SyncTypeOK
  <2>2. slot \in [Slots -> SlotType] /\ slot[x] \in SlotType
    BY <1>0, <1>2 DEF SyncTypeOK
  <2>3. CASE slot[x].has_arrived
    <3> DEFINE c == [call[t] EXCEPT !.at = "free", !.status = "SUCCESS"]
    <3>1. /\ c.key = call[t].key /\ c.n = call[t].n /\ c.slot = x
          /\ c.answer = call[t].answer /\ c.at = "free" /\ c.status = "SUCCESS" /\ c \in CallType
      BY <2>1 DEF CallType
    <3>2. call' = [call EXCEPT ![t] = c] /\ slot' = [slot EXCEPT ![x] = slot[x]]
      BY <2>1, <2>2, <2>3 DEF loc_sync_wait_for_ind
    <3> HIDE DEF c
    <3> QED BY <1>2, <2>2, <2>3, <3>1, <3>2
  <2>4. CASE ~slot[x].has_arrived
    <3> DEFINE c == [call[t] EXCEPT !.at = "asleep"]
               z == [slot[x] EXCEPT !.is_waiting = TRUE]
    <3>1. /\ c.key = call[t].key /\ c.n = call[t].n /\ c.slot = x
          /\ c.answer = call[t].answer /\ c.at = "asleep" /\ c.status = call[t].status
          /\ c \in CallType
      BY <2>1 DEF CallType
    <3>2. /\ z.slot_in_use = slot[x].slot_in_use /\ z.key = slot[x].key
          /\ z.buffer = slot[x].buffer /\ z.has_arrived = slot[x].has_arrived
          /\ z.is_waiting /\ z \in SlotType
      BY <2>2 DEF SlotType
    <3>3. call' = [call EXCEPT ![t] = c] /\ slot' = [slot EXCEPT ![x] = z]
      BY <2>4 DEF loc_sync_wait_for_ind, Goes
    <3> HIDE DEF c, z
    <3> QED BY <1>2, <2>4, <3>1, <3>2, <3>3
  <2> QED BY <2>3, <2>4
<1>4. /\ call'[t] = c /\ \A u \in Threads : u # t => call'[u] = call[u]
      /\ call' \in [Threads -> CallType]
  BY <1>0, <1>3 DEF SyncTypeOK
<1>5. /\ slot'[x] = z /\ \A s \in Slots : s # x => slot'[s] = slot[s]
      /\ slot' \in [Slots -> SlotType]
  BY <1>0, <1>2, <1>3 DEF SyncTypeOK
<1>6. SyncTypeOK'
  BY <1>0, <1>1, <1>4, <1>5 DEF SyncTypeOK
<1>7. BuffersAreLive' /\ NumbersDiffer'
  BY <1>0, <1>1, <1>3, <1>4, <1>5, HoldingKept
<1>8. AnswersFit'
  BY <1>0, <1>1, <1>2, <1>3, <1>4 DEF AnswersFit
<1>9. PlacesTell'
  <2>1. Tells(t)'
    BY <1>1, <1>2, <1>3, <1>4, <1>5 DEF Tells, Holding, Waiting
  <2>2. \A u \in Threads : u # t => Tells(u)'
    <3>1. \A u \in Threads : u # t => call[u].slot # x
      BY <1>2, SlotIsOwn
    <3>2. calls' \in Nat /\ calls <= calls'
      BY <1>0, <1>1, Fields
    <3> QED BY <1>4, <1>5, <3>1, <3>2, OthersTell
  <2> QED BY <2>1, <2>2 DEF PlacesTell
<1>10. CleanIsExclusive'
  <2>1. ASSUME NEW q \in modem, q.key \in clean
        PROVE  \E u \in Threads : /\ call'[u].key = q.key /\ call'[u].n = q.n
                                  /\ call'[u].at \in {"wait", "asleep"} /\ call'[u].answer = 0
    <3>1. PICK u \in Threads : /\ call[u].key = q.key /\ call[u].n = q.n
                               /\ call[u].at \in {"wait", "asleep"} /\ call[u].answer = 0
      BY <1>0, <2>1 DEF CleanIsExclusive
    <3> QED BY <1>2, <1>3, <1>4, <3>1
  <2> QED BY <1>0, <1>1, <1>3, <1>4, <2>1 DEF CleanIsExclusive
<1> QED BY <1>6, <1>7, <1>8, <1>9, <1>10 DEF SyncInv

\* A call that was signalled has its answer; the key of one whose time is up is clean no more.
LEMMA Wakes ==
  ASSUME SyncInv, NEW t \in Threads, loc_sync_wakes(t)
  PROVE  SyncInv'
<1> USE SyncBoundsAssumption DEF At
<1>0. /\ SyncTypeOK /\ BuffersAreLive /\ AnswersFit /\ PlacesTell /\ NumbersDiffer
      /\ CleanIsExclusive
  BY DEF SyncInv
<1> DEFINE x == call[t].slot
           c == [call[t] EXCEPT !.at = "free",
                                !.status = IF Woken(t) THEN "SUCCESS" ELSE "TIMEOUT"]
           z == [slot[x] EXCEPT !.is_waiting = FALSE]
<1>1. /\ call[t].at \in {"woken", "asleep"} /\ UNCHANGED <<in_use, modem, calls>>
      /\ slot' = [slot EXCEPT ![x] = z]
  BY DEF loc_sync_wakes, Woken, TimedOut
<1>2. call' = [call EXCEPT ![t] = c]
  BY <1>0 DEF loc_sync_wakes, SyncTypeOK
<1>3. clean' = IF call[t].at = "woken" THEN clean ELSE clean \ {call[t].key}
  BY DEF loc_sync_wakes, Woken
<1>4. /\ x \in Slots /\ call[t].status = "none" /\ slot[x].buffer = call[t].n
      /\ slot[x].key = call[t].key /\ call[t].n \in 1..calls /\ call[t].key \in Keys
      /\ call[t].at = "woken" => call[t].answer # 0
  BY <1>0, <1>1 DEF PlacesTell, Tells, Holding, Waiting
<1>5. /\ c.at = "free" /\ c.key = call[t].key /\ c.n = call[t].n /\ c.slot = x
      /\ c.answer = call[t].answer
      /\ c.status = "SUCCESS" <=> call[t].at = "woken"
      /\ c \in CallType
  BY <1>0, Fields DEF CallType, Woken
<1>6. /\ z.slot_in_use = slot[x].slot_in_use /\ z.key = slot[x].key /\ z.buffer = slot[x].buffer
      /\ ~z.is_waiting /\ z \in SlotType
  BY <1>0, <1>4, Fields DEF SlotType
<1>7. /\ call'[t] = c /\ \A u \in Threads : u # t => call'[u] = call[u]
      /\ call' \in [Threads -> CallType]
  BY <1>0, <1>2, <1>5 DEF SyncTypeOK
<1>8. /\ slot'[x] = z /\ \A s \in Slots : s # x => slot'[s] = slot[s]
      /\ slot' \in [Slots -> SlotType]
  BY <1>0, <1>1, <1>4, <1>6 DEF SyncTypeOK
<1> HIDE DEF c, z
<1>9. SyncTypeOK'
  BY <1>0, <1>1, <1>3, <1>7, <1>8 DEF SyncTypeOK
<1>10. BuffersAreLive' /\ NumbersDiffer'
  BY <1>0, <1>1, <1>5, <1>6, <1>7, <1>8, HoldingKept
<1>11. AnswersFit'
  BY <1>0, <1>1, <1>3, <1>4, <1>5, <1>7 DEF AnswersFit
<1>12. PlacesTell'
  <2>1. Tells(t)'
    BY <1>1, <1>4, <1>5, <1>6, <1>7, <1>8 DEF Tells, Holding, Waiting
  <2>2. \A u \in Threads : u # t => Tells(u)'
    <3>1. \A u \in Threads : u # t => call[u].slot # x
      BY <1>4, SlotIsOwn
    <3>2. calls' \in Nat /\ calls <= calls'
      BY <1>0, <1>1, Fields
    <3> QED BY <1>7, <1>8, <3>1, <3>2, OthersTell
  <2> QED BY <2>1, <2>2 DEF PlacesTell
<1>13. CleanIsExclusive'
  <2>1. ASSUME NEW q \in modem, q.key \in clean'
        PROVE  \E u \in Threads : /\ call'[u].key = q.key /\ call'[u].n = q.n
                                  /\ call'[u].at \in {"wait", "asleep"} /\ call'[u].answer = 0
    <3>1. PICK u \in Threads : /\ call[u].key = q.key /\ call[u].n = q.n
                               /\ call[u].at \in {"wait", "asleep"} /\ call[u].answer = 0
      BY <1>0, <1>3, <2>1 DEF CleanIsExclusive
    <3>2. u # t
      BY <1>1, <1>3, <2>1, <3>1
    <3> QED BY <1>7, <3>1, <3>2
  <2> QED BY <1>0, <1>1, <1>3, <1>5, <1>7, <2>1 DEF CleanIsExclusive
<1> QED BY <1>9, <1>10, <1>11, <1>12, <1>13 DEF SyncInv

\* The slot knows nothing of the call that returns.
LEMMA Frees ==
  ASSUME SyncInv, NEW t \in Threads, loc_free_slot(t)
  PROVE  SyncInv'
<1> USE SyncBoundsAssumption DEF At
<1>0. /\ SyncTypeOK /\ BuffersAreLive /\ AnswersFit /\ PlacesTell /\ NumbersDiffer
      /\ CleanIsExclusive
  BY DEF SyncInv
<1> DEFINE x == call[t].slot
<1>1. /\ call[t].at = "free" /\ UNCHANGED <<modem, calls, clean>>
      /\ slot' = [slot EXCEPT ![x] = FreeSlot] /\ call' = [call EXCEPT ![t] = NoCall]
      /\ in_use' = \E r \in Slots \ {x} : slot[r].slot_in_use
  BY DEF loc_free_slot, Freed
<1>2. x \in Slots /\ call[t].n \in 1..calls
  BY <1>0, <1>1 DEF PlacesTell, Tells, Holding
<1>3. /\ NoCall.at = "out" /\ NoCall.key = "none" /\ NoCall.n = 0 /\ NoCall.slot = 0
      /\ NoCall.answer = 0 /\ NoCall.status = "none" /\ NoCall \in CallType
  BY DEF NoCall, CallType
<1>4. /\ ~FreeSlot.slot_in_use /\ FreeSlot.key = "none" /\ FreeSlot.buffer = 0
      /\ FreeSlot \in SlotType
  BY DEF FreeSlot, SlotType
<1>5. /\ call'[t] = NoCall /\ \A u \in Threads : u # t => call'[u] = call[u]
      /\ call' \in [Threads -> CallType]
  BY <1>0, <1>1, <1>3 DEF SyncTypeOK
<1>6. /\ slot'[x] = FreeSlot /\ \A s \in Slots : s # x => slot'[s] = slot[s]
      /\ slot' \in [Slots -> SlotType]
  BY <1>0, <1>1, <1>2, <1>4 DEF SyncTypeOK
<1>7. \A u \in Threads : u # t => call[u].slot # x
  BY <1>2, SlotIsOwn
<1>8. \A s \in Slots : s # 0
  BY <1>0, Fields
<1>9. SyncTypeOK'
  BY <1>0, <1>1, <1>5, <1>6 DEF SyncTypeOK
<1>10. BuffersAreLive'
  <2>1. ASSUME NEW s \in Slots, slot'[s].buffer # 0
        PROVE  /\ slot'[s].slot_in_use
               /\ \E u \in Threads : /\ call'[u].n = slot'[s].buffer /\ call'[u].at # "out"
                                     /\ call'[u].slot = s
    <3>1. s # x /\ slot'[s] = slot[s]
      BY <1>4, <1>6, <2>1
    <3>2. PICK u \in Threads : call[u].n = slot[s].buffer /\ call[u].at # "out" /\ call[u].slot = s
      BY <1>0, <2>1, <3>1 DEF BuffersAreLive
    <3> QED BY <1>0, <1>5, <2>1, <3>1, <3>2 DEF BuffersAreLive
  <2>2. ASSUME NEW s \in Slots
        PROVE  slot'[s].slot_in_use <=>
                 \E u \in Threads : call'[u].slot = s /\ call'[u].at # "out"
    <3>1. CASE s = x
      BY <1>3, <1>4, <1>5, <1>6, <1>7, <3>1
    <3>2. CASE s # x
      BY <1>0, <1>3, <1>5, <1>6, <1>8, <3>2 DEF BuffersAreLive
    <3> QED BY <3>1, <3>2
  <2>3. \A u, v \in Threads : call'[u].slot = call'[v].slot => u = v \/ call'[u].slot = 0
    BY <1>0, <1>3, <1>5 DEF BuffersAreLive
  <2>4. in_use' <=> \E s \in Slots : slot'[s].slot_in_use
    BY <1>1, <1>2, <1>4, <1>6
  <2> QED BY <2>1, <2>2, <2>3, <2>4 DEF BuffersAreLive
<1>11. AnswersFit'
  BY <1>0, <1>1, <1>3, <1>5 DEF AnswersFit
<1>12. PlacesTell'
  <2>1. Tells(t)'
    BY <1>3, <1>5 DEF Tells, Holding, Waiting
  <2>2. \A u \in Threads : u # t => Tells(u)'
    <3>1. calls' \in Nat /\ calls <= calls'
      BY <1>0, <1>1, Fields
    <3> QED BY <1>5, <1>6, <1>7, <3>1, OthersTell
  <2> QED BY <2>1, <2>2 DEF PlacesTell
<1>13. NumbersDiffer'
  <2>1. \A u \in Threads : call[u].n = 0 => call[u].at = "out"
    BY <1>0, Fields DEF PlacesTell, Tells
  <2> QED BY <1>0, <1>3, <1>4, <1>5, <1>6, <2>1 DEF NumbersDiffer
<1>14. CleanIsExclusive'
  <2>1. "none" \notin clean
    BY <1>0, KeysAssumption DEF SyncTypeOK
  <2> QED BY <1>0, <1>1, <1>3, <1>5, <2>1 DEF CleanIsExclusive
<1> QED BY <1>9, <1>10, <1>11, <1>12, <1>13, <1>14 DEF SyncInv

\* A request that is forgotten, answered or lost.
LEMMA Forgets ==
  ASSUME SyncInv, NEW r \in modem, modem' = modem \ {r},
         UNCHANGED <<in_use, slot, call, calls, clean>>
  PROVE  SyncInv'
<1>0. /\ SyncTypeOK /\ BuffersAreLive /\ AnswersFit /\ PlacesTell /\ NumbersDiffer
      /\ CleanIsExclusive
  BY DEF SyncInv
<1>1. SyncTypeOK'
  BY <1>0 DEF SyncTypeOK
<1>2. BuffersAreLive'
  BY <1>0 DEF BuffersAreLive, At
<1>3. AnswersFit'
  BY <1>0 DEF AnswersFit, At
<1>4. PlacesTell'
  BY <1>0 DEF PlacesTell, Tells
<1>5. NumbersDiffer'
  BY <1>0 DEF NumbersDiffer, At
<1>6. CleanIsExclusive'
  BY <1>0 DEF CleanIsExclusive, At
<1> QED BY <1>1, <1>2, <1>3, <1>4, <1>5, <1>6 DEF SyncInv

\* An indication consumed by a slot: the slot's call gets the answer, which is the answer to its
\* own request if the key is clean, for then the request is that of the only call that asks.
LEMMA Answers ==
  ASSUME SyncInv, NEW r \in modem, modem' = modem \ {r},
         NEW x \in Slots, Expects(x, r.key), Consumes(x, r.key, r.n),
         UNCHANGED <<in_use, calls, clean>>
  PROVE  SyncInv'
<1> USE SyncBoundsAssumption DEF At
<1>0. /\ SyncTypeOK /\ BuffersAreLive /\ AnswersFit /\ PlacesTell /\ NumbersDiffer
      /\ CleanIsExclusive
  BY DEF SyncInv
<1>1. /\ r \in [key : Keys, n : 1..MaxCalls] /\ modem \subseteq [key : Keys, n : 1..MaxCalls]
      /\ r.key \in Keys /\ r.n \in 0..MaxCalls /\ r.n # 0
  BY <1>0 DEF SyncTypeOK
<1>2. slot[x].key = r.key /\ ~slot[x].has_arrived /\ slot[x].buffer # 0
  BY <1>0, <1>1, KeysAssumption DEF Expects, NumbersDiffer
<1>3. PICK t \in Threads : call[t].n = slot[x].buffer /\ call[t].at # "out" /\ call[t].slot = x
  BY <1>0, <1>2 DEF BuffersAreLive
<1>4. \A u \in Threads : call[u].n = slot[x].buffer => u = t
  BY <1>0, <1>3 DEF NumbersDiffer
<1>5. /\ call[t].at \in Waiting /\ call[t].key = r.key
      /\ call[t].at # "free" => call[t].status = "none"
      /\ slot[x].is_waiting => call[t].at \in {"asleep", "woken"}
      /\ call[t].at = "asleep" => slot[x].is_waiting
      /\ call[t].n \in 1..calls /\ call[t].key \in Keys
  <2>1. Tells(t) /\ x # 0 /\ call[t] \in CallType
    BY <1>0, Fields DEF PlacesTell
  <2>2. call[t].at \in Waiting
    <3>1. call[t].at \notin {"out", "alloc", "select"}
      BY <1>2, <1>3, <2>1 DEF Tells
    <3>2. call[t].at \in {"out", "alloc", "select", "send", "wait", "asleep", "woken", "free"}
      BY <2>1 DEF CallType
    <3> QED BY <3>1, <3>2 DEF Waiting, Holding
  <2>3. call[t].at \in {"send", "wait", "asleep", "woken", "free"}
    BY <2>2 DEF Waiting, Holding
  <2> QED BY <1>2, <1>3, <2>1, <2>2, <2>3 DEF Tells
<1> DEFINE c == [call[t] EXCEPT !.answer = r.n,
                                !.at = IF slot[x].is_waiting THEN "woken" ELSE @]
           z == [slot[x] EXCEPT !.has_arrived = ~slot[x].is_waiting]
<1>6. /\ c.at = (IF slot[x].is_waiting THEN "woken" ELSE call[t].at) /\ c.key = call[t].key
      /\ c.n = call[t].n /\ c.slot = x /\ c.answer = r.n /\ c.status = call[t].status
      /\ c \in CallType
  BY <1>0, <1>1, <1>3, Fields DEF CallType
<1>7. /\ z.slot_in_use = slot[x].slot_in_use /\ z.key = slot[x].key /\ z.buffer = slot[x].buffer
      /\ z.is_waiting = slot[x].is_waiting /\ z.has_arrived = ~slot[x].is_waiting /\ z \in SlotType
  BY <1>0, Fields DEF SlotType
<1>8. /\ call'[t] = c /\ \A u \in Threads : u # t => call'[u] = call[u]
      /\ call' \in [Threads -> CallType]
  <2>1. \A u \in Threads : u \in Owner(slot[x].buffer) <=> u = t
    BY <1>3, <1>4 DEF Owner
  <2>2. call' = [u \in Threads |-> IF u = t THEN c ELSE call[u]]
    BY <2>1 DEF Consumes
  <2> HIDE DEF c
  <2> QED BY <1>0, <1>6, <2>2 DEF SyncTypeOK
<1>9. /\ slot'[x] = z /\ \A s \in Slots : s # x => slot'[s] = slot[s]
      /\ slot' \in [Slots -> SlotType]
  BY <1>0, <1>7 DEF SyncTypeOK, Consumes
<1> HIDE DEF c, z
<1>10. SyncTypeOK'
  BY <1>0, <1>8, <1>9 DEF SyncTypeOK
<1>11. BuffersAreLive' /\ NumbersDiffer'
  <2>1. c.at # "out"
    BY <1>3, <1>6
  <2> QED BY <1>0, <1>3, <1>6, <1>7, <1>8, <1>9, <2>1, HoldingKept
\* Clean, the key is asked for by t only, and request r is that of a call that asks for it.
<1>12. r.key \in clean => r.n = call[t].n /\ call[t].at \in {"wait", "asleep"}
  BY <1>0, <1>5 DEF CleanIsExclusive
<1>13. AnswersFit'
  BY <1>0, <1>1, <1>5, <1>6, <1>8, <1>12 DEF AnswersFit
<1>14. PlacesTell'
  <2>1. Tells(t)'
    <3>1. /\ c.at \in {"send", "wait", "woken", "free"}
          /\ c.at \in {"send", "wait", "free"} => ~slot[x].is_waiting
      BY <1>5, <1>6 DEF Holding, Waiting
    <3>2. c.slot \in Slots /\ c.answer # 0 /\ slot'[c.slot] = z /\ z.buffer = c.n /\ z.key = c.key
      BY <1>1, <1>2, <1>3, <1>5, <1>6, <1>7, <1>9
    <3>3. c.at # "free" => c.status = "none"
      BY <1>5, <1>6
    <3>4. c.n \in 1..calls' /\ c.key \in Keys
      BY <1>5, <1>6
    <3> QED BY <1>7, <1>8, <3>1, <3>2, <3>3, <3>4 DEF Tells, Holding, Waiting
  <2>2. \A u \in Threads : u # t => Tells(u)'
    <3>1. \A u \in Threads : u # t => call[u].slot # x
      BY <1>3, SlotIsOwn
    <3>2. calls' \in Nat /\ calls <= calls'
      BY <1>0, Fields
    <3> QED BY <1>8, <1>9, <3>1, <3>2, OthersTell
  <2> QED BY <2>1, <2>2 DEF PlacesTell
<1>15. CleanIsExclusive'
  <2>1. ASSUME NEW q \in modem', q.key \in clean
        PROVE  \E u \in Threads : /\ call'[u].key = q.key /\ call'[u].n = q.n
                                  /\ call'[u].at \in {"wait", "asleep"} /\ call'[u].answer = 0
    <3>1. PICK u \in Threads : /\ call[u].key = q.key /\ call[u].n = q.n
                               /\ call[u].at \in {"wait", "asleep"} /\ call[u].answer = 0
      BY <1>0, <2>1 DEF CleanIsExclusive
    <3>2. CASE u # t
      BY <1>8, <3>1, <3>2
    <3>3. CASE u = t
      <4>1. q.key = r.key /\ q.n = r.n
        BY <1>5, <1>12, <2>1, <3>1, <3>3
      <4>2. q \in [key : Keys, n : 1..MaxCalls] /\ q # r
        BY <1>1
      <4> QED BY <1>1, <4>1, <4>2
    <3> QED BY <3>2, <3>3
  <2>2. \A u \in Threads : call'[u].at = "send" /\ call'[u].key \in clean => call'[u].answer = 0
    BY <1>0, <1>5, <1>6, <1>8, <1>12 DEF CleanIsExclusive
  <2>3. \A u \in Threads : call'[u].key = call[u].key
    BY <1>6, <1>8
  <2> QED BY <1>0, <2>1, <2>2, <2>3 DEF CleanIsExclusive
<1> QED BY <1>10, <1>11, <1>13, <1>14, <1>15 DEF SyncInv

-----------------------------------------------------------------------------
(* The theorems *)

\* The initial state satisfies the inductive invariant.
LEMMA SyncInitInv == loc_sync_req_init => SyncInv
<1> SUFFICES ASSUME loc_sync_req_init PROVE SyncInv
  OBVIOUS
<1>1. /\ \A t \in Threads : call[t] = NoCall
      /\ \A s \in Slots : slot[s] = FreeSlot
      /\ modem = {} /\ ~in_use /\ "none" \notin clean
  BY KeysAssumption DEF loc_sync_req_init
<1>2. /\ NoCall.at = "out" /\ NoCall.key = "none" /\ NoCall.n = 0 /\ NoCall.slot = 0
      /\ NoCall.answer = 0 /\ NoCall.status = "none"
  BY DEF NoCall
<1>3. ~FreeSlot.slot_in_use /\ FreeSlot.key = "none" /\ FreeSlot.buffer = 0
  BY DEF FreeSlot
<1>4. BuffersAreLive
  BY <1>1, <1>2, <1>3 DEF BuffersAreLive, At
<1>5. AnswersFit
  BY <1>1, <1>2 DEF AnswersFit, At
<1>6. PlacesTell
  BY <1>1, <1>2 DEF PlacesTell, Tells, Holding, Waiting
<1>7. NumbersDiffer
  BY <1>1, <1>2, <1>3 DEF NumbersDiffer, At
<1>8. CleanIsExclusive
  BY <1>1, <1>2 DEF CleanIsExclusive, At
<1> QED BY <1>4, <1>5, <1>6, <1>7, <1>8, SyncInitType DEF SyncInv

\* Every step keeps the inductive invariant.
LEMMA SyncNextInv == SyncInv /\ [SyncNext]_syncVars => SyncInv'
<1> SUFFICES ASSUME SyncInv, [SyncNext]_syncVars PROVE SyncInv'
  OBVIOUS
<1>1. ASSUME NEW t \in Threads, Proceeds(t) PROVE SyncInv'
  BY <1>1, Allocates, Selects, Sends, Waits, Wakes, Frees DEF Proceeds
<1>2. ASSUME NEW t \in Threads, NEW k \in Keys, loc_sync_send_req(t, k) PROVE SyncInv'
  BY <1>2, Begins
<1>3. CASE loc_sync_process_ind
  <2>1. PICK r \in modem :
          /\ modem' = modem \ {r} /\ UNCHANGED <<in_use, calls, clean>>
          /\ \/ UNCHANGED <<slot, call>>
             \/ \E s \in Slots : Expects(s, r.key) /\ Consumes(s, r.key, r.n)
    BY <1>3 DEF loc_sync_process_ind
  <2>2. CASE UNCHANGED <<slot, call>>
    BY <2>1, <2>2, Forgets
  <2>3. ASSUME NEW s \in Slots, Expects(s, r.key), Consumes(s, r.key, r.n) PROVE SyncInv'
    BY <2>1, <2>3, Answers
  <2> QED BY <2>1, <2>2, <2>3
<1>4. CASE Lost
  <2>1. PICK r \in modem : modem' = modem \ {r} /\ UNCHANGED <<in_use, slot, call, calls, clean>>
    BY <1>4 DEF Lost
  <2> QED BY <2>1, Forgets
<1>5. CASE UNCHANGED syncVars
  <2> USE <1>5 DEF syncVars, At
  <2>1. SyncTypeOK'
    BY DEF SyncInv, SyncTypeOK
  <2>2. BuffersAreLive' /\ AnswersFit'
    BY DEF SyncInv, BuffersAreLive, AnswersFit
  <2>3. PlacesTell'
    BY DEF SyncInv, PlacesTell, Tells
  <2>4. NumbersDiffer' /\ CleanIsExclusive'
    BY DEF SyncInv, NumbersDiffer, CleanIsExclusive
  <2> QED BY <2>1, <2>2, <2>3, <2>4 DEF SyncInv
<1> QED BY <1>1, <1>2, <1>3, <1>4, <1>5 DEF SyncNext

\* The types hold, though not by themselves: what a request carries is a key because a call that
\* sends has one.
THEOREM SyncTypeCorrect == SyncSpec => []SyncTypeOK
<1>1. SyncInv => SyncTypeOK
  BY DEF SyncInv
<1> QED BY <1>1, SyncInitInv, SyncNextInv, PTL DEF SyncSpec

\* A buffer that loc_sync_process_ind may write belongs to a call that has not returned, every
\* slot in use to one call, and in_use says whether there is one.
THEOREM NeverADeadBuffer == SyncSpec => []BuffersAreLive
<1>1. SyncInv => BuffersAreLive
  BY DEF SyncInv
<1> QED BY <1>1, SyncInitInv, SyncNextInv, PTL DEF SyncSpec

\* A call that loc_sync_send_req ends with success has an answer, its own while no other call
\* asked for its key and none gave up on it; and none sleeps on an answer that has come.
THEOREM AnswersAlwaysFit == SyncSpec => []AnswersFit
<1>1. SyncInv => AnswersFit
  BY DEF SyncInv
<1> QED BY <1>1, SyncInitInv, SyncNextInv, PTL DEF SyncSpec

=============================================================================
