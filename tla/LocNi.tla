------------------------------- MODULE LocNi -------------------------------
(* Network-initiated location requests: gps/loc_api/libloc_api_50001/        *)
(* loc_eng_ni.cpp.  Three kinds of threads meet at two sessions, an ordinary *)
(* and an emergency one: the message thread ("worker") takes requests of the *)
(* modem, restarts and answers; a thread per request waits for the user or   *)
(* for its time-out; the framework's thread brings the user's word.  Each    *)
(* session has a lock, which not all of them take.                           *)
EXTENDS Naturals, Sequences

CONSTANTS
  MaxRequests,  \* bound: requests taken up
  MaxRestarts   \* bound: restarts of the modem

ASSUME BoundsAssumption == MaxRequests \in Nat /\ MaxRestarts \in Nat

VARIABLES
  reqIDCounter,
  session,   \* loc_eng_ni_session_s_type of both sessions; a request is its number, 0 is NULL
  thread,    \* ni_thread_proc of each request
  worker,    \* where the message thread is
  user,      \* the call of loc_eng_ni_respond in progress
  said,      \* history: what the user said about each request
  answers,   \* history: what the modem was told about each request
  late,      \* history: an answer of the user was stored for a request that was over
  restarts

vars == <<reqIDCounter, session, thread, worker, user, said, answers, late, restarts>>

Sessions == {"ni", "es"}
Requests == 1..MaxRequests
Words    == {"ACCEPT", "DENY"}
Resps    == Words \cup {"NORESP", "IGNORE", "unset"}

Idle  == [at |-> "idle", s |-> "ni"]
NoMsg == [req |-> 0, resp |-> "unset"]

\* loc_eng_ni_init
Init ==
  /\ reqIDCounter = 0
  /\ session = [s \in Sessions |-> [rawRequest |-> 0, reqID |-> 0, resp |-> "unset", respRecvd |-> FALSE]]
  /\ thread = [n \in Requests |-> [at |-> "none", s |-> "ni", msg |-> NoMsg]]
  /\ worker = Idle
  /\ user = [at |-> "idle", s |-> "ni", req |-> 0, other |-> 0, resp |-> "unset"]
  /\ said = [n \in Requests |-> "nothing"]
  /\ answers = [n \in Requests |-> <<>>]
  /\ late = FALSE
  /\ restarts = 0

\* Mutant: a thread does not hold the lock while it takes the request.
Locked_never(s) == FALSE

\* The thread that takes the request is the only one that holds the lock for more than a step.
Locked(s) == \E n \in Requests : thread[n].s = s /\ thread[n].at = "took"

-----------------------------------------------------------------------------
(* The worker: loc_eng_ni_request_handler *)

Free(s) ==
  /\ session["es"].rawRequest = 0
  /\ s = "ni" => session["ni"].rawRequest = 0

\* A request that finds no free session is dropped, which changes nothing.
request(s) ==
  /\ worker.at = "idle"
  /\ reqIDCounter < MaxRequests
  /\ Free(s)
  /\ session' = [session EXCEPT ![s].rawRequest = reqIDCounter + 1]
  /\ reqIDCounter' = reqIDCounter + 1
  /\ worker' = [at |-> "filling", s |-> s]
  /\ UNCHANGED <<thread, user, said, answers, late, restarts>>

\* The request gets its number and its thread and is shown to the user.
notify ==
  /\ worker.at = "filling"
  /\ session' = [session EXCEPT ![worker.s].reqID = reqIDCounter]
  /\ thread' = [thread EXCEPT ![reqIDCounter] = [at |-> "waiting", s |-> worker.s, msg |-> NoMsg]]
  /\ worker' = Idle
  /\ UNCHANGED <<reqIDCounter, user, said, answers, late, restarts>>

-----------------------------------------------------------------------------
(* The worker: loc_eng_ni_reset_on_engine_restart and the answer             *)

engine_down ==
  /\ worker.at = "idle"
  /\ restarts < MaxRestarts
  /\ restarts' = restarts + 1
  /\ worker' = [at |-> "resetting", s |-> "es"]
  /\ UNCHANGED <<reqIDCounter, session, thread, user, said, answers, late>>

ThenNext == IF worker.s = "es" THEN [at |-> "resetting", s |-> "ni"] ELSE Idle

reset_looks ==
  /\ worker.at = "resetting"
  /\ worker' = IF session[worker.s].rawRequest = 0 THEN ThenNext ELSE [worker EXCEPT !.at = "freed"]
  /\ UNCHANGED <<reqIDCounter, session, thread, user, said, answers, late, restarts>>

reset_clears ==
  /\ worker.at = "freed"
  /\ session' = [session EXCEPT ![worker.s].rawRequest = 0]
  /\ worker' = [worker EXCEPT !.at = "waking"]
  /\ UNCHANGED <<reqIDCounter, thread, user, said, answers, late, restarts>>

reset_wakes ==
  /\ worker.at = "waking"
  /\ ~Locked(worker.s)
  /\ session' = [session EXCEPT ![worker.s].respRecvd = TRUE]
  /\ worker' = ThenNext
  /\ UNCHANGED <<reqIDCounter, thread, user, said, answers, late, restarts>>

\* LocEngInformNiResponse::proc; LocApiV02 refuses what is no response of the protocol.
informNiResponse(n) ==
  /\ worker.at = "idle"
  /\ thread[n].at = "sent"
  /\ LET m == thread[n].msg
     IN  answers' = IF m.resp \in Words \cup {"NORESP"}
                    THEN [answers EXCEPT ![m.req] = Append(@, m.resp)] ELSE answers
  /\ thread' = [thread EXCEPT ![n].at = "done"]
  /\ UNCHANGED <<reqIDCounter, session, worker, user, said, late, restarts>>

-----------------------------------------------------------------------------
(* The framework: loc_eng_ni_respond looks at the session without its lock   *)

\* An emergency session is looked for first; an answer for neither is dropped.  The
\* framework answers a request it was shown, once; its own "no response" counts as DENY.
respond(n, word) ==
  /\ user.at = "idle"
  /\ thread[n].at # "none"
  /\ said[n] = "nothing"
  /\ said' = [said EXCEPT ![n] = word]
  /\ LET Mine(s) == session[s].reqID = n /\ session[s].rawRequest # 0
         other   == session["ni"].rawRequest
     IN  user' = IF Mine("es")
                 THEN [at |-> IF word = "ACCEPT" /\ other # 0 THEN "ignoring" ELSE "storing",
                       s |-> "es", req |-> n, other |-> other, resp |-> word]
                 ELSE IF Mine("ni")
                 THEN [at |-> "storing", s |-> "ni", req |-> n, other |-> 0, resp |-> word]
                 ELSE user
  /\ UNCHANGED <<reqIDCounter, session, thread, worker, answers, late, restarts>>

Stores(s, req, resp) ==
  /\ ~Locked(s)
  /\ session' = [session EXCEPT ![s].resp = resp, ![s].respRecvd = TRUE]
  /\ late' = (late \/ session[s].rawRequest # req)
  /\ UNCHANGED <<reqIDCounter, thread, worker, said, answers, restarts>>

\* An accepted emergency request makes the ordinary one end without an answer.
respond_ignores ==
  /\ user.at = "ignoring"
  /\ Stores("ni", user.other, "IGNORE")
  /\ user' = [user EXCEPT !.at = "storing"]

respond_stores ==
  /\ user.at = "storing"
  /\ Stores(user.s, user.req, user.resp)
  /\ user' = [user EXCEPT !.at = "idle"]

-----------------------------------------------------------------------------
(* ni_thread_proc *)

\* Mutant: a thread waits for the user without a time-out.
Outcomes_untimed(s) == {session[s].resp : x \in {x \in {0} : session[s].respRecvd}}

\* What ends the wait: the flag, or the time-out, which may be reported with the flag set.
Outcomes(s) == {"NORESP"} \cup {session[s].resp : x \in {x \in {0} : session[s].respRecvd}}

\* Mutant: the flag stays set for the next session.
take_keepsFlag(n) ==
  LET s == thread[n].s
  IN  /\ thread[n].at = "waiting"
      /\ ~Locked(s)
      /\ \E resp \in Outcomes(s) :
           /\ session' = [session EXCEPT ![s].resp = resp]
           /\ thread' = [thread EXCEPT
                ![n].at  = IF session[s].rawRequest = 0 THEN "ending" ELSE "took",
                ![n].msg = IF session[s].rawRequest = 0 \/ resp = "IGNORE" THEN NoMsg
                           ELSE [req |-> session[s].rawRequest, resp |-> resp]]
      /\ UNCHANGED <<reqIDCounter, worker, user, said, answers, late, restarts>>

take(n) ==
  LET s == thread[n].s
  IN  /\ thread[n].at = "waiting"
      /\ ~Locked(s)
      /\ \E resp \in Outcomes(s) :
           /\ session' = [session EXCEPT ![s].resp = resp, ![s].respRecvd = FALSE]
           /\ thread' = [thread EXCEPT
                ![n].at  = IF session[s].rawRequest = 0 THEN "ending" ELSE "took",
                ![n].msg = IF session[s].rawRequest = 0 \/ resp = "IGNORE" THEN NoMsg
                           ELSE [req |-> session[s].rawRequest, resp |-> resp]]
      /\ UNCHANGED <<reqIDCounter, worker, user, said, answers, late, restarts>>

\* Mutant: the request stays in the session.
unlock_keeps(n) ==
  /\ thread[n].at = "took"
  /\ thread' = [thread EXCEPT ![n].at = "ending"]
  /\ UNCHANGED <<reqIDCounter, session, worker, user, said, answers, late, restarts>>

\* The request is cleared and the lock given back.
unlock(n) ==
  /\ thread[n].at = "took"
  /\ session' = [session EXCEPT ![thread[n].s].rawRequest = 0]
  /\ thread' = [thread EXCEPT ![n].at = "ending"]
  /\ UNCHANGED <<reqIDCounter, worker, user, said, answers, late, restarts>>

\* Without the lock: the number is cleared, then the answer is posted to the worker.
end(n) ==
  /\ thread[n].at = "ending"
  /\ session' = [session EXCEPT ![thread[n].s].reqID = 0]
  /\ thread' = [thread EXCEPT ![n].at = IF thread[n].msg = NoMsg THEN "done" ELSE "sent"]
  /\ UNCHANGED <<reqIDCounter, worker, user, said, answers, late, restarts>>

-----------------------------------------------------------------------------

WorkerResets == notify \/ reset_looks \/ reset_clears \/ reset_wakes
UserStores   == respond_ignores \/ respond_stores
Runs(n)      == take(n) \/ unlock(n) \/ end(n) \/ informNiResponse(n)

Next ==
  \/ \E s \in Sessions : request(s)
  \/ notify
  \/ engine_down
  \/ reset_looks
  \/ reset_clears
  \/ reset_wakes
  \/ \E n \in Requests : informNiResponse(n)
  \/ \E n \in Requests, word \in Words : respond(n, word)
  \/ respond_ignores
  \/ respond_stores
  \/ \E n \in Requests : take(n)
  \/ \E n \in Requests : unlock(n)
  \/ \E n \in Requests : end(n)

Spec == Init /\ [][Next]_vars

\* The message thread, the framework's thread and each request's thread are scheduled, and a
\* time-out comes; nothing makes the modem ask, restart, or the user answer.
Fairness ==
  /\ WF_vars(WorkerResets)
  /\ WF_vars(UserStores)
  /\ \A n \in Requests : WF_vars(Runs(n))

LiveSpec == Spec /\ Fairness

-----------------------------------------------------------------------------

SessionType == [rawRequest : 0..MaxRequests, reqID : 0..MaxRequests,
                resp : Resps, respRecvd : BOOLEAN]
MsgType     == [req : 0..MaxRequests, resp : Resps]
ThreadType  == [at : {"none", "waiting", "took", "ending", "sent", "done"},
                s : Sessions, msg : MsgType]
WorkerType  == [at : {"idle", "filling", "resetting", "freed", "waking"}, s : Sessions]
UserType    == [at : {"idle", "ignoring", "storing"}, s : Sessions,
                req : 0..MaxRequests, other : 0..MaxRequests, resp : Resps]

\* Types of the session fields, the threads and the histories (loc_eng_ni.h).
TypeOK ==
  /\ reqIDCounter \in 0..MaxRequests
  /\ session \in [Sessions -> SessionType]
  /\ thread \in [Requests -> ThreadType]
  /\ worker \in WorkerType
  /\ user \in UserType
  /\ said \in [Requests -> Words \cup {"nothing"}]
  /\ answers \in [Requests -> Seq(Words \cup {"NORESP"})]
  /\ late \in BOOLEAN
  /\ restarts \in 0..MaxRestarts

\* A request in a session always has its own thread still to take it up (ni_thread_proc), so the
\* session cannot stay taken: whatever other threads of the session, restarts and late answers do.
GuardedByThread ==
  \A s \in Sessions, n \in Requests :
    session[s].rawRequest = n =>
      \/ worker = [at |-> "filling", s |-> s]
      \/ thread[n].s = s /\ thread[n].at \in {"waiting", "took"}

\* The modem hears at most one answer to a request, though two threads may wait in one session
\* after a restart and the restart clears requests without the lock.
OneAnswer == \A n \in Requests : Len(answers[n]) <= 1

\* As long as no answer comes after its request is over and the modem does not restart, what the
\* modem is told is what the user said of that very request.
InTimeIsOwn ==
  ~late /\ restarts = 0 =>
    \A n \in Requests : \A k \in DOMAIN answers[n] : answers[n][k] \in {said[n], "NORESP"}

\* What a request still owes: its session, which "spawn a thread at this point to timeout to clear
\* up the notification status" (loc_eng_ni_request_handler) is to give back whether the user
\* answers or not, and, unless the modem restarts, an answer - or the request is ignored for the
\* sake of an accepted emergency request.
Pending(n) ==
  \/ \E s \in Sessions : session[s].rawRequest = n
  \/ /\ thread[n].at # "none" /\ restarts = 0
     /\ answers[n] = <<>>
     /\ ~(thread[n].at = "done" /\ thread[n].msg = NoMsg)

=============================================================================
