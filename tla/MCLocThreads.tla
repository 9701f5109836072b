---------------------------- MODULE MCLocThreads ----------------------------
(* Small instances of the three places of gps/ where threads meet at locks   *)
(* and time-outs: LocNi, LocTimer and SyncReq.  They share nothing, so a     *)
(* behaviour has one of them only; the others stay as they began.            *)
EXTENDS LocNi, LocTimer, SyncReq

CONSTANTS c1, c2, c3, t1, t2, t3, k1, k2

VARIABLE part

mcVars == <<vars, timerVars, syncVars, part>>

\* The first call is made, by t1 for k1: threads and keys are alike.
FirstCall ==
  /\ in_use = FALSE
  /\ slot = [s \in Slots |-> FreeSlot]
  /\ call = [t \in Threads |->
               IF t = t1 THEN [NoCall EXCEPT !.at = "alloc", !.key = k1, !.n = 1] ELSE NoCall]
  /\ modem = {} /\ calls = 1
  /\ clean = Keys

\* The first timer is started, by c1 in the first or the second half of a second: clients and
\* whole seconds are alike.
FirstTimer ==
  /\ now \in 0..TicksPerSec - 1
  /\ \E delay \in Delays :
       delegates = <<[mClient |-> c1, due |-> now + delay, deleted |-> FALSE]>>
  /\ mTimer = [c \in Clients |-> IF c = c1 THEN 1 ELSE 0]
  /\ heap = Nil /\ armed = 0 /\ polled = FALSE
  /\ poll = "wait" /\ q = <<Push(1)>> /\ hand = AtRest

MCInit ==
  /\ Init
  /\ \/ part = "requests" /\ TimerInit /\ loc_sync_req_init
     \/ part = "timers" /\ FirstTimer /\ loc_sync_req_init
     \/ part = "calls" /\ TimerInit /\ FirstCall

Ni(A)    == part = "requests" /\ A /\ UNCHANGED <<timerVars, syncVars, part>>
Timer(A) == part = "timers" /\ A /\ UNCHANGED <<vars, syncVars, part>>
Sync(A)  == part = "calls" /\ A /\ UNCHANGED <<vars, timerVars, part>>

MCNext == Ni(Next) \/ Timer(TimerNext) \/ Sync(SyncNext)

\* The fairness of the three specifications.
MCFairness ==
  /\ WF_mcVars(Ni(WorkerResets) \/ Timer(MsgThread) \/ Sync(Proceeds(t1)))
  /\ WF_mcVars(Ni(UserStores) \/ Timer(PollThread) \/ Sync(Proceeds(t2)))
  /\ WF_mcVars(Ni(Runs(1)) \/ Timer(Tick) \/ Sync(Proceeds(t3)))
  /\ WF_mcVars(Ni(Runs(2)))

MCSpec == MCInit /\ [][MCNext]_mcVars /\ MCFairness

Waits(i) ==
  IF part = "requests" THEN i <= MaxRequests /\ Pending(i)
  ELSE IF part = "timers" THEN Running(i)
  ELSE \E t \in Threads : call[t].n = i

\* Nothing waits for ever, in whatever order the threads run: a request gives its session back and
\* the modem hears of it, though answers, time-outs and restarts cross; a timer fires or is
\* stopped, for the message thread and the poll thread never leave one in the tree with nothing
\* to wake them; a call that sent a request returns, though its indication is late or lost.
EveryWaitEnds == \A i \in 1..3 : Waits(i) ~> ~Waits(i)

=============================================================================
