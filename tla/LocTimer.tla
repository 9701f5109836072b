------------------------------ MODULE LocTimer ------------------------------
(***************************************************************************)
(* gps/utils/LocTimer.cpp: clients start and stop timers from any thread;   *)
(* the message thread owns the heap of what is ticking and runs the         *)
(* callbacks; the poll thread waits for the one kernel timer, set to the    *)
(* soonest.  One container is modelled (timers and alarms have one each,    *)
(* served alike by the same two threads).                                   *)
(*                                                                         *)
(* The kernel timer is exact, the ranking of timers looks at whole seconds  *)
(* only (ranks, line 503): a second is TicksPerSec ticks of the clock.      *)
(***************************************************************************)
EXTENDS Naturals, Sequences, LocHeap

CONSTANTS
  Clients,      \* LocTimer objects
  None,         \* no client
  TicksPerSec,  \* ticks in a second
  Delays,       \* delays clients ask for, in ticks
  MaxStarts,    \* bound on the timers started
  MaxNow        \* bound on the clock

ASSUME NoneAssumption == None \notin Clients
ASSUME TimerBoundsAssumption ==
  /\ TicksPerSec \in Nat \ {0} /\ Delays \subseteq Nat \ {0}
  /\ MaxStarts \in Nat /\ MaxNow \in Nat

VARIABLES
  now,        \* the clock
  mTimer,     \* client -> the delegate of its running timer, or 0
  delegates,  \* the LocTimerDelegates made so far: mClient (or None), due, deleted
  heap,       \* the container's tree
  armed,      \* when the timer fd expires, 0 if disarmed
  polled,     \* whether epoll has the timer fd
  poll,       \* what the poll thread does next
  q,          \* messages to the message thread
  hand        \* what the message thread is at

timerVars == <<now, mTimer, delegates, heap, armed, polled, poll, q, hand>>

Sec(t) == t \div TicksPerSec
Top == IF heap = Nil THEN 0 ELSE heap.data.timer
Data(d) == [timer |-> d, sec |-> Sec(delegates[d].due)]

\* delete: nothing of it is left to tell.
Deleted == [mClient |-> None, due |-> 0, deleted |-> TRUE]

AtRest == [at |-> "idle"]
Push(d) == [kind |-> "push", timer |-> d]
Remove(d) == [kind |-> "remove", timer |-> d]
Expire == [kind |-> "expire"]

\* MsgTask::sendMsg: the queue is never unblocked, no one destroys the task.
sendMsg(m) == Append(q, m)

TimerInit ==
  /\ now = 0
  /\ mTimer = [c \in Clients |-> 0]
  /\ delegates = <<>> /\ heap = Nil
  /\ armed = 0 /\ polled = FALSE
  /\ poll = "wait" /\ q = <<>> /\ hand = AtRest

-----------------------------------------------------------------------------
(* The clients *)

\* LocTimer::start, under the client's lock.
start(c) == \E delay \in Delays :
  LET d == Len(delegates) + 1 IN
  /\ mTimer[c] = 0 /\ d <= MaxStarts /\ now + delay < MaxNow
  /\ delegates' = Append(delegates, [mClient |-> c, due |-> now + delay, deleted |-> FALSE])
  /\ mTimer' = [mTimer EXCEPT ![c] = d]
  /\ q' = sendMsg(Push(d))
  /\ UNCHANGED <<now, heap, armed, polled, poll, hand>>

\* Mutant: stop() does not forget the delegate.
Stopped_keepsTimer(c) ==
  /\ delegates' = [delegates EXCEPT ![mTimer[c]].mClient = None]
  /\ q' = sendMsg(Remove(mTimer[c]))
  /\ UNCHANGED mTimer

\* What a successful LocTimer::stop does, destroyLocked included.
Stopped(c) ==
  /\ mTimer' = [mTimer EXCEPT ![c] = 0]
  /\ delegates' = [delegates EXCEPT ![mTimer[c]].mClient = None]
  /\ q' = sendMsg(Remove(mTimer[c]))

stop(c) ==
  /\ mTimer[c] # 0
  /\ Stopped(c)
  /\ UNCHANGED <<now, heap, armed, polled, poll, hand>>

-----------------------------------------------------------------------------
(* The message thread *)

\* updateSoonestTime: the calls to epoll and to the timer fd that follow a change of the tree.
updateSoonestTime(t, prior) ==
  LET cur == IF t = Nil THEN 0 ELSE t.data.timer IN
  IF cur = prior THEN AtRest
  ELSE IF t = Nil THEN [at |-> "removePoll", until |-> 0]
  ELSE IF prior = 0 \/ outRanks(t.data, Data(prior)) THEN [at |-> "addPoll", until |-> delegates[cur].due]
  ELSE AtRest

\* The message at the head of the queue, received.
Takes(kind) == hand = AtRest /\ q # <<>> /\ Head(q).kind = kind /\ q' = Tail(q)

\* MsgTimerPush::proc
MsgTimerPush ==
  /\ Takes("push")
  /\ heap' = push(heap, Data(Head(q).timer))
  /\ hand' = updateSoonestTime(heap', Top)
  /\ UNCHANGED <<now, mTimer, delegates, armed, polled, poll>>

\* MsgTimerRemove::proc: the timer may be gone from the tree already.
MsgTimerRemove ==
  /\ Takes("remove")
  /\ LET d == Head(q).timer
         removed == IF Data(d) \in Held(heap) THEN d ELSE 0
     IN /\ heap' = remove(heap, Data(d))
        /\ hand' = IF Top = removed THEN updateSoonestTime(heap', 0) ELSE AtRest
        /\ delegates' = [delegates EXCEPT ![d] = Deleted]
  /\ UNCHANGED <<now, mTimer, armed, polled, poll>>

\* A popped timer, with the client its expire() reads.
Popped(sec) == [at |-> "expire", timer |-> Top, client |-> delegates[Top].mClient, sec |-> sec]

\* MsgTimerExpire::proc, which reads the clock and pops the top whatever its time.
MsgTimerExpire ==
  /\ Takes("expire")
  /\ IF heap = Nil THEN hand' = AtRest /\ UNCHANGED heap
     ELSE hand' = Popped(Sec(now)) /\ heap' = pop(heap)
  /\ UNCHANGED <<now, mTimer, delegates, armed, polled, poll>>

\* LocTimerDelegate::expire: the client stops its timer - by now perhaps another one than
\* the one that was popped - and its callback runs.
Fires(c) == c # None /\ mTimer[c] # 0

expire ==
  /\ hand.at = "expire"
  /\ IF Fires(hand.client)
     THEN Stopped(hand.client)
     ELSE UNCHANGED <<mTimer, delegates, q>>
  /\ IF heap # Nil /\ heap.data.sec <= hand.sec
     THEN hand' = Popped(hand.sec) /\ heap' = pop(heap)
     ELSE hand' = updateSoonestTime(heap, 0) /\ UNCHANGED heap
  /\ UNCHANGED <<now, armed, polled, poll>>

\* addPoll and removePoll, called by the message thread ...
epoll_ctl ==
  /\ hand.at \in {"addPoll", "removePoll"}
  /\ polled' = (hand.at = "addPoll")
  /\ hand' = [hand EXCEPT !.at = "settime"]
  /\ UNCHANGED <<now, mTimer, delegates, heap, armed, poll, q>>

\* ... and timerfd_settime.
settime ==
  /\ hand.at = "settime"
  /\ armed' = hand.until
  /\ hand' = AtRest
  /\ UNCHANGED <<now, mTimer, delegates, heap, polled, poll, q>>

-----------------------------------------------------------------------------
(* The poll thread *)

\* epoll_wait returns.
run ==
  /\ poll = "wait"
  /\ polled /\ armed # 0 /\ now >= armed
  /\ poll' = "disarm"
  /\ UNCHANGED <<now, mTimer, delegates, heap, armed, polled, q, hand>>

\* LocTimerContainer::expire, step by step.
expire_disarms ==
  /\ poll = "disarm" /\ poll' = "removePoll"
  /\ armed' = 0
  /\ UNCHANGED <<now, mTimer, delegates, heap, polled, q, hand>>

expire_removesPoll ==
  /\ poll = "removePoll" /\ poll' = "send"
  /\ polled' = FALSE
  /\ UNCHANGED <<now, mTimer, delegates, heap, armed, q, hand>>

expire_sends ==
  /\ poll = "send" /\ poll' = "wait"
  /\ q' = sendMsg(Expire)
  /\ UNCHANGED <<now, mTimer, delegates, heap, armed, polled, hand>>

Tick ==
  /\ now < MaxNow /\ now' = now + 1
  /\ UNCHANGED <<mTimer, delegates, heap, armed, polled, poll, q, hand>>

MsgThread == MsgTimerPush \/ MsgTimerRemove \/ MsgTimerExpire \/ expire \/ epoll_ctl \/ settime
PollThread == run \/ expire_disarms \/ expire_removesPoll \/ expire_sends

TimerNext ==
  \/ \E c \in Clients : start(c) \/ stop(c)
  \/ MsgThread
  \/ PollThread
  \/ Tick

\* Both threads loop for ever, and the clock runs.  Clients need not do anything.
TimerSpec == TimerInit /\ [][TimerNext]_timerVars /\ WF_timerVars(MsgThread) /\ WF_timerVars(PollThread) /\ WF_timerVars(Tick)

-----------------------------------------------------------------------------
(* What should hold *)

Count(m) == Len(SelectSeq(q, LAMBDA x : x = m))

\* Nobody deletes a timer twice or uses one that is gone, and none is lost: a delegate
\* belongs to a client, or to the one message that will delete it, or is deleted, and what is
\* in the tree, on its way there or in the message thread's hand is not deleted
\* ("all timers are deleted here, and only here", line 344).
OneOwnerEach ==
  \A d \in 1..Len(delegates) :
    /\ (IF \E c \in Clients : mTimer[c] = d THEN 1 ELSE 0) + Count(Remove(d))
         + (IF delegates[d].deleted THEN 1 ELSE 0) = 1
    /\ delegates[d].deleted =>
         /\ \A x \in Held(heap) : x.timer # d
         /\ Count(Push(d)) = 0
         /\ hand.at = "expire" => hand.timer # d

\* Whatever is pushed, popped and removed from the middle, a timer is never below one that is
\* due in a later second, and the counts that keep the tree in balance are right (checkNodes).
\* Two threads set the one kernel timer: once both are at rest and timers are ticking, it is
\* set to the one at the top of the tree and polled.  (Nothing is said of an empty tree: the
\* branch that would disarm it, lines 288-294, is never taken, for the last timer leaves with
\* both tops null.)
SoonestIsArmed ==
  /\ checkNodes(heap)
  /\ hand = AtRest /\ q = <<>> /\ poll = "wait" /\ heap # Nil =>
       polled /\ armed = delegates[Top].due

Running(d) == \E c \in Clients : mTimer[c] = d

=============================================================================
