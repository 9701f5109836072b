------------------------------ MODULE SyncReq ------------------------------
(***************************************************************************)
(* gps/loc_api/loc_api_v02/loc_api_sync_req.c: threads send a request and   *)
(* sleep until its indication comes.  A call takes a slot, writes into it   *)
(* what it waits for, sends, waits on the slot's condition and frees the    *)
(* slot; the thread that delivers indications looks through the slots.      *)
(*                                                                         *)
(* A key is what an indication is matched by, the client's handle and the   *)
(* kind of indication: nothing in it tells one request from the next of its *)
(* kind.  Every caller passes a buffer for the answer.  The modem answers   *)
(* in any order, late, or never.  A wait returns when it is signalled or    *)
(* its time is up: it is not repeated (line 453), so a wake-up without a    *)
(* signal, which the C library may allow itself, would pass for success.    *)
(***************************************************************************)
EXTENDS Naturals, FiniteSets

CONSTANTS
  Threads,    \* the threads that call
  Keys,       \* client handles and indications
  LOC_SYNC_REQ_BUFFER_SIZE,
  MaxCalls    \* bound on the calls

ASSUME SyncBoundsAssumption == MaxCalls \in Nat /\ LOC_SYNC_REQ_BUFFER_SIZE \in Nat
ASSUME KeysAssumption == "none" \notin Keys

Slots == 1..LOC_SYNC_REQ_BUFFER_SIZE

VARIABLES
  in_use,    \* loc_sync_array.in_use
  slot,      \* the slots, slot_in_use among their fields
  call,      \* what each thread is at
  modem,     \* requests the modem has yet to answer
  calls,     \* calls made
  clean      \* for the properties: the keys never asked for twice at a time nor given up on

syncVars == <<in_use, slot, call, modem, calls, clean>>

FreeSlot == [slot_in_use |-> FALSE, key |-> "none", is_waiting |-> FALSE,
             has_arrived |-> FALSE, buffer |-> 0]

\* n numbers the call, its buffer and its request; answer is the request whose answer the
\* buffer holds.
NoCall == [at |-> "out", key |-> "none", n |-> 0, slot |-> 0, answer |-> 0, status |-> "none"]

SlotType == [slot_in_use : BOOLEAN, key : Keys \cup {"none"}, is_waiting : BOOLEAN,
             has_arrived : BOOLEAN, buffer : 0..MaxCalls]
CallType == [at : {"out", "alloc", "select", "send", "wait", "asleep", "woken", "free"},
             key : Keys \cup {"none"}, n : 0..MaxCalls, slot : Slots \cup {0},
             answer : 0..MaxCalls, status : {"none", "SUCCESS", "TIMEOUT", "ERROR"}]

SyncTypeOK ==
  /\ in_use \in BOOLEAN
  /\ slot \in [Slots -> SlotType]
  /\ call \in [Threads -> CallType]
  /\ modem \subseteq [key : Keys, n : 1..MaxCalls]
  /\ calls \in 0..MaxCalls
  /\ clean \subseteq Keys

loc_sync_req_init ==
  /\ in_use = FALSE
  /\ slot = [s \in Slots |-> FreeSlot]
  /\ call = [t \in Threads |-> NoCall]
  /\ modem = {} /\ calls = 0
  /\ clean = Keys

At(t, place) == call[t].at = place
Goes(t, place) == call' = [call EXCEPT ![t].at = place]

-----------------------------------------------------------------------------
(* loc_sync_send_req, step by step *)

\* A call begins.  It is clean while no other one has asked for its key.
loc_sync_send_req(t, k) ==
  /\ At(t, "out") /\ calls < MaxCalls
  /\ calls' = calls + 1
  /\ call' = [call EXCEPT ![t] = [NoCall EXCEPT !.at = "alloc", !.key = k, !.n = calls + 1]]
  /\ clean' = IF \E u \in Threads : call[u].key = k THEN clean \ {k} ELSE clean
  /\ UNCHANGED <<in_use, slot, modem>>

FreeSlots == {s \in Slots : ~slot[s].slot_in_use}

\* loc_alloc_slot, holding loc_sync_call_mutex: the first free slot.
\* With none the call returns what it began with, SUCCESS, and sends nothing (line 500).
loc_alloc_slot(t) ==
  /\ At(t, "alloc")
  /\ IF FreeSlots = {}
     THEN call' = [call EXCEPT ![t] = NoCall] /\ UNCHANGED <<in_use, slot>>
     ELSE \E s \in FreeSlots :
          /\ \A r \in FreeSlots : s <= r
          /\ slot' = [slot EXCEPT ![s].slot_in_use = TRUE]
          /\ in_use' = TRUE
          /\ call' = [call EXCEPT ![t].at = "select", ![t].slot = s]
  /\ UNCHANGED <<modem, calls, clean>>

\* loc_sync_select_ind, holding the slot's lock.
loc_sync_select_ind(t) ==
  /\ At(t, "select")
  /\ LET s == call[t].slot IN
       slot' = [slot EXCEPT ![s] = [@ EXCEPT !.key = call[t].key, !.buffer = call[t].n,
                                             !.is_waiting = FALSE, !.has_arrived = FALSE]]
  /\ Goes(t, "send")
  /\ UNCHANGED <<in_use, modem, calls, clean>>

\* locClientSendReq: the modem has the request, or it could not be sent.
locClientSendReq(t) ==
  /\ At(t, "send")
  /\ \/ /\ modem' = modem \cup {[key |-> call[t].key, n |-> call[t].n]}
        /\ Goes(t, "wait")
     \/ /\ call' = [call EXCEPT ![t].at = "free", ![t].status = "ERROR"]
        /\ UNCHANGED modem
  /\ UNCHANGED <<in_use, slot, calls, clean>>

\* loc_sync_wait_for_ind, up to the wait.
loc_sync_wait_for_ind(t) ==
  /\ At(t, "wait")
  /\ IF slot[call[t].slot].has_arrived
     THEN call' = [call EXCEPT ![t].at = "free", ![t].status = "SUCCESS"] /\ UNCHANGED slot
     ELSE /\ slot' = [slot EXCEPT ![call[t].slot].is_waiting = TRUE]
          /\ Goes(t, "asleep")
  /\ UNCHANGED <<in_use, modem, calls, clean>>

\* pthread_cond_timedwait returns: signalled (Woken), or after its time.  A key that was given up
\* on is not clean: its answer may still come.
Woken(t) == At(t, "woken")

TimedOut(t) == At(t, "asleep")

\* Mutant: the return code of the wait is not looked at.
loc_sync_wakes_unchecked(t) ==
  /\ Woken(t) \/ TimedOut(t)
  /\ slot' = [slot EXCEPT ![call[t].slot].is_waiting = FALSE]
  /\ call' = [call EXCEPT ![t].at = "free", ![t].status = "SUCCESS"]
  /\ clean' = IF Woken(t) THEN clean ELSE clean \ {call[t].key}
  /\ UNCHANGED <<in_use, modem, calls>>

loc_sync_wakes(t) ==
  /\ Woken(t) \/ TimedOut(t)
  /\ slot' = [slot EXCEPT ![call[t].slot].is_waiting = FALSE]
  /\ call' = [call EXCEPT ![t].at = "free", ![t].status = IF Woken(t) THEN "SUCCESS" ELSE "TIMEOUT"]
  /\ clean' = IF Woken(t) THEN clean ELSE clean \ {call[t].key}
  /\ UNCHANGED <<in_use, modem, calls>>

\* Mutant: the slot is given back with all that was written into it.
Freed_keeps(s) == [slot[s] EXCEPT !.slot_in_use = FALSE]

\* What loc_free_slot leaves of a slot.
Freed(s) == FreeSlot

\* loc_free_slot, holding loc_sync_call_mutex but not the slot's lock; the call returns.
loc_free_slot(t) ==
  /\ At(t, "free")
  /\ LET s == call[t].slot IN
       /\ slot' = [slot EXCEPT ![s] = Freed(s)]
       /\ in_use' = \E r \in Slots \ {s} : slot[r].slot_in_use
  /\ call' = [call EXCEPT ![t] = NoCall]
  /\ UNCHANGED <<modem, calls, clean>>

-----------------------------------------------------------------------------
(* loc_sync_process_ind *)

\* A slot in use whose call waits, or is yet to wait, for this indication.  A call that was
\* signalled and has not run yet still counts as waiting, one that timed out as yet to wait.
Expects(s, k) == slot[s].slot_in_use /\ slot[s].key = k /\ ~slot[s].has_arrived

\* The thread whose buffer it is.
Owner(b) == {t \in Threads : call[t].n = b}

\* The first such slot consumes the indication; the answer to request n is copied to its buffer.
\* A waiter is woken, otherwise the arrival is remembered.
Consumes(s, k, n) ==
  /\ slot' = [slot EXCEPT ![s].has_arrived = ~slot[s].is_waiting]
  /\ call' = [t \in Threads |->
               IF t \in Owner(slot[s].buffer)
               THEN [call[t] EXCEPT !.answer = n,
                                    !.at = IF slot[s].is_waiting THEN "woken" ELSE @]
               ELSE call[t]]

\* The indication that answers a request, with loc_sync_call_mutex held all through.
loc_sync_process_ind == \E r \in modem :
  /\ modem' = modem \ {r}
  /\ LET S == {s \in Slots : Expects(s, r.key)} IN
       IF ~in_use \/ S = {} THEN UNCHANGED <<slot, call>>
       ELSE \E s \in S : (\A u \in S : s <= u) /\ Consumes(s, r.key, r.n)
  /\ UNCHANGED <<in_use, calls, clean>>

\* The modem never answers.
Lost == \E r \in modem :
  modem' = modem \ {r} /\ UNCHANGED <<in_use, slot, call, calls, clean>>

Proceeds(t) ==
  \/ loc_alloc_slot(t) \/ loc_sync_select_ind(t) \/ locClientSendReq(t)
  \/ loc_sync_wait_for_ind(t) \/ loc_sync_wakes(t) \/ loc_free_slot(t)

SyncNext ==
  \/ \E t \in Threads : Proceeds(t) \/ \E k \in Keys : loc_sync_send_req(t, k)
  \/ loc_sync_process_ind
  \/ Lost

\* A call that began goes on, if only because its time is up.
SyncSpec == loc_sync_req_init /\ [][SyncNext]_syncVars /\ \A t \in Threads : WF_syncVars(Proceeds(t))

-----------------------------------------------------------------------------
(* What should hold *)

\* Where each call's buffer, which lives on the caller's stack, may be written: a slot that
\* knows a buffer is in use by the call of that buffer and by no other, and that call has not
\* returned; and whether any slot is in use is known whenever an indication comes.
BuffersAreLive ==
  /\ \A s \in Slots : slot[s].buffer # 0 =>
       /\ slot[s].slot_in_use
       /\ \E t \in Threads : call[t].n = slot[s].buffer /\ ~At(t, "out") /\ call[t].slot = s
  /\ \A s \in Slots : slot[s].slot_in_use <=>
       \E t \in Threads : call[t].slot = s /\ ~At(t, "out")
  /\ \A t, u \in Threads : call[t].slot = call[u].slot => t = u \/ call[t].slot = 0
  /\ in_use <=> \E s \in Slots : slot[s].slot_in_use

\* Answers fit.  A call that reports success was given one: it did not wake for the arrival
\* another call of its slot or its key was meant to have.  It is its own, as long as no two
\* calls asked for the key at once and none was given up on; otherwise the late answer to one is
\* taken for the other's.  And no call sleeps on an answer it has already: one that comes between
\* the sending of the request and the wait is found, one that comes during the wait wakes.
AnswersFit ==
  \A t \in Threads :
    /\ call[t].status = "SUCCESS" => call[t].answer # 0
    /\ call[t].answer # 0 /\ call[t].key \in clean => call[t].answer = call[t].n
    /\ At(t, "asleep") => call[t].answer = 0
=============================================================================
