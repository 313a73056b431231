------------------------- MODULE IncomingCallsQueue -------------------------
(***************************************************************************)
(* The queue of incoming calls (class IncomingCallsQueue): a std::list of   *)
(* calls, one asio timer per place, a FIFO of free timers and a map from a  *)
(* caller's number to the timer of its queued call.  Every method body runs *)
(* under mux_queue, so one method call is one action.                       *)
(*                                                                          *)
(* The part that is hard to test is the reset of a call: a timer that       *)
(* expires posts a completion handler holding a std::list iterator, and the *)
(* handler runs later, on any thread of the io_context.  An iterator is     *)
(* therefore modelled as what it is, the address of a list node, and a      *)
(* freed address may be handed out again by the allocator.                  *)
(***************************************************************************)
EXTENDS Integers, Sequences, SequencesExt

CONSTANTS Call,      \* the Call objects; each one is pushed once
          CgPn,      \* callers' numbers, already normalised
          cg_pn,     \* the field cg_pn of each call
          Addr,      \* addresses of list nodes
          capacity,  \* capacity_
          Null       \* a null shared_ptr, an absent map entry, an unarmed timer

ASSUME ConstantsAssumption ==
    /\ cg_pn \in [Call -> CgPn]
    /\ capacity \in Nat
    /\ Null \notin Call \cup (0 .. capacity - 1) \cup [call : Call, iter : Addr]

VARIABLES incoming_calls,    \* the list: sequence of nodes
          timers,            \* the wait pending on each timer, or Null
          free_timers,       \* indices of free timers, in FIFO order
          map_cg_pn_to_pos,  \* number -> timer of its queued call, or Null
          posted,            \* completion handlers waiting for an io thread
          reply,             \* what push returned for a call
          taken,             \* calls that pop returned
          cdr,               \* the statuses written to the CDR for a call
          heap               \* "sound" until a handler uses a freed iterator

vars == <<incoming_calls, timers, free_timers, map_cg_pn_to_pos, posted, reply,
          taken, cdr, heap>>

Timer == 0 .. capacity - 1
RespStatus == {"OK", "OVERLOAD", "TIMEOUT", "ALREADY_IN_QUEUE"}
Node == [addr : Addr, call : Call \cup {Null}]

\* An armed wait: the lambda's captures.  CgPn is cg_pn[call]; the call itself
\* is not captured, it only says which push armed the wait.
Wait == [call : Call, iter : Addr]
Handler == [call : Call, iter : Addr, ec : {"success", "operation_aborted"}]

Completion(w, ec) == [call |-> w.call, iter |-> w.iter, ec |-> ec]

\* The handlers that cancelling timer t sends to the io_context.
Cancelled(t) ==
    IF timers[t] = Null THEN {} ELSE {Completion(timers[t], "operation_aborted")}

Nodes == {incoming_calls[i].addr : i \in 1 .. Len(incoming_calls)}
Queued(c) == \E i \in 1 .. Len(incoming_calls) : incoming_calls[i].call = c
InQueue(n) == map_cg_pn_to_pos[n] # Null

\* A handler whose call has already left the queue.
Stale(h) == h.ec = "success" /\ ~Queued(h.call)

\* Undefined behaviour that leaves nothing to rely on ends the process.
Running == heap # "crashed"
Crash ==
    /\ heap' = "crashed"
    /\ UNCHANGED <<incoming_calls, timers, free_timers, map_cg_pn_to_pos, reply,
                   taken, cdr>>

-----------------------------------------------------------------------------
\* (fault) The constructor numbers the timers from 1.
InitialTimersFromOne == [i \in 1 .. capacity |-> i]
InitialTimers == [i \in 1 .. capacity |-> i - 1]

Init ==
    /\ incoming_calls = <<>>
    /\ timers = [t \in Timer |-> Null]
    /\ free_timers = InitialTimers
    /\ map_cg_pn_to_pos = [n \in CgPn |-> Null]
    /\ posted = {}
    /\ reply = [c \in Call |-> "none"]
    /\ taken = {}
    /\ cdr = [c \in Call |-> <<>>]
    /\ heap = "sound"

-----------------------------------------------------------------------------
(* push *)

BeginPush(call) == Running /\ reply[call] = "none"

IsDuplicate(call) == InQueue(cg_pn[call])

\* (fault) One call too many is let in.
IsFullLate == Len(incoming_calls) > capacity
IsFull == Len(incoming_calls) >= capacity

\* (fault) The lambda captures begin() instead of --end().
ArmedAtFront(call, addr) ==
    [call |-> call,
     iter |-> IF incoming_calls = <<>> THEN addr ELSE incoming_calls[1].addr]
Armed(call, addr) == [call |-> call, iter |-> addr]

PushDuplicate(call) ==
    /\ BeginPush(call)
    /\ IsDuplicate(call)
    /\ reply' = [reply EXCEPT ![call] = "ALREADY_IN_QUEUE"]
    /\ UNCHANGED <<incoming_calls, timers, free_timers, map_cg_pn_to_pos, posted,
                   taken, cdr, heap>>

PushOverload(call) ==
    /\ BeginPush(call)
    /\ ~IsDuplicate(call) /\ IsFull
    /\ reply' = [reply EXCEPT ![call] = "OVERLOAD"]
    /\ UNCHANGED <<incoming_calls, timers, free_timers, map_cg_pn_to_pos, posted,
                   taken, cdr, heap>>

\* The new node gets any address that is not in use, so also that of a node
\* erased earlier.  expires_after cancels a wait still pending on the timer.
PushAccept(call, addr) ==
    /\ BeginPush(call)
    /\ ~IsDuplicate(call) /\ ~IsFull
    /\ free_timers # <<>>
    /\ addr \notin Nodes
    /\ LET timer_index == Head(free_timers) IN
         /\ map_cg_pn_to_pos' = [map_cg_pn_to_pos EXCEPT ![cg_pn[call]] = timer_index]
         /\ timers' = [timers EXCEPT ![timer_index] = Armed(call, addr)]
         /\ posted' = posted \cup Cancelled(timer_index)
    /\ free_timers' = Tail(free_timers)
    /\ incoming_calls' = Append(incoming_calls, [addr |-> addr, call |-> call])
    /\ reply' = [reply EXCEPT ![call] = "OK"]
    /\ UNCHANGED <<taken, cdr, heap>>

\* free_timers_.front() of an empty std::queue.
PushNoTimer(call) ==
    /\ BeginPush(call)
    /\ ~IsDuplicate(call) /\ ~IsFull
    /\ free_timers = <<>>
    /\ Crash
    /\ UNCHANGED posted

Push(call) ==
    \/ PushDuplicate(call)
    \/ PushOverload(call)
    \/ \E addr \in Addr : PushAccept(call, addr)
    \/ PushNoTimer(call)

-----------------------------------------------------------------------------
(* pop *)

\* (fault) The timer is not given back.
TimerLeaked(t) == free_timers
TimerReleased(t) == Append(free_timers, t)

\* (fault) The number stays in the map.
NumberKept(n) == map_cg_pn_to_pos
NumberForgotten(n) == [map_cg_pn_to_pos EXCEPT ![n] = Null]

\* (fault) The call is looked at but stays in the list.
Peeked == incoming_calls
Popped == Tail(incoming_calls)

PopCall(call) ==
    /\ Running
    /\ incoming_calls # <<>>
    /\ call = Head(incoming_calls).call
    /\ InQueue(cg_pn[call])
    /\ LET timer_index == map_cg_pn_to_pos[cg_pn[call]] IN
         /\ posted' = posted \cup Cancelled(timer_index)
         /\ timers' = [timers EXCEPT ![timer_index] = Null]
         /\ free_timers' = TimerReleased(timer_index)
    /\ map_cg_pn_to_pos' = NumberForgotten(cg_pn[call])
    /\ incoming_calls' = Popped
    /\ taken' = taken \cup {call}
    /\ UNCHANGED <<reply, cdr, heap>>

\* The null pointer that awake() puts in the list is dereferenced.
PopNull ==
    /\ Running
    /\ incoming_calls # <<>>
    /\ Head(incoming_calls).call = Null
    /\ Crash
    /\ UNCHANGED posted

\* map_cg_pn_to_pos_.at throws std::out_of_range after pop_front: the call is
\* dropped.  This is no undefined behaviour; that it does not come to it in a
\* sound queue is ListMatchesMap, and that no call is dropped is OneFate.
PopThrows ==
    /\ Running
    /\ incoming_calls # <<>>
    /\ Head(incoming_calls).call # Null
    /\ ~InQueue(cg_pn[Head(incoming_calls).call])
    /\ incoming_calls' = Popped
    /\ UNCHANGED <<timers, free_timers, map_cg_pn_to_pos, posted, reply, taken,
                   cdr, heap>>

-----------------------------------------------------------------------------
(* The timers, and OnCallReset *)

\* The wait on timer t expires: its handler is queued and can no longer be
\* cancelled.
TimerExpires(t) ==
    /\ Running
    /\ timers[t] # Null
    /\ timers' = [timers EXCEPT ![t] = Null]
    /\ posted' = posted \cup {Completion(timers[t], "success")}
    /\ UNCHANGED <<incoming_calls, free_timers, map_cg_pn_to_pos, reply, taken,
                   cdr, heap>>

BeginReset(h) ==
    /\ Running
    /\ h \in posted
    /\ posted' = posted \ {h}

\* (fault) The code of the error is tested the wrong way round.
IgnoresExpiry(h) == h.ec = "success" \/ ~InQueue(cg_pn[h.call])
\* The early returns of OnCallReset: the wait was cancelled, or the number is no
\* longer in the map.
IgnoresReset(h) == h.ec # "success" \/ ~InQueue(cg_pn[h.call])

ResetIgnored(h) ==
    /\ BeginReset(h)
    /\ IgnoresReset(h)
    /\ UNCHANGED <<incoming_calls, timers, free_timers, map_cg_pn_to_pos, reply,
                   taken, cdr, heap>>

\* (fault) The node is left in the list.
LeftLinked(i) == incoming_calls
Unlinked(i) == RemoveAt(incoming_calls, i)

\* The handler's iterator points at the i-th node.  The node's call is completed
\* with TIMEOUT, whichever call it is: when the address was freed and used
\* again, this is not the call the wait was armed for.
ResetErases(h, i) ==
    /\ BeginReset(h)
    /\ ~IgnoresReset(h)
    /\ incoming_calls[i].addr = h.iter
    /\ incoming_calls[i].call \in Call
    /\ LET call == incoming_calls[i].call IN
         /\ cdr' = [cdr EXCEPT ![call] = Append(@, "TIMEOUT")]
         /\ heap' = IF call = h.call THEN heap ELSE "aliased"
    /\ incoming_calls' = Unlinked(i)
    /\ free_timers' = TimerReleased(map_cg_pn_to_pos[cg_pn[h.call]])
    /\ map_cg_pn_to_pos' = NumberForgotten(cg_pn[h.call])
    /\ UNCHANGED <<timers, reply, taken>>

\* The handler's iterator points at freed memory.
ResetDangling(h) ==
    /\ BeginReset(h)
    /\ ~IgnoresReset(h)
    /\ h.iter \notin Nodes
    /\ Crash

OnCallReset(h) ==
    \/ ResetIgnored(h)
    \/ \E i \in 1 .. Len(incoming_calls) : ResetErases(h, i)
    \/ ResetDangling(h)

-----------------------------------------------------------------------------
Next ==
    \/ \E call \in Call : Push(call) \/ PopCall(call)
    \/ PopThrows
    \/ \E t \in Timer : TimerExpires(t)
    \/ \E h \in posted : OnCallReset(h)

Spec == Init /\ [][Next]_vars

-----------------------------------------------------------------------------
\* awake() puts a null pointer in the list to end a wait; only Operators::Stop
\* calls it, so it is an action of module Operators.
Awake(addr) ==
    /\ Running
    /\ addr \notin Nodes
    /\ incoming_calls' = Append(incoming_calls, [addr |-> addr, call |-> Null])
    /\ UNCHANGED <<timers, free_timers, map_cg_pn_to_pos, posted, reply, taken,
                   cdr, heap>>

-----------------------------------------------------------------------------
\* The environment in which the iterators are safe: a number does not get back
\* into the queue before a stale handler of its earlier call has run.
PatientCallers == \A h \in posted : Stale(h) => ~InQueue(cg_pn[h.call])

PatientNext == Next /\ PatientCallers'
PatientSpec == Init /\ [][PatientNext]_vars

\* Time passes and an io thread runs each posted handler.
Fairness ==
    /\ \A t \in Timer : WF_vars(TimerExpires(t))
    /\ WF_vars(\E h \in posted : OnCallReset(h))

PatientFairSpec == PatientSpec /\ Fairness

-----------------------------------------------------------------------------
(* Properties.  After a handler has used a freed iterator nothing is promised, *)
(* so the invariants speak of states in which heap is "sound".                *)

\* Every variable has its type.
TypeOK ==
    /\ incoming_calls \in Seq(Node)
    /\ timers \in [Timer -> Wait \cup {Null}]
    /\ free_timers \in Seq(Timer)
    /\ map_cg_pn_to_pos \in [CgPn -> Timer \cup {Null}]
    /\ posted \subseteq Handler
    /\ reply \in [Call -> RespStatus \cup {"none"}]
    /\ taken \subseteq Call
    /\ cdr \in [Call -> Seq(RespStatus)]
    /\ heap \in {"sound", "aliased", "crashed"}

\* The map holds exactly the numbers of the calls in the list, no number is in
\* the list twice and no two calls share a node: what makes the map usable as
\* the test for a duplicate (IncomingCallsQueue.h, map_cg_pn_to_pos_).
ListMatchesMap ==
    heap = "sound" =>
        /\ \A i \in 1 .. Len(incoming_calls) :
              /\ incoming_calls[i].call \in Call
              /\ InQueue(cg_pn[incoming_calls[i].call])
        /\ \A i, j \in 1 .. Len(incoming_calls) : i # j =>
              /\ incoming_calls[i].addr # incoming_calls[j].addr
              /\ cg_pn[incoming_calls[i].call] # cg_pn[incoming_calls[j].call]
        /\ \A n \in CgPn : InQueue(n) =>
              \E i \in 1 .. Len(incoming_calls) : cg_pn[incoming_calls[i].call] = n

\* Every timer is either free, once and unarmed, or belongs to one queued call:
\* none is lost and none is given to two calls, whatever the order of pushes,
\* pops and expirations.  push can therefore always take a timer below capacity.
TimersConserved ==
    heap = "sound" =>
        /\ Len(free_timers) + Len(incoming_calls) = capacity
        /\ \A i, j \in 1 .. Len(free_timers) :
              i # j => free_timers[i] # free_timers[j]
        /\ \A i \in 1 .. Len(free_timers) :
              /\ timers[free_timers[i]] = Null
              /\ \A n \in CgPn : map_cg_pn_to_pos[n] # free_timers[i]
        /\ \A m, n \in CgPn : InQueue(m) /\ m # n =>
              map_cg_pn_to_pos[m] # map_cg_pn_to_pos[n]

\* A queued call can still be reset: its own timer is pending, or the handler of
\* its expiry is on its way, and either points at its own node.  No wait is
\* pending for a call that has left the queue.
TimersMatchQueue ==
    heap = "sound" =>
        /\ \A i \in 1 .. Len(incoming_calls) :
              LET call == incoming_calls[i].call
                  wait == [call |-> call, iter |-> incoming_calls[i].addr]
              IN  \/ timers[map_cg_pn_to_pos[cg_pn[call]]] = wait
                  \/ Completion(wait, "success") \in posted
        /\ \A t \in Timer : timers[t] # Null =>
              \E i \in 1 .. Len(incoming_calls) :
                 /\ timers[t] = [call |-> incoming_calls[i].call,
                                 iter |-> incoming_calls[i].addr]
                 /\ map_cg_pn_to_pos[cg_pn[incoming_calls[i].call]] = t

\* A wait and a handler never speak for the same call, both belong to accepted
\* calls, and a handler whose call is still queued points at that call's node.
HandlersMatchQueue ==
    heap = "sound" =>
        /\ \A t \in Timer : timers[t] # Null =>
              /\ reply[timers[t].call] = "OK"
              /\ \A h \in posted : h.call # timers[t].call
        /\ \A h \in posted :
              /\ reply[h.call] = "OK"
              /\ \A i \in 1 .. Len(incoming_calls) :
                    incoming_calls[i].call = h.call => incoming_calls[i].addr = h.iter

\* An accepted call has exactly one fate at any time: it is queued, or an
\* operator took it, or it timed out and has one TIMEOUT record.  A rejected call
\* has none of them.
OneFate ==
    heap = "sound" =>
        \A c \in Call :
            /\ Queued(c) => c \notin taken /\ cdr[c] = <<>> /\ reply[c] = "OK"
            /\ c \in taken => cdr[c] = <<>> /\ reply[c] = "OK"
            /\ cdr[c] # <<>> => cdr[c] = <<"TIMEOUT">> /\ reply[c] = "OK"
            /\ reply[c] = "OK" => Queued(c) \/ c \in taken \/ cdr[c] # <<>>

\* The one way into undefined behaviour is the handler of a reset whose call was
\* taken and whose number is in the queue again; in particular push never finds
\* the FIFO of timers empty.
OnlyRedialBreaks ==
    [][heap = "sound" /\ heap' # "sound" =>
         \E h \in posted : Stale(h) /\ InQueue(cg_pn[h.call])]_vars

\* With callers that wait for their stale reset, no iterator is ever misused.
NeverBroken == heap = "sound"

\* The handler of a reset that was already posted when the call was taken has no
\* effect (IncomingCallsQueue.cpp, comment in OnCallReset).
StaleResetIsIgnored ==
    [][\A h \in posted \ posted' : Stale(h) =>
         UNCHANGED <<incoming_calls, free_timers, map_cg_pn_to_pos, cdr, heap>>]_vars

\* A call does not wait for ever, even if no operator ever takes a call.
EveryCallLeaves == \A c \in Call : Queued(c) ~> ~Queued(c)
=============================================================================
