------------------------------ MODULE TSQueue ------------------------------
(***************************************************************************)
(* The thread safe queue (class TSQueue), one step per acquisition of a     *)
(* mutex.  muxQueue protects the deque; a push takes muxBlocking inside it  *)
(* to notify.  wait() tests under muxQueue, lets it go, and sleeps under    *)
(* muxBlocking.                                                             *)
(***************************************************************************)
EXTENDS Integers, Sequences

CONSTANTS Pusher,     \* threads that push; each pushes itself as the item
          Waiter,     \* threads that call wait() and then pop
          Nobody,     \* the holder of a free mutex
          MaxItems    \* bound: nothing is pushed to a queue of this length

ASSUME TSQueueAssumption ==
    /\ Pusher \cap Waiter = {}
    /\ Nobody \notin Pusher \cup Waiter
    /\ MaxItems \in Nat

VARIABLES deqQueue, muxQueue, muxBlocking,
          push,    \* the end a pusher has inserted at, until its push returns
          waiter   \* where each waiter is

vars == <<deqQueue, muxQueue, muxBlocking, push, waiter>>

\* Calling empty(), before and in cvBlocking.wait (holding muxBlocking from the
\* second step on), asleep, notified, and outside wait().
WaiterPlaces == {"test", "block", "asleep", "woken", "pop"}

Init ==
    /\ deqQueue = <<>>
    /\ muxQueue = Nobody
    /\ muxBlocking = Nobody
    /\ push = [p \in Pusher |-> "none"]
    /\ waiter = [w \in Waiter |-> "test"]

WaiterMoves(w, from, to) ==
    /\ waiter[w] = from
    /\ waiter' = [waiter EXCEPT ![w] = to]

-----------------------------------------------------------------------------
(* push_back and push_front *)

\* (fault) The scoped_lock ends before the notification.
LetsGoOfQueue(p) == muxQueue' = Nobody
\* scoped_lock: muxQueue is held to the end of the push.
HoldsQueue(p) == muxQueue' = p

Insert(p, end) ==
    /\ push[p] = "none"
    /\ muxQueue = Nobody
    /\ Len(deqQueue) < MaxItems
    /\ HoldsQueue(p)
    /\ deqQueue' = IF end = "back" THEN Append(deqQueue, p) ELSE <<p>> \o deqQueue
    /\ push' = [push EXCEPT ![p] = end]
    /\ UNCHANGED <<muxBlocking, waiter>>

LockBlocking(p) ==
    /\ push[p] # "none"
    /\ muxBlocking = Nobody
    /\ muxBlocking' = p
    /\ UNCHANGED <<deqQueue, muxQueue, push, waiter>>

\* cvBlocking.notify_one().
\* (fault) Nobody is notified.
NotifyNobody == UNCHANGED waiter
NotifyOne ==
    \/ \E w \in Waiter : WaiterMoves(w, "asleep", "woken")
    \/ /\ \A w \in Waiter : waiter[w] # "asleep"
       /\ UNCHANGED waiter

NotifyAndReturn(p) ==
    /\ push[p] # "none"
    /\ muxBlocking = p
    /\ NotifyOne
    /\ muxBlocking' = Nobody
    /\ muxQueue' = Nobody
    /\ push' = [push EXCEPT ![p] = "none"]
    /\ UNCHANGED deqQueue

-----------------------------------------------------------------------------
(* wait, pop_front, pop_back and clear *)

Test(w) ==
    /\ muxQueue = Nobody
    /\ WaiterMoves(w, "test", IF deqQueue = <<>> THEN "block" ELSE "pop")
    /\ UNCHANGED <<deqQueue, muxQueue, muxBlocking, push>>

Lock(w) ==
    /\ waiter[w] = "block"
    /\ muxBlocking = Nobody
    /\ muxBlocking' = w
    /\ UNCHANGED <<deqQueue, muxQueue, push, waiter>>

\* (fault) wait() tests empty() once more under muxBlocking, to close the gap
\* between test and sleep: the mutexes are then taken in both orders.
SleepsIfStillEmpty(w) == muxQueue = Nobody /\ deqQueue = <<>>
SleepsAnyway(w) == TRUE

\* cvBlocking.wait(ul): to sleep and to release muxBlocking is one step.
Sleep(w) ==
    /\ muxBlocking = w
    /\ SleepsAnyway(w)
    /\ WaiterMoves(w, "block", "asleep")
    /\ muxBlocking' = Nobody
    /\ UNCHANGED <<deqQueue, muxQueue, push>>

SpuriousWakeup(w) ==
    /\ WaiterMoves(w, "asleep", "woken")
    /\ UNCHANGED <<deqQueue, muxQueue, muxBlocking, push>>

\* cvBlocking.wait takes muxBlocking again before it returns; ul then releases it.
WaitReturns(w) ==
    /\ muxBlocking = Nobody
    /\ WaiterMoves(w, "woken", "test")
    /\ UNCHANGED <<deqQueue, muxQueue, muxBlocking, push>>

\* pop_front, pop_back: they throw if the deque has been emptied meanwhile.
Pop(w) ==
    /\ muxQueue = Nobody
    /\ WaiterMoves(w, "pop", "test")
    /\ IF deqQueue = <<>> THEN UNCHANGED deqQueue
       ELSE deqQueue' \in {Tail(deqQueue), SubSeq(deqQueue, 1, Len(deqQueue) - 1)}
    /\ UNCHANGED <<muxQueue, muxBlocking, push>>

Clear ==
    /\ muxQueue = Nobody
    /\ deqQueue' = <<>>
    /\ UNCHANGED <<muxQueue, muxBlocking, push, waiter>>

-----------------------------------------------------------------------------
PushOn(p) == LockBlocking(p) \/ NotifyAndReturn(p)
WaitOn(w) == Test(w) \/ Lock(w) \/ Sleep(w) \/ WaitReturns(w)

Next ==
    \/ \E p \in Pusher : PushOn(p) \/ \E end \in {"front", "back"} : Insert(p, end)
    \/ \E w \in Waiter : WaitOn(w) \/ SpuriousWakeup(w) \/ Pop(w)
    \/ Clear

Spec == Init /\ [][Next]_vars

\* A thread inside a method goes on when it can get the mutex it needs.
FairSpec ==
    /\ Spec
    /\ \A p \in Pusher : WF_vars(PushOn(p))
    /\ \A w \in Waiter : WF_vars(WaitOn(w))

-----------------------------------------------------------------------------
(* Properties *)

\* Types, and what each mutex is held for: muxQueue by the one push that has
\* inserted and not returned, muxBlocking by that same push or by a thread about
\* to sleep in wait().
LockDiscipline ==
    /\ deqQueue \in Seq(Pusher)
    /\ push \in [Pusher -> {"none", "front", "back"}]
    /\ waiter \in [Waiter -> WaiterPlaces]
    /\ muxQueue \in Pusher \cup {Nobody}
    /\ \A p \in Pusher : push[p] # "none" <=> muxQueue = p
    /\ muxBlocking \in {muxQueue, Nobody} \cup {w \in Waiter : waiter[w] = "block"}
    /\ muxQueue # Nobody => deqQueue # <<>>

\* The deque without the item of a push that has not notified yet.  Nobody can see
\* that item: the push holds muxQueue.
Items ==
    IF muxQueue = Nobody THEN deqQueue
    ELSE IF push[muxQueue] = "front" THEN Tail(deqQueue)
    ELSE SubSeq(deqQueue, 1, Len(deqQueue) - 1)

WaitQueue == INSTANCE WaitQueue WITH
    Item <- Pusher,
    items <- Items,
    waiter <- [w \in Waiter |-> IF waiter[w] = "woken" THEN "test" ELSE waiter[w]]

\* To its users a push inserts and wakes a sleeper in one step, and an item is never
\* seen, popped or cleared before its push has notified, although insertion and
\* notification are under two mutexes.  Module Operators rests on this.
ImplementsWaitQueue == WaitQueue!Spec

\* A push that has taken muxQueue returns: the mutexes it holds together are never
\* waited for in the opposite order, however the waiters sleep and wake.
EveryPushReturns == \A p \in Pusher : push[p] # "none" ~> push[p] = "none"
=============================================================================
