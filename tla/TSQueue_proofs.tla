--------------------------- MODULE TSQueue_proofs ---------------------------
(***************************************************************************)
(* Theorems about TSQueue, for any number of pushers and of waiters: what   *)
(* each mutex is held for, and that the queue implements WaitQueue.         *)
(***************************************************************************)
EXTENDS TSQueue, TLAPS, SequenceTheorems

\* What Insert adds to the deque, Items takes away again.
LEMMA InsertedIsHidden ==
    ASSUME NEW s \in Seq(Pusher), NEW p \in Pusher
    PROVE  /\ Append(s, p) \in Seq(Pusher) /\ Append(s, p) # <<>>
           /\ SubSeq(Append(s, p), 1, Len(Append(s, p)) - 1) = s
           /\ <<p>> \o s \in Seq(Pusher) /\ <<p>> \o s # <<>>
           /\ Tail(<<p>> \o s) = s
<1> DEFINE f == <<p>> \o s
<1>1. Append(s, p) \in Seq(Pusher) /\ Len(Append(s, p)) = Len(s) + 1
      /\ \A i \in 1 .. Len(s) : Append(s, p)[i] = s[i]
    OBVIOUS
<1>2. SubSeq(Append(s, p), 1, Len(s)) = s
    <2> DEFINE t == SubSeq(Append(s, p), 1, Len(s))
    <2>1. Len(s) \in Nat /\ \A i \in 1 .. Len(s) : Append(s, p)[i] \in Pusher
        BY <1>1, ElementOfSeq
    <2>2. t \in Seq(Pusher) /\ Len(t) = Len(s) /\ \A i \in 1 .. Len(s) : t[i] = Append(s, p)[i]
        BY <2>1, SubSeqProperties
    <2> QED BY <1>1, <2>2, SeqEqual
<1>3. f \in Seq(Pusher) /\ Len(f) = Len(s) + 1
      /\ \A i \in 1 .. Len(s) : f[i + 1] = s[i]
    BY ConcatProperties
<1>4. f # <<>>
    BY <1>3
<1>5. Tail(f) = s
    <2> HIDE DEF f
    <2>1. Tail(f) \in Seq(Pusher) /\ Len(Tail(f)) = Len(s)
          /\ \A i \in 1 .. Len(s) : Tail(f)[i] = s[i]
        BY <1>3, <1>4, HeadTailProperties
    <2> QED BY <2>1, SeqEqual
<1> QED BY <1>1, <1>2, <1>3, <1>4, <1>5

\* What pop_front and pop_back leave is a deque again.
LEMMA PoppedIsSeq ==
    ASSUME NEW s \in Seq(Pusher), s # <<>>
    PROVE  Tail(s) \in Seq(Pusher) /\ SubSeq(s, 1, Len(s) - 1) \in Seq(Pusher)
<1>1. Tail(s) \in Seq(Pusher)
    BY HeadTailProperties
<1>2. Len(s) - 1 \in Int /\ \A i \in 1 .. Len(s) - 1 : s[i] \in Pusher
    BY LenProperties, ElementOfSeq
<1> QED BY <1>1, <1>2, SubSeqProperties

-----------------------------------------------------------------------------
(* The discipline of the two mutexes *)

LEMMA InitLocks == Init => LockDiscipline
BY TSQueueAssumption DEF TSQueueAssumption, Init, LockDiscipline, WaiterPlaces

LEMMA InsertLocks ==
    ASSUME TSQueueAssumption, LockDiscipline,
           NEW p \in Pusher, NEW end \in {"front", "back"}, Insert(p, end)
    PROVE  LockDiscipline'
<1> USE DEF TSQueueAssumption, LockDiscipline, WaiterPlaces
<1>1. deqQueue' \in Seq(Pusher) /\ deqQueue' # <<>>
    BY InsertedIsHidden DEF Insert
<1>2. push' \in [Pusher -> {"none", "front", "back"}] /\ waiter' = waiter
      /\ muxQueue' = p
    BY DEF Insert, HoldsQueue
<1>3. \A q \in Pusher : push'[q] # "none" <=> muxQueue' = q
    BY DEF Insert, HoldsQueue
<1>4. muxBlocking' \in {muxQueue', Nobody} \cup {w \in Waiter : waiter'[w] = "block"}
    BY DEF Insert
<1> QED BY <1>1, <1>2, <1>3, <1>4

LEMMA PushOnLocks ==
    ASSUME TSQueueAssumption, LockDiscipline, NEW p \in Pusher, PushOn(p)
    PROVE  LockDiscipline'
<1> USE DEF TSQueueAssumption, LockDiscipline, WaiterPlaces
<1>1. CASE LockBlocking(p)
    BY <1>1 DEF LockBlocking
<1>2. CASE NotifyAndReturn(p)
    <2>1. waiter' \in [Waiter -> WaiterPlaces]
        BY <1>2 DEF NotifyAndReturn, NotifyOne, WaiterMoves
    <2>2. /\ push' \in [Pusher -> {"none", "front", "back"}]
          /\ \A q \in Pusher : push'[q] # "none" <=> muxQueue' = q
        BY <1>2 DEF NotifyAndReturn
    <2> QED BY <1>2, <2>1, <2>2 DEF NotifyAndReturn
<1> QED BY <1>1, <1>2 DEF PushOn

LEMMA WaiterLocks ==
    ASSUME TSQueueAssumption, LockDiscipline, NEW w \in Waiter,
           WaitOn(w) \/ SpuriousWakeup(w) \/ Pop(w)
    PROVE  LockDiscipline'
<1> USE DEF TSQueueAssumption, LockDiscipline, WaiterPlaces
<1>1. CASE Test(w)
    BY <1>1 DEF Test, WaiterMoves
<1>2. CASE Lock(w)
    BY <1>2 DEF Lock
<1>3. CASE Sleep(w)
    BY <1>3 DEF Sleep, WaiterMoves
<1>4. CASE WaitReturns(w)
    BY <1>4 DEF WaitReturns, WaiterMoves
<1>5. CASE SpuriousWakeup(w)
    BY <1>5 DEF SpuriousWakeup, WaiterMoves
<1>6. CASE Pop(w)
    <2>1. deqQueue' \in Seq(Pusher)
        BY <1>6, PoppedIsSeq DEF Pop
    <2> QED BY <1>6, <2>1 DEF Pop, WaiterMoves
<1> QED BY <1>1, <1>2, <1>3, <1>4, <1>5, <1>6 DEF WaitOn

LEMMA NextLocks ==
    ASSUME TSQueueAssumption, LockDiscipline, [Next]_vars
    PROVE  LockDiscipline'
<1>1. CASE Clear
    BY <1>1 DEF Clear, LockDiscipline, WaiterPlaces
<1>2. CASE UNCHANGED vars
    BY <1>2 DEF vars, LockDiscipline, WaiterPlaces
<1> QED BY <1>1, <1>2, InsertLocks, PushOnLocks, WaiterLocks DEF Next

\* Whatever the number of threads, muxQueue is held by the one push that is under way,
\* and muxBlocking by that push or by a thread about to sleep in wait().
THEOREM MutexesAreDisciplined == Spec => []LockDiscipline
<1>1. Init => LockDiscipline
    BY InitLocks
<1>2. LockDiscipline /\ [Next]_vars => LockDiscipline'
    BY TSQueueAssumption, NextLocks
<1> QED BY <1>1, <1>2, PTL DEF Spec

-----------------------------------------------------------------------------
(* The refinement: what the users see *)

Seen == [w \in Waiter |-> IF waiter[w] = "woken" THEN "test" ELSE waiter[w]]

\* A waiter's move, seen through the mapping.
LEMMA MoveSeen ==
    ASSUME waiter \in [Waiter -> WaiterPlaces], NEW w \in Waiter,
           NEW from \in WaiterPlaces, NEW to \in WaiterPlaces,
           WaiterMoves(w, from, to), from # "woken", to # "woken"
    PROVE  WaitQueue!Moves(w, from, to)
BY DEF WaiterMoves, WaitQueue!Moves, WaiterPlaces

\* A wakeup, spurious or not, shows at once as a return to the test.
LEMMA WakeSeen ==
    ASSUME waiter \in [Waiter -> WaiterPlaces], NEW w \in Waiter,
           WaiterMoves(w, "asleep", "woken")
    PROVE  WaitQueue!Moves(w, "asleep", "test")
BY DEF WaiterMoves, WaitQueue!Moves, WaiterPlaces

\* The three steps of a push: only the last one shows.
LEMMA InsertStutters ==
    ASSUME TSQueueAssumption, LockDiscipline,
           NEW p \in Pusher, NEW end \in {"front", "back"}, Insert(p, end)
    PROVE  UNCHANGED WaitQueue!vars
<1> USE DEF TSQueueAssumption, LockDiscipline
<1>1. Items = deqQueue
    BY DEF Insert, Items
<1>2. push'[p] = end /\ muxQueue' = p /\ p # Nobody
    BY DEF Insert, HoldsQueue
<1>3. Items' = deqQueue
    BY <1>2, InsertedIsHidden DEF Insert, Items
<1> QED BY <1>1, <1>3 DEF Insert, WaitQueue!vars

\* A deque is its last item behind the others, and its first item before the others.
LEMMA Ends ==
    ASSUME NEW s \in Seq(Pusher), s # <<>>
    PROVE  /\ s[1] \in Pusher /\ s = <<s[1]>> \o Tail(s)
           /\ s[Len(s)] \in Pusher /\ s = Append(SubSeq(s, 1, Len(s) - 1), s[Len(s)])
<1>1. Len(s) \in Nat \ {0} /\ 1 \in 1 .. Len(s) /\ Len(s) \in 1 .. Len(s)
    BY EmptySeq
<1>2. s[1] \in Pusher /\ s[Len(s)] \in Pusher
    BY <1>1, ElementOfSeq
<1>3. SubSeq(s, 1, Len(s)) = s
    BY SubSeqFull
<1>4. s = <<s[1]>> \o Tail(s)
    BY <1>1, <1>3, SubSeqRecursiveFirst, TailIsSubSeq
<1>5. s = SubSeq(s, 1, Len(s) - 1) \o <<s[Len(s)]>>
    BY <1>1, <1>3, SubSeqRecursiveSecond
<1>6. SubSeq(s, 1, Len(s) - 1) \in Seq(Pusher)
    BY PoppedIsSeq
<1>7. s = Append(SubSeq(s, 1, Len(s) - 1), s[Len(s)])
    BY <1>2, <1>5, <1>6, AppendIsConcat
<1> QED BY <1>2, <1>4, <1>7

LEMMA NotifyPushes ==
    ASSUME TSQueueAssumption, LockDiscipline, NEW p \in Pusher, NotifyAndReturn(p)
    PROVE  \E item \in Pusher : WaitQueue!Push(item)
<1> USE DEF TSQueueAssumption, LockDiscipline
<1>1. muxQueue = p /\ p # Nobody /\ deqQueue # <<>> /\ push[p] \in {"front", "back"}
    BY DEF NotifyAndReturn
<1>2. Items' = deqQueue
    BY DEF NotifyAndReturn, Items
<1>3. \E item \in Pusher : Items' \in {Append(Items, item), <<item>> \o Items}
    <2>1. CASE push[p] = "front"
        <3>1. Items = Tail(deqQueue)
            BY <1>1, <2>1 DEF Items
        <3> QED BY <1>1, <1>2, <3>1, Ends
    <2>2. CASE push[p] = "back"
        <3>1. Items = SubSeq(deqQueue, 1, Len(deqQueue) - 1)
            BY <1>1, <2>2 DEF Items
        <3> QED BY <1>1, <1>2, <3>1, Ends
    <2> QED BY <1>1, <2>1, <2>2
<1>4. WaitQueue!WakesOne
    <2>1. CASE \E w \in Waiter : WaiterMoves(w, "asleep", "woken")
        BY <2>1, WakeSeen DEF WaitQueue!WakesOne
    <2>2. CASE (\A w \in Waiter : waiter[w] # "asleep") /\ UNCHANGED waiter
        BY <2>2 DEF WaitQueue!WakesOne
    <2> QED BY <2>1, <2>2 DEF NotifyAndReturn, NotifyOne
<1> QED BY <1>3, <1>4 DEF WaitQueue!Push

\* The methods of the waiters are steps of WaitQueue, or do not show.
LEMMA WaiterSeen ==
    ASSUME TSQueueAssumption, LockDiscipline, NEW w \in Waiter,
           WaitOn(w) \/ SpuriousWakeup(w) \/ Pop(w)
    PROVE  \/ WaitQueue!Test(w) \/ WaitQueue!Sleep(w)
           \/ WaitQueue!SpuriousWakeup(w) \/ WaitQueue!Pop(w)
           \/ UNCHANGED WaitQueue!vars
<1> USE DEF LockDiscipline
<1>1. CASE Test(w)
    <2>1. Items = deqQueue /\ UNCHANGED Items
        BY <1>1 DEF Test, Items
    <2>2. CASE deqQueue = <<>>
        <3>1. WaitQueue!Moves(w, "test", "block")
            BY <1>1, <2>2, MoveSeen DEF Test, WaiterPlaces
        <3> QED BY <2>1, <2>2, <3>1 DEF WaitQueue!Test, WaitQueue!Moves
    <2>3. CASE deqQueue # <<>>
        <3>1. WaitQueue!Moves(w, "test", "pop")
            BY <1>1, <2>3, MoveSeen DEF Test, WaiterPlaces
        <3> QED BY <2>1, <2>3, <3>1 DEF WaitQueue!Test, WaitQueue!Moves
    <2> QED BY <2>2, <2>3
<1>2. CASE Lock(w)
    BY <1>2 DEF Lock, Items, WaitQueue!vars
<1>3. CASE Sleep(w)
    <2>1. UNCHANGED Items
        BY <1>3 DEF Sleep, Items
    <2>2. WaitQueue!Moves(w, "block", "asleep")
        BY <1>3, MoveSeen DEF Sleep, WaiterPlaces
    <2> QED BY <2>1, <2>2 DEF WaitQueue!Sleep
<1>4. CASE WaitReturns(w)
    <2>1. UNCHANGED Items
        BY <1>4 DEF WaitReturns, Items
    <2>2. Seen' = Seen
        BY <1>4 DEF WaitReturns, WaiterMoves, Seen, WaiterPlaces
    <2> QED BY <2>1, <2>2 DEF WaitQueue!vars, Seen
<1>5. CASE SpuriousWakeup(w)
    <2>1. UNCHANGED Items
        BY <1>5 DEF SpuriousWakeup, Items
    <2>2. WaitQueue!Moves(w, "asleep", "test")
        BY <1>5, WakeSeen DEF SpuriousWakeup
    <2> QED BY <2>1, <2>2 DEF WaitQueue!SpuriousWakeup
<1>6. CASE Pop(w)
    <2>1. Items = deqQueue /\ Items' = deqQueue'
        BY <1>6 DEF Pop, Items
    <2>2. WaitQueue!Moves(w, "pop", "test")
        BY <1>6, MoveSeen DEF Pop, WaiterPlaces
    <2> QED BY <1>6, <2>1, <2>2 DEF Pop, WaitQueue!Pop
<1> QED BY <1>1, <1>2, <1>3, <1>4, <1>5, <1>6 DEF WaitOn

LEMMA NextSeen ==
    ASSUME TSQueueAssumption, LockDiscipline, [Next]_vars
    PROVE  [WaitQueue!Next]_WaitQueue!vars
<1>1. ASSUME NEW p \in Pusher, NEW end \in {"front", "back"}, Insert(p, end)
      PROVE  UNCHANGED WaitQueue!vars
    BY <1>1, InsertStutters
<1>2. ASSUME NEW p \in Pusher, LockBlocking(p)
      PROVE  UNCHANGED WaitQueue!vars
    BY <1>2 DEF LockBlocking, Items, WaitQueue!vars
<1>3. ASSUME NEW p \in Pusher, NotifyAndReturn(p)
      PROVE  WaitQueue!Next
    BY <1>3, NotifyPushes DEF WaitQueue!Next
<1>4. ASSUME NEW w \in Waiter, WaitOn(w) \/ SpuriousWakeup(w) \/ Pop(w)
      PROVE  WaitQueue!Next \/ UNCHANGED WaitQueue!vars
    BY <1>4, WaiterSeen DEF WaitQueue!Next
<1>5. CASE Clear
    <2>1. Items' = <<>>
        BY <1>5 DEF Clear, Items
    <2> QED BY <1>5, <2>1 DEF Clear, WaitQueue!Clear, WaitQueue!Next
<1>6. CASE UNCHANGED vars
    BY <1>6 DEF vars, Items, WaitQueue!vars
<1> QED BY <1>1, <1>2, <1>3, <1>4, <1>5, <1>6 DEF Next, PushOn

\* The queue of two mutexes and a condition variable implements the queue of atomic
\* steps, for any number of pushers and of waiters.
THEOREM QueueIsAtomic == Spec => ImplementsWaitQueue
<1>1. Init => WaitQueue!Init
    BY DEF Init, WaitQueue!Init, Items
<1>2. LockDiscipline /\ [Next]_vars => [WaitQueue!Next]_WaitQueue!vars
    BY TSQueueAssumption, NextSeen
<1> QED BY <1>1, <1>2, MutexesAreDisciplined, PTL
        DEF Spec, ImplementsWaitQueue, WaitQueue!Spec
=============================================================================
