---------------------- MODULE IncomingCallsQueue_proofs ----------------------
(***************************************************************************)
(* Proofs about IncomingCallsQueue, for any calls, callers, addresses and   *)
(* capacity.                                                                *)
(***************************************************************************)
EXTENDS IncomingCallsQueue, SequenceTheorems, TLAPS

-----------------------------------------------------------------------------
(* Lemmas about sequences *)

\* RemoveAt, by which OnCallReset unlinks a node (calls.erase), takes out the
\* k-th element and moves up the ones behind it.
LEMMA RemoveAtProperties ==
    ASSUME NEW S, NEW s \in Seq(S), NEW k \in 1 .. Len(s)
    PROVE  /\ RemoveAt(s, k) \in Seq(S)
           /\ Len(RemoveAt(s, k)) = Len(s) - 1
           /\ \A j \in 1 .. Len(s) - 1 :
                 RemoveAt(s, k)[j] = s[IF j < k THEN j ELSE j + 1]
<1> DEFINE front == SubSeq(s, 1, k - 1)
           back  == SubSeq(s, k + 1, Len(s))
<1>1. Len(s) \in Nat /\ \A i \in 1 .. Len(s) : s[i] \in S
  BY LenProperties, ElementOfSeq
<1>2. /\ front \in Seq(S)
      /\ Len(front) = k - 1
      /\ \A i \in 1 .. k - 1 : front[i] = s[i]
  <2>1. \A i \in 1 .. k - 1 : s[i] \in S
    BY <1>1
  <2>2. /\ SubSeq(s, 1, k - 1) \in Seq(S)
        /\ Len(SubSeq(s, 1, k - 1)) =
              IF 1 <= k - 1 THEN (k - 1) - 1 + 1 ELSE 0
        /\ \A i \in 1 .. (k - 1) - 1 + 1 : SubSeq(s, 1, k - 1)[i] = s[1 + i - 1]
    BY <1>1, <2>1, SubSeqProperties
  <2> HIDE DEF front
  <2>3. front = SubSeq(s, 1, k - 1)
    BY DEF front
  <2> QED BY <1>1, <2>2, <2>3
<1>3. /\ back \in Seq(S)
      /\ Len(back) = Len(s) - k
      /\ \A i \in 1 .. Len(s) - k : back[i] = s[k + i]
  <2>1. \A i \in k + 1 .. Len(s) : s[i] \in S
    BY <1>1
  <2>2. /\ SubSeq(s, k + 1, Len(s)) \in Seq(S)
        /\ Len(SubSeq(s, k + 1, Len(s))) =
              IF k + 1 <= Len(s) THEN Len(s) - (k + 1) + 1 ELSE 0
        /\ \A i \in 1 .. Len(s) - (k + 1) + 1 :
              SubSeq(s, k + 1, Len(s))[i] = s[k + 1 + i - 1]
    BY <1>1, <2>1, SubSeqProperties
  <2> HIDE DEF back
  <2>3. back = SubSeq(s, k + 1, Len(s))
    BY DEF back
  <2>4. \A i \in 1 .. Len(s) - k : k + 1 + i - 1 = k + i
    BY <1>1
  <2> QED BY <1>1, <2>2, <2>3, <2>4
<1>4. RemoveAt(s, k) = front \o back
  BY DEF RemoveAt
<1> HIDE DEF front, back
<1>5. /\ front \o back \in Seq(S)
      /\ Len(front \o back) = Len(front) + Len(back)
      /\ \A i \in 1 .. Len(front) + Len(back) : (front \o back)[i] =
            IF i <= Len(front) THEN front[i] ELSE back[i - Len(front)]
  BY <1>2, <1>3, ConcatProperties
<1>6. ASSUME NEW j \in 1 .. Len(s) - 1
      PROVE  (front \o back)[j] = s[IF j < k THEN j ELSE j + 1]
  <2> DEFINE m == Len(front)
  <2>3. /\ m = k - 1 /\ m + Len(back) = Len(s) - 1
        /\ j \in 1 .. m + Len(back)
    BY <1>1, <1>2, <1>3
  <2>4. (front \o back)[j] = IF j <= m THEN front[j] ELSE back[j - m]
    BY <1>5, <2>3
  <2> HIDE DEF m
  <2>1. CASE j < k
    <3>1. j \in 1 .. k - 1 /\ j <= m
      BY <1>1, <2>1, <2>3
    <3> QED BY <1>2, <2>1, <2>4, <3>1
  <2>2. CASE ~(j < k)
    <3>1. (front \o back)[j] = back[j - (k - 1)]
      <4>1. ~(j <= m)
        BY <1>1, <2>2, <2>3
      <4> QED BY <2>3, <2>4, <4>1
    <3>2. back[j - (k - 1)] = s[k + (j - (k - 1))]
      BY <1>1, <1>3, <2>2
    <3> QED BY <1>1, <2>2, <3>1, <3>2
  <2> QED BY <2>1, <2>2
<1> QED BY <1>1, <1>2, <1>3, <1>4, <1>5, <1>6

\* The constructor's FIFO of timers (std::iota) holds every timer once.
LEMMA InitialTimersProperties ==
    /\ InitialTimers \in Seq(Timer)
    /\ Len(InitialTimers) = capacity
    /\ \A i \in 1 .. capacity : InitialTimers[i] = i - 1
<1>1. capacity \in Nat
  BY ConstantsAssumption DEF ConstantsAssumption
<1>2. InitialTimers \in [1 .. capacity -> Timer]
  BY <1>1 DEF InitialTimers, Timer
<1>3. InitialTimers \in Seq(Timer)
  BY <1>1, <1>2, SeqDef
<1>4. DOMAIN InitialTimers = 1 .. Len(InitialTimers) /\ Len(InitialTimers) \in Nat
  BY <1>3, LenProperties
<1>5. \A i \in Nat : i \in 1 .. Len(InitialTimers) <=> i \in 1 .. capacity
  BY <1>2, <1>4
<1>6. Len(InitialTimers) = capacity
  <2>1. Len(InitialTimers) \in Nat
    BY <1>4
  <2>2. Len(InitialTimers) > 0 => Len(InitialTimers) \in 1 .. capacity
    BY <1>5, <2>1
  <2>3. capacity > 0 => capacity \in 1 .. Len(InitialTimers)
    BY <1>1, <1>5
  <2> HIDE DEF InitialTimers
  <2> QED BY <1>1, <2>1, <2>2, <2>3
<1> QED BY <1>3, <1>6 DEF InitialTimers

-----------------------------------------------------------------------------
(* Type correctness *)

LEMMA TypeInit == Init => TypeOK
<1> SUFFICES ASSUME Init PROVE TypeOK
  OBVIOUS
<1>1. <<>> \in Seq(Node) /\ <<>> \in Seq(RespStatus)
  BY EmptySeq
<1> QED BY <1>1, InitialTimersProperties DEF Init, TypeOK

LEMMA TypePush ==
    ASSUME TypeOK, NEW call \in Call, Push(call)
    PROVE  TypeOK'
<1>1. CASE PushDuplicate(call)
  BY <1>1 DEF PushDuplicate, BeginPush, TypeOK, RespStatus
<1>2. CASE PushOverload(call)
  BY <1>2 DEF PushOverload, BeginPush, TypeOK, RespStatus
<1>3. ASSUME NEW addr \in Addr, PushAccept(call, addr)
      PROVE  TypeOK'
  <2> USE <1>3 DEF PushAccept
  <2> DEFINE t == Head(free_timers)
  <2>1. t \in Timer /\ Tail(free_timers) \in Seq(Timer)
    BY HeadTailProperties DEF TypeOK
  <2>2. incoming_calls' \in Seq(Node)
    <3>1. [addr |-> addr, call |-> call] \in Node
      BY DEF Node
    <3> QED BY <3>1, AppendProperties DEF TypeOK
  <2>3. Armed(call, addr) \in Wait
    BY DEF Armed, Wait
  <2>4. Cancelled(t) \subseteq Handler
    BY <2>1 DEF Cancelled, Completion, Handler, Wait, TypeOK
  <2>5. timers' \in [Timer -> Wait \cup {Null}] /\ posted' \subseteq Handler
    BY <2>1, <2>3, <2>4 DEF TypeOK
  <2>6. map_cg_pn_to_pos' \in [CgPn -> Timer \cup {Null}]
    BY <2>1 DEF TypeOK
  <2>7. reply' \in [Call -> RespStatus \cup {"none"}]
    BY DEF TypeOK, RespStatus
  <2> QED BY <2>1, <2>2, <2>5, <2>6, <2>7 DEF TypeOK
<1>4. CASE PushNoTimer(call)
  BY <1>4 DEF PushNoTimer, Crash, TypeOK
<1> QED BY <1>1, <1>2, <1>3, <1>4 DEF Push

LEMMA TypePop ==
    ASSUME TypeOK, NEW call \in Call, PopCall(call)
    PROVE  TypeOK'
<1> USE DEF PopCall
<1> DEFINE t == map_cg_pn_to_pos[cg_pn[call]]
<1>1. cg_pn[call] \in CgPn /\ t \in Timer
  BY ConstantsAssumption DEF ConstantsAssumption, InQueue, TypeOK
<1>2. incoming_calls' \in Seq(Node)
  BY HeadTailProperties DEF TypeOK, Popped
<1>3. Cancelled(t) \subseteq Handler
  <2>1. timers[t] \in Wait \cup {Null}
    BY <1>1 DEF TypeOK
  <2>2. timers[t] # Null => Completion(timers[t], "operation_aborted") \in Handler
    BY <2>1 DEF Completion, Handler, Wait
  <2> QED BY <2>2 DEF Cancelled
<1>4. free_timers' \in Seq(Timer)
  BY <1>1, AppendProperties DEF TypeOK, TimerReleased
<1>5. timers' \in [Timer -> Wait \cup {Null}] /\ posted' \subseteq Handler
  BY <1>1, <1>3 DEF TypeOK
<1>6. map_cg_pn_to_pos' \in [CgPn -> Timer \cup {Null}]
  BY <1>1 DEF TypeOK, NumberForgotten
<1> QED BY <1>2, <1>4, <1>5, <1>6 DEF TypeOK

LEMMA TypeReset ==
    ASSUME TypeOK, NEW h \in posted, OnCallReset(h)
    PROVE  TypeOK'
<1>1. CASE ResetIgnored(h)
  BY <1>1 DEF ResetIgnored, BeginReset, TypeOK
<1>2. ASSUME NEW i \in 1 .. Len(incoming_calls), ResetErases(h, i)
      PROVE  TypeOK'
  <2> USE <1>2 DEF ResetErases
  <2> DEFINE call == incoming_calls[i].call
             t    == map_cg_pn_to_pos[cg_pn[h.call]]
  <2>1. cg_pn[h.call] \in CgPn /\ t \in Timer
    BY ConstantsAssumption
       DEF ConstantsAssumption, IgnoresReset, InQueue, TypeOK, Handler
  <2>2. incoming_calls' \in Seq(Node)
    BY RemoveAtProperties DEF TypeOK, Unlinked
  <2>3. free_timers' \in Seq(Timer)
    BY <2>1, AppendProperties DEF TypeOK, TimerReleased
  <2>4. map_cg_pn_to_pos' \in [CgPn -> Timer \cup {Null}]
    BY <2>1 DEF TypeOK, NumberForgotten
  <2>5. cdr' \in [Call -> Seq(RespStatus)]
    <3>1. Append(cdr[call], "TIMEOUT") \in Seq(RespStatus)
      BY AppendProperties DEF TypeOK, RespStatus
    <3> QED BY <3>1 DEF TypeOK
  <2>6. posted' \subseteq Handler /\ heap' \in {"sound", "aliased", "crashed"}
    BY DEF TypeOK, BeginReset
  <2> QED BY <2>2, <2>3, <2>4, <2>5, <2>6 DEF TypeOK
<1>3. CASE ResetDangling(h)
  BY <1>3 DEF ResetDangling, BeginReset, Crash, TypeOK
<1> QED BY <1>1, <1>2, <1>3 DEF OnCallReset

LEMMA TypeNext == TypeOK /\ [Next]_vars => TypeOK'
<1> SUFFICES ASSUME TypeOK, [Next]_vars PROVE TypeOK'
  OBVIOUS
<1>1. CASE PopThrows
  <2>1. incoming_calls' \in Seq(Node)
    BY <1>1, HeadTailProperties DEF PopThrows, Popped, TypeOK
  <2> QED BY <1>1, <2>1 DEF PopThrows, TypeOK
<1>2. ASSUME NEW t \in Timer, TimerExpires(t)
      PROVE  TypeOK'
  BY <1>2 DEF TimerExpires, Completion, Handler, Wait, TypeOK
<1>3. CASE UNCHANGED vars
  BY <1>3 DEF vars, TypeOK
<1> QED BY <1>1, <1>2, <1>3, TypePush, TypePop, TypeReset DEF Next

\* Every reachable state of the queue has the declared types: in particular the
\* indices push takes from free_timers_ and those it finds in the map are indices
\* of timers_, also after a handler has used a freed iterator.
THEOREM TypeCorrect == Spec => []TypeOK
BY TypeInit, TypeNext, PTL DEF Spec
-----------------------------------------------------------------------------
(* The inductive invariant *)

\* No part is inductive alone.  A new call finds a timer because free timers and
\* queued calls add up to capacity; the map's entry of a queued call is a timer
\* of its own, so it is not among the free ones; and a handler that passes the
\* early returns, if it is not stale, points at the node of its own call.
IInv ==
    /\ TypeOK
    /\ ListMatchesMap
    /\ TimersConserved
    /\ TimersMatchQueue
    /\ HandlersMatchQueue
    /\ OneFate

Position == 1 .. Len(incoming_calls)
Wanted(i) == [call |-> incoming_calls[i].call, iter |-> incoming_calls[i].addr]
TimerOf(i) == map_cg_pn_to_pos[cg_pn[incoming_calls[i].call]]

\* The parts of a queued node have their types, and its call has a timer.
LEMMA QueuedNode ==
    ASSUME IInv, heap = "sound", NEW i \in Position
    PROVE  /\ incoming_calls[i].addr \in Addr
           /\ incoming_calls[i].call \in Call
           /\ cg_pn[incoming_calls[i].call] \in CgPn
           /\ TimerOf(i) \in Timer
<1>1. incoming_calls[i] \in Node
  BY ElementOfSeq DEF IInv, TypeOK, Position
<1>2. incoming_calls[i].call \in Call /\ InQueue(cg_pn[incoming_calls[i].call])
  BY DEF IInv, ListMatchesMap, Position
<1>3. cg_pn[incoming_calls[i].call] \in CgPn
  BY <1>2, ConstantsAssumption DEF ConstantsAssumption
<1> QED BY <1>1, <1>2, <1>3 DEF Node, TimerOf, IInv, TypeOK, InQueue

\* The number of a queued call tells its place, and so does its timer.
LEMMA OnePlace ==
    ASSUME IInv, heap = "sound", NEW i \in Position, NEW j \in Position
    PROVE  /\ cg_pn[incoming_calls[i].call] = cg_pn[incoming_calls[j].call] => i = j
           /\ TimerOf(i) = TimerOf(j) => i = j
           /\ incoming_calls[i].addr = incoming_calls[j].addr => i = j
<1>1. /\ cg_pn[incoming_calls[i].call] = cg_pn[incoming_calls[j].call] => i = j
      /\ incoming_calls[i].addr = incoming_calls[j].addr => i = j
  BY DEF IInv, ListMatchesMap, Position
<1>2. /\ cg_pn[incoming_calls[i].call] \in CgPn /\ cg_pn[incoming_calls[j].call] \in CgPn
      /\ InQueue(cg_pn[incoming_calls[i].call])
  BY QueuedNode DEF IInv, ListMatchesMap, Position
<1>3. TimerOf(i) = TimerOf(j) =>
        cg_pn[incoming_calls[i].call] = cg_pn[incoming_calls[j].call]
  BY <1>2 DEF IInv, TimersConserved, TimerOf
<1> QED BY <1>1, <1>3

\* A wait that is pending is the one of a queued call, on that call's timer.
LEMMA PendingWait ==
    ASSUME IInv, heap = "sound", NEW t \in Timer, timers[t] # Null
    PROVE  \E i \in Position : timers[t] = Wanted(i) /\ TimerOf(i) = t
BY DEF IInv, TimersMatchQueue, Position, Wanted, TimerOf

\* push has a timer for every call it accepts.
LEMMA TimerIsFree ==
    ASSUME IInv, heap = "sound", ~IsFull
    PROVE  free_timers # <<>>
<1>1. Len(free_timers) + Len(incoming_calls) = capacity
  BY DEF IInv, TimersConserved
<1>2. Len(incoming_calls) \in Nat /\ capacity \in Nat
  BY LenProperties, ConstantsAssumption DEF IInv, TypeOK, ConstantsAssumption
<1>3. free_timers = <<>> => Len(free_timers) = 0
  BY EmptySeq
<1> QED BY <1>1, <1>2, <1>3 DEF IsFull

\* pop finds the number of every call it takes.
LEMMA NumberIsKnown ==
    ASSUME IInv, heap = "sound", incoming_calls # <<>>
    PROVE  /\ 1 \in Position
           /\ Head(incoming_calls) = incoming_calls[1]
           /\ InQueue(cg_pn[incoming_calls[1].call])
<1>1. Len(incoming_calls) \in Nat \ {0}
  BY EmptySeq DEF IInv, TypeOK
<1>2. 1 \in Position
  BY <1>1 DEF Position
<1> QED BY <1>2 DEF IInv, ListMatchesMap, Position

LEMMA InvInit == Init => IInv
<1> SUFFICES ASSUME Init PROVE IInv
  OBVIOUS
<1>1. TypeOK
  BY TypeInit
<1>2. Len(incoming_calls) = 0 /\ 1 .. Len(incoming_calls) = {}
  BY EmptySeq DEF Init
<1>3. ListMatchesMap
  BY <1>2 DEF Init, ListMatchesMap, InQueue
<1>4. TimersConserved
  <2>1. \A i \in 1 .. Len(free_timers) :
           free_timers[i] = i - 1 /\ free_timers[i] \in Timer
    BY <1>1, InitialTimersProperties, ElementOfSeq DEF Init
  <2>2. \A t \in Timer : t # Null
    BY ConstantsAssumption DEF ConstantsAssumption, Timer
  <2>3. Len(free_timers) + Len(incoming_calls) = capacity
    BY <1>2, InitialTimersProperties, ConstantsAssumption
       DEF Init, ConstantsAssumption
  <2>4. \A i, j \in 1 .. Len(free_timers) : i # j => free_timers[i] # free_timers[j]
    BY <2>1
  <2> QED BY <2>1, <2>2, <2>3, <2>4 DEF Init, TimersConserved, InQueue
<1>5. TimersMatchQueue /\ HandlersMatchQueue
  BY <1>2 DEF Init, TimersMatchQueue, HandlersMatchQueue
<1>6. OneFate
  BY <1>2 DEF Init, OneFate, Queued
<1> QED BY <1>1, <1>3, <1>4, <1>5, <1>6 DEF IInv
-----------------------------------------------------------------------------
(* A call leaves the queue: what pop and OnCallReset have in common *)

\* The k-th node leaves the list.
Shift(k, j) == IF j < k THEN j ELSE j + 1
Unlinks(k) ==
    /\ incoming_calls' \in Seq(Node)
    /\ Len(incoming_calls') = Len(incoming_calls) - 1
    /\ \A j \in Position' : incoming_calls'[j] = incoming_calls[Shift(k, j)]

\* Its call's timer is given back unarmed and its number is forgotten; no expiry
\* of another queued call is lost.
Leaves(k) ==
    /\ k \in Position
    /\ Unlinks(k)
    /\ timers' = [timers EXCEPT ![TimerOf(k)] = Null]
    /\ free_timers' = Append(free_timers, TimerOf(k))
    /\ map_cg_pn_to_pos' =
          [map_cg_pn_to_pos EXCEPT ![cg_pn[incoming_calls[k].call]] = Null]
    /\ posted' \subseteq posted \cup Cancelled(TimerOf(k))
    /\ \A i \in Position \ {k} :
          Completion(Wanted(i), "success") \in posted =>
          Completion(Wanted(i), "success") \in posted'
    /\ reply' = reply
    /\ heap' = heap

\* The new places are the old ones but k, in the same order.
LEMMA ShiftProperties ==
    ASSUME IInv, NEW k \in Position, Unlinks(k)
    PROVE  /\ \A j \in Position' :
                 /\ Shift(k, j) \in Position \ {k}
                 /\ incoming_calls'[j] = incoming_calls[Shift(k, j)]
           /\ \A i, j \in Position' : i # j => Shift(k, i) # Shift(k, j)
           /\ \A i \in Position \ {k} :
                 \E j \in Position' : incoming_calls'[j] = incoming_calls[i]
<1>1. Len(incoming_calls) \in Nat /\ Len(incoming_calls') = Len(incoming_calls) - 1
  BY LenProperties DEF IInv, TypeOK, Unlinks
<1>2. \A j \in Position' : incoming_calls'[j] = incoming_calls[Shift(k, j)]
  BY DEF Unlinks
<1>3. \A j \in Position' : Shift(k, j) \in Position \ {k}
  BY <1>1 DEF Position, Shift
<1>4. \A i, j \in Position' : i # j => Shift(k, i) # Shift(k, j)
  BY <1>1 DEF Position, Shift
<1>5. ASSUME NEW i \in Position \ {k}
      PROVE  \E j \in Position' : incoming_calls'[j] = incoming_calls[i]
  <2> DEFINE j == IF i < k THEN i ELSE i - 1
  <2>1. j \in Position' /\ Shift(k, j) = i
    BY <1>1 DEF Position, Shift
  <2> HIDE DEF j
  <2> QED BY <1>2, <2>1
<1> QED BY <1>2, <1>3, <1>4, <1>5

LEMMA LeavesListMatchesMap ==
    ASSUME IInv, heap = "sound", NEW k \in Position, Leaves(k)
    PROVE  ListMatchesMap'
<1> DEFINE n == cg_pn[incoming_calls[k].call]
<1>1. /\ n \in CgPn
      /\ map_cg_pn_to_pos' = [map_cg_pn_to_pos EXCEPT ![n] = Null]
      /\ map_cg_pn_to_pos \in [CgPn -> Timer \cup {Null}]
  BY QueuedNode DEF Leaves, IInv, TypeOK
<1>2. \A m \in CgPn :
         map_cg_pn_to_pos'[m] # Null <=> map_cg_pn_to_pos[m] # Null /\ m # n
  BY <1>1
<1>3. /\ \A j \in Position' :
            /\ Shift(k, j) \in Position \ {k}
            /\ incoming_calls'[j] = incoming_calls[Shift(k, j)]
      /\ \A i, j \in Position' : i # j => Shift(k, i) # Shift(k, j)
      /\ \A i \in Position \ {k} :
            \E j \in Position' : incoming_calls'[j] = incoming_calls[i]
  BY ShiftProperties DEF Leaves
<1>4. ASSUME NEW j \in Position'
      PROVE  /\ incoming_calls'[j].call \in Call
             /\ map_cg_pn_to_pos'[cg_pn[incoming_calls'[j].call]] # Null
  <2> DEFINE i == Shift(k, j)
  <2>1. i \in Position /\ i # k /\ incoming_calls'[j] = incoming_calls[i]
    BY <1>3
  <2> HIDE DEF i
  <2>2. /\ incoming_calls[i].call \in Call
        /\ cg_pn[incoming_calls[i].call] \in CgPn
        /\ map_cg_pn_to_pos[cg_pn[incoming_calls[i].call]] # Null
        /\ cg_pn[incoming_calls[i].call] # n
    BY <2>1, QueuedNode, OnePlace DEF IInv, ListMatchesMap, Position, InQueue
  <2> QED BY <1>2, <2>1, <2>2
<1>5. ASSUME NEW i \in Position', NEW j \in Position', i # j
      PROVE  /\ incoming_calls'[i].addr # incoming_calls'[j].addr
             /\ cg_pn[incoming_calls'[i].call] # cg_pn[incoming_calls'[j].call]
  BY <1>3, <1>5, OnePlace
<1>6. ASSUME NEW m \in CgPn, map_cg_pn_to_pos'[m] # Null
      PROVE  \E j \in Position' : cg_pn[incoming_calls'[j].call] = m
  <2>1. PICK i \in Position : cg_pn[incoming_calls[i].call] = m
    BY <1>2, <1>6 DEF IInv, ListMatchesMap, Position, InQueue
  <2>2. i # k
    BY <1>2, <1>6, <2>1
  <2> QED BY <1>3, <2>1, <2>2
<1> QED BY <1>4, <1>5, <1>6 DEF ListMatchesMap, Position, InQueue

LEMMA LeavesTimersConserved ==
    ASSUME IInv, heap = "sound", NEW k \in Position, Leaves(k)
    PROVE  TimersConserved'
<1> DEFINE n == cg_pn[incoming_calls[k].call]
           t == TimerOf(k)
<1>1. /\ n \in CgPn /\ t \in Timer /\ t = map_cg_pn_to_pos[n] /\ t # Null
  BY QueuedNode, ConstantsAssumption DEF TimerOf, ConstantsAssumption, Timer
<1>2. /\ Len(free_timers') = Len(free_timers) + 1
      /\ Len(free_timers) \in Nat
      /\ \A i \in 1 .. Len(free_timers) : free_timers'[i] = free_timers[i]
      /\ free_timers'[Len(free_timers) + 1] = t
      /\ \A i \in 1 .. Len(free_timers) : free_timers[i] \in Timer
  BY <1>1, AppendProperties, LenProperties, ElementOfSeq
     DEF Leaves, IInv, TypeOK
<1>3. /\ timers' = [timers EXCEPT ![t] = Null]
      /\ timers \in [Timer -> Wait \cup {Null}]
      /\ map_cg_pn_to_pos' = [map_cg_pn_to_pos EXCEPT ![n] = Null]
      /\ map_cg_pn_to_pos \in [CgPn -> Timer \cup {Null}]
  BY DEF Leaves, IInv, TypeOK
<1>4. /\ Len(free_timers) + Len(incoming_calls) = capacity
      /\ \A i, j \in 1 .. Len(free_timers) : i # j => free_timers[i] # free_timers[j]
      /\ \A i \in 1 .. Len(free_timers) :
            /\ timers[free_timers[i]] = Null
            /\ \A m \in CgPn : map_cg_pn_to_pos[m] # free_timers[i]
      /\ \A l, m \in CgPn : map_cg_pn_to_pos[l] # Null /\ l # m =>
            map_cg_pn_to_pos[l] # map_cg_pn_to_pos[m]
  BY DEF IInv, TimersConserved, InQueue
<1> HIDE DEF n, t
<1>5. Len(free_timers') + Len(incoming_calls') = capacity
  BY <1>2, <1>4, LenProperties, ConstantsAssumption
     DEF Leaves, Unlinks, IInv, TypeOK, ConstantsAssumption
<1>6. \A i \in 1 .. Len(free_timers') :
         i \in 1 .. Len(free_timers) \/ i = Len(free_timers) + 1
  BY <1>2
<1>7. \A i, j \in 1 .. Len(free_timers') : i # j => free_timers'[i] # free_timers'[j]
  BY <1>1, <1>2, <1>4, <1>6
<1>8. ASSUME NEW i \in 1 .. Len(free_timers')
      PROVE  /\ timers'[free_timers'[i]] = Null
             /\ \A m \in CgPn : map_cg_pn_to_pos'[m] # free_timers'[i]
  <2>1. CASE i \in 1 .. Len(free_timers)
    <3>1. free_timers'[i] = free_timers[i] /\ free_timers[i] \in Timer
      BY <1>2, <2>1
    <3>2. free_timers[i] # Null
      BY <3>1, ConstantsAssumption DEF ConstantsAssumption, Timer
    <3> QED BY <1>1, <1>3, <1>4, <2>1, <3>1, <3>2
  <2>2. CASE i = Len(free_timers) + 1
    BY <1>1, <1>2, <1>3, <1>4, <2>2
  <2> QED BY <1>6, <2>1, <2>2
<1>9. ASSUME NEW l \in CgPn, NEW m \in CgPn, map_cg_pn_to_pos'[l] # Null, l # m
      PROVE  map_cg_pn_to_pos'[l] # map_cg_pn_to_pos'[m]
  BY <1>1, <1>3, <1>4, <1>9
<1> QED BY <1>5, <1>7, <1>8, <1>9 DEF TimersConserved, InQueue
LEMMA LeavesTimersMatchQueue ==
    ASSUME IInv, heap = "sound", NEW k \in Position, Leaves(k)
    PROVE  TimersMatchQueue'
<1> DEFINE n == cg_pn[incoming_calls[k].call]
           t == TimerOf(k)
<1>1. /\ n \in CgPn /\ t \in Timer
      /\ timers' = [timers EXCEPT ![t] = Null]
      /\ timers \in [Timer -> Wait \cup {Null}]
      /\ map_cg_pn_to_pos' = [map_cg_pn_to_pos EXCEPT ![n] = Null]
      /\ map_cg_pn_to_pos \in [CgPn -> Timer \cup {Null}]
  BY QueuedNode DEF Leaves, IInv, TypeOK
<1>2. ASSUME NEW i \in Position \ {k}
      PROVE  /\ TimerOf(i) \in Timer
             /\ timers'[TimerOf(i)] = timers[TimerOf(i)]
             /\ map_cg_pn_to_pos'[cg_pn[incoming_calls[i].call]] = TimerOf(i)
             /\ \/ timers[TimerOf(i)] = Wanted(i)
                \/ Completion(Wanted(i), "success") \in posted'
  <2>1. /\ cg_pn[incoming_calls[i].call] \in CgPn
        /\ cg_pn[incoming_calls[i].call] # n
        /\ TimerOf(i) \in Timer /\ TimerOf(i) # t
    BY QueuedNode, OnePlace
  <2>2. \/ timers[TimerOf(i)] = Wanted(i)
        \/ Completion(Wanted(i), "success") \in posted
    BY DEF IInv, TimersMatchQueue, Position, Wanted, TimerOf
  <2>3. \/ timers[TimerOf(i)] = Wanted(i)
        \/ Completion(Wanted(i), "success") \in posted'
    BY <2>2 DEF Leaves
  <2>4. map_cg_pn_to_pos'[cg_pn[incoming_calls[i].call]] = TimerOf(i)
    BY <1>1, <2>1 DEF TimerOf
  <2> QED BY <1>1, <2>1, <2>3, <2>4
<1>3. /\ \A j \in Position' : \E i \in Position \ {k} :
            incoming_calls'[j] = incoming_calls[i]
      /\ \A i \in Position \ {k} : \E j \in Position' :
            incoming_calls'[j] = incoming_calls[i]
  BY ShiftProperties DEF Leaves
<1>4. ASSUME NEW j \in Position'
      PROVE  LET call == incoming_calls'[j].call
                 wait == [call |-> call, iter |-> incoming_calls'[j].addr]
             IN  \/ timers'[map_cg_pn_to_pos'[cg_pn[call]]] = wait
                 \/ Completion(wait, "success") \in posted'
  <2>1. PICK i \in Position \ {k} : incoming_calls'[j] = incoming_calls[i]
    BY <1>3
  <2> QED BY <1>2, <2>1 DEF Wanted
<1>5. ASSUME NEW u \in Timer, timers'[u] # Null
      PROVE  \E j \in Position' :
                /\ timers'[u] = [call |-> incoming_calls'[j].call,
                                 iter |-> incoming_calls'[j].addr]
                /\ map_cg_pn_to_pos'[cg_pn[incoming_calls'[j].call]] = u
  <2>1. u # t /\ timers'[u] = timers[u]
    BY <1>1, <1>5
  <2>2. PICK i \in Position : timers[u] = Wanted(i) /\ TimerOf(i) = u
    BY <1>5, <2>1, PendingWait
  <2>3. i \in Position \ {k}
    BY <2>1, <2>2
  <2>4. PICK j \in Position' : incoming_calls'[j] = incoming_calls[i]
    BY <1>3, <2>3
  <2> QED BY <1>2, <2>1, <2>2, <2>3, <2>4 DEF Wanted
<1> QED BY <1>4, <1>5 DEF TimersMatchQueue, Position

LEMMA LeavesHandlersMatchQueue ==
    ASSUME IInv, heap = "sound", NEW k \in Position, Leaves(k)
    PROVE  HandlersMatchQueue'
<1> DEFINE t == TimerOf(k)
<1>1. /\ t \in Timer
      /\ timers' = [timers EXCEPT ![t] = Null]
      /\ timers \in [Timer -> Wait \cup {Null}]
      /\ reply' = reply
  BY QueuedNode DEF Leaves, IInv, TypeOK
<1>2. ASSUME NEW u \in Timer, timers'[u] # Null
      PROVE  u # t /\ timers'[u] = timers[u] /\ timers[u] # Null
  BY <1>1, <1>2
<1>3. ASSUME NEW h \in posted', h \notin posted
      PROVE  timers[t] # Null /\ h.call = timers[t].call
  BY <1>3 DEF Leaves, Cancelled, Completion
<1>4. /\ \A u \in Timer : timers[u] # Null =>
            /\ reply[timers[u].call] = "OK"
            /\ \A h \in posted : h.call # timers[u].call
      /\ \A h \in posted :
            /\ reply[h.call] = "OK"
            /\ \A i \in Position :
                  incoming_calls[i].call = h.call => incoming_calls[i].addr = h.iter
  BY DEF IInv, HandlersMatchQueue, Position
<1>5. ASSUME timers[t] # Null
      PROVE  timers[t].call = incoming_calls[k].call
  <2>1. PICK i \in Position : timers[t] = Wanted(i) /\ TimerOf(i) = t
    BY <1>1, <1>5, PendingWait
  <2>2. i = k
    BY <2>1, OnePlace
  <2> QED BY <2>1, <2>2 DEF Wanted
<1>6. ASSUME NEW u \in Timer, timers[u] # Null, u # t
      PROVE  timers[u].call # incoming_calls[k].call
  <2>1. PICK i \in Position : timers[u] = Wanted(i) /\ TimerOf(i) = u
    BY <1>6, PendingWait
  <2>2. cg_pn[incoming_calls[i].call] # cg_pn[incoming_calls[k].call]
    BY <1>6, <2>1, OnePlace
  <2> QED BY <2>1, <2>2 DEF Wanted
<1>7. ASSUME NEW j \in Position'
      PROVE  \E i \in Position \ {k} :
                /\ incoming_calls'[j] = incoming_calls[i]
                /\ incoming_calls[i].call # incoming_calls[k].call
  BY ShiftProperties, OnePlace DEF Leaves
<1>8. ASSUME NEW u \in Timer, timers'[u] # Null
      PROVE  /\ reply'[timers'[u].call] = "OK"
             /\ \A h \in posted' : h.call # timers'[u].call
  BY <1>1, <1>2, <1>3, <1>4, <1>5, <1>6, <1>8
<1>9. ASSUME NEW h \in posted'
      PROVE  /\ reply'[h.call] = "OK"
             /\ \A j \in Position' : incoming_calls'[j].call = h.call =>
                   incoming_calls'[j].addr = h.iter
  <2>1. CASE h \in posted
    BY <1>1, <1>4, <1>7, <2>1
  <2>2. CASE h \notin posted
    BY <1>1, <1>3, <1>4, <1>5, <1>7, <2>2
  <2> QED BY <2>1, <2>2
<1> QED BY <1>8, <1>9 DEF HandlersMatchQueue, Position
-----------------------------------------------------------------------------
(* The actions preserve the invariant *)

\* push answers ALREADY_IN_QUEUE or OVERLOAD.
LEMMA RejectedPreserves ==
    ASSUME IInv, NEW call \in Call, PushDuplicate(call) \/ PushOverload(call)
    PROVE  IInv'
<1>1. TypeOK'
  BY TypePush DEF Push, IInv
<1>2. PICK status \in {"ALREADY_IN_QUEUE", "OVERLOAD"} :
        /\ reply[call] = "none"
        /\ reply' = [reply EXCEPT ![call] = status]
        /\ UNCHANGED <<incoming_calls, timers, free_timers, map_cg_pn_to_pos,
                       posted, taken, cdr, heap>>
  BY DEF PushDuplicate, PushOverload, BeginPush
<1>3. \A c \in Call : reply[c] = "OK" <=> reply'[c] = "OK"
  BY <1>2 DEF IInv, TypeOK
<1>4. ListMatchesMap' /\ TimersConserved' /\ TimersMatchQueue'
  BY <1>2 DEF IInv, ListMatchesMap, TimersConserved, TimersMatchQueue, InQueue
<1>5. HandlersMatchQueue'
  <2>1. /\ \A t \in Timer : timers[t] # Null => timers[t].call \in Call
        /\ \A h \in posted : h.call \in Call
    BY DEF IInv, TypeOK, Wait, Handler
  <2> QED BY <1>2, <1>3, <2>1 DEF IInv, HandlersMatchQueue
<1>6. OneFate'
  BY <1>2, <1>3 DEF IInv, OneFate, Queued
<1> QED BY <1>1, <1>4, <1>5, <1>6 DEF IInv

\* push lets the call in.
LEMMA AcceptPreserves ==
    ASSUME IInv, heap = "sound", NEW call \in Call, NEW addr \in Addr,
           PushAccept(call, addr)
    PROVE  IInv'
<1> DEFINE t == Head(free_timers)
           n == cg_pn[call]
           last == Len(incoming_calls) + 1
<1>1. TypeOK'
  BY TypePush DEF Push, IInv
<1>2. /\ n \in CgPn /\ map_cg_pn_to_pos[n] = Null
      /\ t \in Timer /\ t # Null
      /\ t = free_timers[1] /\ 1 \in 1 .. Len(free_timers)
  <2>1. free_timers # <<>> /\ free_timers \in Seq(Timer)
    BY DEF PushAccept, IInv, TypeOK
  <2>2. t \in Timer /\ t = free_timers[1] /\ 1 \in 1 .. Len(free_timers)
    BY <2>1, HeadTailProperties, EmptySeq
  <2> QED BY <2>2, ConstantsAssumption
          DEF ConstantsAssumption, Timer, PushAccept, IsDuplicate, InQueue
<1>3. /\ timers[t] = Null
      /\ \A m \in CgPn : map_cg_pn_to_pos[m] # t
  BY <1>2 DEF IInv, TimersConserved
<1>4. /\ timers' = [timers EXCEPT ![t] = Armed(call, addr)]
      /\ map_cg_pn_to_pos' = [map_cg_pn_to_pos EXCEPT ![n] = t]
      /\ reply' = [reply EXCEPT ![call] = "OK"] /\ reply[call] = "none"
      /\ posted' = posted /\ taken' = taken /\ cdr' = cdr /\ heap' = heap
      /\ timers \in [Timer -> Wait \cup {Null}]
      /\ map_cg_pn_to_pos \in [CgPn -> Timer \cup {Null}]
  BY <1>3 DEF PushAccept, BeginPush, Cancelled, IInv, TypeOK
<1>5. /\ Len(incoming_calls) \in Nat
      /\ Len(incoming_calls') = last
      /\ \A i \in Position : incoming_calls'[i] = incoming_calls[i]
      /\ incoming_calls'[last] = [addr |-> addr, call |-> call]
      /\ \A i \in Position' : i \in Position \/ i = last
      /\ \A i \in Position : i \in Position' /\ i # last
      /\ last \in Position'
  <2>1. [addr |-> addr, call |-> call] \in Node /\ incoming_calls \in Seq(Node)
    BY DEF Node, IInv, TypeOK
  <2>2. /\ Len(incoming_calls) \in Nat
        /\ Len(incoming_calls') = last
        /\ \A i \in Position : incoming_calls'[i] = incoming_calls[i]
        /\ incoming_calls'[last] = [addr |-> addr, call |-> call]
    BY <2>1, AppendProperties, LenProperties DEF PushAccept, Position
  <2> QED BY <2>2 DEF Position
<1>6. Armed(call, addr) = [call |-> call, iter |-> addr]
  BY DEF Armed
<1>7. \A i \in Position : incoming_calls[i].addr # addr
  BY DEF PushAccept, Nodes, Position
<1>8. ASSUME NEW i \in Position
      PROVE  /\ incoming_calls[i].call \in Call
             /\ incoming_calls[i].call # call
             /\ cg_pn[incoming_calls[i].call] \in CgPn
             /\ cg_pn[incoming_calls[i].call] # n
             /\ map_cg_pn_to_pos[cg_pn[incoming_calls[i].call]] # Null
             /\ map_cg_pn_to_pos'[cg_pn[incoming_calls[i].call]] = TimerOf(i)
             /\ TimerOf(i) \in Timer /\ TimerOf(i) # t
  <2>1. /\ incoming_calls[i].call \in Call
        /\ cg_pn[incoming_calls[i].call] \in CgPn
        /\ map_cg_pn_to_pos[cg_pn[incoming_calls[i].call]] # Null
        /\ TimerOf(i) \in Timer
    BY QueuedNode DEF IInv, ListMatchesMap, InQueue, Position
  <2>2. cg_pn[incoming_calls[i].call] # n
    BY <1>2, <2>1
  <2> QED BY <1>2, <1>3, <1>4, <2>1, <2>2 DEF TimerOf
<1> HIDE DEF t, n, last
<1>9. ListMatchesMap'
  <2>1. ASSUME NEW i \in Position'
        PROVE  /\ incoming_calls'[i].call \in Call
               /\ map_cg_pn_to_pos'[cg_pn[incoming_calls'[i].call]] # Null
    <3>1. CASE i = last
      BY <1>2, <1>4, <1>5, <3>1 DEF n
    <3>2. CASE i \in Position
      BY <1>4, <1>5, <1>8, <3>2, ConstantsAssumption
         DEF ConstantsAssumption, Timer
    <3> QED BY <1>5, <3>1, <3>2
  <2>2. ASSUME NEW i \in Position', NEW j \in Position', i # j
        PROVE  /\ incoming_calls'[i].addr # incoming_calls'[j].addr
               /\ cg_pn[incoming_calls'[i].call] # cg_pn[incoming_calls'[j].call]
    <3>1. CASE i \in Position /\ j \in Position
      BY <1>5, <2>2, <3>1, OnePlace
    <3>2. CASE i = last \/ j = last
      BY <1>5, <1>7, <1>8, <2>2, <3>2 DEF n
    <3> QED BY <1>5, <3>1, <3>2
  <2>3. ASSUME NEW m \in CgPn, map_cg_pn_to_pos'[m] # Null
        PROVE  \E i \in Position' : cg_pn[incoming_calls'[i].call] = m
    <3>1. CASE m = n
      BY <1>5, <3>1 DEF n
    <3>2. CASE m # n
      <4>1. PICK i \in Position : cg_pn[incoming_calls[i].call] = m
        BY <1>2, <1>4, <2>3, <3>2 DEF IInv, ListMatchesMap, InQueue, Position
      <4> QED BY <1>5, <4>1
    <3> QED BY <3>1, <3>2
  <2> QED BY <2>1, <2>2, <2>3 DEF ListMatchesMap, InQueue, Position
<1>10. TimersConserved'
  <2>1. /\ Len(free_timers) \in Nat /\ Len(free_timers') = Len(free_timers) - 1
        /\ \A i \in 1 .. Len(free_timers') :
              /\ free_timers'[i] = free_timers[i + 1]
              /\ free_timers[i + 1] \in Timer
              /\ i + 1 \in 1 .. Len(free_timers)
    <3>1. /\ Len(free_timers) \in Nat /\ Len(free_timers') = Len(free_timers) - 1
          /\ \A i \in 1 .. Len(free_timers') : free_timers'[i] = free_timers[i + 1]
      BY HeadTailProperties, LenProperties DEF PushAccept, IInv, TypeOK
    <3> QED BY <3>1, ElementOfSeq DEF IInv, TypeOK
  <2>2. /\ Len(free_timers) + Len(incoming_calls) = capacity
        /\ \A i, j \in 1 .. Len(free_timers) : i # j => free_timers[i] # free_timers[j]
        /\ \A i \in 1 .. Len(free_timers) :
              /\ timers[free_timers[i]] = Null
              /\ \A m \in CgPn : map_cg_pn_to_pos[m] # free_timers[i]
        /\ \A l, m \in CgPn : map_cg_pn_to_pos[l] # Null /\ l # m =>
              map_cg_pn_to_pos[l] # map_cg_pn_to_pos[m]
    BY DEF IInv, TimersConserved, InQueue
  <2>3. Len(free_timers') + Len(incoming_calls') = capacity
    BY <1>5, <2>1, <2>2, ConstantsAssumption DEF last, ConstantsAssumption
  <2>4. \A i, j \in 1 .. Len(free_timers') : i # j => free_timers'[i] # free_timers'[j]
    BY <2>1, <2>2
  <2>5. ASSUME NEW i \in 1 .. Len(free_timers')
        PROVE  /\ timers'[free_timers'[i]] = Null
               /\ \A m \in CgPn : map_cg_pn_to_pos'[m] # free_timers'[i]
    <3>1. free_timers'[i] \in Timer /\ free_timers'[i] # t
      BY <1>2, <2>1, <2>2
    <3>2. /\ timers[free_timers'[i]] = Null
          /\ \A m \in CgPn : map_cg_pn_to_pos[m] # free_timers'[i]
      BY <2>1, <2>2
    <3> QED BY <1>4, <3>1, <3>2
  <2>6. ASSUME NEW l \in CgPn, NEW m \in CgPn, map_cg_pn_to_pos'[l] # Null, l # m
        PROVE  map_cg_pn_to_pos'[l] # map_cg_pn_to_pos'[m]
    BY <1>2, <1>3, <1>4, <2>2, <2>6
  <2> QED BY <2>3, <2>4, <2>5, <2>6 DEF TimersConserved, InQueue
<1>11. TimersMatchQueue'
  <2>1. ASSUME NEW i \in Position'
        PROVE  LET c == incoming_calls'[i].call
                   wait == [call |-> c, iter |-> incoming_calls'[i].addr]
               IN  \/ timers'[map_cg_pn_to_pos'[cg_pn[c]]] = wait
                   \/ Completion(wait, "success") \in posted'
    <3>1. CASE i = last
      BY <1>2, <1>4, <1>5, <1>6, <3>1 DEF n
    <3>2. CASE i \in Position
      <4>1. \/ timers[TimerOf(i)] = Wanted(i)
            \/ Completion(Wanted(i), "success") \in posted
        BY <3>2 DEF IInv, TimersMatchQueue, TimerOf, Wanted, Position
      <4>2. timers'[TimerOf(i)] = timers[TimerOf(i)]
        BY <1>4, <1>8, <3>2
      <4> QED BY <1>4, <1>5, <1>8, <3>2, <4>1, <4>2 DEF Wanted
    <3> QED BY <1>5, <3>1, <3>2
  <2>2. ASSUME NEW u \in Timer, timers'[u] # Null
        PROVE  \E i \in Position' :
                  /\ timers'[u] = [call |-> incoming_calls'[i].call,
                                   iter |-> incoming_calls'[i].addr]
                  /\ map_cg_pn_to_pos'[cg_pn[incoming_calls'[i].call]] = u
    <3>1. CASE u = t
      BY <1>2, <1>4, <1>5, <1>6, <3>1 DEF n
    <3>2. CASE u # t
      <4>1. timers'[u] = timers[u]
        BY <1>4, <3>2
      <4>2. PICK i \in Position : timers[u] = Wanted(i) /\ TimerOf(i) = u
        BY <2>2, <4>1, PendingWait
      <4> QED BY <1>5, <1>8, <4>1, <4>2 DEF Wanted
    <3> QED BY <3>1, <3>2
  <2> QED BY <2>1, <2>2 DEF TimersMatchQueue, Position
<1>12. HandlersMatchQueue'
  <2>1. /\ \A u \in Timer : timers[u] # Null =>
              /\ timers[u].call \in Call /\ reply[timers[u].call] = "OK"
              /\ \A h \in posted : h.call # timers[u].call
        /\ \A h \in posted :
              /\ h.call \in Call /\ reply[h.call] = "OK"
              /\ \A i \in Position :
                    incoming_calls[i].call = h.call => incoming_calls[i].addr = h.iter
    BY DEF IInv, HandlersMatchQueue, TypeOK, Wait, Handler, Position
  <2>2. \A c \in Call : reply[c] = "OK" => c # call /\ reply'[c] = "OK"
    BY <1>4 DEF IInv, TypeOK
  <2>3. ASSUME NEW u \in Timer, timers'[u] # Null
        PROVE  /\ reply'[timers'[u].call] = "OK"
               /\ \A h \in posted' : h.call # timers'[u].call
    <3>1. CASE u = t
      <4>1. timers'[u].call = call
        BY <1>2, <1>4, <1>6, <3>1
      <4>2. reply'[call] = "OK"
        BY <1>4 DEF IInv, TypeOK
      <4> QED BY <1>4, <2>1, <2>2, <4>1, <4>2
    <3>2. CASE u # t
      BY <1>4, <2>1, <2>2, <2>3, <3>2
    <3> QED BY <3>1, <3>2
  <2>4. ASSUME NEW h \in posted'
        PROVE  /\ reply'[h.call] = "OK"
               /\ \A i \in Position' : incoming_calls'[i].call = h.call =>
                     incoming_calls'[i].addr = h.iter
    BY <1>4, <1>5, <2>1, <2>2
  <2> QED BY <2>3, <2>4 DEF HandlersMatchQueue, Position
<1>13. OneFate'
  <2>1. ASSUME NEW c \in Call
        PROVE  Queued(c)' <=> Queued(c) \/ c = call
    <3>1. Queued(c) => Queued(c)'
      BY <1>5 DEF Queued, Position
    <3>2. c = call => Queued(c)'
      BY <1>5 DEF Queued, Position
    <3>3. Queued(c)' => Queued(c) \/ c = call
      BY <1>5 DEF Queued, Position
    <3> QED BY <3>1, <3>2, <3>3
  <2>2. \A c \in Call : c # call => reply'[c] = reply[c]
    BY <1>4 DEF IInv, TypeOK
  <2>3. reply'[call] = "OK" /\ call \notin taken /\ cdr[call] = <<>>
    BY <1>4 DEF IInv, TypeOK, OneFate
  <2> QED BY <1>4, <2>1, <2>2, <2>3 DEF IInv, OneFate
<1> QED BY <1>1, <1>9, <1>10, <1>11, <1>12, <1>13 DEF IInv
\* pop hands a call to an operator.
LEMMA PopPreserves ==
    ASSUME IInv, heap = "sound", NEW call \in Call, PopCall(call)
    PROVE  IInv'
<1>1. TypeOK'
  BY TypePop DEF IInv
<1>2. 1 \in Position /\ incoming_calls # <<>> /\ call = incoming_calls[1].call
  BY NumberIsKnown DEF PopCall
<1>3. Unlinks(1)
  <2>1. incoming_calls \in Seq(Node) /\ incoming_calls' = Tail(incoming_calls)
    BY DEF IInv, TypeOK, PopCall, Popped
  <2>2. /\ incoming_calls' \in Seq(Node)
        /\ Len(incoming_calls') = Len(incoming_calls) - 1
        /\ \A j \in 1 .. Len(incoming_calls') :
              incoming_calls'[j] = incoming_calls[j + 1]
    BY <1>2, <2>1, HeadTailProperties
  <2> QED BY <2>2 DEF Unlinks, Shift, Position
<1>4. Leaves(1)
  <2>1. /\ timers' = [timers EXCEPT ![TimerOf(1)] = Null]
        /\ free_timers' = Append(free_timers, TimerOf(1))
        /\ map_cg_pn_to_pos' =
              [map_cg_pn_to_pos EXCEPT ![cg_pn[incoming_calls[1].call]] = Null]
        /\ posted' = posted \cup Cancelled(TimerOf(1))
        /\ reply' = reply /\ heap' = heap
    BY <1>2 DEF PopCall, TimerOf, TimerReleased, NumberForgotten
  <2> QED BY <1>2, <1>3, <2>1 DEF Leaves
<1>5. ListMatchesMap' /\ TimersConserved' /\ TimersMatchQueue' /\ HandlersMatchQueue'
  BY <1>2, <1>4, LeavesListMatchesMap, LeavesTimersConserved,
     LeavesTimersMatchQueue, LeavesHandlersMatchQueue
<1>6. OneFate'
  <2>1. taken' = taken \cup {call} /\ reply' = reply /\ cdr' = cdr
    BY DEF PopCall
  <2>2. Queued(call)
    BY <1>2 DEF Queued, Position
  <2>3. ASSUME NEW c \in Call
        PROVE  /\ Queued(c)' => Queued(c) /\ c # call
               /\ Queued(c) => Queued(c)' \/ c = call
    <3>1. Queued(c)' => Queued(c) /\ c # call
      <4>1. SUFFICES ASSUME NEW j \in Position', incoming_calls'[j].call = c
                     PROVE  Queued(c) /\ c # call
        BY DEF Queued, Position
      <4>2. PICK i \in Position \ {1} : incoming_calls'[j] = incoming_calls[i]
        BY <1>2, <1>3, ShiftProperties
      <4> QED BY <1>2, <4>1, <4>2, OnePlace DEF Queued, Position
    <3>2. Queued(c) => Queued(c)' \/ c = call
      <4>1. SUFFICES ASSUME NEW i \in Position, incoming_calls[i].call = c, c # call
                     PROVE  Queued(c)'
        BY DEF Queued, Position
      <4>2. PICK j \in Position' : incoming_calls'[j] = incoming_calls[i]
        BY <1>2, <1>3, <4>1, ShiftProperties
      <4> QED BY <4>1, <4>2 DEF Queued, Position
    <3> QED BY <3>1, <3>2
  <2> QED BY <2>1, <2>2, <2>3 DEF IInv, OneFate
<1> QED BY <1>1, <1>5, <1>6 DEF IInv

\* A wait expires.
LEMMA ExpirePreserves ==
    ASSUME IInv, heap = "sound", NEW t \in Timer, TimerExpires(t)
    PROVE  IInv'
<1> DEFINE w == timers[t]
<1>1. TypeOK'
  BY TypeNext DEF IInv, Next
<1>2. /\ w # Null /\ w \in Wait
      /\ timers' = [timers EXCEPT ![t] = Null]
      /\ timers \in [Timer -> Wait \cup {Null}]
      /\ posted' = posted \cup {Completion(w, "success")}
      /\ UNCHANGED <<incoming_calls, free_timers, map_cg_pn_to_pos, reply, taken,
                     cdr, heap>>
  BY DEF TimerExpires, IInv, TypeOK
<1>3. PICK k \in Position : w = Wanted(k) /\ TimerOf(k) = t
  BY <1>2, PendingWait
<1> HIDE DEF w
<1>4. ListMatchesMap' /\ OneFate'
  BY <1>2 DEF IInv, ListMatchesMap, OneFate, InQueue, Queued
<1>5. TimersConserved'
  <2>1. \A i \in 1 .. Len(free_timers) : free_timers[i] \in Timer
    BY ElementOfSeq DEF IInv, TypeOK
  <2> QED BY <1>2, <2>1 DEF IInv, TimersConserved, InQueue
<1>6. TimersMatchQueue'
  <2>1. ASSUME NEW i \in Position
        PROVE  \/ timers'[TimerOf(i)] = Wanted(i)
               \/ Completion(Wanted(i), "success") \in posted'
    <3>1. \/ timers[TimerOf(i)] = Wanted(i)
          \/ Completion(Wanted(i), "success") \in posted
      BY DEF IInv, TimersMatchQueue, TimerOf, Wanted, Position
    <3>2. TimerOf(i) \in Timer
      BY QueuedNode
    <3>3. CASE TimerOf(i) = t
      BY <1>2, <3>1, <3>3 DEF w
    <3>4. CASE TimerOf(i) # t
      BY <1>2, <3>1, <3>2, <3>4
    <3> QED BY <3>3, <3>4
  <2>2. ASSUME NEW u \in Timer, timers'[u] # Null
        PROVE  \E i \in Position : timers'[u] = Wanted(i) /\ TimerOf(i) = u
    <3>1. timers'[u] = timers[u]
      BY <1>2, <2>2
    <3> QED BY <2>2, <3>1, PendingWait
  <2>3. incoming_calls' = incoming_calls /\ map_cg_pn_to_pos' = map_cg_pn_to_pos
    BY <1>2
  <2> QED BY <2>1, <2>2, <2>3 DEF TimersMatchQueue, TimerOf, Wanted, Position
<1>7. HandlersMatchQueue'
  <2>1. ASSUME NEW u \in Timer, timers'[u] # Null
        PROVE  /\ timers'[u] = timers[u] /\ timers[u] # Null
               /\ timers[u].call # w.call
    <3>1. u # t /\ timers'[u] = timers[u] /\ timers[u] # Null
      BY <1>2, <2>1
    <3>2. PICK i \in Position : timers[u] = Wanted(i) /\ TimerOf(i) = u
      BY <3>1, PendingWait
    <3>3. cg_pn[incoming_calls[i].call] # cg_pn[incoming_calls[k].call]
      BY <1>3, <3>1, <3>2, OnePlace
    <3> QED BY <1>3, <3>1, <3>2, <3>3 DEF Wanted
  <2>2. /\ reply[w.call] = "OK"
        /\ \A i \in Position :
              incoming_calls[i].call = w.call => incoming_calls[i].addr = w.iter
    <3>1. reply[w.call] = "OK"
      BY <1>2 DEF IInv, HandlersMatchQueue, w
    <3>2. ASSUME NEW i \in Position, incoming_calls[i].call = w.call
          PROVE  i = k
      BY <1>3, <3>2, OnePlace DEF Wanted
    <3> QED BY <1>3, <3>1, <3>2 DEF Wanted
  <2>3. \A h \in posted' : h \in posted \/ (h.call = w.call /\ h.iter = w.iter)
    BY <1>2 DEF Completion
  <2> QED BY <1>2, <2>1, <2>2, <2>3 DEF IInv, HandlersMatchQueue, Position
<1> QED BY <1>1, <1>4, <1>5, <1>6, <1>7 DEF IInv
\* OnCallReset returns early: a wait was cancelled or its number has left.
LEMMA IgnoredPreserves ==
    ASSUME IInv, heap = "sound", NEW h \in posted, ResetIgnored(h)
    PROVE  IInv'
<1>1. TypeOK'
  BY TypeReset DEF IInv, OnCallReset
<1>2. /\ posted' = posted \ {h}
      /\ UNCHANGED <<incoming_calls, timers, free_timers, map_cg_pn_to_pos, reply,
                     taken, cdr, heap>>
  BY DEF ResetIgnored, BeginReset
<1>3. ListMatchesMap' /\ TimersConserved' /\ OneFate'
  BY <1>2 DEF IInv, ListMatchesMap, TimersConserved, OneFate, InQueue, Queued
<1>4. HandlersMatchQueue'
  BY <1>2 DEF IInv, HandlersMatchQueue
<1>5. TimersMatchQueue'
  <2>1. ASSUME NEW i \in Position
        PROVE  Completion(Wanted(i), "success") # h
    <3>1. InQueue(cg_pn[incoming_calls[i].call])
      BY DEF IInv, ListMatchesMap, Position
    <3> QED BY <3>1 DEF ResetIgnored, IgnoresReset, Completion, Wanted
  <2>2. ASSUME NEW i \in Position
        PROVE  \/ timers[TimerOf(i)] = Wanted(i)
               \/ Completion(Wanted(i), "success") \in posted'
    <3>1. \/ timers[TimerOf(i)] = Wanted(i)
          \/ Completion(Wanted(i), "success") \in posted
      BY DEF IInv, TimersMatchQueue, TimerOf, Wanted, Position
    <3> QED BY <1>2, <2>1, <3>1
  <2>3. \A t \in Timer : timers[t] # Null =>
           \E i \in Position : timers[t] = Wanted(i) /\ TimerOf(i) = t
    BY PendingWait
  <2> QED BY <1>2, <2>2, <2>3 DEF TimersMatchQueue, TimerOf, Wanted, Position
<1> QED BY <1>1, <1>3, <1>4, <1>5 DEF IInv

\* OnCallReset completes the call it was posted for.
LEMMA EraseLeaves ==
    ASSUME IInv, heap = "sound", NEW h \in posted, NEW k \in Position,
           ResetErases(h, k), incoming_calls[k].call = h.call
    PROVE  Leaves(k)
<1>1. Unlinks(k)
  BY RemoveAtProperties
     DEF ResetErases, Unlinked, Unlinks, Shift, Position, IInv, TypeOK
<1>2. TimerOf(k) \in Timer /\ timers[TimerOf(k)] = Null
  <2>1. SUFFICES ASSUME timers[TimerOf(k)] # Null PROVE FALSE
    BY QueuedNode
  <2>2. TimerOf(k) \in Timer
    BY QueuedNode
  <2>3. PICK i \in Position : timers[TimerOf(k)] = Wanted(i) /\ TimerOf(i) = TimerOf(k)
    BY <2>1, <2>2, PendingWait
  <2>4. timers[TimerOf(k)].call = h.call
    BY <2>3, OnePlace DEF Wanted
  <2> QED BY <2>1, <2>2, <2>4 DEF IInv, HandlersMatchQueue
<1>3. timers' = [timers EXCEPT ![TimerOf(k)] = Null]
  BY <1>2 DEF ResetErases, IInv, TypeOK
<1>4. /\ free_timers' = Append(free_timers, TimerOf(k))
      /\ map_cg_pn_to_pos' =
            [map_cg_pn_to_pos EXCEPT ![cg_pn[incoming_calls[k].call]] = Null]
      /\ posted' = posted \ {h}
      /\ reply' = reply /\ heap' = heap
  BY DEF ResetErases, BeginReset, TimerReleased, NumberForgotten, TimerOf
<1>5. ASSUME NEW i \in Position \ {k}, Completion(Wanted(i), "success") \in posted
      PROVE  Completion(Wanted(i), "success") \in posted'
  <2>1. cg_pn[incoming_calls[i].call] # cg_pn[h.call]
    BY OnePlace
  <2>2. Completion(Wanted(i), "success") # h
    BY <2>1 DEF Completion, Wanted
  <2> QED BY <1>4, <1>5, <2>2
<1> QED BY <1>1, <1>3, <1>4, <1>5 DEF Leaves

LEMMA ErasePreserves ==
    ASSUME IInv, heap = "sound", NEW h \in posted, NEW k \in Position,
           ResetErases(h, k), incoming_calls[k].call = h.call
    PROVE  IInv'
<1> DEFINE call == incoming_calls[k].call
<1>1. TypeOK'
  BY TypeReset DEF IInv, OnCallReset, Position
<1>2. Leaves(k)
  BY EraseLeaves
<1>3. ListMatchesMap' /\ TimersConserved' /\ TimersMatchQueue' /\ HandlersMatchQueue'
  BY <1>2, LeavesListMatchesMap, LeavesTimersConserved,
     LeavesTimersMatchQueue, LeavesHandlersMatchQueue
<1>4. OneFate'
  <2>1. /\ call \in Call
        /\ taken' = taken /\ reply' = reply
        /\ cdr' = [cdr EXCEPT ![call] = Append(cdr[call], "TIMEOUT")]
    BY QueuedNode DEF ResetErases
  <2>2. Queued(call)
    BY DEF Queued, Position
  <2>3. call \notin taken /\ cdr[call] = <<>> /\ reply[call] = "OK"
    BY <2>1, <2>2 DEF IInv, OneFate
  <2>4. cdr'[call] = <<"TIMEOUT">> /\ \A c \in Call : c # call => cdr'[c] = cdr[c]
    BY <2>1, <2>3 DEF IInv, TypeOK
  <2>5. ASSUME NEW c \in Call
        PROVE  /\ Queued(c)' => Queued(c) /\ c # call
               /\ Queued(c) => Queued(c)' \/ c = call
    <3>1. Queued(c)' => Queued(c) /\ c # call
      <4>1. SUFFICES ASSUME NEW j \in Position', incoming_calls'[j].call = c
                     PROVE  Queued(c) /\ c # call
        BY DEF Queued, Position
      <4>2. PICK i \in Position \ {k} : incoming_calls'[j] = incoming_calls[i]
        BY <1>2, ShiftProperties DEF Leaves
      <4> QED BY <4>1, <4>2, OnePlace DEF Queued, Position
    <3>2. Queued(c) => Queued(c)' \/ c = call
      <4>1. SUFFICES ASSUME NEW i \in Position, incoming_calls[i].call = c, c # call
                     PROVE  Queued(c)'
        BY DEF Queued, Position
      <4>2. PICK j \in Position' : incoming_calls'[j] = incoming_calls[i]
        BY <1>2, <4>1, ShiftProperties DEF Leaves
      <4> QED BY <4>1, <4>2 DEF Queued, Position
    <3> QED BY <3>1, <3>2
  <2>6. <<"TIMEOUT">> # <<>>
    OBVIOUS
  <2> HIDE DEF call
  <2> QED BY <2>1, <2>2, <2>3, <2>4, <2>5, <2>6 DEF IInv, OneFate
<1> QED BY <1>1, <1>3, <1>4 DEF IInv

\* A handler that erases another call's node, or follows a dangling iterator,
\* is stale, and its number is in the queue again.
LEMMA OnlyStaleErasesWrong ==
    ASSUME IInv, heap = "sound", NEW h \in posted,
           \/ ResetDangling(h)
           \/ \E k \in Position : ResetErases(h, k) /\ incoming_calls[k].call # h.call
    PROVE  Stale(h) /\ InQueue(cg_pn[h.call])
<1>1. h.ec = "success" /\ InQueue(cg_pn[h.call])
  BY DEF ResetErases, ResetDangling, IgnoresReset
<1>2. ASSUME NEW i \in Position, incoming_calls[i].call = h.call
      PROVE  FALSE
  <2>1. incoming_calls[i].addr = h.iter
    BY <1>2 DEF IInv, HandlersMatchQueue, Position
  <2>2. CASE ResetDangling(h)
    BY <2>1, <2>2 DEF ResetDangling, Nodes, Position
  <2>3. CASE \E k \in Position : ResetErases(h, k) /\ incoming_calls[k].call # h.call
    <3>1. PICK k \in Position : ResetErases(h, k) /\ incoming_calls[k].call # h.call
      BY <2>3
    <3>2. incoming_calls[k].addr = incoming_calls[i].addr
      BY <2>1, <3>1 DEF ResetErases
    <3> QED BY <1>2, <3>1, <3>2, OnePlace
  <2> QED BY <2>2, <2>3
<1> QED BY <1>1, <1>2 DEF Stale, Queued, Position

\* One step of the queue keeps the invariant, and leaves the sound states only by
\* the handler of a stale reset whose number is in the queue again.
Breaks == \E h \in posted : Stale(h) /\ InQueue(cg_pn[h.call])

LEMMA SoundStep ==
    ASSUME IInv, heap = "sound", Next
    PROVE  IInv' /\ (heap' # "sound" => Breaks)
<1>1. ASSUME NEW call \in Call, PushDuplicate(call) \/ PushOverload(call)
      PROVE  IInv' /\ heap' = heap
  BY <1>1, RejectedPreserves DEF PushDuplicate, PushOverload
<1>2. ASSUME NEW call \in Call, NEW addr \in Addr, PushAccept(call, addr)
      PROVE  IInv' /\ heap' = heap
  BY <1>2, AcceptPreserves DEF PushAccept
<1>3. ASSUME NEW call \in Call, PushNoTimer(call)
      PROVE  FALSE
  BY <1>3, TimerIsFree DEF PushNoTimer
<1>4. ASSUME NEW call \in Call, PopCall(call)
      PROVE  IInv' /\ heap' = heap
  BY <1>4, PopPreserves DEF PopCall
<1>5. CASE PopThrows
  BY <1>5, NumberIsKnown DEF PopThrows
<1>6. ASSUME NEW t \in Timer, TimerExpires(t)
      PROVE  IInv' /\ heap' = heap
  BY <1>6, ExpirePreserves DEF TimerExpires
<1>7. ASSUME NEW h \in posted, OnCallReset(h)
      PROVE  IInv' /\ (heap' # "sound" => Breaks)
  <2>1. CASE ResetIgnored(h)
    BY <2>1, IgnoredPreserves DEF ResetIgnored
  <2>2. ASSUME NEW k \in Position, ResetErases(h, k), incoming_calls[k].call = h.call
        PROVE  IInv' /\ heap' = heap
    BY <2>2, ErasePreserves DEF ResetErases
  <2>3. ASSUME \/ ResetDangling(h)
               \/ \E k \in Position :
                     ResetErases(h, k) /\ incoming_calls[k].call # h.call
        PROVE  IInv' /\ Breaks
    <3>1. TypeOK'
      BY <1>7, TypeReset DEF IInv
    <3>2. heap' # "sound"
      BY <2>3 DEF ResetDangling, Crash, ResetErases
    <3>3. Breaks
      BY <2>3, OnlyStaleErasesWrong DEF Breaks
    <3> QED BY <3>1, <3>2, <3>3
            DEF IInv, ListMatchesMap, TimersConserved, TimersMatchQueue,
                HandlersMatchQueue, OneFate
  <2> QED BY <1>7, <2>1, <2>2, <2>3 DEF OnCallReset, Position
<1> QED BY <1>1, <1>2, <1>3, <1>4, <1>5, <1>6, <1>7 DEF Next, Push

LEMMA InvNext == IInv /\ [Next]_vars => IInv'
<1> SUFFICES ASSUME IInv, [Next]_vars PROVE IInv'
  OBVIOUS
<1>1. CASE heap = "sound" /\ Next
  BY <1>1, SoundStep
<1>2. CASE heap # "sound"
  <2>1. TypeOK'
    BY TypeNext DEF IInv
  <2>2. heap' # "sound"
    BY <1>2 DEF Next, vars, Push, PushDuplicate, PushOverload, PushAccept,
                PushNoTimer, PopCall, PopThrows, TimerExpires, OnCallReset,
                ResetIgnored, ResetErases, ResetDangling, Crash
  <2> QED BY <2>1, <2>2 DEF IInv, ListMatchesMap, TimersConserved,
          TimersMatchQueue, HandlersMatchQueue, OneFate
<1>3. CASE UNCHANGED vars
  <2>1. TypeOK'
    BY TypeNext DEF IInv
  <2> QED BY <1>3, <2>1 DEF vars, IInv, ListMatchesMap, TimersConserved,
          TimersMatchQueue, HandlersMatchQueue, OneFate, InQueue, Queued
<1> QED BY <1>1, <1>2, <1>3
-----------------------------------------------------------------------------
(* The theorems *)

LEMMA SpecIInv == Spec => []IInv
BY InvInit, InvNext, PTL DEF Spec

\* In every sound reachable state the map holds exactly the numbers of the calls
\* in the list, so push's look-up in map_cg_pn_to_pos_ is the test for a duplicate.
THEOREM MapIsTheQueue == Spec => []ListMatchesMap
<1>1. IInv => ListMatchesMap
  BY DEF IInv
<1> QED BY <1>1, SpecIInv, PTL

\* No timer is lost or shared, whatever the order of push, pop and OnCallReset: a
\* call below capacity always finds one in free_timers_.
THEOREM TimersAreConserved == Spec => []TimersConserved
<1>1. IInv => TimersConserved
  BY DEF IInv
<1> QED BY <1>1, SpecIInv, PTL

\* A wait is pending for the queued call that owns the timer and for no other: cancel()
\* in pop always finds the wait of the call it takes, or its handler is posted.
THEOREM ResetsArePending == Spec => []TimersMatchQueue
<1>1. IInv => TimersMatchQueue
  BY DEF IInv
<1> QED BY <1>1, SpecIInv, PTL

\* A handler is posted once for a call and never while the call's wait is pending; the
\* handler of a queued call has the iterator of that call's own node.
THEOREM HandlersArePending == Spec => []HandlersMatchQueue
<1>1. IInv => HandlersMatchQueue
  BY DEF IInv
<1> QED BY <1>1, SpecIInv, PTL

\* A call that push accepted is queued, or taken by pop, or completed with one
\* TIMEOUT by OnCallReset, and never two of these.
THEOREM CallsHaveOneFate == Spec => []OneFate
<1>1. IInv => OneFate
  BY DEF IInv
<1> QED BY <1>1, SpecIInv, PTL

\* Undefined behaviour has a single cause: OnCallReset run for a call that pop has
\* taken, while the caller's next call is in the queue.
THEOREM OnlyCause == Spec => OnlyRedialBreaks
<1>1. IInv /\ [Next]_vars =>
        [heap = "sound" /\ heap' # "sound" =>
           \E h \in posted : Stale(h) /\ InQueue(cg_pn[h.call])]_vars
  BY SoundStep DEF Breaks
<1> QED BY <1>1, SpecIInv, PTL DEF Spec, OnlyRedialBreaks

\* What a caller has to do for the queue to be safe: with callers that come back
\* only after the stale handlers of their earlier calls have run, OnCallReset never
\* uses an iterator of a node that was erased.
PatientInv == IInv /\ NeverBroken /\ PatientCallers

LEMMA PatientNextInv == PatientInv /\ [PatientNext]_vars => PatientInv'
<1> SUFFICES ASSUME PatientInv, [PatientNext]_vars PROVE PatientInv'
  OBVIOUS
<1>1. CASE PatientNext
  <2>1. ~Breaks
    BY DEF Breaks, PatientInv, PatientCallers
  <2> QED BY <1>1, <2>1, SoundStep DEF PatientNext, PatientInv, NeverBroken
<1>2. CASE UNCHANGED vars
  <2>1. IInv'
    BY <1>2, InvNext DEF PatientInv
  <2> QED BY <1>2, <2>1
          DEF vars, PatientInv, NeverBroken, PatientCallers, Stale, Queued, InQueue
<1> QED BY <1>1, <1>2

LEMMA SpecPatientInv == PatientSpec => []PatientInv
<1>1. Init => PatientInv
  BY InvInit DEF Init, PatientInv, NeverBroken, PatientCallers
<1> QED BY <1>1, PatientNextInv, PTL DEF PatientSpec

\* With patient callers no handler uses the iterator of a node that was erased.
THEOREM PatientCallersAreSafe == PatientSpec => []NeverBroken
<1>1. PatientInv => NeverBroken
  BY DEF PatientInv
<1> QED BY <1>1, SpecPatientInv, PTL
=============================================================================
