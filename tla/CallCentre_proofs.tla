-------------------------- MODULE CallCentre_proofs --------------------------
(***************************************************************************)
(* The proof that Operators implements CallCentre, for any number of calls, *)
(* places and operators and with the shutdown at any moment.                *)
(***************************************************************************)
EXTENDS Operators_proofs, FunctionTheorems

-----------------------------------------------------------------------------
(* No more conversations than operators *)

\* AddCall is entered with continue_loop_ tested, so before Stop adds its fictitious
\* operator there was a real one free, and it is still there.
Room == run = "pop" /\ ShuttingDown => Cardinality(Talking) < count_op

Inv == Shape /\ QueuedOnce /\ Places /\ QueueInv /\ TalkInv /\ Room

LEMMA TalkingHas ==
    ASSUME Shape, TalkInv
    PROVE  \A c : c \in Talking <=> c \in Call /\ (Fetched(c) \/ Talks(c) \/ HungUp(c))
<1>1. /\ operators \in [Op -> Call \cup {Null}] /\ current \in Call \cup {Null}
      /\ ended \subseteq [call : Call, ec : {"success", "operation_aborted"}]
      /\ Null \notin Call
    BY TakenAreCalls DEF Shape, TypeOK
<1> QED BY <1>1 DEF Talking, Fetched, Talks, HungUp

\* The calls in conversation have different operators, none of them a free one.
LEMMA FreeMeansRoom ==
    ASSUME Shape, Places, TalkInv, ~ShuttingDown, run = "pop"
    PROVE  Cardinality(Talking) < count_op
<1> DEFINE o == Head(free_operators)
           f == [c \in Talking |-> operator_id[c]]
<1>1. Talk
    BY DEF Places
<1>2. o \in Op /\ IsFree(o)
    <2>1. free_operators \in Seq(Op) /\ free_operators # <<>>
        BY DEF Shape, TypeOK, OperatorStaysFree, ShuttingDown
    <2>2. o \in Op /\ o = free_operators[1] /\ 1 \in 1 .. Len(free_operators)
        BY <2>1, HeadTailProperties, EmptySeq
    <2> QED BY <2>2 DEF IsFree
<1> HIDE DEF o
<1>3. current = Null /\ Null \notin Call
    BY TakenAreCalls DEF TalkInv, OneOfEach, Shape, TypeOK
<1>4. ASSUME NEW c \in Talking
      PROVE  /\ operator_id[c] \in Op \ {o}
             /\ \/ IsBusy(operator_id[c]) /\ operators[operator_id[c]] = c
                \/ \E h \in ended : h.call = c
    <2>1. c \in Call /\ (Talks(c) \/ HungUp(c))
        BY <1>3, <1>4, TalkingHas DEF Fetched
    <2>2. CASE Talks(c)
        <3>1. PICK op \in Op : operators[op] = c
            BY <2>2 DEF Talks
        <3>2. operator_id[c] = op /\ IsBusy(op) /\ op # o
            BY <1>1, <1>2, <1>3, <2>1, <3>1 DEF Talk, BusyCalls, InOnePlace, IsBusy
        <3> QED BY <3>1, <3>2
    <2>3. CASE HungUp(c)
        <3>1. PICK h \in ended : h.call = c
            BY <2>3 DEF HungUp
        <3>2. operator_id[c] \in Op /\ IsOver(operator_id[c])
            BY <1>1, <3>1 DEF Talk, OverCalls, IsOver
        <3>3. operator_id[c] # o
            BY <1>1, <1>2, <3>2 DEF Talk, InOnePlace
        <3> QED BY <3>1, <3>2, <3>3
    <2> QED BY <2>1, <2>2, <2>3
<1>5. ASSUME NEW c \in Talking, NEW d \in Talking, operator_id[c] = operator_id[d]
      PROVE  c = d
    <2>1. CASE IsBusy(operator_id[c])
        <3>1. ~IsOver(operator_id[c])
            BY <1>1, <1>4, <2>1 DEF Talk, InOnePlace
        <3>2. \A h \in ended : h.call # c /\ h.call # d
            BY <1>5, <3>1 DEF IsOver
        <3> QED BY <1>4, <1>5, <3>2
    <2>2. CASE ~IsBusy(operator_id[c])
        <3>1. PICK g \in ended : g.call = c
            BY <1>4, <2>2
        <3>2. PICK h \in ended : h.call = d
            BY <1>4, <1>5, <2>2
        <3>3. g = h
            BY <1>1, <1>5, <3>1, <3>2 DEF Talk, OverCalls
        <3> QED BY <3>1, <3>2, <3>3
    <2> QED BY <2>1, <2>2
<1>6. f \in Injection(Talking, Op \ {o})
    <2>1. f \in [Talking -> Op \ {o}] /\ \A c \in Talking : f[c] = operator_id[c]
        BY <1>4
    <2>2. \A c, d \in Talking : f[c] = f[d] => c = d
        BY <1>5, <2>1
    <2> HIDE DEF f
    <2> QED BY <2>1, <2>2, Fun_IsInj
<1>7. IsFiniteSet(Op) /\ Cardinality(Op) = count_op
    BY OperatorsAssumption, FS_Interval DEF Op
<1>8. IsFiniteSet(Op \ {o}) /\ Cardinality(Op \ {o}) = count_op - 1
    BY <1>2, <1>7, FS_RemoveElement
<1>9. IsFiniteSet(Talking) /\ Cardinality(Talking) <= count_op - 1
    BY <1>6, <1>8, FS_Injection
<1>10. Cardinality(Talking) \in Nat
    BY <1>9, FS_CardinalityType
<1> QED BY <1>9, <1>10, OperatorsAssumption

LEMMA RoomStep ==
    ASSUME Inv, [Next]_vars
    PROVE  Room'
<1> SUFFICES ASSUME run' = "pop", ShuttingDown'
             PROVE  /\ run = "pop" /\ Talking' = Talking
                    /\ ~ShuttingDown \/ Room
    BY FreeMeansRoom DEF Inv, Room
<1>1. ~IoThreads
    BY DEF IoThreads, PushCall, ExpireInQueue, ResetCall, ConversationEnds, EndCallFrees,
           EndCallRecords, Serving, ShuttingDown, opVars
<1>2. CASE Run
    <2>1. ~continue_loop \/ ~TestFlag
        BY DEF Inv, Shape, OperatorsExist, TestFlag, ShuttingDown
    <2>2. AddCallNull
        BY <1>2, <2>1 DEF Run, FreeCheck, IncomingCheck, Sleep, TestFlag, AddCallPop,
                          AddCallNothing, AddCallAssign, RunMoves
    <2> QED BY <2>2 DEF AddCallNull, opVars, talkVars, Talking, Inv
<1>3. CASE SpuriousWakeup \/ StopContext \/ JoinIoThreads \/ Stop \/ JoinOperators
    BY <1>3 DEF SpuriousWakeup, StopContext, JoinIoThreads, Stop, StopClearsFlag,
                StopPushesOperator, StopAwakes, JoinOperators, NotifyFree, NotifyIncoming,
                Notify, RunMoves, talkVars, Talking, Inv
<1>4. CASE UNCHANGED vars
    BY <1>4 DEF vars, opVars, talkVars, Talking, Inv
<1> QED BY <1>1, <1>2, <1>3, <1>4 DEF Next

LEMMA InvStep ==
    ASSUME Inv, [Next]_vars
    PROVE  Inv'
BY ShapeStep, PlacesStep, QueueInvStep, TalkInvStep, RoomStep, KeepsQueuedOnce,
   NextIsQueueStep DEF Inv, Shape, TypeOK

LEMMA InvInit == Init => Inv
<1> SUFFICES ASSUME Init PROVE Room
    BY ShapeInit, PlacesInit, QueueInvInit, TalkInvInit DEF Inv
<1> QED BY DEF Init, Room

-----------------------------------------------------------------------------
(* The queue as the abstract call centre sees it *)

Sound == Shape /\ QueueInv /\ heap = "sound"

WaitingIs ==
    /\ Len(incoming_calls) \in Nat
    /\ Waiting \in Seq(Call)
    /\ Waiting = [i \in 1 .. Len(Waiting) |-> CallAt(i)]
    /\ Len(Waiting) \in Nat /\ Len(Waiting) <= Len(incoming_calls)
    /\ \A i \in 1 .. Len(incoming_calls) : CallAt(i) \in Call <=> i <= Len(Waiting)
    /\ \A i \in 1 .. Len(incoming_calls) : CallAt(i) \in Call <=> CallAt(i) # Null
    /\ ~Closed => Len(Waiting) = Len(incoming_calls)

LEMMA WaitingProperties == Sound => WaitingIs
<1> SUFFICES ASSUME Sound PROVE WaitingIs
    OBVIOUS
<1> DEFINE size == Len(incoming_calls)
           calls == IF size > 0 /\ incoming_calls[size].call = Null THEN size - 1 ELSE size
<1>1. /\ size \in Nat /\ Null \notin Call
      /\ \A i \in 1 .. size : CallAt(i) \in Call \cup {Null}
    BY CallTypes, TakenAreCalls DEF Sound, Shape, TypeOK
<1>2. \A i \in 1 .. size : CallAt(i) = Null => i = size /\ Closed
    BY <1>1 DEF Sound, QueueInv, QP!IInv, QP!ListMatchesMap, Line, CallAt
<1>3. calls \in Nat /\ calls <= size
    BY <1>1
<1>4. \A i \in 1 .. size : i <= calls <=> CallAt(i) # Null
    BY <1>1, <1>2 DEF CallAt
<1>5. ~Closed => calls = size
    <2>1. size > 0 => size \in 1 .. size
        BY <1>1
    <2> QED BY <1>1, <1>2, <2>1 DEF CallAt
<1>6. Waiting = [i \in 1 .. calls |-> CallAt(i)]
    BY DEF Waiting, CallAt
<1> HIDE DEF size, calls
<1>7. \A i \in 1 .. calls : i \in 1 .. size /\ CallAt(i) \in Call
    BY <1>1, <1>3, <1>4
<1>8. Waiting \in Seq(Call) /\ Len(Waiting) = calls
    BY <1>3, <1>6, <1>7
<1> QED BY <1>1, <1>3, <1>4, <1>5, <1>6, <1>8 DEF WaitingIs, size

LEMMA WaitingPropertiesNext == Sound' => WaitingIs'
BY WaitingProperties, PTL

\* A record of a call that has none yet.
LEMMA FirstRecord ==
    ASSUME NEW c \in Call, NEW status,
           cdr[c] = <<>>, completed[c] = <<>>,
           \/ cdr' = [cdr EXCEPT ![c] = Append(@, status)] /\ completed' = completed
           \/ completed' = [completed EXCEPT ![c] = Append(@, status)] /\ cdr' = cdr,
           cdr \in [Call -> Seq(Q!RespStatus)], completed \in [Call -> Seq(Q!RespStatus)]
    PROVE  [d \in Call |-> cdr'[d] \o completed'[d]] =
           [[d \in Call |-> cdr[d] \o completed[d]] EXCEPT ![c] = Append(@, status)]
<1>1. \A d \in Call \ {c} : cdr'[d] = cdr[d] /\ completed'[d] = completed[d]
    OBVIOUS
<1>2. Append(<<>>, status) = <<status>> /\ <<>> \o <<>> = <<>>
      /\ <<status>> \o <<>> = <<status>> /\ <<>> \o <<status>> = <<status>>
    OBVIOUS
<1>3. \/ cdr'[c] = <<status>> /\ completed'[c] = <<>>
      \/ cdr'[c] = <<>> /\ completed'[c] = <<status>>
    BY <1>2
<1>4. cdr'[c] \o completed'[c] = Append(cdr[c] \o completed[c], status)
    BY <1>2, <1>3, Zenon
<1> QED BY <1>1, <1>4

-----------------------------------------------------------------------------
(* The steps *)

LEMMA Stutter ==
    ASSUME UNCHANGED <<incoming_calls, current, operators, ended, closing, completed,
                       reply, cdr, heap>>
    PROVE  UNCHANGED CallCentre!vars
BY DEF CallCentre!vars, Waiting, Talking

LEMMA WaitsIsInQueue ==
    ASSUME Sound, ~Closed, NEW n \in CgPn
    PROVE  CallCentre!Waits(n) <=> Q!InQueue(n)
<1>1. WaitingIs
    BY WaitingProperties
<1>2. \A i \in 1 .. Len(incoming_calls) : Waiting[i] = CallAt(i)
    BY <1>1 DEF WaitingIs
<1>3. QP!ListMatchesMap /\ heap = "sound"
    BY DEF Sound, QueueInv, QP!IInv
<1> QED BY <1>1, <1>2, <1>3 DEF CallCentre!Waits, WaitingIs, QP!ListMatchesMap, QP!InQueue,
                                Q!InQueue, CallAt

LEMMA PushImplements ==
    ASSUME Inv, Sound, Sound', NEW call \in Call, PushCall(call)
    PROVE  CallCentre!Next
<1>1. WaitingIs /\ WaitingIs' /\ ~Closed
    BY WaitingProperties, WaitingPropertiesNext DEF PushCall, Serving, Closed
<1>2. /\ UNCHANGED <<operators, current, ended, closing, completed>> /\ Q!Push(call)
      /\ ~Closed'
    BY <1>1 DEF PushCall, talkVars, Closed
<1>3. cg_pn[call] \in CgPn /\ capacity \in Nat
    BY QueueAssumption DEF Q!ConstantsAssumption
<1>4. CallCentre!Waits(cg_pn[call]) <=> Q!IsDuplicate(call)
    BY <1>1, <1>3, WaitsIsInQueue DEF Q!IsDuplicate
<1>5. Len(Waiting) = Len(incoming_calls) /\ Len(incoming_calls) \in Nat
      /\ Len(Waiting) <= capacity
    <2>1. Len(free_timers) + Len(incoming_calls) = capacity /\ Len(free_timers) \in Nat
        BY <1>1, LenProperties
           DEF Sound, QueueInv, QP!IInv, QP!TimersConserved, Shape, TypeOK, Q!TypeOK
    <2> QED BY <1>1, <1>3, <2>1 DEF WaitingIs
<1>6. CASE Q!PushDuplicate(call)
    <2>1. CallCentre!RefuseDuplicate(call)
        BY <1>2, <1>4, <1>6 DEF Q!PushDuplicate, Q!BeginPush, CallCentre!RefuseDuplicate,
                                CallCentre!Answers, Waiting, Talking
    <2> QED BY <2>1 DEF CallCentre!Next
<1>7. CASE Q!PushOverload(call)
    <2>1. CallCentre!RefuseOverload(call)
        BY <1>2, <1>3, <1>4, <1>5, <1>7
           DEF Q!PushOverload, Q!BeginPush, Q!IsFull, CallCentre!RefuseOverload,
               CallCentre!Answers, Waiting, Talking
    <2> QED BY <2>1 DEF CallCentre!Next
<1>8. ASSUME NEW addr \in Addr, Q!PushAccept(call, addr) PROVE CallCentre!LetIn(call)
    <2>1. [addr |-> addr, call |-> call] \in Q!Node
        BY DEF Q!Node
    <2>2. /\ Len(incoming_calls') = Len(incoming_calls) + 1
          /\ \A i \in 1 .. Len(incoming_calls) : CallAt(i)' = CallAt(i)
          /\ incoming_calls'[Len(incoming_calls) + 1].call = call
        BY <1>8, <2>1, NodeEnters DEF Q!PushAccept, Inv, Shape, TypeOK
    <2>3. Waiting' = Append(Waiting, call)
        <3>1. /\ Append(Waiting, call) \in Seq(Call)
              /\ Len(Append(Waiting, call)) = Len(Waiting) + 1
              /\ \A i \in 1 .. Len(Waiting) : Append(Waiting, call)[i] = Waiting[i]
              /\ Append(Waiting, call)[Len(Waiting) + 1] = call
            BY <1>1, AppendProperties DEF WaitingIs
        <3>2. Waiting' \in Seq(Call) /\ Len(Waiting') = Len(Waiting) + 1
            BY <1>1, <1>2, <1>5, <2>2 DEF WaitingIs
        <3>3. \A i \in 1 .. Len(Waiting) + 1 : Waiting'[i] = CallAt(i)'
            BY <1>1, <3>2 DEF WaitingIs
        <3>4. \A i \in 1 .. Len(Waiting) : Waiting[i] = CallAt(i)
            BY <1>1 DEF WaitingIs
        <3>5. \A i \in 1 .. Len(Waiting') : Waiting'[i] = Append(Waiting, call)[i]
            <4> TAKE i \in 1 .. Len(Waiting')
            <4>1. CASE i \in 1 .. Len(Waiting)
                BY <1>5, <2>2, <3>1, <3>2, <3>3, <3>4, <4>1
            <4>2. CASE i = Len(Waiting) + 1
                BY <1>5, <2>2, <3>1, <3>2, <3>3, <4>2 DEF CallAt
            <4> QED BY <1>5, <3>2, <4>1, <4>2
        <3> QED BY <3>1, <3>2, <3>5, SeqEqual
    <2> QED BY <1>2, <1>3, <1>4, <1>5, <1>8, <2>3
            DEF Q!PushAccept, Q!BeginPush, Q!IsFull, CallCentre!LetIn, CallCentre!Answers,
                Talking
<1>9. ~Q!PushNoTimer(call)
    BY DEF Q!PushNoTimer, Q!Crash, Sound
<1> QED BY <1>2, <1>6, <1>7, <1>8, <1>9 DEF Q!Push, CallCentre!Next

LEMMA ResetImplements ==
    ASSUME Inv, Sound, Sound', NEW h \in posted, ResetCall(h)
    PROVE  CallCentre!Next \/ UNCHANGED CallCentre!vars
<1>1. WaitingIs /\ WaitingIs' /\ ~Closed /\ ~Closed'
    BY WaitingProperties, WaitingPropertiesNext DEF ResetCall, Serving, Closed, opVars
<1>2. UNCHANGED <<operators, current, ended, closing, completed>> /\ Q!OnCallReset(h)
    BY DEF ResetCall, opVars, talkVars
<1>3. CASE Q!ResetIgnored(h)
    BY <1>2, <1>3, Stutter DEF Q!ResetIgnored
<1>4. ASSUME NEW k \in 1 .. Len(incoming_calls), Q!ResetErases(h, k)
      PROVE  CallCentre!GivesUp(k) /\ k \in 1 .. Len(Waiting)
    <2> DEFINE call == CallAt(k)
    <2>1. /\ call \in Call /\ k \in 1 .. Len(Waiting) /\ Waiting[k] = call
          /\ cdr' = [cdr EXCEPT ![call] = Append(@, "TIMEOUT")] /\ reply' = reply
          /\ incoming_calls' = Q!RemoveAt(incoming_calls, k)
        BY <1>1, <1>4 DEF Q!ResetErases, Q!Unlinked, WaitingIs, CallAt
    <2>2. /\ Len(incoming_calls') = Len(incoming_calls) - 1
          /\ \A j \in 1 .. Len(incoming_calls) - 1 :
                incoming_calls'[j] = incoming_calls[IF j < k THEN j ELSE j + 1]
        <3>1. incoming_calls \in Seq(Q!Node)
            BY DEF Sound, Shape, TypeOK, Q!TypeOK
        <3> QED BY <2>1, <3>1, RemoveAtProperties
    <2>3. Waiting' = [j \in 1 .. Len(Waiting) - 1 |-> Waiting[IF j < k THEN j ELSE j + 1]]
        <3>1. Len(Waiting') = Len(Waiting) - 1 /\ Len(Waiting) = Len(incoming_calls)
              /\ Len(Waiting) \in Nat
            BY <1>1, <2>2 DEF WaitingIs
        <3>2. \A j \in 1 .. Len(Waiting) - 1 :
                 CallAt(j)' = Waiting[IF j < k THEN j ELSE j + 1]
            <4> TAKE j \in 1 .. Len(Waiting) - 1
            <4>1. (IF j < k THEN j ELSE j + 1) \in 1 .. Len(Waiting)
                BY <3>1
            <4>2. Waiting[IF j < k THEN j ELSE j + 1] = CallAt(IF j < k THEN j ELSE j + 1)
                BY <1>1, <4>1 DEF WaitingIs
            <4> QED BY <2>2, <3>1, <4>2 DEF CallAt
        <3>3. Waiting' = [j \in 1 .. Len(Waiting) - 1 |-> CallAt(j)']
            BY <1>1, <3>1 DEF WaitingIs
        <3> QED BY <3>2, <3>3
    <2>4. cdr[call] = <<>> /\ completed[call] = <<>>
        <3>1. Q!Queued(call) /\ Q!OneFate
            BY SameFate DEF Sound, QueueInv, QP!IInv, Q!Queued, CallAt
        <3>2. call \notin taken /\ cdr[call] = <<>>
            BY <2>1, <3>1 DEF Q!OneFate, Sound
        <3>3. OnePlace(call)
            BY <2>1 DEF Inv, TalkInv
        <3> QED BY <3>2, <3>3 DEF OnePlace, Recorded
    <2> HIDE DEF call
    <2>5. [d \in Call |-> cdr'[d] \o completed'[d]] =
          [[d \in Call |-> cdr[d] \o completed[d]] EXCEPT ![call] = Append(@, "TIMEOUT")]
        BY <1>2, <2>1, <2>4, FirstRecord DEF Inv, Shape, TypeOK, Q!TypeOK
    <2>6. (heap # "sound") = FALSE /\ (heap' # "sound") = FALSE
        BY DEF Sound
    <2> QED BY <1>2, <2>1, <2>3, <2>5, <2>6
            DEF CallCentre!GivesUp, CallCentre!Records, Talking
<1>5. ~Q!ResetDangling(h)
    BY DEF Q!ResetDangling, Q!Crash, Sound
<1> QED BY <1>2, <1>3, <1>4, <1>5 DEF Q!OnCallReset, CallCentre!Next

LEMMA PopImplements ==
    ASSUME Inv, Sound, Sound', NEW call \in Call, AddCallPop(call)
    PROVE  CallCentre!Take
<1>1. WaitingIs /\ WaitingIs' /\ (Closed' <=> Closed)
    BY WaitingProperties, WaitingPropertiesNext DEF AddCallPop, Closed
<1>2. /\ incoming_calls # <<>> /\ incoming_calls' = Q!Popped
      /\ Head(incoming_calls).call = call /\ current' = call
      /\ UNCHANGED <<operators, ended, closing, completed, reply, cdr, heap>>
    BY DEF AddCallPop, Q!PopCall, talkVars
<1>3. /\ 1 \in 1 .. Len(incoming_calls) /\ CallAt(1) = call
      /\ Len(incoming_calls') = Len(incoming_calls) - 1
      /\ \A j \in 1 .. Len(incoming_calls) - 1 : CallAt(j)' = CallAt(j + 1)
    <2>1. Q!TypeOK
        BY DEF Inv, Shape, TypeOK
    <2>2. Len(incoming_calls) \in Nat
        BY <2>1 DEF Q!TypeOK
    <2>3. /\ 1 \in 1 .. Len(incoming_calls) /\ CallAt(1) = call
          /\ Len(incoming_calls') = Len(incoming_calls) - 1
          /\ \A j \in 1 .. Len(incoming_calls) - 1 :
                incoming_calls'[j] = incoming_calls[IF j < 1 THEN j ELSE j + 1]
        BY <1>2, <2>1, FrontLeaves DEF CallAt
    <2> QED BY <2>2, <2>3 DEF CallAt
<1>4. Len(Waiting) \in Nat \ {0} /\ Waiting # <<>> /\ Head(Waiting) = call
    <2>1. call \in Call /\ 1 <= Len(Waiting)
        BY <1>1, <1>3 DEF WaitingIs
    <2>2. 1 \in 1 .. Len(Waiting)
        BY <1>1, <2>1 DEF WaitingIs
    <2>3. Waiting[1] = call
        BY <1>1, <1>3, <2>2 DEF WaitingIs
    <2> QED BY <1>1, <2>1, <2>3, EmptySeq, HeadTailProperties DEF WaitingIs
<1>5. Waiting' = Tail(Waiting)
    <2>1. /\ Tail(Waiting) \in Seq(Call) /\ Len(Tail(Waiting)) = Len(Waiting) - 1
          /\ \A i \in 1 .. Len(Waiting) - 1 : Tail(Waiting)[i] = Waiting[i + 1]
        BY <1>1, <1>4, HeadTailProperties DEF WaitingIs
    <2>2. Len(Waiting') = Len(Waiting) - 1
        <3> DEFINE n == Len(incoming_calls)
                   w == Len(Waiting)
                   v == Len(Waiting')
        <3>1. n \in Nat /\ w \in Nat /\ v \in Nat /\ w <= n /\ v <= n - 1 /\ 1 <= w
            BY <1>1, <1>3, <1>4 DEF WaitingIs
        <3>2. \A j \in 1 .. n - 1 : j <= v <=> j + 1 <= w
            <4> TAKE j \in 1 .. n - 1
            <4>1. j \in 1 .. Len(incoming_calls') /\ j + 1 \in 1 .. Len(incoming_calls)
                BY <1>3, <3>1
            <4>2. CallAt(j)' \in Call <=> CallAt(j + 1) \in Call
                BY <1>3
            <4> QED BY <1>1, <4>1, <4>2 DEF WaitingIs
        <3> HIDE DEF n, w, v
        <3>3. v < w
            <4> SUFFICES ASSUME v >= w PROVE FALSE
                BY <3>1
            <4>1. w \in 1 .. n - 1 /\ w <= v
                BY <3>1
            <4> QED BY <3>1, <3>2, <4>1
        <3>4. v >= w - 1
            <4> SUFFICES ASSUME v < w - 1 PROVE FALSE
                BY <3>1
            <4>1. v + 1 \in 1 .. n - 1 /\ (v + 1) + 1 <= w
                BY <3>1
            <4> QED BY <3>1, <3>2, <4>1
        <3>5. v = w - 1
            BY <3>1, <3>3, <3>4
        <3> QED BY <3>5 DEF v, w
    <2>3. \A i \in 1 .. Len(Waiting') : Waiting'[i] = Tail(Waiting)[i]
        <3> TAKE i \in 1 .. Len(Waiting')
        <3>1. i \in 1 .. Len(incoming_calls) - 1 /\ i + 1 \in 1 .. Len(Waiting)
              /\ i \in 1 .. Len(Waiting) - 1
            <4> DEFINE n == Len(incoming_calls)
                       w == Len(Waiting)
            <4>1. n \in Nat /\ w \in Nat /\ w <= n /\ i \in 1 .. w - 1
                BY <1>1, <2>2 DEF WaitingIs
            <4> HIDE DEF n, w
            <4>2. i \in 1 .. n - 1 /\ i + 1 \in 1 .. w /\ i \in 1 .. w - 1
                BY <4>1
            <4> QED BY <4>2 DEF n, w
        <3>2. Waiting'[i] = CallAt(i)'
            BY <1>1 DEF WaitingIs
        <3>3. Waiting[i + 1] = CallAt(i + 1)
            BY <1>1, <3>1 DEF WaitingIs
        <3> QED BY <1>3, <2>1, <3>1, <3>2, <3>3
    <2> QED BY <1>1, <2>1, <2>2, <2>3, SeqEqual DEF WaitingIs
<1>6. Talking' = Talking \cup {Head(Waiting)}
    <2>1. current = Null /\ call # Null
        BY TakenAreCalls DEF Inv, TalkInv, OneOfEach, AddCallPop, RunMoves, Shape, TypeOK
    <2> QED BY <1>2, <1>4, <2>1 DEF Talking
<1>7. Cardinality(Talking) < count_op
    BY FreeMeansRoom DEF Inv, Room, AddCallPop, RunMoves
<1>8. UNCHANGED <<closing, reply, [c \in Call |-> cdr[c] \o completed[c]], heap # "sound">>
    BY <1>2
<1>9. Waiting # <<>> /\ Talking' = Talking \cup {Head(Waiting)}
    BY <1>4, <1>6
<1>10. CallCentre!Cardinality(Talking) < count_op
    BY <1>7 DEF CallCentre!Cardinality, Cardinality
<1> QED BY <1>5, <1>8, <1>9, <1>10, Zenon DEF CallCentre!Take

LEMMA TalkingHasNext ==
    ASSUME Shape', TalkInv'
    PROVE  \A c : c \in Talking' <=> c \in Call /\ (Fetched(c)' \/ Talks(c)' \/ HungUp(c)')
<1>1. /\ operators' \in [Op -> Call \cup {Null}] /\ current' \in Call \cup {Null}
      /\ ended' \subseteq [call : Call, ec : {"success", "operation_aborted"}]
      /\ Null \notin Call
    BY QueueAssumption DEF Shape, TypeOK, Q!ConstantsAssumption
<1> QED BY <1>1 DEF Talking, Fetched, Talks, HungUp

\* The moment at which an operator is chosen does not show.
LEMMA AssignStutters ==
    ASSUME Inv, Inv', AddCallAssign
    PROVE  UNCHANGED CallCentre!vars
<1> DEFINE OpId == Head(free_operators)
           old  == operators[OpId]
           cut  == [call |-> old, ec |-> "operation_aborted"]
<1>1. OpId \in Op /\ operators \in [Op -> Call \cup {Null}] /\ Null \notin Call
    <2>1. 0 \in Op /\ Op \cup {0} = Op
        BY DEF Inv, Shape, OperatorsExist, AddCallAssign, RunMoves
    <2> QED BY <2>1, HeadTailProperties, TakenAreCalls DEF Inv, Shape, TypeOK, AddCallAssign
<1>2. /\ operators' = [operators EXCEPT ![OpId] = current] /\ current' = Null
      /\ ended' = IF old = Null THEN ended ELSE ended \cup {cut}
      /\ UNCHANGED <<incoming_calls, closing, completed, reply, cdr, heap>>
    BY DEF AddCallAssign, queueVars
<1>3. cut.call = old
    OBVIOUS
<1> HIDE DEF OpId, old, cut
<1>4. \A op \in Op : operators'[op] = IF op = OpId THEN current ELSE operators[op]
    BY <1>1, <1>2
<1>5. \A c \in Call : HungUp(c)' <=> HungUp(c) \/ c = old
    BY <1>1, <1>2, <1>3 DEF HungUp
<1>6. \A c \in Call : Talks(c) \/ c = current <=> Talks(c)' \/ c = old \/ c = current
    BY <1>1, <1>4 DEF Talks, old
<1>7. \A c \in Call : c = current <=> Fetched(c)
    BY DEF Fetched
<1>8. \A c \in Call : Fetched(c) => Talks(c)'
    BY <1>1, <1>4 DEF Fetched, Talks
<1>9. \A c \in Call : ~Fetched(c)'
    BY <1>1, <1>2 DEF Fetched
<1>10. \A c \in Call : Fetched(c) \/ Talks(c) \/ HungUp(c)
                         <=> Fetched(c)' \/ Talks(c)' \/ HungUp(c)'
    BY <1>5, <1>6, <1>7, <1>8, <1>9
<1>11. Talking' = Talking
    BY <1>10, TalkingHas, TalkingHasNext DEF Inv
<1> QED BY <1>2, <1>11 DEF CallCentre!vars, Waiting

LEMMA EndsStutters ==
    ASSUME Inv, Inv', NEW o \in Op, ConversationEnds(o)
    PROVE  UNCHANGED CallCentre!vars
<1> DEFINE call == operators[o]
           h    == [call |-> call, ec |-> "success"]
<1>1. operators \in [Op -> Call \cup {Null}] /\ Null \notin Call /\ call \in Call
    BY TakenAreCalls DEF Inv, Shape, TypeOK, ConversationEnds
<1>2. /\ operators' = [operators EXCEPT ![o] = Null] /\ ended' = ended \cup {h}
      /\ UNCHANGED <<current, incoming_calls, closing, completed, reply, cdr, heap>>
    BY DEF ConversationEnds, queueVars
<1>3. h.call = call
    OBVIOUS
<1> HIDE DEF h, call
<1>4. \A op \in Op : operators'[op] = IF op = o THEN Null ELSE operators[op]
    BY <1>1, <1>2
<1>5. \A c \in Call : HungUp(c)' <=> HungUp(c) \/ c = call
    BY <1>2, <1>3 DEF HungUp
<1>6. \A c \in Call : Talks(c) <=> Talks(c)' \/ c = call
    BY <1>1, <1>4 DEF Talks, call
<1>7. \A c \in Call : Fetched(c)' <=> Fetched(c)
    BY <1>2 DEF Fetched
<1>8. Talking' = Talking
    BY <1>5, <1>6, <1>7, TalkingHas, TalkingHasNext DEF Inv
<1> QED BY <1>2, <1>8 DEF CallCentre!vars, Waiting

LEMMA FreesImplements ==
    ASSUME Inv, Inv', NEW h \in ended, EndCallFrees(h)
    PROVE  CallCentre!Next
<1>1. /\ UNCHANGED <<incoming_calls, operators, current, completed, reply, cdr, heap>>
      /\ ended' = ended \ {h} /\ closing' = closing \cup {h.call}
    BY NoneAborted DEF EndCallFrees, queueVars, Inv
<1>2. h.call \in Call /\ HungUp(h.call)
    BY DEF Inv, Shape, TypeOK, HungUp
<1>3. OnePlace(h.call)
    BY <1>2 DEF Inv, TalkInv
<1>4. \A c : HungUp(c)' <=> HungUp(c) /\ c # h.call
    BY <1>1 DEF Inv, TalkInv, OneOfEach, HungUp
<1>5. \A c : (Fetched(c)' <=> Fetched(c)) /\ (Talks(c)' <=> Talks(c))
    BY <1>1 DEF Fetched, Talks
<1>6. \A c : c \in Talking' <=> c \in Call /\ (Fetched(c)' \/ Talks(c)' \/ HungUp(c)')
    BY TalkingHasNext DEF Inv
<1>7. \A c : c \in Talking <=> c \in Call /\ (Fetched(c) \/ Talks(c) \/ HungUp(c))
    BY TalkingHas DEF Inv
<1>8. ~Fetched(h.call) /\ ~Talks(h.call)
    BY <1>2, <1>3 DEF OnePlace
<1>9. Talking' = Talking \ {h.call}
    BY <1>4, <1>5, <1>6, <1>7, <1>8
<1>10. CallCentre!HangUp(h.call) /\ h.call \in Talking
    BY <1>1, <1>2, <1>7, <1>9 DEF CallCentre!HangUp, Waiting
<1> QED BY <1>10 DEF CallCentre!Next

LEMMA RecordsImplement ==
    ASSUME Inv, Sound, NEW call \in Call, EndCallRecords(call)
    PROVE  CallCentre!Next
<1>1. /\ UNCHANGED <<incoming_calls, operators, current, ended, reply, cdr, heap>>
      /\ call \in closing /\ closing' = closing \ {call}
      /\ completed' = [completed EXCEPT ![call] = Append(@, "OK")]
    BY DEF EndCallRecords, queueVars
<1>2. cdr[call] = <<>> /\ completed[call] = <<>>
    <2>1. OnePlace(call) /\ Closes(call)
        BY <1>1 DEF Inv, TalkInv, Closes
    <2>2. call \in taken /\ completed[call] = <<>>
        BY <2>1 DEF OnePlace, Recorded
    <2>3. Q!OneFate
        BY SameFate DEF Sound, QueueInv, QP!IInv
    <2> QED BY <2>2, <2>3 DEF Q!OneFate, Sound
<1>3. [d \in Call |-> cdr'[d] \o completed'[d]] =
      [[d \in Call |-> cdr[d] \o completed[d]] EXCEPT ![call] = Append(@, "OK")]
    BY <1>1, <1>2, FirstRecord DEF Inv, Shape, TypeOK, Q!TypeOK
<1>4. CallCentre!Close(call)
    BY <1>1, <1>3 DEF CallCentre!Close, CallCentre!Records, Waiting, Talking
<1> QED BY <1>1, <1>4 DEF CallCentre!Next

LEMMA AwakeStutters ==
    ASSUME Inv, Sound, Sound', StopAwakes
    PROVE  UNCHANGED CallCentre!vars
<1>1. WaitingIs /\ WaitingIs' /\ ~Closed
    BY WaitingProperties, WaitingPropertiesNext DEF StopAwakes, MainMoves, Closed
<1>2. PICK addr \in Addr : Q!Awake(addr)
    BY DEF StopAwakes
<1>3. UNCHANGED <<operators, current, ended, closing, completed, reply, cdr, heap>>
    BY <1>2 DEF StopAwakes, talkVars, Q!Awake
<1>4. [addr |-> addr, call |-> Null] \in Q!Node /\ Null \notin Call
    BY TakenAreCalls DEF Q!Node, Inv, Shape, TypeOK
<1>5. /\ Len(incoming_calls') = Len(incoming_calls) + 1
      /\ \A i \in 1 .. Len(incoming_calls) : CallAt(i)' = CallAt(i)
      /\ incoming_calls'[Len(incoming_calls) + 1].call = Null
    BY <1>2, <1>4, NodeEnters DEF Q!Awake, Inv, Shape, TypeOK
<1>6. Waiting' = Waiting
    <2>1. Waiting' = [i \in 1 .. Len(incoming_calls) |-> CallAt(i)']
        BY <1>1, <1>5 DEF Waiting, WaitingIs, CallAt
    <2>2. Waiting = [i \in 1 .. Len(incoming_calls) |-> CallAt(i)]
        BY <1>1 DEF WaitingIs
    <2> QED BY <1>5, <2>1, <2>2
<1> QED BY <1>3, <1>6 DEF CallCentre!vars, Talking

LEMMA SoundStepImplements ==
    ASSUME Inv, Inv', Sound, Sound', [Next]_vars
    PROVE  CallCentre!Next \/ UNCHANGED CallCentre!vars
<1>1. CASE IoThreads
    <2>1. ASSUME NEW t \in Q!Timer, ExpireInQueue(t) PROVE UNCHANGED CallCentre!vars
        BY <2>1, Stutter DEF ExpireInQueue, Q!TimerExpires, opVars, talkVars
    <2> QED BY <1>1, <2>1, PushImplements, ResetImplements, EndsStutters, FreesImplements,
               RecordsImplement DEF IoThreads
<1>2. CASE Run
    <2>1. CASE FreeCheck \/ IncomingCheck \/ Sleep \/ TestFlag
        BY <2>1, Stutter DEF FreeCheck, IncomingCheck, Sleep, TestFlag, talkVars, queueVars
    <2>2. CASE AddCallNothing
        <3>1. ~Q!PopThrows
            BY SoundFront DEF Q!PopThrows, Sound
        <3> QED BY <2>2, <3>1, Stutter DEF AddCallNothing, talkVars, queueVars
    <2>3. ~AddCallNull
        BY DEF AddCallNull, Q!PopNull, Q!Crash, Sound
    <2>4. ASSUME NEW call \in Call, AddCallPop(call) PROVE CallCentre!Next
        BY <2>4, PopImplements DEF CallCentre!Next
    <2> QED BY <1>2, <2>1, <2>2, <2>3, <2>4, AssignStutters DEF Run
<1>3. CASE SpuriousWakeup \/ StopContext \/ JoinIoThreads \/ JoinOperators
    BY <1>3, Stutter DEF SpuriousWakeup, StopContext, JoinIoThreads, JoinOperators,
                         talkVars, queueVars
<1>4. CASE Stop
    <2>1. CASE StopClearsFlag \/ StopPushesOperator
        BY <2>1, Stutter DEF StopClearsFlag, StopPushesOperator, talkVars, queueVars
    <2> QED BY <1>4, <2>1, AwakeStutters DEF Stop
<1>5. CASE UNCHANGED vars
    BY <1>5, Stutter DEF vars, opVars, talkVars, queueVars
<1> QED BY <1>1, <1>2, <1>3, <1>4, <1>5 DEF Next

\* Undefined behaviour is never undone.
LEMMA NeverSoundAgain ==
    ASSUME [Next]_vars, heap' = "sound"
    PROVE  heap = "sound"
BY NextIsQueueStep DEF QueueStep, Q!Push, Q!PushDuplicate, Q!PushOverload, Q!PushAccept,
   Q!PushNoTimer, Q!PopCall, Q!PopThrows, Q!PopNull, Q!TimerExpires, Q!OnCallReset,
   Q!ResetIgnored, Q!ResetErases, Q!ResetDangling, Q!Awake, Q!Crash, queueVars

\* The operators, the queue, their threads and the shutdown implement the abstract call
\* centre: the order of arrival, the bound on conversations, the two reasons for a
\* refusal and the one record of every call, for any number of calls and operators.
THEOREM OperatorsImplementCallCentre == Spec => ImplementsCallCentre
<1>1. Init => CallCentre!Init
    <2> SUFFICES ASSUME Init PROVE CallCentre!Init
        OBVIOUS
    <2>1. Waiting = <<>>
        BY DEF Init, Q!Init, Waiting
    <2>2. Talking = {}
        BY DEF Init, Talking
    <2>3. \A c \in Call : cdr[c] \o completed[c] = <<>>
        BY DEF Init, Q!Init
    <2> QED BY <2>1, <2>2, <2>3 DEF Init, Q!Init, CallCentre!Init
<1>2. Inv /\ Inv' /\ [Next]_vars => [CallCentre!Next]_(CallCentre!vars)
    <2> SUFFICES ASSUME Inv, Inv', [Next]_vars
                 PROVE  CallCentre!Next \/ UNCHANGED CallCentre!vars
        OBVIOUS
    <2>1. CASE heap' # "sound"
        BY <2>1 DEF CallCentre!Next, CallCentre!Break
    <2>2. CASE heap' = "sound"
        BY <2>2, NeverSoundAgain, SoundStepImplements DEF Inv, Sound
    <2> QED BY <2>1, <2>2
<1>3. Inv /\ [Next]_vars => Inv'
    BY InvStep
<1> QED BY <1>1, <1>2, <1>3, InvInit, PTL DEF Spec, ImplementsCallCentre, CallCentre!Spec
=============================================================================
