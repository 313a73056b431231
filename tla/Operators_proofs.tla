-------------------------- MODULE Operators_proofs --------------------------
(***************************************************************************)
(* Proofs about Operators, for any number of calls, places and operators.   *)
(* What the queue does to its own variables is taken from the proofs about  *)
(* IncomingCallsQueue, instantiated as QP.                                  *)
(***************************************************************************)
EXTENDS Operators, SequenceTheorems, FiniteSetTheorems, TLAPS

QP == INSTANCE IncomingCallsQueue_proofs

-----------------------------------------------------------------------------
(* The queue's part of a step *)

\* Every step of Operators is one of these for the queue.
QueueStep ==
    \/ \E call \in Call : Q!Push(call) \/ Q!PopCall(call)
    \/ Q!PopThrows
    \/ Q!PopNull
    \/ \E t \in Q!Timer : Q!TimerExpires(t)
    \/ \E h \in posted : Q!OnCallReset(h)
    \/ \E addr \in Addr : Q!Awake(addr)
    \/ UNCHANGED queueVars

LEMMA NextIsQueueStep == [Next]_vars => QueueStep
<1> SUFFICES ASSUME [Next]_vars PROVE QueueStep
    OBVIOUS
<1> USE DEF QueueStep
<1>1. CASE IoThreads
    BY <1>1 DEF IoThreads, PushCall, ExpireInQueue, ResetCall, ConversationEnds,
                EndCallFrees, EndCallRecords
<1>2. CASE Run
    BY <1>2 DEF Run, FreeCheck, IncomingCheck, Sleep, TestFlag, AddCallPop,
                AddCallNothing, AddCallNull, AddCallAssign
<1>3. CASE SpuriousWakeup \/ StopContext \/ JoinIoThreads \/ Stop \/ JoinOperators
    BY <1>3 DEF SpuriousWakeup, StopContext, JoinIoThreads, Stop, StopClearsFlag,
                StopPushesOperator, StopAwakes, JoinOperators
<1>4. CASE UNCHANGED vars
    BY <1>4 DEF vars
<1> QED BY <1>1, <1>2, <1>3, <1>4 DEF Next

\* The two instances of the queue are one.
LEMMA SameTypes == (Q!TypeOK <=> QP!TypeOK) /\ (Q!TypeOK' <=> QP!TypeOK')
BY DEF Q!TypeOK, QP!TypeOK, Q!Node, QP!Node, Q!Timer, QP!Timer, Q!Wait, QP!Wait,
       Q!Handler, QP!Handler, Q!RespStatus, QP!RespStatus

LEMMA SamePush ==
    ASSUME NEW call \in Call, Q!Push(call)
    PROVE  QP!Push(call)
BY DEF Q!Push, QP!Push, Q!PushDuplicate, QP!PushDuplicate, Q!PushOverload,
       QP!PushOverload, Q!PushAccept, QP!PushAccept, Q!PushNoTimer, QP!PushNoTimer,
       Q!BeginPush, QP!BeginPush, Q!IsDuplicate, QP!IsDuplicate, Q!IsFull, QP!IsFull,
       Q!Running, QP!Running, Q!Nodes, QP!Nodes, Q!Armed, QP!Armed, Q!Cancelled,
       QP!Cancelled, Q!Completion, QP!Completion, Q!Crash, QP!Crash, Q!InQueue,
       QP!InQueue

LEMMA SamePop ==
    ASSUME NEW call \in Call, Q!PopCall(call)
    PROVE  QP!PopCall(call)
BY DEF Q!PopCall, QP!PopCall, Q!Running, QP!Running, Q!InQueue, QP!InQueue,
       Q!Cancelled, QP!Cancelled, Q!Completion, QP!Completion, Q!TimerReleased,
       QP!TimerReleased, Q!NumberForgotten, QP!NumberForgotten, Q!Popped, QP!Popped

LEMMA SameReset ==
    ASSUME NEW h \in posted, Q!OnCallReset(h)
    PROVE  QP!OnCallReset(h)
BY DEF Q!OnCallReset, QP!OnCallReset, Q!ResetIgnored, QP!ResetIgnored, Q!ResetErases,
       QP!ResetErases, Q!ResetDangling, QP!ResetDangling, Q!BeginReset, QP!BeginReset,
       Q!IgnoresReset, QP!IgnoresReset, Q!Running, QP!Running, Q!InQueue, QP!InQueue,
       Q!Nodes, QP!Nodes, Q!Unlinked, QP!Unlinked, Q!RemoveAt, QP!RemoveAt,
       Q!TimerReleased, QP!TimerReleased, Q!NumberForgotten, QP!NumberForgotten,
       Q!Crash, QP!Crash

LEMMA SameAssumption == QP!ConstantsAssumption
BY QueueAssumption DEF Q!ConstantsAssumption, QP!ConstantsAssumption

\* The types of the queue survive also the two steps that only Operators takes.
LEMMA QueueTypes ==
    ASSUME Q!TypeOK, QueueStep
    PROVE  Q!TypeOK'
<1>1. ASSUME NEW call \in Call, Q!Push(call) PROVE Q!TypeOK'
    BY <1>1, SamePush, SameTypes, SameAssumption, QP!TypePush
<1>2. ASSUME NEW call \in Call, Q!PopCall(call) PROVE Q!TypeOK'
    BY <1>2, SamePop, SameTypes, SameAssumption, QP!TypePop
<1>3. ASSUME NEW h \in posted, Q!OnCallReset(h) PROVE Q!TypeOK'
    BY <1>3, SameReset, SameTypes, SameAssumption, QP!TypeReset
<1>4. CASE Q!PopThrows
    <2>1. incoming_calls' \in Seq(Q!Node)
        BY <1>4, HeadTailProperties DEF Q!PopThrows, Q!Popped, Q!TypeOK
    <2> QED BY <1>4, <2>1 DEF Q!PopThrows, Q!TypeOK
<1>5. ASSUME NEW t \in Q!Timer, Q!TimerExpires(t) PROVE Q!TypeOK'
    BY <1>5 DEF Q!TimerExpires, Q!Completion, Q!Handler, Q!Wait, Q!TypeOK
<1>6. ASSUME NEW addr \in Addr, Q!Awake(addr) PROVE Q!TypeOK'
    <2>1. incoming_calls' \in Seq(Q!Node)
        <3>1. [addr |-> addr, call |-> Null] \in Q!Node
            BY DEF Q!Node
        <3> QED BY <1>6, <3>1, AppendProperties DEF Q!Awake, Q!TypeOK
    <2> QED BY <1>6, <2>1 DEF Q!Awake, Q!TypeOK
<1>7. CASE Q!PopNull
    BY <1>7 DEF Q!PopNull, Q!Crash, Q!TypeOK
<1>8. CASE UNCHANGED queueVars
    BY <1>8 DEF queueVars, Q!TypeOK
<1> QED BY <1>1, <1>2, <1>3, <1>4, <1>5, <1>6, <1>7, <1>8 DEF QueueStep

-----------------------------------------------------------------------------
(* A call is queued once and taken once *)

\* RemoveAt, by which OnCallReset unlinks a node: the lemma of the queue's proofs.
LEMMA RemoveAtProperties ==
    ASSUME NEW S, NEW s \in Seq(S), NEW k \in 1 .. Len(s)
    PROVE  /\ Q!RemoveAt(s, k) \in Seq(S)
           /\ Len(Q!RemoveAt(s, k)) = Len(s) - 1
           /\ \A j \in 1 .. Len(s) - 1 :
                 Q!RemoveAt(s, k)[j] = s[IF j < k THEN j ELSE j + 1]
BY QP!RemoveAtProperties, SameAssumption DEF Q!RemoveAt, QP!RemoveAt

CallAt(i) == incoming_calls[i].call

\* Weaker than the queue's own invariants, but kept after a freed iterator was used
\* and after awake(): a call in the queue has been pushed, has not been taken and is
\* not in the queue a second time.
QueuedOnce ==
    /\ \A i \in 1 .. Len(incoming_calls) :
          CallAt(i) # Null => reply[CallAt(i)] # "none" /\ CallAt(i) \notin taken
    /\ \A i, j \in 1 .. Len(incoming_calls) :
          i # j /\ CallAt(i) # Null => CallAt(i) # CallAt(j)
    /\ \A c \in taken : reply[c] # "none"

LEMMA CallTypes ==
    ASSUME Q!TypeOK
    PROVE  /\ Len(incoming_calls) \in Nat
           /\ \A i \in 1 .. Len(incoming_calls) : CallAt(i) \in Call \cup {Null}
<1>1. incoming_calls \in Seq(Q!Node)
    BY DEF Q!TypeOK
<1>2. \A i \in 1 .. Len(incoming_calls) : incoming_calls[i] \in Q!Node
    BY <1>1, ElementOfSeq
<1> QED BY <1>1, <1>2, LenProperties DEF CallAt, Q!Node

\* A node is put behind the others.
LEMMA NodeEnters ==
    ASSUME Q!TypeOK, NEW node \in Q!Node, incoming_calls' = Append(incoming_calls, node)
    PROVE  /\ Len(incoming_calls') = Len(incoming_calls) + 1
           /\ \A i \in 1 .. Len(incoming_calls) : CallAt(i)' = CallAt(i)
           /\ incoming_calls'[Len(incoming_calls) + 1].call = node.call
<1>1. incoming_calls \in Seq(Q!Node)
    BY DEF Q!TypeOK
<1>2. /\ Len(incoming_calls') = Len(incoming_calls) + 1
      /\ \A i \in 1 .. Len(incoming_calls) : incoming_calls'[i] = incoming_calls[i]
      /\ incoming_calls'[Len(incoming_calls) + 1] = node
    BY <1>1, AppendProperties
<1> QED BY <1>2 DEF CallAt

\* A node leaves the list from the k-th place, and its call may be taken.
LEMMA NodeLeaves ==
    ASSUME Q!TypeOK, QueuedOnce, NEW k \in 1 .. Len(incoming_calls),
           Len(incoming_calls') = Len(incoming_calls) - 1,
           \A j \in 1 .. Len(incoming_calls) - 1 :
              incoming_calls'[j] = incoming_calls[IF j < k THEN j ELSE j + 1],
           reply' = reply,
           taken' = taken \/ (CallAt(k) # Null /\ taken' = taken \cup {CallAt(k)})
    PROVE  QueuedOnce'
<1> DEFINE Old(j) == IF j < k THEN j ELSE j + 1
<1>1. Len(incoming_calls) \in Nat
    BY LenProperties DEF Q!TypeOK
<1>2. \A j \in 1 .. Len(incoming_calls') :
         Old(j) \in 1 .. Len(incoming_calls) /\ Old(j) # k /\ CallAt(j)' = CallAt(Old(j))
    BY <1>1 DEF CallAt
<1>3. \A i, j \in 1 .. Len(incoming_calls') : i # j => Old(i) # Old(j)
    BY <1>1
<1> HIDE DEF Old
<1>4. \A j \in 1 .. Len(incoming_calls') : CallAt(j)' # Null =>
         reply'[CallAt(j)'] # "none" /\ CallAt(j)' \notin taken'
    BY <1>2 DEF QueuedOnce
<1>5. \A i, j \in 1 .. Len(incoming_calls') :
         i # j /\ CallAt(i)' # Null => CallAt(i)' # CallAt(j)'
    BY <1>2, <1>3 DEF QueuedOnce
<1>6. \A c \in taken' : reply'[c] # "none"
    BY DEF QueuedOnce
<1> QED BY <1>4, <1>5, <1>6 DEF QueuedOnce

\* pop_front, which pop does on each of its paths.
LEMMA FrontLeaves ==
    ASSUME Q!TypeOK, incoming_calls # <<>>, incoming_calls' = Q!Popped
    PROVE  /\ 1 \in 1 .. Len(incoming_calls) /\ Head(incoming_calls) = incoming_calls[1]
           /\ Len(incoming_calls') = Len(incoming_calls) - 1
           /\ \A j \in 1 .. Len(incoming_calls) - 1 :
                 incoming_calls'[j] = incoming_calls[IF j < 1 THEN j ELSE j + 1]
<1>1. Len(incoming_calls) \in Nat \ {0}
    BY EmptySeq DEF Q!TypeOK
<1> QED BY <1>1, HeadTailProperties DEF Q!Popped, Q!TypeOK

LEMMA PushQueuedOnce ==
    ASSUME Q!TypeOK, QueuedOnce, NEW call \in Call, Q!Push(call)
    PROVE  QueuedOnce'
<1> USE DEF Q!TypeOK
<1>1. ASSUME NEW addr \in Addr, Q!PushAccept(call, addr) PROVE QueuedOnce'
    <2> USE <1>1 DEF Q!PushAccept, Q!BeginPush
    <2>1. [addr |-> addr, call |-> call] \in Q!Node
        BY DEF Q!Node
    <2>2. /\ Len(incoming_calls') = Len(incoming_calls) + 1
          /\ \A i \in 1 .. Len(incoming_calls) : CallAt(i)' = CallAt(i)
          /\ incoming_calls'[Len(incoming_calls) + 1].call = call
        BY <2>1, NodeEnters
    <2>3. Len(incoming_calls) \in Nat
        BY CallTypes
    <2>4. call \notin taken /\ \A i \in 1 .. Len(incoming_calls) : CallAt(i) # call
        BY QueueAssumption DEF QueuedOnce, Q!ConstantsAssumption
    <2>5. reply' = [reply EXCEPT ![call] = "OK"] /\ taken' = taken
        OBVIOUS
    <2>6. \A c \in Call : reply[c] # "none" => reply'[c] # "none"
        BY <2>5
    <2>7. \A i \in 1 .. Len(incoming_calls) : CallAt(i) \in Call \cup {Null}
        BY CallTypes
    <2> HIDE DEF Q!PushAccept, Q!BeginPush
    <2>8. \A i \in 1 .. Len(incoming_calls') :
             CallAt(i)' # Null => reply'[CallAt(i)'] # "none" /\ CallAt(i)' \notin taken'
        <3> TAKE i \in 1 .. Len(incoming_calls')
        <3>1. CASE i \in 1 .. Len(incoming_calls)
            BY <3>1, <2>2, <2>5, <2>6, <2>7 DEF QueuedOnce, CallAt
        <3>2. CASE i = Len(incoming_calls) + 1
            BY <3>2, <2>2, <2>4, <2>5 DEF CallAt
        <3> QED BY <2>2, <2>3, <3>1, <3>2 DEF CallAt
    <2>9. \A i, j \in 1 .. Len(incoming_calls') :
             i # j /\ CallAt(i)' # Null => CallAt(i)' # CallAt(j)'
        <3> TAKE i, j \in 1 .. Len(incoming_calls')
        <3>1. \A k \in 1 .. Len(incoming_calls') :
                 k \in 1 .. Len(incoming_calls) \/ k = Len(incoming_calls) + 1
            BY <2>2, <2>3
        <3>2. CASE i \in 1 .. Len(incoming_calls) /\ j \in 1 .. Len(incoming_calls)
            BY <3>2, <2>2 DEF QueuedOnce, CallAt
        <3>3. CASE i = Len(incoming_calls) + 1 \/ j = Len(incoming_calls) + 1
            BY <3>1, <3>3, <2>2, <2>4 DEF CallAt
        <3> QED BY <3>1, <3>2, <3>3 DEF CallAt
    <2>10. \A c \in taken' : reply'[c] # "none"
        BY <2>5, <2>6 DEF QueuedOnce
    <2> QED BY <2>8, <2>9, <2>10 DEF QueuedOnce, CallAt
<1>2. CASE Q!PushDuplicate(call) \/ Q!PushOverload(call)
    <2>1. \E status \in {"ALREADY_IN_QUEUE", "OVERLOAD"} :
             reply' = [reply EXCEPT ![call] = status]
        BY <1>2 DEF Q!PushDuplicate, Q!PushOverload
    <2>2. \A c : reply'[c] = "none" => c \notin Call \/ reply[c] = "none"
        BY <2>1
    <2>3. \A i \in 1 .. Len(incoming_calls) : CallAt(i) \in Call \cup {Null}
        BY CallTypes
    <2>4. UNCHANGED <<incoming_calls, taken>>
        BY <1>2 DEF Q!PushDuplicate, Q!PushOverload
    <2> QED BY <2>2, <2>3, <2>4 DEF QueuedOnce, CallAt
<1>3. CASE Q!PushNoTimer(call)
    BY <1>3 DEF Q!PushNoTimer, Q!Crash, QueuedOnce, CallAt
<1> QED BY <1>1, <1>2, <1>3 DEF Q!Push

LEMMA KeepsQueuedOnce ==
    ASSUME Q!TypeOK, QueuedOnce, QueueStep
    PROVE  QueuedOnce'
<1>1. ASSUME NEW call \in Call, Q!PopCall(call) PROVE QueuedOnce'
    <2>1. call # Null
        BY QueueAssumption DEF Q!ConstantsAssumption
    <2> QED BY <1>1, <2>1, FrontLeaves, NodeLeaves DEF Q!PopCall, CallAt
<1>2. CASE Q!PopThrows
    BY <1>2, FrontLeaves, NodeLeaves DEF Q!PopThrows
<1>3. ASSUME NEW h \in posted, Q!OnCallReset(h) PROVE QueuedOnce'
    <2>1. CASE Q!ResetIgnored(h)
        BY <2>1 DEF Q!ResetIgnored, QueuedOnce, CallAt
    <2>2. ASSUME NEW i \in 1 .. Len(incoming_calls), Q!ResetErases(h, i)
          PROVE  QueuedOnce'
        <3>1. incoming_calls' = Q!RemoveAt(incoming_calls, i)
            BY <2>2 DEF Q!ResetErases, Q!Unlinked
        <3>2. /\ Len(incoming_calls') = Len(incoming_calls) - 1
              /\ \A j \in 1 .. Len(incoming_calls) - 1 :
                    incoming_calls'[j] = incoming_calls[IF j < i THEN j ELSE j + 1]
            <4>1. incoming_calls \in Seq(Q!Node)
                BY DEF Q!TypeOK
            <4> QED BY <3>1, <4>1, RemoveAtProperties
        <3>3. UNCHANGED <<reply, taken>>
            BY <2>2 DEF Q!ResetErases
        <3> QED BY <3>2, <3>3, NodeLeaves
    <2>3. CASE Q!ResetDangling(h)
        BY <2>3 DEF Q!ResetDangling, Q!Crash, QueuedOnce, CallAt
    <2> QED BY <1>3, <2>1, <2>2, <2>3 DEF Q!OnCallReset
<1>4. ASSUME NEW addr \in Addr, Q!Awake(addr) PROVE QueuedOnce'
    <2>1. [addr |-> addr, call |-> Null] \in Q!Node
        BY DEF Q!Node
    <2>2. /\ Len(incoming_calls') = Len(incoming_calls) + 1
          /\ \A i \in 1 .. Len(incoming_calls) : CallAt(i)' = CallAt(i)
          /\ incoming_calls'[Len(incoming_calls) + 1].call = Null
        BY <1>4, <2>1, NodeEnters DEF Q!Awake
    <2>3. Len(incoming_calls) \in Nat /\ UNCHANGED <<reply, taken>>
        BY <1>4, CallTypes DEF Q!Awake
    <2>4. \A i \in 1 .. Len(incoming_calls') : CallAt(i)' # Null =>
             i \in 1 .. Len(incoming_calls) /\ CallAt(i)' = CallAt(i)
        BY <2>2, <2>3 DEF CallAt
    <2> QED BY <2>3, <2>4 DEF QueuedOnce, CallAt
<1>5. ASSUME NEW t \in Q!Timer, Q!TimerExpires(t) PROVE QueuedOnce'
    BY <1>5 DEF Q!TimerExpires, QueuedOnce, CallAt
<1>6. CASE Q!PopNull \/ UNCHANGED queueVars
    BY <1>6 DEF Q!PopNull, Q!Crash, queueVars, QueuedOnce, CallAt
<1> QED BY <1>1, <1>2, <1>3, <1>4, <1>5, <1>6, PushQueuedOnce DEF QueueStep
-----------------------------------------------------------------------------
(* Types, and a free operator from the end of the wait to pop_front *)

\* Stop clears continue_loop_ before it adds its fictitious operator, so AddCall is
\* entered, and a conversation started, only where there are operators.
OperatorsExist ==
    /\ continue_loop => main \in {"serving", "stopping", "stop_flag"}
    /\ run \in {"pop", "assign"} \/ ended # {} => 0 \in Op

Shape == TypeOK /\ OperatorStaysFree /\ OperatorsExist

\* The variables TypeOK speaks of besides those of the queue.
OwnTypes ==
    /\ free_operators \in Seq(Op \cup {0})
    /\ main \notin {"join", "done", "stop_awake"} => free_operators \in Seq(Op)
    /\ operators \in [Op -> Call \cup {Null}]
    /\ operator_id \in [Call -> Op \cup {0}]
    /\ ended \subseteq [call : Call, ec : {"success", "operation_aborted"}]
    /\ closing \subseteq Call
    /\ completed \in [Call -> Seq(Q!RespStatus)]
    /\ run \in RunPlaces
    /\ current \in Call \cup {Null}
    /\ continue_loop \in BOOLEAN
    /\ main \in MainPlaces

LEMMA TypesApart == (TypeOK <=> Q!TypeOK /\ OwnTypes) /\ (TypeOK' <=> Q!TypeOK' /\ OwnTypes')
BY DEF TypeOK, OwnTypes

OwnShape == OwnTypes /\ OperatorStaysFree /\ OperatorsExist

LEMMA RunShape ==
    ASSUME OwnShape, Run
    PROVE  OwnShape'
<1> USE DEF OwnShape, OwnTypes, OperatorStaysFree, OperatorsExist, RunMoves, RunPlaces,
            talkVars, opVars
<1>1. CASE FreeCheck \/ IncomingCheck \/ Sleep
    BY <1>1 DEF FreeCheck, IncomingCheck, Sleep
<1>2. CASE TestFlag
    <2>1. free_operators \in Seq(Op) /\ continue_loop => Head(free_operators) \in Op
        BY <1>2, HeadTailProperties DEF TestFlag
    <2>2. continue_loop => 0 \in Op
        BY <1>2, <2>1, OperatorsAssumption DEF TestFlag, Op
    <2> QED BY <1>2, <2>2 DEF TestFlag
<1>3. ASSUME NEW call \in Call, AddCallPop(call) PROVE OwnShape'
    <2>1. 0 \in Op
        BY <1>3 DEF AddCallPop
    <2> QED BY <1>3, <2>1 DEF AddCallPop
<1>4. CASE AddCallNothing \/ AddCallNull
    BY <1>4 DEF AddCallNothing, AddCallNull
<1>5. CASE AddCallAssign
    <2> DEFINE OpId == Head(free_operators)
    <2>1. 0 \in Op /\ Op \cup {0} = Op
        BY <1>5 DEF AddCallAssign
    <2>2. OpId \in Op /\ Tail(free_operators) \in Seq(Op)
        BY <1>5, <2>1, HeadTailProperties DEF AddCallAssign
    <2>3. free_operators' = Tail(free_operators)
        BY <1>5 DEF AddCallAssign, OperatorsLeft
    <2>4. operator_id' = [operator_id EXCEPT ![current] = OpId]
          /\ operators' = [operators EXCEPT ![OpId] = current]
        BY <1>5 DEF AddCallAssign
    <2>5. ended' \subseteq [call : Call, ec : {"success", "operation_aborted"}]
        <3>1. operators[OpId] # Null => operators[OpId] \in Call
            BY <2>2
        <3> QED BY <1>5, <3>1 DEF AddCallAssign
    <2> HIDE DEF OpId
    <2>6. operator_id' \in [Call -> Op \cup {0}] /\ operators' \in [Op -> Call \cup {Null}]
        BY <2>2, <2>4
    <2> QED BY <1>5, <2>1, <2>2, <2>3, <2>5, <2>6 DEF AddCallAssign
<1> QED BY <1>1, <1>2, <1>3, <1>4, <1>5 DEF Run

LEMMA IoThreadsShape ==
    ASSUME OwnShape, IoThreads
    PROVE  OwnShape'
<1> USE DEF OwnShape, OwnTypes, OperatorStaysFree, OperatorsExist, RunPlaces, Serving,
            talkVars, opVars
<1>1. ASSUME NEW call \in Call, PushCall(call) PROVE OwnShape'
    BY <1>1 DEF PushCall, NotifyIncoming, Notify
<1>2. ASSUME NEW call \in Call, EndCallRecords(call) PROVE OwnShape'
    <2>1. Append(completed[call], "OK") \in Seq(Q!RespStatus)
        BY AppendProperties DEF Q!RespStatus
    <2>2. completed' \in [Call -> Seq(Q!RespStatus)]
        BY <1>2, <2>1 DEF EndCallRecords
    <2> QED BY <1>2, <2>2 DEF EndCallRecords
<1>3. ASSUME NEW t \in Q!Timer, ExpireInQueue(t) PROVE OwnShape'
    BY <1>3 DEF ExpireInQueue
<1>4. ASSUME NEW h \in posted, ResetCall(h) PROVE OwnShape'
    BY <1>4 DEF ResetCall
<1>5. ASSUME NEW op \in Op, ConversationEnds(op) PROVE OwnShape'
    <2>1. 0 \in Op
        BY OperatorsAssumption DEF Op
    <2>2. operators[op] \in Call /\ operators' \in [Op -> Call \cup {Null}]
        BY <1>5 DEF ConversationEnds
    <2> QED BY <1>5, <2>1, <2>2 DEF ConversationEnds
<1>6. ASSUME NEW h \in ended, EndCallFrees(h) PROVE OwnShape'
    <2>1. 0 \in Op /\ Op \cup {0} = Op /\ operator_id[h.call] \in Op /\ h.call \in Call
        BY OperatorsAssumption DEF Op
    <2>2. CASE h.ec = "success"
        <3>1. free_operators' \in Seq(Op) /\ free_operators' # <<>>
            <4>1. free_operators' = Append(free_operators, operator_id[h.call])
                BY <1>6, <2>2 DEF EndCallFrees, Frees
            <4>2. free_operators \in Seq(Op)
                BY <1>6, <2>1 DEF EndCallFrees
            <4> QED BY <2>1, <4>1, <4>2, AppendProperties, EmptySeq
        <3>2. run' \in RunPlaces /\ (run' = run \/ run' = "free_check")
            BY <1>6, <2>2 DEF EndCallFrees, NotifyFree, Notify
        <3> QED BY <1>6, <2>1, <2>2, <3>1, <3>2 DEF EndCallFrees
    <2>3. CASE h.ec # "success"
        BY <1>6, <2>3 DEF EndCallFrees
    <2> QED BY <2>2, <2>3
<1> QED BY <1>1, <1>2, <1>3, <1>4, <1>5, <1>6 DEF IoThreads

LEMMA MainShape ==
    ASSUME OwnShape,
           SpuriousWakeup \/ StopContext \/ JoinIoThreads \/ Stop \/ JoinOperators
    PROVE  OwnShape'
<1> USE DEF OwnShape, OwnTypes, OperatorStaysFree, OperatorsExist, RunPlaces, RunMoves,
            MainMoves, MainPlaces, talkVars
<1>1. CASE SpuriousWakeup
    BY <1>1 DEF SpuriousWakeup
<1>2. CASE StopContext \/ JoinIoThreads \/ JoinOperators
    <2>1. UNCHANGED <<free_operators, operators, operator_id, ended, closing, completed,
                      run, current, continue_loop>>
        BY <1>2 DEF StopContext, JoinIoThreads, JoinOperators
    <2>2. main' \in {"stopping", "stop_flag", "done"} /\ (main' = "done" <=> main = "join")
        BY <1>2 DEF StopContext, JoinIoThreads, JoinOperators
    <2>3. main \in {"serving", "stopping", "join"}
        BY <1>2 DEF StopContext, JoinIoThreads, JoinOperators
    <2> QED BY <2>1, <2>2, <2>3
<1>3. CASE StopClearsFlag
    BY <1>3 DEF StopClearsFlag
<1>4. CASE StopPushesOperator
    <2>1. free_operators' \in Seq(Op \cup {0}) /\ free_operators' # <<>>
        BY <1>4, AppendProperties, EmptySeq DEF StopPushesOperator
    <2>2. run' \in RunPlaces /\ (run' = run \/ run' = "free_check")
        BY <1>4 DEF StopPushesOperator, NotifyFree, Notify
    <2> QED BY <1>4, <2>1, <2>2 DEF StopPushesOperator
<1>5. CASE StopAwakes
    BY <1>5 DEF StopAwakes, NotifyIncoming, Notify
<1> QED BY <1>1, <1>2, <1>3, <1>4, <1>5 DEF Stop

LEMMA ShapeStep ==
    ASSUME Shape, [Next]_vars
    PROVE  Shape'
<1>1. Q!TypeOK /\ OwnShape
    BY TypesApart DEF Shape, OwnShape
<1>2. Q!TypeOK'
    BY <1>1, NextIsQueueStep, QueueTypes
<1>3. OwnShape'
    <2>1. CASE UNCHANGED vars
        BY <1>1, <2>1 DEF vars, opVars, talkVars, OwnShape, OwnTypes, OperatorStaysFree,
                          OperatorsExist
    <2> QED BY <1>1, <2>1, RunShape, IoThreadsShape, MainShape DEF Next
<1> QED BY <1>2, <1>3, TypesApart DEF Shape, OwnShape

LEMMA ShapeInit == Init => Shape
<1> SUFFICES ASSUME Init PROVE Shape
    OBVIOUS
<1>1. Q!TypeOK
    <2>1. QP!Init
        BY DEF Init, Q!Init, QP!Init, Q!InitialTimers, QP!InitialTimers, Q!Timer, QP!Timer
    <2> QED BY <2>1, SameTypes, SameAssumption, QP!TypeInit
<1>2. InitialOperators \in Seq(Op)
    <2>1. \A i \in 1 .. count_op : i - 1 \in Op
        BY OperatorsAssumption DEF Op
    <2> QED BY <2>1, OperatorsAssumption DEF InitialOperators
<1>3. OwnTypes
    <2>1. Op \subseteq Op \cup {0}
        OBVIOUS
    <2>2. InitialOperators \in Seq(Op \cup {0})
        BY <1>2, <2>1, SeqDef
    <2> QED BY <1>2, <2>2 DEF Init, OwnTypes, RunPlaces, MainPlaces
<1>4. OperatorStaysFree /\ OperatorsExist
    BY DEF Init, OperatorStaysFree, OperatorsExist
<1> QED BY <1>1, <1>3, <1>4, TypesApart DEF Shape
-----------------------------------------------------------------------------
(* No operator is lost or given two calls *)

IsFree(op) == \E i \in 1 .. Len(free_operators) : free_operators[i] = op
IsBusy(op) == operators[op] # Null
IsOver(op) == \E h \in ended : operator_id[h.call] = op
ShuttingDown == main \in {"stop_awake", "join", "done"}

\* An operator is in one place.  The calls the operators have, in a conversation or at
\* its end, have been taken from the queue and are not the one AddCall holds, so the
\* field AddCall is about to set is no other operator's.
InOnePlace ==
    \A op \in Op : /\ IsFree(op) \/ IsBusy(op) \/ IsOver(op)
                   /\ ~(IsFree(op) /\ IsBusy(op))
                   /\ ~(IsFree(op) /\ IsOver(op))
                   /\ ~(IsBusy(op) /\ IsOver(op))
FreeOnce ==
    \A i, j \in 1 .. Len(free_operators) : i # j => free_operators[i] # free_operators[j]
BusyCalls ==
    \A op \in Op : IsBusy(op) =>
        /\ operator_id[operators[op]] = op
        /\ operators[op] \in taken
        /\ operators[op] # current
OverCalls ==
    /\ \A h \in ended : /\ h.ec = "success" /\ h.call \in taken /\ h.call # current
                        /\ operator_id[h.call] \in Op
    /\ \A g, h \in ended : operator_id[g.call] = operator_id[h.call] => g = h
Holds == run = "assign" => current \in taken

Talk == InOnePlace /\ FreeOnce /\ BusyCalls /\ OverCalls /\ Holds
Places == ~ShuttingDown => Talk

LEMMA TakenGrows == ASSUME QueueStep PROVE taken \subseteq taken'
BY DEF QueueStep, Q!Push, Q!PushDuplicate, Q!PushOverload, Q!PushAccept, Q!PushNoTimer,
       Q!PopCall, Q!PopThrows, Q!PopNull, Q!TimerExpires, Q!OnCallReset, Q!ResetIgnored,
       Q!ResetErases, Q!ResetDangling, Q!Awake, Q!Crash, queueVars

LEMMA TakenAreCalls ==
    ASSUME Q!TypeOK
    PROVE  taken \subseteq Call /\ Null \notin Call
BY QueueAssumption DEF Q!TypeOK, Q!ConstantsAssumption

\* The steps that move no operator.
LEMMA TalkFrame ==
    ASSUME Talk, taken \subseteq taken', run' = "assign" => run = "assign",
           UNCHANGED <<free_operators, operators, operator_id, ended, current>>
    PROVE  Talk'
BY DEF Talk, InOnePlace, FreeOnce, BusyCalls, OverCalls, Holds, IsFree, IsBusy, IsOver

LEMMA PopPlaces ==
    ASSUME Shape, QueuedOnce, Places, NEW call \in Call, AddCallPop(call)
    PROVE  Places'
<1> SUFFICES ASSUME Talk PROVE Talk'
    BY DEF Places, ShuttingDown, AddCallPop
<1>1. Q!TypeOK
    BY DEF Shape, TypeOK
<1>2. call \notin taken /\ taken' = taken \cup {call}
    <2>1. incoming_calls # <<>> /\ incoming_calls' = Q!Popped /\ call # Null
        BY <1>1, TakenAreCalls DEF AddCallPop, Q!PopCall
    <2>2. 1 \in 1 .. Len(incoming_calls) /\ CallAt(1) = call
        BY <1>1, <2>1, FrontLeaves DEF AddCallPop, Q!PopCall, CallAt
    <2> QED BY <2>1, <2>2 DEF QueuedOnce, AddCallPop, Q!PopCall
<1>3. UNCHANGED <<free_operators, operators, operator_id, ended>> /\ current' = call
    BY DEF AddCallPop, talkVars
<1> QED BY <1>2, <1>3 DEF Talk, InOnePlace, FreeOnce, BusyCalls, OverCalls, Holds,
                          IsFree, IsBusy, IsOver

LEMMA AssignPlaces ==
    ASSUME Shape, Places, AddCallAssign
    PROVE  Places'
<1> SUFFICES ASSUME Talk, ~ShuttingDown PROVE Talk'
    BY DEF Places, ShuttingDown, AddCallAssign
<1>1. /\ Q!TypeOK /\ free_operators \in Seq(Op) /\ free_operators # <<>>
      /\ operators \in [Op -> Call \cup {Null}]
      /\ operator_id \in [Call -> Op \cup {0}]
    BY DEF Shape, TypeOK, ShuttingDown, AddCallAssign
<1>2. current \in taken /\ current \in Call /\ Null \notin Call /\ taken \subseteq Call
    BY <1>1, TakenAreCalls DEF Talk, Holds, AddCallAssign, RunMoves
<1> DEFINE OpId == Head(free_operators)
<1>3. /\ OpId \in Op /\ OpId = free_operators[1]
      /\ Len(free_operators) \in Nat \ {0}
      /\ Len(Tail(free_operators)) = Len(free_operators) - 1
      /\ \A i \in 1 .. Len(free_operators) - 1 :
            Tail(free_operators)[i] = free_operators[i + 1]
    BY <1>1, HeadTailProperties, EmptySeq
<1>4. IsFree(OpId)
    BY <1>3 DEF IsFree
<1>5. operators[OpId] = Null
    BY <1>3, <1>4 DEF Talk, InOnePlace, IsBusy
<1>6. /\ operator_id' = [operator_id EXCEPT ![current] = OpId]
      /\ operators' = [operators EXCEPT ![OpId] = current]
      /\ free_operators' = Tail(free_operators)
      /\ ended' = ended /\ taken' = taken /\ current' = Null /\ run' = "free_check"
    BY <1>5 DEF AddCallAssign, OperatorsLeft, queueVars, RunMoves
<1> HIDE DEF OpId
<1>7. \A op \in Op : IsBusy(op)' <=> IsBusy(op) \/ op = OpId
    BY <1>1, <1>2, <1>3, <1>6 DEF IsBusy
<1>8. \A h \in ended : operator_id'[h.call] = operator_id[h.call]
    BY <1>1, <1>2, <1>6 DEF Talk, OverCalls
<1>9. \A op \in Op : IsOver(op)' <=> IsOver(op)
    BY <1>6, <1>8 DEF IsOver
<1>10. \A op \in Op : IsFree(op)' <=> IsFree(op) /\ op # OpId
    <2> TAKE op \in Op
    <2>1. \A i \in 2 .. Len(free_operators) : free_operators[i] # OpId
        BY <1>3 DEF Talk, FreeOnce
    <2>2. ASSUME IsFree(op)' PROVE IsFree(op) /\ op # OpId
        <3>1. PICK i \in 1 .. Len(free_operators) - 1 : free_operators[i + 1] = op
            BY <1>3, <1>6, <2>2 DEF IsFree
        <3>2. i + 1 \in 2 .. Len(free_operators) /\ i + 1 \in 1 .. Len(free_operators)
            BY <1>3
        <3> QED BY <2>1, <3>1, <3>2 DEF IsFree
    <2>3. ASSUME IsFree(op), op # OpId PROVE IsFree(op)'
        <3>1. PICK i \in 1 .. Len(free_operators) : free_operators[i] = op
            BY <2>3 DEF IsFree
        <3>2. i - 1 \in 1 .. Len(free_operators) - 1 /\ (i - 1) + 1 = i
            BY <1>3, <2>3, <3>1
        <3>3. Tail(free_operators)[i - 1] = op
            BY <1>3, <3>1, <3>2
        <3>4. i - 1 \in 1 .. Len(free_operators') /\ free_operators'[i - 1] = op
            BY <1>3, <1>6, <3>2, <3>3
        <3> QED BY <3>4 DEF IsFree
    <2> QED BY <2>2, <2>3
<1>11. InOnePlace'
    BY <1>4, <1>7, <1>9, <1>10 DEF Talk, InOnePlace
<1>12. FreeOnce'
    BY <1>3, <1>6 DEF Talk, FreeOnce
<1>13. BusyCalls'
    <2> SUFFICES ASSUME NEW op \in Op, IsBusy(op)'
                 PROVE  /\ operator_id'[operators'[op]] = op
                        /\ operators'[op] \in taken /\ operators'[op] # Null
        BY <1>6 DEF BusyCalls
    <2>1. CASE op = OpId
        BY <1>1, <1>2, <1>3, <1>6, <2>1
    <2>2. CASE op # OpId
        <3>1. operators'[op] = operators[op] /\ IsBusy(op)
            BY <1>1, <1>6, <1>7, <2>2
        <3>2. operators[op] # current /\ operators[op] \in taken
              /\ operator_id[operators[op]] = op
            BY <3>1 DEF Talk, BusyCalls
        <3> QED BY <1>1, <1>2, <1>6, <3>1, <3>2
    <2> QED BY <2>1, <2>2
<1>14. OverCalls'
    BY <1>2, <1>6, <1>8 DEF Talk, OverCalls
<1> QED BY <1>6, <1>11, <1>12, <1>13, <1>14 DEF Talk, Holds

LEMMA EndsPlaces ==
    ASSUME Shape, Places, NEW o \in Op, ConversationEnds(o)
    PROVE  Places'
<1> SUFFICES ASSUME Talk PROVE Talk'
    BY DEF Places, ShuttingDown, ConversationEnds, Serving
<1>1. operators \in [Op -> Call \cup {Null}] /\ IsBusy(o)
    BY DEF Shape, TypeOK, ConversationEnds, IsBusy
<1> DEFINE h == [call |-> operators[o], ec |-> "success"]
<1>2. /\ UNCHANGED <<free_operators, operator_id, current, run, taken>>
      /\ operators' = [operators EXCEPT ![o] = Null] /\ ended' = ended \cup {h}
    BY DEF ConversationEnds, queueVars
<1>3. h.call = operators[o] /\ h.ec = "success"
    OBVIOUS
<1> HIDE DEF h
<1>4. operator_id[h.call] = o /\ h.call \in taken /\ h.call # current
    BY <1>1, <1>3 DEF Talk, BusyCalls
<1>5. \A g \in ended : operator_id[g.call] # o
    BY <1>1 DEF Talk, InOnePlace, IsOver
<1>6. \A op \in Op : /\ IsFree(op)' <=> IsFree(op)
                     /\ IsBusy(op)' <=> IsBusy(op) /\ op # o
                     /\ IsOver(op)' <=> IsOver(op) \/ op = o
    BY <1>1, <1>2, <1>4 DEF IsFree, IsBusy, IsOver
<1>7. InOnePlace'
    BY <1>1, <1>6 DEF Talk, InOnePlace
<1>8. FreeOnce' /\ Holds'
    BY <1>2 DEF Talk, FreeOnce, Holds
<1>9. BusyCalls'
    BY <1>1, <1>2, <1>6 DEF Talk, BusyCalls
<1>10. OverCalls'
    BY <1>2, <1>3, <1>4, <1>5 DEF Talk, OverCalls
<1> QED BY <1>7, <1>8, <1>9, <1>10 DEF Talk

\* While handlers run, no wait for the end of a conversation is cancelled: AddCall sets
\* the timer of an operator who is not in a conversation.
LEMMA NoneAborted ==
    ASSUME Places, NEW h \in ended, EndCallFrees(h)
    PROVE  h.ec = "success"
BY DEF Places, ShuttingDown, EndCallFrees, Serving, Talk, OverCalls

LEMMA FreesPlaces ==
    ASSUME Shape, Places, NEW h \in ended, EndCallFrees(h)
    PROVE  Places'
<1> SUFFICES ASSUME Talk PROVE Talk'
    BY DEF Places, ShuttingDown, EndCallFrees, Serving
<1> DEFINE o == operator_id[h.call]
<1>1. free_operators \in Seq(Op) /\ o \in Op
    BY DEF Shape, TypeOK, EndCallFrees, Serving, Talk, OverCalls
<1>2. /\ UNCHANGED <<operators, operator_id, current, taken>>
      /\ run' = "assign" => run = "assign"
      /\ ended' = ended \ {h} /\ free_operators' = Append(free_operators, o)
    BY NoneAborted DEF EndCallFrees, Frees, NotifyFree, Notify, queueVars
<1>3. /\ Len(free_operators) \in Nat
      /\ Len(free_operators') = Len(free_operators) + 1
      /\ \A i \in 1 .. Len(free_operators) : free_operators'[i] = free_operators[i]
      /\ free_operators'[Len(free_operators) + 1] = o
    BY <1>1, <1>2, AppendProperties, LenProperties
<1>4. IsOver(o)
    BY DEF IsOver
<1> HIDE DEF o
<1>5. ~IsFree(o) /\ ~IsBusy(o)
    BY <1>1, <1>4 DEF Talk, InOnePlace
<1>6. \A op \in Op : IsFree(op)' <=> IsFree(op) \/ op = o
    BY <1>3 DEF IsFree
<1>7. \A op \in Op : IsOver(op)' <=> IsOver(op) /\ op # o
    BY <1>2 DEF Talk, OverCalls, IsOver, o
<1>8. InOnePlace'
    BY <1>2, <1>5, <1>6, <1>7, <1>1 DEF Talk, InOnePlace, IsBusy
<1>9. FreeOnce'
    BY <1>3, <1>5 DEF Talk, FreeOnce, IsFree
<1>10. BusyCalls' /\ OverCalls' /\ Holds'
    BY <1>2 DEF Talk, BusyCalls, OverCalls, Holds, IsBusy
<1> QED BY <1>8, <1>9, <1>10 DEF Talk

LEMMA PlacesStep ==
    ASSUME Shape, QueuedOnce, Places, [Next]_vars
    PROVE  Places'
<1>1. taken \subseteq taken'
    BY NextIsQueueStep, TakenGrows
<1>2. ASSUME UNCHANGED <<free_operators, operators, operator_id, ended, current>>,
             run' = "assign" => run = "assign", ShuttingDown => ShuttingDown'
      PROVE  Places'
    BY <1>1, <1>2, TalkFrame DEF Places
<1>3. CASE IoThreads
    <2>1. ASSUME NEW call \in Call, PushCall(call) \/ EndCallRecords(call) PROVE Places'
        BY <2>1, <1>2 DEF PushCall, EndCallRecords, NotifyIncoming, Notify, talkVars,
                          ShuttingDown
    <2>2. ASSUME NEW t \in Q!Timer, ExpireInQueue(t) PROVE Places'
        BY <2>2, <1>2 DEF ExpireInQueue, opVars, talkVars, ShuttingDown
    <2>3. ASSUME NEW h \in posted, ResetCall(h) PROVE Places'
        BY <2>3, <1>2 DEF ResetCall, opVars, talkVars, ShuttingDown
    <2> QED BY <1>3, <2>1, <2>2, <2>3, EndsPlaces, FreesPlaces DEF IoThreads
<1>4. CASE Run
    <2>1. CASE FreeCheck \/ IncomingCheck \/ Sleep \/ TestFlag
        BY <2>1, <1>2 DEF FreeCheck, IncomingCheck, Sleep, TestFlag, RunMoves, talkVars,
                          ShuttingDown
    <2>2. CASE AddCallNothing \/ AddCallNull
        BY <2>2, <1>2 DEF AddCallNothing, AddCallNull, RunMoves, opVars, talkVars,
                          ShuttingDown
    <2> QED BY <1>4, <2>1, <2>2, PopPlaces, AssignPlaces DEF Run
<1>5. CASE SpuriousWakeup \/ StopContext \/ JoinIoThreads \/ JoinOperators
    BY <1>5, <1>2 DEF SpuriousWakeup, StopContext, JoinIoThreads, JoinOperators, RunMoves,
                      MainMoves, talkVars, ShuttingDown
<1>6. CASE Stop
    <2>1. CASE StopPushesOperator
        BY <2>1 DEF StopPushesOperator, MainMoves, Places, ShuttingDown
    <2>2. CASE StopClearsFlag \/ StopAwakes
        BY <2>2, <1>2 DEF StopClearsFlag, StopAwakes, NotifyIncoming, Notify, MainMoves,
                          talkVars, ShuttingDown
    <2> QED BY <1>6, <2>1, <2>2 DEF Stop
<1>7. CASE UNCHANGED vars
    BY <1>7, <1>2 DEF vars, opVars, talkVars, ShuttingDown
<1> QED BY <1>3, <1>4, <1>5, <1>6, <1>7 DEF Next

LEMMA PlacesInit == Init => QueuedOnce /\ Places
<1> SUFFICES ASSUME Init PROVE QueuedOnce /\ Talk
    BY DEF Places
<1>1. QueuedOnce
    BY DEF Init, Q!Init, QueuedOnce, CallAt
<1>2. /\ Len(free_operators) = count_op
      /\ \A i \in 1 .. count_op : free_operators[i] = i - 1
    BY OperatorsAssumption DEF Init, InitialOperators
<1>3. \A op \in Op : op + 1 \in 1 .. count_op /\ (op + 1) - 1 = op
    BY OperatorsAssumption DEF Op
<1>4. \A op \in Op : IsFree(op) /\ ~IsBusy(op) /\ ~IsOver(op)
    BY <1>2, <1>3 DEF IsFree, IsBusy, IsOver, Init
<1> QED BY <1>1, <1>2, <1>4, OperatorsAssumption
        DEF Talk, InOnePlace, FreeOnce, BusyCalls, OverCalls, Holds, Init
-----------------------------------------------------------------------------
(* The theorems *)

LEMMA Invariance == Spec => [](Shape /\ QueuedOnce /\ Places)
<1>1. Init => Shape /\ QueuedOnce /\ Places
    BY ShapeInit, PlacesInit
<1>2. Shape /\ QueuedOnce /\ Places /\ [Next]_vars => (Shape /\ QueuedOnce /\ Places)'
    BY ShapeStep, PlacesStep, KeepsQueuedOnce, NextIsQueueStep DEF Shape, TypeOK
<1> QED BY <1>1, <1>2, PTL DEF Spec

\* Every variable has its type, whatever the calls, the places and the number of
\* operators, zero of them included: the fields and containers of the queue and of
\* the operators, and where the threads are in Run, Stop and Start.
THEOREM TypeCorrect == Spec => []TypeOK
<1>1. Shape => TypeOK
    BY DEF Shape
<1> QED BY <1>1, Invariance, PTL

\* pop_front in AddCall, outside its try block, always finds an operator: the one that
\* free_operators_.wait() saw, though no lock is held in between.
THEOREM PopFrontNeverThrows == Spec => []OperatorStaysFree
<1>1. Shape => OperatorStaysFree
    BY DEF Shape
<1> QED BY <1>1, Invariance, PTL

\* The number of elements of a set that has at most the element x.
LEMMA AtMostOne ==
    ASSUME NEW S, NEW x, S \subseteq {x}
    PROVE  /\ x \in S => Cardinality(S) = 1
           /\ x \notin S => Cardinality(S) = 0
<1>1. CASE S = {}
    BY <1>1, FS_EmptySet
<1>2. CASE S = {x}
    BY <1>2, FS_Singleton
<1> QED BY <1>1, <1>2

LEMMA PlacesCount ==
    ASSUME Shape, Places
    PROVE  OperatorsConserved
<1> SUFFICES ASSUME Talk, ~ShuttingDown, NEW op \in Op
             PROVE  LET free == {i \in 1 .. Len(free_operators) : free_operators[i] = op}
                        over == {h \in ended : operator_id[h.call] = op}
                        busy == {c \in {operators[op]} : c # Null}
                    IN  /\ Cardinality(free) + Cardinality(over) + Cardinality(busy) = 1
                        /\ \A c \in busy : operator_id[c] = op
    BY DEF Places, ShuttingDown, OperatorsConserved
<1> DEFINE free == {i \in 1 .. Len(free_operators) : free_operators[i] = op}
           over == {h \in ended : operator_id[h.call] = op}
           busy == {c \in {operators[op]} : c # Null}
<1>1. Cardinality(free) = IF IsFree(op) THEN 1 ELSE 0
    <2>1. CASE IsFree(op)
        <3>1. PICK i \in free : TRUE
            BY <2>1 DEF IsFree
        <3>2. free \subseteq {i}
            BY <3>1 DEF Talk, FreeOnce
        <3> QED BY <2>1, <3>1, <3>2, AtMostOne
    <2>2. CASE ~IsFree(op)
        <3>1. free = {}
            BY <2>2 DEF IsFree
        <3> QED BY <2>2, <3>1, FS_EmptySet
    <2> QED BY <2>1, <2>2
<1>2. Cardinality(over) = IF IsOver(op) THEN 1 ELSE 0
    <2>1. CASE IsOver(op)
        <3>1. PICK h \in over : TRUE
            BY <2>1 DEF IsOver
        <3>2. over \subseteq {h}
            BY <3>1 DEF Talk, OverCalls
        <3> QED BY <2>1, <3>1, <3>2, AtMostOne
    <2>2. CASE ~IsOver(op)
        <3>1. over = {}
            BY <2>2 DEF IsOver
        <3> QED BY <2>2, <3>1, FS_EmptySet
    <2> QED BY <2>1, <2>2
<1>3. Cardinality(busy) = IF IsBusy(op) THEN 1 ELSE 0
    <2>1. busy \subseteq {operators[op]} /\ (operators[op] \in busy <=> IsBusy(op))
        BY DEF IsBusy
    <2> HIDE DEF busy
    <2> QED BY <2>1, AtMostOne
<1>4. \A c \in busy : operator_id[c] = op
    BY DEF Talk, BusyCalls, IsBusy
<1>5. Cardinality(free) + Cardinality(over) + Cardinality(busy) = 1
    <2> HIDE DEF free, over, busy
    <2> QED BY <1>1, <1>2, <1>3 DEF Talk, InOnePlace
<1> QED BY <1>4, <1>5

\* Until Stop adds its fictitious operator, every operator is free, in a conversation or
\* at the end of one, once and in one of the three only, for any number of operators.
THEOREM OperatorsAreConserved == Spec => []OperatorsConserved
<1>1. Shape /\ Places => OperatorsConserved
    BY PlacesCount
<1> QED BY <1>1, Invariance, PTL

-----------------------------------------------------------------------------
(* The queue before and after awake() *)

\* Nothing enters the queue once awake() has put its null pointer behind the calls.
Closed == main \in {"join", "done"}

LEMMA SameExpiry ==
    ASSUME NEW t \in Q!Timer, Q!TimerExpires(t)
    PROVE  t \in QP!Timer /\ QP!TimerExpires(t)
BY DEF Q!TimerExpires, QP!TimerExpires, Q!Completion, QP!Completion, Q!Running,
       QP!Running, Q!Timer, QP!Timer

LEMMA SameThrow == Q!PopThrows => QP!PopThrows
BY DEF Q!PopThrows, QP!PopThrows, Q!Running, QP!Running, Q!InQueue, QP!InQueue, Q!Popped,
       QP!Popped

LEMMA SameFate == (Q!OneFate <=> QP!OneFate) /\ (Q!OneFate' <=> QP!OneFate')
BY DEF Q!OneFate, QP!OneFate, Q!Queued, QP!Queued

\* While main has not called awake(), a step of the queue is one that its own proofs
\* are about, or the dereferencing of a null pointer.
LEMMA OpenStep ==
    ASSUME [Next]_vars, ~Closed'
    PROVE  ~Closed /\ (QP!Next \/ Q!PopNull \/ UNCHANGED QP!vars)
<1>1. ~Closed
    BY DEF Closed, Next, IoThreads, PushCall, ExpireInQueue, ResetCall, ConversationEnds,
           EndCallFrees, EndCallRecords, Run, FreeCheck, IncomingCheck, Sleep, TestFlag,
           AddCallPop, AddCallNothing, AddCallNull, AddCallAssign, SpuriousWakeup,
           StopContext, JoinIoThreads, Stop, StopClearsFlag, StopPushesOperator,
           StopAwakes, JoinOperators, MainMoves, opVars, vars
<1>2. ASSUME UNCHANGED queueVars PROVE UNCHANGED QP!vars
    BY <1>2 DEF queueVars, QP!vars
<1>3. CASE IoThreads
    <2>1. ASSUME NEW call \in Call, PushCall(call) PROVE QP!Next
        BY <2>1, SamePush DEF PushCall, QP!Next
    <2>2. ASSUME NEW t \in Q!Timer, ExpireInQueue(t) PROVE QP!Next
        BY <2>2, SameExpiry DEF ExpireInQueue, QP!Next
    <2>3. ASSUME NEW h \in posted, ResetCall(h) PROVE QP!Next
        BY <2>3, SameReset DEF ResetCall, QP!Next
    <2> QED BY <1>1, <1>2, <1>3, <2>1, <2>2, <2>3
            DEF IoThreads, ConversationEnds, EndCallFrees, EndCallRecords
<1>4. CASE Run
    <2>1. ASSUME NEW call \in Call, AddCallPop(call) PROVE QP!Next
        BY <2>1, SamePop DEF AddCallPop, QP!Next
    <2>2. CASE AddCallNothing
        BY <2>2, <1>1, <1>2, SameThrow DEF AddCallNothing, QP!Next
    <2> QED BY <1>1, <1>2, <1>4, <2>1, <2>2, SameThrow
            DEF Run, FreeCheck, IncomingCheck, Sleep, TestFlag, AddCallNull,
                AddCallAssign, QP!Next
<1>5. CASE SpuriousWakeup \/ StopContext \/ JoinIoThreads \/ Stop \/ JoinOperators
    <2>1. ~StopAwakes
        BY DEF StopAwakes, MainMoves, Closed
    <2> QED BY <1>1, <1>2, <1>5, <2>1
            DEF SpuriousWakeup, StopContext, JoinIoThreads, Stop, StopClearsFlag,
                StopPushesOperator, JoinOperators
<1>6. CASE UNCHANGED vars
    BY <1>1, <1>2, <1>6 DEF vars
<1> QED BY <1>3, <1>4, <1>5, <1>6 DEF Next

\* After it, only pop touches the queue.
LEMMA ClosedStep ==
    ASSUME [Next]_vars, Closed
    PROVE  /\ Closed' /\ (main = "done" => main' = "done")
           /\ \/ run = "pop" /\ \E call \in Call : Q!PopCall(call)
              \/ run = "pop" /\ (Q!PopThrows \/ Q!PopNull)
              \/ UNCHANGED queueVars
           /\ run' = run \/ run # "exit"
           /\ main' = "done" => main = "done" \/ run' = "exit"
<1>1. CASE Run
    BY <1>1 DEF Run, FreeCheck, IncomingCheck, Sleep, TestFlag, AddCallPop, AddCallNothing,
                AddCallNull, AddCallAssign, RunMoves, opVars, Closed
<1>2. ~IoThreads \/ \E call \in Call : EndCallRecords(call)
    BY DEF IoThreads, PushCall, ExpireInQueue, ResetCall, ConversationEnds, EndCallFrees,
           Serving, Closed
<1>3. \A call \in Call : ~EndCallRecords(call)
    BY DEF EndCallRecords, Closed
<1>4. CASE SpuriousWakeup \/ JoinOperators
    BY <1>4 DEF SpuriousWakeup, JoinOperators, RunMoves, MainMoves, Closed
<1>5. ~(StopContext \/ JoinIoThreads \/ Stop)
    BY DEF StopContext, JoinIoThreads, Stop, StopClearsFlag, StopPushesOperator, StopAwakes,
           MainMoves, Closed
<1>6. CASE UNCHANGED vars
    BY <1>6 DEF vars, opVars, Closed
<1> QED BY <1>1, <1>2, <1>3, <1>4, <1>5, <1>6 DEF Next

\* What the calls before the null pointer keep of the queue's invariants.
Line ==
    heap = "sound" =>
        /\ \A i \in 1 .. Len(incoming_calls) :
              IF CallAt(i) = Null THEN i = Len(incoming_calls)
                                  ELSE Q!InQueue(cg_pn[CallAt(i)])
        /\ \A i, j \in 1 .. Len(incoming_calls) :
              i # j /\ CallAt(i) # Null /\ CallAt(j) # Null =>
                 cg_pn[CallAt(i)] # cg_pn[CallAt(j)]

QueueInv ==
    /\ ~Closed => QP!IInv
    /\ Closed => Line /\ Q!OneFate
    /\ main = "done" => run = "exit"

LEMMA AwakeCloses ==
    ASSUME Shape, QP!IInv, StopAwakes
    PROVE  Line' /\ Q!OneFate'
<1>1. PICK addr \in Addr : Q!Awake(addr)
    BY DEF StopAwakes
<1>2. Q!TypeOK /\ [addr |-> addr, call |-> Null] \in Q!Node /\ Null \notin Call
    BY QueueAssumption DEF Shape, TypeOK, Q!Node, Q!ConstantsAssumption
<1>3. /\ Len(incoming_calls') = Len(incoming_calls) + 1
      /\ \A i \in 1 .. Len(incoming_calls) : CallAt(i)' = CallAt(i)
      /\ incoming_calls'[Len(incoming_calls) + 1].call = Null
    BY <1>1, <1>2, NodeEnters DEF Q!Awake
<1>4. UNCHANGED <<map_cg_pn_to_pos, reply, taken, cdr, heap>>
    BY <1>1 DEF Q!Awake
<1>5. Len(incoming_calls) \in Nat
    BY <1>2, CallTypes
<1>6. Line'
    <2> SUFFICES ASSUME heap = "sound" PROVE Line'
        BY <1>4 DEF Line
    <2>1. /\ \A i \in 1 .. Len(incoming_calls) :
                CallAt(i) \in Call /\ Q!InQueue(cg_pn[CallAt(i)])
          /\ \A i, j \in 1 .. Len(incoming_calls) :
                i # j => cg_pn[CallAt(i)] # cg_pn[CallAt(j)]
        BY DEF QP!IInv, QP!ListMatchesMap, QP!InQueue, Q!InQueue, CallAt
    <2>2. \A i \in 1 .. Len(incoming_calls') :
             \/ i \in 1 .. Len(incoming_calls)
             \/ i = Len(incoming_calls') /\ CallAt(i)' = Null
        BY <1>3, <1>5 DEF CallAt
    <2> QED BY <1>2, <1>3, <1>4, <2>1, <2>2 DEF Line, Q!InQueue, CallAt
<1>7. Q!OneFate'
    <2>1. Q!OneFate
        BY SameFate DEF QP!IInv
    <2>2. \A c \in Call : Q!Queued(c)' <=> Q!Queued(c)
        BY <1>2, <1>3, <1>5 DEF Q!Queued, CallAt
    <2> QED BY <1>4, <2>1, <2>2 DEF Q!OneFate
<1> QED BY <1>6, <1>7

LEMMA PopKeepsLine ==
    ASSUME Q!TypeOK, QueuedOnce, Line, Q!OneFate, heap = "sound",
           NEW call \in Call, Q!PopCall(call)
    PROVE  Line' /\ Q!OneFate'
<1>1. /\ incoming_calls # <<>> /\ incoming_calls' = Q!Popped
      /\ map_cg_pn_to_pos' = [map_cg_pn_to_pos EXCEPT ![cg_pn[call]] = Null]
      /\ taken' = taken \cup {call} /\ UNCHANGED <<reply, cdr, heap>>
    BY DEF Q!PopCall, Q!NumberForgotten
<1>2. /\ 1 \in 1 .. Len(incoming_calls) /\ CallAt(1) = call
      /\ Len(incoming_calls') = Len(incoming_calls) - 1
      /\ \A j \in 1 .. Len(incoming_calls) - 1 : CallAt(j)' = CallAt(j + 1)
    BY <1>1, FrontLeaves DEF Q!PopCall, CallAt
<1>3. Len(incoming_calls) \in Nat /\ Null \notin Call
      /\ \A i \in 1 .. Len(incoming_calls) : CallAt(i) \in Call \cup {Null}
    BY CallTypes, TakenAreCalls
<1>4. \A j \in 1 .. Len(incoming_calls') :
         j + 1 \in 1 .. Len(incoming_calls) /\ j + 1 # 1 /\ CallAt(j)' = CallAt(j + 1)
    BY <1>2, <1>3
<1>5. Line'
    <2>1. \A j \in 1 .. Len(incoming_calls') : CallAt(j)' # Null =>
             cg_pn[CallAt(j)'] # cg_pn[call] /\ Q!InQueue(cg_pn[CallAt(j)'])
        BY <1>2, <1>3, <1>4 DEF Line
    <2>3. \A c \in Call : cg_pn[c] \in CgPn
        BY QueueAssumption DEF Q!ConstantsAssumption
    <2>4. \A j \in 1 .. Len(incoming_calls') :
             CallAt(j)' # Null => map_cg_pn_to_pos'[cg_pn[CallAt(j)']] # Null
        <3> TAKE j \in 1 .. Len(incoming_calls')
        <3>1. CallAt(j)' \in Call \cup {Null}
            BY <1>3, <1>4
        <3> QED BY <1>1, <2>1, <2>3, <3>1 DEF Q!InQueue, Q!TypeOK
    <2>5. \A j \in 1 .. Len(incoming_calls') : CallAt(j)' = Null => j = Len(incoming_calls')
        BY <1>2, <1>3, <1>4 DEF Line
    <2>6. \A i, j \in 1 .. Len(incoming_calls') :
             i # j /\ CallAt(i)' # Null /\ CallAt(j)' # Null =>
                cg_pn[CallAt(i)'] # cg_pn[CallAt(j)']
        BY <1>3, <1>4 DEF Line
    <2> QED BY <2>4, <2>5, <2>6 DEF Line, CallAt, Q!InQueue
<1>6. Q!OneFate'
    <2>1. \A c \in Call : Q!Queued(c)' <=> Q!Queued(c) /\ c # call
        <3> TAKE c \in Call
        <3>1. ASSUME Q!Queued(c)' PROVE Q!Queued(c) /\ c # call
            <4>1. PICK j \in 1 .. Len(incoming_calls') : CallAt(j)' = c
                BY <3>1 DEF Q!Queued, CallAt
            <4> QED BY <1>2, <1>3, <1>4, <4>1 DEF Q!Queued, QueuedOnce, CallAt
        <3>2. ASSUME Q!Queued(c), c # call PROVE Q!Queued(c)'
            <4>1. PICK i \in 1 .. Len(incoming_calls) : CallAt(i) = c
                BY <3>2 DEF Q!Queued, CallAt
            <4>2. i - 1 \in 1 .. Len(incoming_calls') /\ (i - 1) + 1 = i
                BY <1>2, <1>3, <3>2, <4>1
            <4>3. CallAt(i - 1)' = c
                BY <1>4, <4>1, <4>2
            <4> QED BY <4>2, <4>3 DEF Q!Queued, CallAt
        <3> QED BY <3>1, <3>2
    <2>2. Q!Queued(call)
        BY <1>2 DEF Q!Queued, CallAt
    <2> QED BY <1>1, <2>1, <2>2 DEF Q!OneFate
<1> QED BY <1>5, <1>6

\* The front of the queue when the heap is sound: not null before awake(), and after it
\* null only behind the last call.
LEMMA SoundFront ==
    ASSUME Shape, QueueInv, heap = "sound", incoming_calls # <<>>
    PROVE  /\ Head(incoming_calls).call = Null => Closed /\ Len(incoming_calls) = 1
           /\ Head(incoming_calls).call # Null =>
                 Q!InQueue(cg_pn[Head(incoming_calls).call])
<1>1. /\ 1 \in 1 .. Len(incoming_calls) /\ Head(incoming_calls) = incoming_calls[1]
      /\ Null \notin Call
    BY EmptySeq, HeadTailProperties, LenProperties, QueueAssumption
       DEF Shape, TypeOK, Q!TypeOK, Q!ConstantsAssumption
<1>2. CASE ~Closed
    BY <1>1, <1>2 DEF QueueInv, QP!IInv, QP!ListMatchesMap, QP!InQueue, Q!InQueue
<1>3. CASE Closed
    BY <1>1, <1>3 DEF QueueInv, Line, CallAt
<1> QED BY <1>2, <1>3

LEMMA QueueInvStep ==
    ASSUME Shape, QueuedOnce, QueueInv, [Next]_vars
    PROVE  QueueInv' /\ (heap = "sound" /\ heap' # "sound" =>
              \/ \E h \in posted : Q!Stale(h) /\ Q!InQueue(cg_pn[h.call])
              \/ main = "join" /\ run = "pop" /\ Q!PopNull)
<1>1. Q!TypeOK /\ Q!TypeOK' /\ QP!TypeOK'
    BY QueueTypes, NextIsQueueStep, SameTypes DEF Shape, TypeOK
<1>2. CASE ~Closed'
    <2>1. ~Closed /\ QP!IInv /\ (QP!Next \/ Q!PopNull \/ UNCHANGED QP!vars)
        BY <1>2, OpenStep DEF QueueInv
    <2>2. main' # "done"
        BY <1>2 DEF Closed
    <2>3. CASE QP!Next /\ heap = "sound"
        <3>1. QP!IInv' /\ (heap' # "sound" => QP!Breaks)
            BY <2>1, <2>3, SameAssumption, QP!SoundStep
        <3>2. QP!Breaks => \E h \in posted : Q!Stale(h) /\ Q!InQueue(cg_pn[h.call])
            BY DEF QP!Breaks, QP!Stale, Q!Stale, QP!Queued, Q!Queued, QP!InQueue, Q!InQueue
        <3> QED BY <1>2, <2>2, <3>1, <3>2 DEF QueueInv
    <2>4. CASE UNCHANGED QP!vars \/ (QP!Next /\ heap # "sound")
        <3>1. QP!IInv'
            BY <2>1, <2>4, SameAssumption, QP!InvNext
        <3>2. CASE heap # "sound"
            BY <1>2, <2>2, <3>1, <3>2 DEF QueueInv
        <3>3. CASE UNCHANGED QP!vars
            BY <1>2, <2>2, <3>1, <3>3 DEF QueueInv, QP!vars
        <3> QED BY <2>4, <3>2, <3>3
    <2>5. CASE Q!PopNull
        <3>1. heap # "sound"
            BY <2>1, <2>5, SoundFront DEF Q!PopNull
        <3>2. heap' = "crashed"
            BY <2>5 DEF Q!PopNull, Q!Crash
        <3>3. QP!IInv'
            BY <1>1, <3>2 DEF QP!IInv, QP!ListMatchesMap, QP!TimersConserved,
                              QP!TimersMatchQueue, QP!HandlersMatchQueue, QP!OneFate
        <3> QED BY <1>2, <2>2, <3>1, <3>3 DEF QueueInv
    <2> QED BY <2>1, <2>3, <2>4, <2>5
<1>3. CASE Closed' /\ ~Closed
    <2>1. StopAwakes
        BY <1>3 DEF Closed, Next, IoThreads, PushCall, ExpireInQueue, ResetCall,
           ConversationEnds, EndCallFrees, EndCallRecords, Run, FreeCheck, IncomingCheck,
           Sleep, TestFlag, AddCallPop, AddCallNothing, AddCallNull, AddCallAssign,
           SpuriousWakeup, StopContext, JoinIoThreads, Stop, StopClearsFlag,
           StopPushesOperator, JoinOperators, MainMoves, opVars, vars
    <2>2. main' = "join" /\ heap' = heap
        BY <2>1 DEF StopAwakes, MainMoves, Q!Awake
    <2> QED BY <1>3, <2>1, <2>2, AwakeCloses DEF QueueInv
<1>4. CASE Closed
    <2>1. /\ Closed' /\ (main' = "done" => run' = "exit")
          /\ \/ run = "pop" /\ \E call \in Call : Q!PopCall(call)
             \/ run = "pop" /\ (Q!PopThrows \/ Q!PopNull)
             \/ UNCHANGED queueVars
        BY <1>4, ClosedStep DEF QueueInv
    <2>2. run = "pop" => main = "join"
        BY <1>4 DEF QueueInv, Closed
    <2>3. Line /\ Q!OneFate
        BY <1>4 DEF QueueInv
    <2>4. CASE heap # "sound"
        <3>1. heap' # "sound"
            BY <2>1, <2>4 DEF Q!PopCall, Q!PopThrows, Q!PopNull, Q!Crash, queueVars
        <3> QED BY <2>1, <2>4, <3>1 DEF QueueInv, Line, Q!OneFate
    <2>5. ASSUME heap = "sound", NEW call \in Call, Q!PopCall(call)
          PROVE  Line' /\ Q!OneFate' /\ heap' = heap
        BY <1>1, <2>3, <2>5, PopKeepsLine DEF Q!PopCall
    <2>6. heap = "sound" => ~Q!PopThrows
        BY SoundFront DEF Q!PopThrows
    <2>7. Q!PopNull => heap' = "crashed"
        BY DEF Q!PopNull, Q!Crash
    <2>8. UNCHANGED queueVars => Line' /\ Q!OneFate' /\ heap' = heap
        BY <2>3 DEF queueVars, Line, Q!OneFate, CallAt, Q!InQueue, Q!Queued
    <2>9. heap' = "crashed" => Line' /\ Q!OneFate'
        BY DEF Line, Q!OneFate
    <2> QED BY <2>1, <2>2, <2>4, <2>5, <2>6, <2>7, <2>8, <2>9 DEF QueueInv
<1> QED BY <1>2, <1>3, <1>4

LEMMA QueueInvInit == Init => QueueInv
<1> SUFFICES ASSUME Init PROVE QueueInv
    OBVIOUS
<1>1. QP!Init
    BY DEF Init, Q!Init, QP!Init, Q!InitialTimers, QP!InitialTimers, Q!Timer, QP!Timer
<1> QED BY <1>1, SameAssumption, QP!InvInit DEF Init, QueueInv, Closed

LEMMA QueueInvariance == Spec => [](Shape /\ QueuedOnce /\ QueueInv)
<1>1. QueueInv /\ Shape /\ QueuedOnce /\ [Next]_vars => QueueInv'
    BY QueueInvStep
<1> QED BY <1>1, QueueInvInit, Invariance, PTL DEF Spec

\* The server runs into undefined behaviour in two ways only: OnCallReset for a call
\* that was taken from a caller who is in the queue again, and AddCall popping the null
\* pointer of awake() with continue_loop_ tested before Stop cleared it.
THEOREM TwoCausesOnly == Spec => OnlyTheseBreak
<1>1. ASSUME Shape, QueueInv, heap = "sound", Q!PopNull
      PROVE  Waiting = <<>>
    <2>1. Len(incoming_calls) = 1 /\ incoming_calls[1].call = Null
        <3>1. incoming_calls # <<>> /\ Head(incoming_calls).call = Null
            BY <1>1 DEF Q!PopNull
        <3>2. Head(incoming_calls) = incoming_calls[1]
            BY <1>1, <3>1, HeadTailProperties DEF Shape, TypeOK, Q!TypeOK
        <3> QED BY <1>1, <3>1, <3>2, SoundFront
    <2>2. Waiting = [i \in 1 .. 0 |-> incoming_calls[i].call]
        BY <2>1 DEF Waiting
    <2> QED BY <2>2
<1>2. ASSUME Shape, QueuedOnce, QueueInv, [Next]_vars
      PROVE  heap = "sound" /\ heap' # "sound" =>
                \/ \E h \in posted : Q!Stale(h) /\ Q!InQueue(cg_pn[h.call])
                \/ main = "join" /\ run = "pop" /\ Waiting = <<>>
    BY <1>1, <1>2, QueueInvStep
<1> QED BY <1>2, QueueInvariance, PTL DEF Spec, OnlyTheseBreak

\* What the callers owe the server for that: with patient callers the first cause never
\* arises, and the second waits for the last step of the shutdown.
PatientInv == Q!PatientCallers /\ SoundUntilAwake

LEMMA PatientInit == Init => PatientInv
BY DEF Init, Q!Init, PatientInv, Q!PatientCallers, SoundUntilAwake

\* main moves on from the join only to its end.
LEMMA JoinIsLast == main \in {"join", "done"} /\ [Next]_vars => main' \in {"join", "done"}
BY DEF Next, vars, opVars, IoThreads, PushCall, EndCallRecords, ExpireInQueue, ResetCall,
       ConversationEnds, EndCallFrees, Run, FreeCheck, IncomingCheck, Sleep, TestFlag,
       AddCallPop, AddCallNothing, AddCallNull, AddCallAssign, SpuriousWakeup, StopContext,
       JoinIoThreads, Stop, StopClearsFlag, StopPushesOperator, StopAwakes, JoinOperators,
       MainMoves, Serving

LEMMA PatientStep ==
    /\ PatientInv /\ [PatientNext]_vars
    /\ heap = "sound" /\ heap' # "sound" =>
         \/ \E h \in posted : Q!Stale(h) /\ Q!InQueue(cg_pn[h.call])
         \/ main = "join" /\ run = "pop" /\ Waiting = <<>>
    => PatientInv'
<1> SUFFICES ASSUME PatientInv, [PatientNext]_vars,
                    heap = "sound" /\ heap' # "sound" =>
                      \/ \E h \in posted : Q!Stale(h) /\ Q!InQueue(cg_pn[h.call])
                      \/ main = "join" /\ run = "pop" /\ Waiting = <<>>
             PROVE  PatientInv'
    OBVIOUS
<1>1. heap' # "sound" => main \in {"join", "done"}
    BY DEF PatientInv, Q!PatientCallers, SoundUntilAwake
<1>2. [Next]_vars
    BY DEF PatientNext
<1>3. SoundUntilAwake'
    BY <1>1, <1>2, JoinIsLast DEF SoundUntilAwake
<1>4. (Q!PatientCallers)'
    <2>1. CASE PatientNext
        BY <2>1 DEF PatientNext
    <2>2. CASE UNCHANGED vars
        BY <2>2 DEF vars, queueVars, PatientInv, Q!PatientCallers, Q!Stale, Q!Queued, Q!InQueue
    <2> QED BY <2>1, <2>2
<1> QED BY <1>3, <1>4 DEF PatientInv

\* With callers who come back only after the stale handlers of their earlier calls have
\* run, the server serves, and joins its io threads, without undefined behaviour.
THEOREM PatientCallersAreServed == PatientSpec => []SoundUntilAwake
<1>1. [PatientNext]_vars => [Next]_vars
    BY DEF PatientNext
<1>2. Spec => [][heap = "sound" /\ heap' # "sound" =>
                   \/ \E h \in posted : Q!Stale(h) /\ Q!InQueue(cg_pn[h.call])
                   \/ main = "join" /\ run = "pop" /\ Waiting = <<>>]_vars
    BY TwoCausesOnly DEF OnlyTheseBreak
<1>3. PatientInv /\ [PatientNext]_vars
      /\ [heap = "sound" /\ heap' # "sound" =>
             \/ \E h \in posted : Q!Stale(h) /\ Q!InQueue(cg_pn[h.call])
             \/ main = "join" /\ run = "pop" /\ Waiting = <<>>]_vars
      => PatientInv'
    <2>1. UNCHANGED vars => (heap' = heap)
        BY DEF vars, queueVars
    <2> QED BY <2>1, PatientStep
<1>4. PatientInv => SoundUntilAwake
    BY DEF PatientInv
<1> QED BY <1>1, <1>2, <1>3, <1>4, PatientInit, PTL DEF Spec, PatientSpec
-----------------------------------------------------------------------------
(* One fate for every call *)

Fetched(c) == current = c
Talks(c) == \E op \in Op : operators[op] = c
HungUp(c) == \E h \in ended : h.call = c
Closes(c) == c \in closing
Recorded(c) == completed[c] # <<>>

\* A call that pop returned is in one place from then on: in AddCall, in a conversation,
\* at its end, in OnEndCall or recorded.
OnePlace(c) ==
    /\ c \in taken <=> Fetched(c) \/ Talks(c) \/ HungUp(c) \/ Closes(c) \/ Recorded(c)
    /\ Fetched(c) => ~(Talks(c) \/ HungUp(c) \/ Closes(c) \/ Recorded(c))
    /\ Talks(c) => ~(HungUp(c) \/ Closes(c) \/ Recorded(c))
    /\ HungUp(c) => ~(Closes(c) \/ Recorded(c))
    /\ Closes(c) => ~Recorded(c)

\* ... under one operator, with one handler and one record.
OneOfEach ==
    /\ \A o, p \in Op : operators[o] # Null /\ operators[o] = operators[p] => o = p
    /\ \A g, h \in ended : g.call = h.call => g = h
    /\ \A c \in Call : completed[c] \in {<<>>, <<"OK">>}
    /\ current # Null <=> run = "assign"

TalkInv == OneOfEach /\ \A c \in Call : OnePlace(c)

LEMMA TalkInvFrame ==
    ASSUME TalkInv, UNCHANGED <<taken, operators, ended, closing, completed, current>>,
           run' = "assign" <=> run = "assign"
    PROVE  TalkInv'
BY DEF TalkInv, OneOfEach, OnePlace, Fetched, Talks, HungUp, Closes, Recorded

\* A call leaves one place for the next; the others stay where they are.
LEMMA CallMoves ==
    ASSUME TalkInv, NEW call \in Call,
           \A c \in Call \ {call} :
              /\ c \in taken' <=> c \in taken
              /\ Fetched(c)' <=> Fetched(c)
              /\ Talks(c)' <=> Talks(c)
              /\ HungUp(c)' <=> HungUp(c)
              /\ Closes(c)' <=> Closes(c)
              /\ Recorded(c)' <=> Recorded(c),
           OnePlace(call)'
    PROVE  \A c \in Call : OnePlace(c)'
<1> TAKE c \in Call
<1>1. CASE c = call
    BY <1>1
<1>2. CASE c # call
    <2>1. OnePlace(c)
        BY DEF TalkInv
    <2> QED BY <1>2, <2>1 DEF OnePlace
<1> QED BY <1>1, <1>2

LEMMA PopTalks ==
    ASSUME Shape, QueuedOnce, TalkInv, NEW call \in Call, AddCallPop(call)
    PROVE  TalkInv'
<1>1. Q!TypeOK /\ Null \notin Call
    BY TakenAreCalls DEF Shape, TypeOK
<1>2. call \notin taken /\ taken' = taken \cup {call}
    <2>1. incoming_calls # <<>> /\ incoming_calls' = Q!Popped /\ call # Null
        BY <1>1 DEF AddCallPop, Q!PopCall
    <2>2. 1 \in 1 .. Len(incoming_calls) /\ CallAt(1) = call
        BY <1>1, <2>1, FrontLeaves DEF AddCallPop, Q!PopCall, CallAt
    <2> QED BY <2>1, <2>2 DEF QueuedOnce, AddCallPop, Q!PopCall
<1>3. /\ UNCHANGED <<operators, ended, closing, completed>>
      /\ current = Null /\ current' = call /\ run' = "assign"
    BY DEF AddCallPop, talkVars, RunMoves, TalkInv, OneOfEach
<1>4. OneOfEach'
    BY <1>1, <1>3 DEF TalkInv, OneOfEach
<1>5. OnePlace(call)
    BY DEF TalkInv
<1>6. OnePlace(call)'
    BY <1>2, <1>3, <1>5 DEF OnePlace, Fetched, Talks, HungUp, Closes, Recorded
<1>7. \A c \in Call \ {call} :
         /\ c \in taken' <=> c \in taken
         /\ Fetched(c)' <=> Fetched(c)
         /\ Talks(c)' <=> Talks(c)
         /\ HungUp(c)' <=> HungUp(c)
         /\ Closes(c)' <=> Closes(c)
         /\ Recorded(c)' <=> Recorded(c)
    BY <1>1, <1>2, <1>3 DEF Fetched, Talks, HungUp, Closes, Recorded
<1>8. \A c \in Call : OnePlace(c)'
    BY <1>6, <1>7, CallMoves
<1> QED BY <1>4, <1>8 DEF TalkInv

LEMMA AssignTalks ==
    ASSUME Shape, TalkInv, AddCallAssign
    PROVE  TalkInv'
<1> DEFINE OpId == Head(free_operators)
           old  == operators[OpId]
           cut  == [call |-> old, ec |-> "operation_aborted"]
<1>1. /\ operators \in [Op -> Call \cup {Null}] /\ Null \notin Call
      /\ current \in Call /\ Q!TypeOK /\ ended \subseteq [call : Call,
                                                ec : {"success", "operation_aborted"}]
    BY TakenAreCalls DEF Shape, TypeOK, TalkInv, OneOfEach, AddCallAssign, RunMoves
<1>2. OpId \in Op
    <2>1. 0 \in Op /\ Op \cup {0} = Op
        BY DEF Shape, OperatorsExist, AddCallAssign, RunMoves
    <2> QED BY <2>1, HeadTailProperties DEF Shape, TypeOK, AddCallAssign
<1>3. /\ operators' = [operators EXCEPT ![OpId] = current]
      /\ ended' = IF old = Null THEN ended ELSE ended \cup {cut}
      /\ current' = Null /\ run' = "free_check"
      /\ UNCHANGED <<taken, closing, completed>>
    BY DEF AddCallAssign, RunMoves, queueVars
<1>4. cut.call = old
    OBVIOUS
<1> HIDE DEF OpId, old, cut
<1>5. old = operators[OpId]
    BY DEF old
<1>6. OnePlace(current) /\ Fetched(current) /\ (old # Null => old \in Call /\ OnePlace(old))
    BY <1>1, <1>2, <1>5 DEF TalkInv, Fetched
<1>7. \A op \in Op : operators'[op] = IF op = OpId THEN current ELSE operators[op]
    BY <1>1, <1>2, <1>3
<1>8. \A op \in Op : operators[op] # current
    BY <1>6 DEF OnePlace, Talks
<1>9. \A op \in Op : operators[op] = old /\ old # Null => op = OpId
    BY <1>2, <1>5 DEF TalkInv, OneOfEach
<1>10. \A c \in Call : Talks(c)' <=> c = current \/ (Talks(c) /\ c # old)
    <2> TAKE c \in Call
    <2>1. ASSUME Talks(c)' PROVE c = current \/ (Talks(c) /\ c # old)
        <3>1. PICK op \in Op : operators'[op] = c
            BY <2>1 DEF Talks
        <3> QED BY <1>1, <1>7, <1>9, <3>1 DEF Talks
    <2>2. ASSUME c = current PROVE Talks(c)'
        BY <1>2, <1>7, <2>2 DEF Talks
    <2>3. ASSUME Talks(c), c # old PROVE Talks(c)'
        <3>1. PICK op \in Op : operators[op] = c
            BY <2>3 DEF Talks
        <3> QED BY <1>5, <1>7, <2>3, <3>1 DEF Talks
    <2> QED BY <2>1, <2>2, <2>3
<1>11. \A c \in Call : HungUp(c)' <=> HungUp(c) \/ c = old
    BY <1>1, <1>3, <1>4 DEF HungUp
<1>12. old # Null => Talks(old) /\ ~HungUp(old) /\ old # current
    BY <1>2, <1>5, <1>6, <1>8 DEF OnePlace, Talks
<1>13. OneOfEach'
    <2>1. \A o, p \in Op : operators'[o] # Null /\ operators'[o] = operators'[p] => o = p
        BY <1>7, <1>8 DEF TalkInv, OneOfEach
    <2>2. \A g, h \in ended' : g.call = h.call => g = h
        BY <1>3, <1>4, <1>12 DEF TalkInv, OneOfEach, HungUp
    <2> QED BY <1>3, <2>1, <2>2 DEF TalkInv, OneOfEach
<1>14. \A c \in Call : OnePlace(c)'
    <2> TAKE c \in Call
    <2>1. OnePlace(c)
        BY DEF TalkInv
    <2>2. /\ c \in taken' <=> c \in taken
          /\ ~Fetched(c)'
          /\ Fetched(c) <=> c = current
          /\ Closes(c)' <=> Closes(c)
          /\ Recorded(c)' <=> Recorded(c)
        BY <1>1, <1>3 DEF Fetched, Closes, Recorded
    <2>3. c = old => old # Null
        BY <1>1
    <2> QED BY <1>10, <1>11, <1>12, <2>1, <2>2, <2>3 DEF OnePlace
<1> QED BY <1>13, <1>14 DEF TalkInv

LEMMA EndsTalks ==
    ASSUME Shape, TalkInv, NEW o \in Op, ConversationEnds(o)
    PROVE  TalkInv'
<1> DEFINE call == operators[o]
           h    == [call |-> call, ec |-> "success"]
<1>1. /\ operators \in [Op -> Call \cup {Null}] /\ call \in Call /\ Null \notin Call
    BY TakenAreCalls DEF Shape, TypeOK, ConversationEnds
<1>2. /\ UNCHANGED <<taken, closing, completed, current, run>>
      /\ operators' = [operators EXCEPT ![o] = Null] /\ ended' = ended \cup {h}
    BY DEF ConversationEnds, queueVars
<1>3. h.call = call
    OBVIOUS
<1> HIDE DEF h, call
<1>4. Talks(call) /\ OnePlace(call) /\ \A op \in Op : operators[op] = call => op = o
    BY <1>1 DEF TalkInv, OneOfEach, Talks, call
<1>5. \A op \in Op : operators'[op] = IF op = o THEN Null ELSE operators[op]
    BY <1>1, <1>2
<1>6. \A c \in Call : Talks(c)' <=> Talks(c) /\ c # call
    BY <1>1, <1>4, <1>5 DEF Talks, call
<1>7. \A c \in Call : HungUp(c)' <=> HungUp(c) \/ c = call
    BY <1>2, <1>3 DEF HungUp
<1>8. OneOfEach'
    <2>1. ~HungUp(call)
        BY <1>4 DEF OnePlace
    <2>2. \A x, y \in ended' : x.call = y.call => x = y
        BY <1>2, <1>3, <2>1 DEF TalkInv, OneOfEach, HungUp
    <2> QED BY <1>2, <1>5, <2>2 DEF TalkInv, OneOfEach
<1>9. \A c \in Call : OnePlace(c)'
    <2> TAKE c \in Call
    <2>1. OnePlace(c)
        BY DEF TalkInv
    <2>2. /\ c \in taken' <=> c \in taken
          /\ Fetched(c)' <=> Fetched(c)
          /\ Closes(c)' <=> Closes(c)
          /\ Recorded(c)' <=> Recorded(c)
        BY <1>2 DEF Fetched, Closes, Recorded
    <2> QED BY <1>4, <1>6, <1>7, <2>1, <2>2 DEF OnePlace
<1> QED BY <1>8, <1>9 DEF TalkInv

LEMMA FreesTalks ==
    ASSUME Shape, Places, TalkInv, NEW h \in ended, EndCallFrees(h)
    PROVE  TalkInv'
<1>1. h.call \in Call
    BY DEF Shape, TypeOK
<1>2. /\ UNCHANGED <<taken, operators, completed, current>>
      /\ run' = "assign" <=> run = "assign"
      /\ ended' = ended \ {h} /\ closing' = closing \cup {h.call}
    BY NoneAborted DEF EndCallFrees, NotifyFree, Notify, queueVars
<1>3. HungUp(h.call) /\ OnePlace(h.call)
    BY <1>1 DEF HungUp, TalkInv
<1>4. \A c \in Call : HungUp(c)' <=> HungUp(c) /\ c # h.call
    BY <1>2 DEF TalkInv, OneOfEach, HungUp
<1>5. OneOfEach'
    BY <1>2 DEF TalkInv, OneOfEach
<1>6. \A c \in Call : OnePlace(c)'
    <2> TAKE c \in Call
    <2>1. OnePlace(c)
        BY DEF TalkInv
    <2>2. /\ c \in taken' <=> c \in taken
          /\ Fetched(c)' <=> Fetched(c)
          /\ Talks(c)' <=> Talks(c)
          /\ Closes(c)' <=> Closes(c) \/ c = h.call
          /\ Recorded(c)' <=> Recorded(c)
        BY <1>2 DEF Fetched, Talks, Closes, Recorded
    <2> QED BY <1>3, <1>4, <2>1, <2>2 DEF OnePlace
<1> QED BY <1>5, <1>6 DEF TalkInv

LEMMA RecordsTalks ==
    ASSUME Shape, TalkInv, NEW call \in Call, EndCallRecords(call)
    PROVE  TalkInv'
<1>1. OnePlace(call) /\ Closes(call) /\ completed \in [Call -> Seq(Q!RespStatus)]
    BY DEF TalkInv, EndCallRecords, Closes, Shape, TypeOK
<1>2. completed[call] = <<>>
    BY <1>1 DEF OnePlace, Recorded
<1>3. /\ UNCHANGED <<taken, operators, ended, current, run>>
      /\ closing' = closing \ {call}
      /\ completed' = [completed EXCEPT ![call] = <<"OK">>]
    BY <1>2 DEF EndCallRecords, queueVars
<1>4. \A c \in Call : completed'[c] = IF c = call THEN <<"OK">> ELSE completed[c]
    BY <1>1, <1>3
<1>5. <<"OK">> # <<>>
    OBVIOUS
<1>6. OneOfEach'
    BY <1>3, <1>4 DEF TalkInv, OneOfEach
<1>7. \A c \in Call : OnePlace(c)'
    <2> TAKE c \in Call
    <2>1. OnePlace(c)
        BY DEF TalkInv
    <2>2. /\ c \in taken' <=> c \in taken
          /\ Fetched(c)' <=> Fetched(c)
          /\ Talks(c)' <=> Talks(c)
          /\ HungUp(c)' <=> HungUp(c)
          /\ Closes(c)' <=> Closes(c) /\ c # call
          /\ Recorded(c)' <=> Recorded(c) \/ c = call
        BY <1>3, <1>4, <1>5 DEF Fetched, Talks, HungUp, Closes, Recorded
    <2> QED BY <1>1, <2>1, <2>2 DEF OnePlace
<1> QED BY <1>6, <1>7 DEF TalkInv

LEMMA TalkInvStep ==
    ASSUME Shape, QueuedOnce, Places, TalkInv, [Next]_vars
    PROVE  TalkInv'
<1>1. ASSUME UNCHANGED <<operators, ended, closing, completed, current>>, taken' = taken,
             run' = "assign" <=> run = "assign"
      PROVE  TalkInv'
    BY <1>1, TalkInvFrame
<1>2. CASE IoThreads
    <2>1. ASSUME NEW call \in Call, PushCall(call) PROVE TalkInv'
        BY <2>1, <1>1 DEF PushCall, NotifyIncoming, Notify, talkVars, Q!Push,
              Q!PushDuplicate, Q!PushOverload, Q!PushAccept, Q!PushNoTimer, Q!Crash
    <2>2. ASSUME NEW t \in Q!Timer, ExpireInQueue(t) PROVE TalkInv'
        BY <2>2, <1>1 DEF ExpireInQueue, opVars, talkVars, Q!TimerExpires
    <2>3. ASSUME NEW h \in posted, ResetCall(h) PROVE TalkInv'
        BY <2>3, <1>1 DEF ResetCall, opVars, talkVars, Q!OnCallReset, Q!ResetIgnored,
                          Q!ResetErases, Q!ResetDangling, Q!Crash
    <2> QED BY <1>2, <2>1, <2>2, <2>3, EndsTalks, FreesTalks, RecordsTalks DEF IoThreads
<1>3. CASE Run
    <2>1. CASE FreeCheck \/ IncomingCheck \/ Sleep \/ TestFlag
        BY <2>1, <1>1 DEF FreeCheck, IncomingCheck, Sleep, TestFlag, RunMoves, talkVars,
                          queueVars
    <2>2. CASE AddCallNothing \/ AddCallNull
        BY <2>2, <1>1 DEF AddCallNothing, AddCallNull, RunMoves, opVars, talkVars,
                          Q!PopThrows, Q!PopNull, Q!Crash, queueVars
    <2> QED BY <1>3, <2>1, <2>2, PopTalks, AssignTalks DEF Run
<1>4. CASE SpuriousWakeup \/ StopContext \/ JoinIoThreads \/ JoinOperators
    BY <1>4, <1>1 DEF SpuriousWakeup, StopContext, JoinIoThreads, JoinOperators, RunMoves,
                      MainMoves, talkVars, queueVars
<1>5. CASE Stop
    BY <1>5, <1>1 DEF Stop, StopClearsFlag, StopPushesOperator, StopAwakes, NotifyFree,
                      NotifyIncoming, Notify, MainMoves, talkVars, queueVars, Q!Awake
<1>6. CASE UNCHANGED vars
    BY <1>6, <1>1 DEF vars, opVars, talkVars, queueVars
<1> QED BY <1>2, <1>3, <1>4, <1>5, <1>6 DEF Next

LEMMA TalkInvInit == Init => TalkInv
<1> SUFFICES ASSUME Init PROVE TalkInv
    OBVIOUS
<1>1. Null \notin Call
    BY QueueAssumption DEF Q!ConstantsAssumption
<1> QED BY <1>1 DEF Init, Q!Init, TalkInv, OneOfEach, OnePlace, Fetched, Talks, HungUp,
                    Closes, Recorded

LEMMA NoneOrOne ==
    ASSUME NEW s, NEW x, s = <<>> \/ s = <<x>>
    PROVE  (s = <<>> => Len(s) = 0) /\ (s # <<>> => Len(s) = 1)
<1>1. s = <<>> => Len(s) = 0
    BY EmptySeq
<1>2. s = <<x>> => Len(s) = 1
    OBVIOUS
<1> QED BY <1>1, <1>2, Zenon

LEMMA FatesCounted ==
    ASSUME Shape, QueueInv, TalkInv
    PROVE  OneFate
<1> SUFFICES ASSUME heap = "sound", NEW c \in Call
             PROVE  /\ Cardinality(Fates(c)) = IF reply[c] = "OK" THEN 1 ELSE 0
                    /\ Len(cdr[c]) + Len(completed[c]) <= 1
    BY DEF OneFate
<1>1. Q!OneFate
    BY SameFate DEF QueueInv, QP!IInv
<1>2. /\ Q!Queued(c) => c \notin taken /\ cdr[c] = <<>> /\ reply[c] = "OK"
      /\ c \in taken => cdr[c] = <<>> /\ reply[c] = "OK"
      /\ cdr[c] # <<>> => cdr[c] = <<"TIMEOUT">> /\ reply[c] = "OK"
      /\ reply[c] = "OK" => Q!Queued(c) \/ c \in taken \/ cdr[c] # <<>>
    BY <1>1 DEF Q!OneFate
<1>3. OnePlace(c) /\ completed[c] \in {<<>>, <<"OK">>}
    BY DEF TalkInv, OneOfEach
<1>4. <<"OK">> # <<>> /\ <<"TIMEOUT">> # <<>>
    OBVIOUS
<1>5. Len(cdr[c]) + Len(completed[c]) <= 1
    <2>1. cdr[c] = <<>> \/ cdr[c] = <<"TIMEOUT">>
        BY <1>2
    <2>2. completed[c] = <<>> \/ completed[c] = <<"OK">>
        BY <1>3
    <2>3. completed[c] # <<>> => c \in taken
        BY <1>3 DEF OnePlace, Recorded
    <2>4. cdr[c] = <<>> \/ completed[c] = <<>>
        BY <1>2, <2>3
    <2>5. /\ cdr[c] = <<>> => Len(cdr[c]) = 0
          /\ cdr[c] # <<>> => Len(cdr[c]) = 1
          /\ completed[c] = <<>> => Len(completed[c]) = 0
          /\ completed[c] # <<>> => Len(completed[c]) = 1
        BY <2>1, <2>2, NoneOrOne
    <2>6. \/ Len(cdr[c]) = 0 /\ (Len(completed[c]) = 0 \/ Len(completed[c]) = 1)
          \/ Len(completed[c]) = 0 /\ (Len(cdr[c]) = 0 \/ Len(cdr[c]) = 1)
        BY <2>4, <2>5, Zenon
    <2>7. \A m, n : (m = 0 /\ (n = 0 \/ n = 1)) \/ (n = 0 /\ (m = 0 \/ m = 1))
                       => m + n <= 1
        OBVIOUS
    <2> QED BY <2>6, <2>7, Zenon
<1>6. Fates(c) =
         {f \in {"queued", "fetched", "talking", "ended", "closing", "timeout", "ok"} :
             \/ f = "queued" /\ Q!Queued(c)
             \/ f = "fetched" /\ Fetched(c)
             \/ f = "talking" /\ Talks(c)
             \/ f = "ended" /\ HungUp(c)
             \/ f = "closing" /\ Closes(c)
             \/ f = "timeout" /\ cdr[c] # <<>>
             \/ f = "ok" /\ Recorded(c)}
    <2> DEFINE is == [queued  |-> Q!Queued(c),
                      fetched |-> current = c,
                      talking |-> \E op \in Op : operators[op] = c,
                      ended   |-> \E h \in ended : h.call = c,
                      closing |-> c \in closing,
                      timeout |-> cdr[c] = <<"TIMEOUT">>,
                      ok      |-> completed[c] = <<"OK">>]
    <2>1. Fates(c) = {f \in DOMAIN is : is[f]}
        BY DEF Fates
    <2>2. DOMAIN is =
             {"queued", "fetched", "talking", "ended", "closing", "timeout", "ok"}
        OBVIOUS
    <2>3. /\ is["queued"] <=> Q!Queued(c)
          /\ is["fetched"] <=> Fetched(c)
          /\ is["talking"] <=> Talks(c)
          /\ is["ended"] <=> HungUp(c)
          /\ is["closing"] <=> Closes(c)
          /\ is["timeout"] <=> cdr[c] = <<"TIMEOUT">>
          /\ is["ok"] <=> completed[c] = <<"OK">>
        BY DEF Fetched, Talks, HungUp, Closes
    <2>4. /\ cdr[c] = <<"TIMEOUT">> <=> cdr[c] # <<>>
          /\ completed[c] = <<"OK">> <=> Recorded(c)
        BY <1>2, <1>3, <1>4 DEF Recorded
    <2> HIDE DEF is
    <2> QED BY <2>1, <2>2, <2>3, <2>4
<1>7. \/ Fates(c) = {} /\ reply[c] # "OK"
      \/ reply[c] = "OK" /\
         \E f \in {"queued", "fetched", "talking", "ended", "closing", "timeout", "ok"} :
            Fates(c) = {f}
    <2>1. CASE Q!Queued(c)
        <3>1. Fates(c) = {"queued"}
            BY <1>2, <1>3, <1>6, <2>1 DEF OnePlace
        <3> QED BY <1>2, <2>1, <3>1
    <2>2. CASE cdr[c] # <<>>
        <3>1. Fates(c) = {"timeout"}
            BY <1>2, <1>3, <1>6, <2>2 DEF OnePlace
        <3> QED BY <1>2, <2>2, <3>1
    <2>3. CASE c \in taken
        <3>1. ~Q!Queued(c) /\ cdr[c] = <<>>
            BY <1>2, <2>3
        <3>2. CASE Fetched(c)
            BY <1>2, <1>3, <1>6, <2>3, <3>1, <3>2 DEF OnePlace
        <3>3. CASE Talks(c)
            BY <1>2, <1>3, <1>6, <2>3, <3>1, <3>3 DEF OnePlace
        <3>4. CASE HungUp(c)
            BY <1>2, <1>3, <1>6, <2>3, <3>1, <3>4 DEF OnePlace
        <3>5. CASE Closes(c)
            BY <1>2, <1>3, <1>6, <2>3, <3>1, <3>5 DEF OnePlace
        <3>6. CASE Recorded(c)
            BY <1>2, <1>3, <1>6, <2>3, <3>1, <3>6 DEF OnePlace
        <3> QED BY <1>3, <2>3, <3>2, <3>3, <3>4, <3>5, <3>6 DEF OnePlace
    <2>4. CASE ~Q!Queued(c) /\ cdr[c] = <<>> /\ c \notin taken
        BY <1>2, <1>3, <1>6, <2>4 DEF OnePlace
    <2> QED BY <2>1, <2>2, <2>3, <2>4
<1>8. Cardinality(Fates(c)) = IF reply[c] = "OK" THEN 1 ELSE 0
    BY <1>7, FS_EmptySet, FS_Singleton
<1> QED BY <1>5, <1>8

\* An accepted call is in exactly one place between push and its record, across both
\* queues, all threads and the shutdown, and is never recorded twice: not as TIMEOUT by
\* OnCallReset and as OK by OnEndCall, nor by either of them a second time.
THEOREM CallsHaveOneFate == Spec => []OneFate
<1>1. Shape /\ QueuedOnce /\ Places /\ TalkInv /\ [Next]_vars => TalkInv'
    BY TalkInvStep
<1>2. Shape /\ QueueInv /\ TalkInv => OneFate
    BY FatesCounted
<1> QED BY <1>1, <1>2, TalkInvInit, Invariance, QueueInvariance, PTL DEF Spec
=============================================================================
