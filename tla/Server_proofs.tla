--------------------------- MODULE Server_proofs ---------------------------
(***************************************************************************)
(* Proofs about Server, for any number of connections and any capacity.     *)
(* What the queue does to its own variables is taken from the proofs about  *)
(* IncomingCallsQueue, instantiated as QP.                                  *)
(***************************************************************************)
EXTENDS Server, FiniteSetTheorems, TLAPS

QP == INSTANCE IncomingCallsQueue_proofs

-----------------------------------------------------------------------------
(* The queue's part of a step *)

\* The two instances of the queue are one.
LEMMA SameAssumption == QP!ConstantsAssumption
BY QueueAssumption DEF Q!ConstantsAssumption, QP!ConstantsAssumption

LEMMA SameTypes == (Q!TypeOK <=> QP!TypeOK) /\ (Q!TypeOK' <=> QP!TypeOK')
BY DEF Q!TypeOK, QP!TypeOK, Q!Node, QP!Node, Q!Timer, QP!Timer, Q!Wait, QP!Wait,
       Q!Handler, QP!Handler, Q!RespStatus, QP!RespStatus

LEMMA SameFate == Q!OneFate <=> QP!OneFate
BY DEF Q!OneFate, QP!OneFate, Q!Queued, QP!Queued

LEMMA SamePush ==
    ASSUME NEW call \in Call, Q!Push(call)
    PROVE  QP!Push(call)
BY DEF Q!Push, QP!Push, Q!PushDuplicate, QP!PushDuplicate, Q!PushOverload,
       QP!PushOverload, Q!PushAccept, QP!PushAccept, Q!PushNoTimer, QP!PushNoTimer,
       Q!BeginPush, QP!BeginPush, Q!IsDuplicate, QP!IsDuplicate, Q!IsFull, QP!IsFull,
       Q!Running, QP!Running, Q!Nodes, QP!Nodes, Q!Armed, QP!Armed, Q!Cancelled,
       QP!Cancelled, Q!Completion, QP!Completion, Q!Crash, QP!Crash, Q!InQueue,
       QP!InQueue

LEMMA SamePop ==
    ASSUME NEW call \in Call, Q!PopCall(call)
    PROVE  QP!PopCall(call)
BY DEF Q!PopCall, QP!PopCall, Q!Running, QP!Running, Q!InQueue, QP!InQueue,
       Q!Cancelled, QP!Cancelled, Q!Completion, QP!Completion, Q!TimerReleased,
       QP!TimerReleased, Q!NumberForgotten, QP!NumberForgotten, Q!Popped, QP!Popped

LEMMA SameThrow == Q!PopThrows => QP!PopThrows
BY DEF Q!PopThrows, QP!PopThrows, Q!Running, QP!Running, Q!InQueue, QP!InQueue, Q!Popped,
       QP!Popped

LEMMA SameExpiry ==
    ASSUME NEW t \in Q!Timer, Q!TimerExpires(t)
    PROVE  t \in QP!Timer /\ QP!TimerExpires(t)
BY DEF Q!TimerExpires, QP!TimerExpires, Q!Completion, QP!Completion, Q!Running,
       QP!Running, Q!Timer, QP!Timer

LEMMA SameReset ==
    ASSUME NEW h \in posted, Q!OnCallReset(h)
    PROVE  QP!OnCallReset(h)
BY DEF Q!OnCallReset, QP!OnCallReset, Q!ResetIgnored, QP!ResetIgnored, Q!ResetErases,
       QP!ResetErases, Q!ResetDangling, QP!ResetDangling, Q!BeginReset, QP!BeginReset,
       Q!IgnoresReset, QP!IgnoresReset, Q!Running, QP!Running, Q!InQueue, QP!InQueue,
       Q!Nodes, QP!Nodes, Q!Unlinked, QP!Unlinked, Q!RemoveAt, QP!RemoveAt,
       Q!TimerReleased, QP!TimerReleased, Q!NumberForgotten, QP!NumberForgotten,
       Q!Crash, QP!Crash

\* What a step of the server is for the queue: one of its own, or none.
LEMMA QueueStep == [Next]_vars => [QP!Next]_(QP!vars)
<1> SUFFICES ASSUME [Next]_vars PROVE QP!Next \/ UNCHANGED QP!vars
    OBVIOUS
<1>1. ASSUME UNCHANGED queueVars PROVE UNCHANGED QP!vars
    BY <1>1 DEF queueVars, QP!vars
<1>2. ASSUME NEW c \in Call, HandleCall(c) PROVE QP!Next
    BY <1>2, SamePush DEF HandleCall, QP!Next
<1>3. CASE QueueMoves
    BY <1>3, SamePop, SameThrow, SameExpiry, SameReset
       DEF QueueMoves, ExpireInQueue, ResetCall, OperatorPops, QP!Next
<1>4. ASSUME NEW c \in Call,
             \/ PeerConnects(c) \/ PeerFinishes(c) \/ PeerResets(c)
             \/ AcceptCompletes(c)
             \/ DoRead(c) \/ ReadFails(c) \/ ReadTimesOut(c)
             \/ HandleBadRequest(c) \/ BadRequestThrows(c) \/ RecordRefusal(c)
             \/ WriteEnds(c) \/ WriteTimesOut(c)
      PROVE  UNCHANGED queueVars
    BY <1>4 DEF PeerConnects, PeerFinishes, PeerResets, PeerMoves, AcceptCompletes, DoRead,
                ReadFails, ReadTimesOut, Ends, HandleBadRequest, BadRequestThrows, Terminate,
                RecordRefusal, WriteEnds, WriteTimesOut
<1>5. CASE AcceptFails \/ OnAcceptThrows \/ OnAcceptStarts \/ UNCHANGED vars
    BY <1>1, <1>5 DEF AcceptFails, OnAcceptThrows, OnAcceptStarts, Terminate, vars
<1> QED BY <1>1, <1>2, <1>3, <1>4, <1>5 DEF Next

-----------------------------------------------------------------------------
(* The inductive invariant *)

\* What a session has answered and recorded follows what push returned to it; until
\* then its call is untouched.
Follows(c) ==
    /\ session[c] \in {"none", "starting", "reading"} =>
         reply[c] = "none" /\ answer[c] = "none" /\ refused[c] = <<>>
    /\ session[c] = "refusing" =>
         /\ reply[c] \in {"OVERLOAD", "ALREADY_IN_QUEUE"}
         /\ answer[c] = "none" /\ refused[c] = <<>>
    /\ answer[c] = "CallId" => reply[c] = "OK"
    /\ answer[c] = "overloaded" => reply[c] = "OVERLOAD" /\ refused[c] = <<"OVERLOAD">>
    /\ answer[c] = "already waiting" =>
         reply[c] = "ALREADY_IN_QUEUE" /\ refused[c] = <<"ALREADY_IN_QUEUE">>
    /\ answer[c] = "bad request" => reply[c] = "none" /\ refused[c] = <<>>
    /\ refused[c] = <<>> \/ (refused[c] = <<reply[c]>> /\ reply[c] # "OK")

SessionInv == heap # "crashed" => \A c \in Call : Follows(c)

IInv == TypeOK /\ QP!IInv /\ SessionInv

LEMMA InvInit == Init => IInv
<1> SUFFICES ASSUME Init PROVE IInv
    OBVIOUS
<1>1. QP!Init
    BY DEF Init, Q!Init, QP!Init, Q!InitialTimers, QP!InitialTimers, Q!Timer, QP!Timer
<1>2. QP!IInv
    BY <1>1, SameAssumption, QP!InvInit
<1>3. TypeOK
    BY <1>2, SameTypes DEF Init, TypeOK, QP!IInv
<1>4. SessionInv
    BY DEF Init, Q!Init, SessionInv, Follows
<1> QED BY <1>2, <1>3, <1>4 DEF IInv

LEMMA QueueInvStep == IInv /\ [Next]_vars => QP!IInv'
<1> SUFFICES ASSUME IInv, [Next]_vars PROVE QP!IInv'
    OBVIOUS
<1>1. QP!IInv /\ [QP!Next]_(QP!vars)
    BY QueueStep DEF IInv
<1> QED BY <1>1, SameAssumption, QP!InvNext

LEMMA TypeStep == IInv /\ [Next]_vars => TypeOK'
<1> SUFFICES ASSUME IInv, [Next]_vars PROVE TypeOK'
    OBVIOUS
<1>1. Q!TypeOK'
    BY QueueInvStep, SameTypes DEF QP!IInv
<1> USE <1>1 DEF IInv, TypeOK
<1>2. ASSUME NEW c \in Call,
             PeerConnects(c) \/ PeerFinishes(c) \/ PeerResets(c) \/ AcceptCompletes(c)
      PROVE  TypeOK'
    BY <1>2 DEF PeerConnects, PeerFinishes, PeerResets, PeerMoves, AcceptCompletes,
                acceptVars, sessionVars
<1>3. ASSUME NEW c \in Call,
             DoRead(c) \/ ReadFails(c) \/ ReadTimesOut(c) \/ WriteEnds(c) \/ WriteTimesOut(c)
      PROVE  TypeOK'
    BY <1>3 DEF DoRead, DeadlineSet, ReadFails, ReadTimesOut, WriteEnds, WriteTimesOut, Ends,
                SessionMoves, acceptVars
<1>4. ASSUME NEW c \in Call, HandleBadRequest(c) \/ BadRequestThrows(c)
      PROVE  TypeOK'
    BY <1>4 DEF HandleBadRequest, BadRequestThrows, Terminate, SessionMoves, acceptVars,
                sessionVars, Answers
<1>5. ASSUME NEW c \in Call, HandleCall(c) PROVE TypeOK'
    <2>1. ~IsRefusal(reply'[c]) => Message(reply'[c]) \in Answers
        BY DEF IsRefusal, Message, Answers
    <2>2. answer' \in [Call -> Answers \cup {"none"}]
        BY <1>5, <2>1 DEF HandleCall
    <2>3. session' \in [Call -> {"none", "starting", "reading", "refusing", "writing", "ended"}]
        BY <1>5 DEF HandleCall, SessionMoves
    <2> QED BY <1>5, <2>2, <2>3 DEF HandleCall, acceptVars
<1>6. ASSUME NEW c \in Call, RecordRefusal(c) PROVE TypeOK'
    <2>1. heap # "crashed" /\ session[c] = "refusing"
        BY <1>6 DEF RecordRefusal, SessionMoves, Up, Q!Running
    <2>2. reply[c] \in {"OVERLOAD", "ALREADY_IN_QUEUE"}
        BY <2>1 DEF SessionInv, Follows
    <2>3. reply[c] \in Q!RespStatus /\ Message(reply[c]) \in Answers
        BY <2>2 DEF Message, Answers, Q!RespStatus
    <2>4. /\ answer' \in [Call -> Answers \cup {"none"}]
          /\ refused' \in [Call -> Seq(Q!RespStatus)]
        BY <1>6, <2>3 DEF RecordRefusal, WriteCDR
    <2> QED BY <1>6, <2>4 DEF RecordRefusal, SessionMoves, acceptVars
<1>7. CASE AcceptFails \/ OnAcceptThrows \/ OnAcceptStarts
    BY <1>7 DEF AcceptFails, OnAcceptThrows, OnAcceptStarts, DoAccept, SessionMoves, Terminate,
                acceptVars, sessionVars
<1>8. CASE QueueMoves \/ UNCHANGED vars
    BY <1>8 DEF QueueMoves, ExpireInQueue, ResetCall, OperatorPops, vars, serverVars, acceptVars,
                sessionVars
<1> QED BY <1>2, <1>3, <1>4, <1>5, <1>6, <1>7, <1>8 DEF Next

\* What push returns, and that nothing else changes what it returned.
LEMMA PushReplies ==
    ASSUME NEW c \in Call, Q!Push(c), Q!TypeOK, heap' # "crashed"
    PROVE  /\ reply'[c] \in {"OK", "OVERLOAD", "ALREADY_IN_QUEUE"}
           /\ \A d \in Call \ {c} : reply'[d] = reply[d]
<1>1. ~Q!PushNoTimer(c)
    BY DEF Q!PushNoTimer, Q!Crash
<1> QED BY <1>1 DEF Q!Push, Q!PushDuplicate, Q!PushOverload, Q!PushAccept, Q!TypeOK

LEMMA QueueMovesKeepReplies == QueueMoves => reply' = reply
BY DEF QueueMoves, ExpireInQueue, ResetCall, OperatorPops, Q!PopCall, Q!PopThrows,
       Q!TimerExpires, Q!OnCallReset, Q!ResetIgnored,
       Q!ResetErases, Q!ResetDangling, Q!Crash

LEMMA NeverUncrashed ==
    ASSUME [Next]_vars, heap' # "crashed"
    PROVE  heap # "crashed"
<1>1. [QP!Next]_(QP!vars)
    BY QueueStep
<1> QED BY <1>1 DEF QP!Next, QP!vars, QP!Push, QP!PushDuplicate, QP!PushOverload,
            QP!PushAccept, QP!PushNoTimer, QP!PopCall, QP!PopThrows, QP!TimerExpires,
            QP!OnCallReset, QP!ResetIgnored, QP!ResetErases, QP!ResetDangling,
            QP!BeginPush, QP!BeginReset, QP!Running

\* A step of one session leaves the other sessions as they are.
LEMMA OneSessionMoves ==
    ASSUME NEW c \in Call, \A d \in Call : Follows(d), Follows(c)',
           \A d \in Call \ {c} : /\ session'[d] = session[d] /\ reply'[d] = reply[d]
                                 /\ answer'[d] = answer[d] /\ refused'[d] = refused[d]
    PROVE  \A d \in Call : Follows(d)'
<1> TAKE d \in Call
<1>1. CASE d = c
    BY <1>1
<1>2. CASE d # c
    BY <1>2 DEF Follows
<1> QED BY <1>1, <1>2

LEMMA SessionInvStep == IInv /\ [Next]_vars => SessionInv'
<1> SUFFICES ASSUME IInv, [Next]_vars, heap' # "crashed"
             PROVE  \A c \in Call : Follows(c)'
    BY DEF SessionInv
<1>1. \A c \in Call : Follows(c)
    BY NeverUncrashed DEF IInv, SessionInv
<1>2. /\ session \in [Call -> {"none", "starting", "reading", "refusing", "writing", "ended"}]
      /\ answer \in [Call -> Answers \cup {"none"}]
      /\ refused \in [Call -> Seq(Q!RespStatus)]
      /\ incoming \in Call \cup {Null} /\ Q!TypeOK
    BY DEF IInv, TypeOK
<1>3. ASSUME UNCHANGED <<session, reply, answer, refused>>
      PROVE  \A c \in Call : Follows(c)'
    BY <1>1, <1>3 DEF Follows
<1>4. ASSUME NEW c \in Call, NEW from, NEW to, SessionMoves(c, from, to),
             UNCHANGED <<reply, answer, refused>>,
             \/ <<from, to>> \in {<<"none", "starting">>, <<"starting", "reading">>}
             \/ to = "ended"
      PROVE  \A d \in Call : Follows(d)'
    <2>1. /\ session[c] = from /\ session'[c] = to
          /\ \A d \in Call \ {c} : session'[d] = session[d]
        BY <1>2, <1>4 DEF SessionMoves
    <2>2. Follows(c)'
        BY <1>1, <1>4, <2>1 DEF Follows
    <2> QED BY <1>1, <1>4, <2>1, <2>2, OneSessionMoves
<1>5. ASSUME NEW c \in Call,
             PeerConnects(c) \/ PeerFinishes(c) \/ PeerResets(c) \/ AcceptCompletes(c)
               \/ BadRequestThrows(c)
      PROVE  \A d \in Call : Follows(d)'
    BY <1>3, <1>5 DEF PeerConnects, PeerFinishes, PeerResets, PeerMoves, AcceptCompletes,
                      BadRequestThrows, Terminate, sessionVars, queueVars
<1>6. ASSUME NEW c \in Call, DoRead(c) PROVE \A d \in Call : Follows(d)'
    BY <1>4, <1>6 DEF DoRead, queueVars
<1>7. ASSUME NEW c \in Call,
             ReadFails(c) \/ ReadTimesOut(c) \/ WriteEnds(c) \/ WriteTimesOut(c)
      PROVE  \A d \in Call : Follows(d)'
    BY <1>4, <1>7 DEF ReadFails, ReadTimesOut, WriteEnds, WriteTimesOut, Ends, queueVars
<1>8. ASSUME NEW c \in Call, HandleBadRequest(c) PROVE \A d \in Call : Follows(d)'
    <2>1. /\ session[c] = "reading" /\ session'[c] = "writing" /\ answer'[c] = "bad request"
          /\ UNCHANGED <<reply, refused>>
          /\ \A d \in Call \ {c} : session'[d] = session[d] /\ answer'[d] = answer[d]
        BY <1>2, <1>8 DEF HandleBadRequest, SessionMoves, queueVars
    <2>2. Follows(c)'
        BY <1>1, <2>1 DEF Follows
    <2> QED BY <1>1, <2>1, <2>2, OneSessionMoves
<1>9. ASSUME NEW c \in Call, HandleCall(c) PROVE \A d \in Call : Follows(d)'
    <2>1. /\ reply'[c] \in {"OK", "OVERLOAD", "ALREADY_IN_QUEUE"}
          /\ \A d \in Call \ {c} : reply'[d] = reply[d]
        BY <1>2, <1>9, PushReplies DEF HandleCall
    <2>2. session[c] = "reading" /\ refused' = refused
          /\ \A d \in Call \ {c} : session'[d] = session[d] /\ answer'[d] = answer[d]
        BY <1>2, <1>9 DEF HandleCall, SessionMoves
    <2>3. CASE reply'[c] = "OK"
        <3>1. session'[c] = "writing" /\ answer'[c] = "CallId"
            BY <1>2, <1>9, <2>3 DEF HandleCall, SessionMoves, IsRefusal, Message
        <3>2. Follows(c)'
            BY <1>1, <2>2, <2>3, <3>1 DEF Follows
        <3> QED BY <1>1, <2>1, <2>2, <3>2, OneSessionMoves
    <2>4. CASE reply'[c] # "OK"
        <3>1. session'[c] = "refusing" /\ answer' = answer
            BY <1>2, <1>9, <2>4 DEF HandleCall, SessionMoves, IsRefusal
        <3>2. Follows(c)'
            BY <1>1, <2>1, <2>2, <2>4, <3>1 DEF Follows
        <3> QED BY <1>1, <2>1, <2>2, <3>2, OneSessionMoves
    <2> QED BY <2>3, <2>4
<1>10. ASSUME NEW c \in Call, RecordRefusal(c) PROVE \A d \in Call : Follows(d)'
    <2>1. /\ session[c] = "refusing" /\ session'[c] = "writing" /\ reply' = reply
          /\ answer'[c] = Message(reply[c]) /\ refused'[c] = Append(refused[c], reply[c])
          /\ \A d \in Call \ {c} : /\ session'[d] = session[d] /\ answer'[d] = answer[d]
                                   /\ refused'[d] = refused[d]
        BY <1>2, <1>10 DEF RecordRefusal, WriteCDR, SessionMoves, queueVars
    <2>2. reply[c] \in {"OVERLOAD", "ALREADY_IN_QUEUE"} /\ refused[c] = <<>>
        BY <1>1, <2>1 DEF Follows
    <2>3. refused'[c] = <<reply[c]>>
        BY <2>1, <2>2
    <2>4. /\ reply[c] = "OVERLOAD" => answer'[c] = "overloaded"
          /\ reply[c] = "ALREADY_IN_QUEUE" => answer'[c] = "already waiting"
        BY <2>1 DEF Message
    <2>5. Follows(c)'
        BY <2>1, <2>2, <2>3, <2>4 DEF Follows
    <2> QED BY <1>1, <2>1, <2>5, OneSessionMoves
<1>11. CASE AcceptFails \/ OnAcceptThrows
    BY <1>3, <1>11 DEF AcceptFails, OnAcceptThrows, Terminate, sessionVars, queueVars
<1>12. CASE OnAcceptStarts
    <2>1. incoming \in Call
        BY <1>2, <1>12 DEF OnAcceptStarts, RemoteEndpointThrows
    <2> QED BY <1>4, <1>12, <2>1 DEF OnAcceptStarts, queueVars
<1>13. CASE QueueMoves \/ UNCHANGED vars
    BY <1>3, <1>13, QueueMovesKeepReplies
       DEF QueueMoves, ExpireInQueue, ResetCall, OperatorPops, vars, serverVars, sessionVars, queueVars
<1> QED BY <1>5, <1>6, <1>7, <1>8, <1>9, <1>10, <1>11, <1>12, <1>13 DEF Next

LEMMA Invariance == Spec => []IInv
<1>1. IInv /\ [Next]_vars => IInv'
    BY TypeStep, QueueInvStep, SessionInvStep DEF IInv
<1> QED BY <1>1, InvInit, PTL DEF Spec

-----------------------------------------------------------------------------
(* The theorems *)

\* The sessions, the queue's timers and whoever pops use the queue by its own operations.
LEMMA ServerUsesTheQueue == Spec => QP!Spec
<1>1. Init => QP!Init
    BY DEF Init, Q!Init, QP!Init, Q!InitialTimers, QP!InitialTimers, Q!Timer, QP!Timer
<1> QED BY <1>1, QueueStep, PTL DEF Spec, QP!Spec

\* So for the server too undefined behaviour of the queue has a single cause, OnCallReset
\* for a call that was taken from a caller who is in the queue again: no order of accepts,
\* requests, refusals and lost peers adds another one.
THEOREM OnlyRedialsBreakTheServer == Spec => QP!OnlyRedialBreaks
<1>1. QP!Spec => QP!OnlyRedialBreaks
    BY SameAssumption, QP!OnlyCause
<1> QED BY <1>1, ServerUsesTheQueue, PTL

\* The listener, the sessions and the queue keep their types, in every run, also in one
\* in which a freed iterator was used.
THEOREM TypeCorrect == Spec => []TypeOK
<1>1. IInv => TypeOK
    BY DEF IInv
<1> QED BY <1>1, Invariance, PTL

\* What the queue's own invariant and the session's say about one call.
LEMMA FateOfCall ==
    ASSUME IInv, heap = "sound", NEW c \in Call
    PROVE  /\ Q!Queued(c) => c \notin taken /\ cdr[c] = <<>> /\ reply[c] = "OK"
           /\ c \in taken => cdr[c] = <<>> /\ reply[c] = "OK"
           /\ cdr[c] # <<>> => cdr[c] = <<"TIMEOUT">> /\ reply[c] = "OK"
           /\ reply[c] = "OK" => Q!Queued(c) \/ c \in taken \/ cdr[c] # <<>>
           /\ Follows(c)
<1>1. Q!OneFate
    BY SameFate DEF IInv, QP!IInv
<1> QED BY <1>1 DEF Q!OneFate, IInv, SessionInv

LEMMA NoneOrOne ==
    ASSUME NEW s, NEW x, s = <<>> \/ s = <<x>>
    PROVE  (s = <<>> => Len(s) = 0) /\ (s # <<>> => Len(s) = 1)
OBVIOUS

\* No call is recorded twice, by its session, by the reset of its timer or by the
\* operator that took it, for any number of connections and any order of the handlers.
THEOREM CallsAreRecordedOnce == Spec => []OneRecord
<1>1. ASSUME IInv, heap = "sound", NEW c \in Call
      PROVE  Len(cdr[c]) + Len(refused[c]) + Cardinality(taken \cap {c}) <= 1
    <2>1. cdr[c] = <<>> \/ cdr[c] = <<"TIMEOUT">>
        BY <1>1, FateOfCall
    <2>2. refused[c] = <<>> \/ refused[c] = <<reply[c]>>
        BY <1>1, FateOfCall DEF Follows
    <2>3. /\ (cdr[c] = <<>> => Len(cdr[c]) = 0) /\ (cdr[c] # <<>> => Len(cdr[c]) = 1)
          /\ (refused[c] = <<>> => Len(refused[c]) = 0)
          /\ (refused[c] # <<>> => Len(refused[c]) = 1)
        BY <2>1, <2>2, NoneOrOne
    <2>4. /\ c \notin taken => Cardinality(taken \cap {c}) = 0
          /\ c \in taken => Cardinality(taken \cap {c}) = 1
        <3>1. c \notin taken => taken \cap {c} = {}
            OBVIOUS
        <3>2. c \in taken => taken \cap {c} = {c}
            OBVIOUS
        <3> QED BY <3>1, <3>2, FS_EmptySet, FS_Singleton
    <2>5. /\ cdr[c] # <<>> => c \notin taken /\ refused[c] = <<>>
          /\ c \in taken => refused[c] = <<>>
        BY <1>1, FateOfCall DEF Follows
    <2> DEFINE l == Len(cdr[c])
               m == Len(refused[c])
               n == Cardinality(taken \cap {c})
    <2>6. \/ l = 0 /\ m = 0 /\ (n = 0 \/ n = 1)
          \/ l = 0 /\ (m = 0 \/ m = 1) /\ n = 0
          \/ (l = 0 \/ l = 1) /\ m = 0 /\ n = 0
        BY <2>3, <2>4, <2>5, Zenon
    <2> HIDE DEF l, m, n
    <2>7. l + m + n <= 1
        BY <2>6
    <2> QED BY <2>7 DEF l, m, n
<1>2. IInv => OneRecord
    BY <1>1 DEF OneRecord
<1> QED BY <1>2, Invariance, PTL

\* What a peer is told is true of its call: the answer is chosen from push's result after
\* the queue's lock is released, when other threads may already have moved the call on.
THEOREM AnswersAreTrue == Spec => []AnswerIsTrue
<1>1. IInv => AnswerIsTrue
    BY FateOfCall DEF AnswerIsTrue, Follows
<1> QED BY <1>1, Invariance, PTL
=============================================================================
