----------------------------- MODULE Operators -----------------------------
(***************************************************************************)
(* The operators (class Operators) at work on the queue of incoming calls,  *)
(* and their shutdown by main.                                              *)
(*                                                                          *)
(*   - The operators' thread runs Operators::Run: it waits for a free       *)
(*     operator, waits for a call, and hands the call over (AddCall).       *)
(*   - The io threads push calls and run the completion handlers of the     *)
(*     timers: OnCallReset of the queue and OnEndCall of the operators.     *)
(*   - The main thread stops the io_context on a signal, joins the io       *)
(*     threads, calls Operators::Stop and joins the operators' thread.      *)
(*                                                                          *)
(* TSQueue and IncomingCallsQueue share one way of waiting: wait() tests    *)
(* empty() under one mutex and then sleeps on a condition variable under    *)
(* another.  The two are separate steps here, as they are in the code.      *)
(***************************************************************************)
EXTENDS Integers, Sequences, FiniteSets

CONSTANTS Call, CgPn, cg_pn, Addr, capacity, Null,
          count_op    \* the number of operators

ASSUME OperatorsAssumption == count_op \in Nat

VARIABLES incoming_calls, timers, free_timers, map_cg_pn_to_pos, posted, reply,
          taken, cdr, heap

Q == INSTANCE IncomingCallsQueue

ASSUME QueueAssumption == Q!ConstantsAssumption

VARIABLES free_operators,  \* the TSQueue of free operators
          operators,       \* the call each operator's timer is set for, or Null
          operator_id,     \* the field operator_id of each call
          ended,           \* posted completion handlers of operators' timers
          closing,         \* calls between the two halves of OnEndCall
          completed,       \* the statuses OnEndCall wrote to the CDR for a call
          run,             \* where the operators' thread is in Run
          current,         \* the local variable call of AddCall
          continue_loop,
          main             \* where the main thread is in Start

queueVars == <<incoming_calls, timers, free_timers, map_cg_pn_to_pos, posted,
               reply, taken, cdr, heap>>
talkVars == <<operators, operator_id, ended, closing, completed>>
opVars == <<free_operators, talkVars, run, current, continue_loop, main>>
vars == <<queueVars, opVars>>

Op == 0 .. count_op - 1

\* The operators' thread: testing a queue for emptiness, about to sleep, asleep
\* (first for an operator, then for a call), testing continue_loop_, in AddCall
\* before pop and after it, and returned.
RunPlaces == {"free_check", "free_block", "free_asleep",
              "inc_check", "inc_block", "inc_asleep",
              "flag", "pop", "assign", "exit"}

\* The main thread: in ioc.run() or joining, in the three steps of Stop, joining
\* the operators' thread, and returned from Start.
MainPlaces == {"serving", "stopping", "stop_flag", "stop_free", "stop_awake",
               "join", "done"}

\* Nothing moves after a crash.
Serving == Q!Running /\ main = "serving"
RunMoves(from, to) == Q!Running /\ run = from /\ run' = to

\* notify_one on a condition variable: of use only to a thread that is asleep.
\* (fault) The notification is left out.
NotifyNobody(asleep, awake) == UNCHANGED run
Notify(asleep, awake) == run' = IF run = asleep THEN awake ELSE run
NotifyFree == Notify("free_asleep", "free_check")
NotifyIncoming == Notify("inc_asleep", "inc_check")

\* (fault) The constructor numbers the operators from 1.
InitialOperatorsFromOne == [i \in 1 .. count_op |-> i]
InitialOperators == [i \in 1 .. count_op |-> i - 1]

Init ==
    /\ Q!Init
    /\ free_operators = InitialOperators
    /\ operators = [op \in Op |-> Null]
    /\ operator_id = [c \in Call |-> 0]
    /\ ended = {}
    /\ closing = {}
    /\ completed = [c \in Call |-> <<>>]
    /\ run = "free_check"
    /\ current = Null
    /\ continue_loop = TRUE
    /\ main = "serving"

-----------------------------------------------------------------------------
(* The io threads: push, and the reset of queued calls *)

PushCall(call) ==
    /\ Serving
    /\ Q!Push(call)
    /\ IF reply'[call] = "OK" THEN NotifyIncoming ELSE UNCHANGED run
    /\ UNCHANGED <<free_operators, talkVars, current, continue_loop, main>>

ExpireInQueue(t) ==
    /\ Serving
    /\ Q!TimerExpires(t)
    /\ UNCHANGED opVars

ResetCall(h) ==
    /\ Serving
    /\ Q!OnCallReset(h)
    /\ UNCHANGED opVars

-----------------------------------------------------------------------------
(* The operators' thread: Run and AddCall *)

\* (fault) AddCall is entered without waiting for an operator.
FreeCheckSkipped ==
    /\ RunMoves("free_check", "inc_check")
    /\ UNCHANGED <<queueVars, free_operators, talkVars, current, continue_loop, main>>
\* free_operators_.wait()
FreeCheck ==
    /\ IF free_operators = <<>> THEN RunMoves("free_check", "free_block")
                                ELSE RunMoves("free_check", "inc_check")
    /\ UNCHANGED <<queueVars, free_operators, talkVars, current, continue_loop, main>>

\* incoming_calls_.wait()
IncomingCheck ==
    /\ IF incoming_calls = <<>> THEN RunMoves("inc_check", "inc_block")
                                ELSE RunMoves("inc_check", "flag")
    /\ UNCHANGED <<queueVars, free_operators, talkVars, current, continue_loop, main>>

\* cv.wait: the thread is asleep, whatever was pushed since the test.
Sleep ==
    /\ \/ RunMoves("free_block", "free_asleep")
       \/ RunMoves("inc_block", "inc_asleep")
    /\ UNCHANGED <<queueVars, free_operators, talkVars, current, continue_loop, main>>

\* A condition variable may wake a thread unasked.
SpuriousWakeup ==
    /\ \/ RunMoves("free_asleep", "free_check")
       \/ RunMoves("inc_asleep", "inc_check")
    /\ UNCHANGED <<queueVars, free_operators, talkVars, current, continue_loop, main>>

TestFlag ==
    /\ IF continue_loop THEN RunMoves("flag", "pop") ELSE RunMoves("flag", "exit")
    /\ UNCHANGED <<queueVars, free_operators, talkVars, current, continue_loop, main>>

AddCallPop(call) ==
    /\ RunMoves("pop", "assign")
    /\ Q!PopCall(call)
    /\ current' = call
    /\ UNCHANGED <<free_operators, talkVars, continue_loop, main>>

\* pop throws std::out_of_range, which AddCall catches: the call it waited for
\* was reset meanwhile, or its number is missing in the map.
AddCallNothing ==
    /\ RunMoves("pop", "free_check")
    /\ \/ incoming_calls = <<>> /\ UNCHANGED queueVars
       \/ Q!PopThrows
    /\ UNCHANGED <<free_operators, talkVars, current, continue_loop, main>>

AddCallNull ==
    /\ run = "pop"
    /\ Q!PopNull
    /\ UNCHANGED opVars

\* (fault) The operator is looked at but not removed from the free ones.
OperatorsKept == free_operators
OperatorsLeft == Tail(free_operators)

\* pop_front of the free operators and the start of the conversation;
\* expires_after cancels a wait still pending on the operator's timer.
AddCallAssign ==
    /\ RunMoves("assign", "free_check")
    /\ free_operators # <<>>
    /\ LET OpId == Head(free_operators) IN
         /\ operator_id' = [operator_id EXCEPT ![current] = OpId]
         /\ operators' = [operators EXCEPT ![OpId] = current]
         /\ ended' = IF operators[OpId] = Null THEN ended
                     ELSE ended \cup {[call |-> operators[OpId],
                                       ec |-> "operation_aborted"]}
    /\ free_operators' = OperatorsLeft
    /\ current' = Null
    /\ UNCHANGED <<queueVars, closing, completed, continue_loop, main>>

Run ==
    \/ FreeCheck \/ IncomingCheck \/ Sleep \/ TestFlag
    \/ \E call \in Call : AddCallPop(call)
    \/ AddCallNothing \/ AddCallNull \/ AddCallAssign

-----------------------------------------------------------------------------
(* The io threads: the end of a conversation *)

ConversationEnds(op) ==
    /\ Serving
    /\ operators[op] # Null
    /\ operators' = [operators EXCEPT ![op] = Null]
    /\ ended' = ended \cup {[call |-> operators[op], ec |-> "success"]}
    /\ UNCHANGED <<queueVars, free_operators, operator_id, closing, completed, run,
                   current, continue_loop, main>>

\* (fault) The wrong operator is marked as free.
FreesFirst(call) == Append(free_operators, 0)
Frees(call) == Append(free_operators, operator_id[call])

\* OnEndCall, first half: the operator is free again.  For a wait that was
\* cancelled OnEndCall returns at once.
EndCallFrees(h) ==
    /\ Serving
    /\ h \in ended
    /\ ended' = ended \ {h}
    /\ IF h.ec = "success"
         THEN /\ free_operators' = Frees(h.call)
              /\ NotifyFree
              /\ closing' = closing \cup {h.call}
         ELSE UNCHANGED <<free_operators, run, closing>>
    /\ UNCHANGED <<queueVars, operators, operator_id, completed, current,
                   continue_loop, main>>

\* OnEndCall, second half: the call is completed with OK and recorded.  A handler
\* that has started runs to its end although the io_context is stopped.
EndCallRecords(call) ==
    /\ Q!Running /\ main \in {"serving", "stopping"}
    /\ call \in closing
    /\ closing' = closing \ {call}
    /\ completed' = [completed EXCEPT ![call] = Append(@, "OK")]
    /\ UNCHANGED <<queueVars, free_operators, operators, operator_id, ended, run,
                   current, continue_loop, main>>

-----------------------------------------------------------------------------
(* The main thread: Start after the signal, and Operators::Stop *)

MainMoves(from, to) == Q!Running /\ main = from /\ main' = to

\* ioc.stop(): no further handler is started.  A push or a reset that is running
\* at that moment is one step under mux_queue and counts as done before the stop;
\* OnEndCall is two steps, so its second half may come after it.
StopContext ==
    /\ MainMoves("serving", "stopping")
    /\ UNCHANGED <<queueVars, free_operators, talkVars, run, current, continue_loop>>

\* ioc.run() returns on every io thread once its handler has returned.
JoinIoThreads ==
    /\ MainMoves("stopping", "stop_flag")
    /\ closing = {}
    /\ UNCHANGED <<queueVars, free_operators, talkVars, run, current, continue_loop>>

StopClearsFlag ==
    /\ MainMoves("stop_flag", "stop_free")
    /\ continue_loop' = FALSE
    /\ UNCHANGED <<queueVars, free_operators, talkVars, run, current>>

StopPushesOperator ==
    /\ MainMoves("stop_free", "stop_awake")
    /\ free_operators' = Append(free_operators, 0)
    /\ NotifyFree
    /\ UNCHANGED <<queueVars, talkVars, current, continue_loop>>

StopAwakes ==
    /\ MainMoves("stop_awake", "join")
    /\ \E addr \in Addr : Q!Awake(addr)
    /\ NotifyIncoming
    /\ UNCHANGED <<free_operators, talkVars, current, continue_loop>>

JoinOperators ==
    /\ MainMoves("join", "done")
    /\ run = "exit"
    /\ UNCHANGED <<queueVars, free_operators, talkVars, run, current, continue_loop>>

Stop == StopClearsFlag \/ StopPushesOperator \/ StopAwakes

-----------------------------------------------------------------------------
IoThreads ==
    \/ \E call \in Call : PushCall(call) \/ EndCallRecords(call)
    \/ \E t \in Q!Timer : ExpireInQueue(t)
    \/ \E h \in posted : ResetCall(h)
    \/ \E op \in Op : ConversationEnds(op)
    \/ \E h \in ended : EndCallFrees(h)

Next ==
    \/ IoThreads
    \/ Run
    \/ SpuriousWakeup
    \/ StopContext \/ JoinIoThreads \/ Stop \/ JoinOperators

Spec == Init /\ [][Next]_vars

PatientNext == Next /\ (Q!PatientCallers)'
PatientSpec == Init /\ [][PatientNext]_vars

\* Every thread goes on when it can, timers expire and io threads run the posted
\* handlers.  Nothing is assumed of callers, of the signal and of spurious wakeups.
Fairness ==
    /\ WF_vars(Run)
    /\ WF_vars(\E t \in Q!Timer : ExpireInQueue(t))
    /\ WF_vars(\E h \in posted : ResetCall(h))
    /\ WF_vars(\E op \in Op : ConversationEnds(op))
    /\ WF_vars(\E h \in ended : EndCallFrees(h))
    /\ WF_vars(\E call \in Call : EndCallRecords(call))
    /\ WF_vars(JoinIoThreads \/ Stop \/ JoinOperators)

PatientFairSpec == PatientSpec /\ Fairness

-----------------------------------------------------------------------------
(* The abstract call centre *)

\* The queued calls; awake() puts its null pointer behind them.
Waiting ==
    LET size == Len(incoming_calls)
        calls == IF size > 0 /\ incoming_calls[size].call = Null THEN size - 1 ELSE size
    IN  [i \in 1 .. calls |-> incoming_calls[i].call]

\* A call is an operator's from pop on, before pop_front has said which one's.
Talking ==
    ({current} \cup {operators[op] : op \in Op} \cup {h.call : h \in ended}) \ {Null}

CallCentre == INSTANCE CallCentre WITH
    waiting <- Waiting,
    talking <- Talking,
    answer <- reply,
    record <- [c \in Call |-> cdr[c] \o completed[c]],
    broken <- heap # "sound"

-----------------------------------------------------------------------------
(* Properties *)

\* Every variable has its type.
TypeOK ==
    /\ Q!TypeOK
    /\ free_operators \in Seq(Op \cup {0})
    /\ main \notin {"join", "done", "stop_awake"} => free_operators \in Seq(Op)
    /\ operators \in [Op -> Call \cup {Null}]
    /\ operator_id \in [Call -> Op \cup {0}]
    /\ ended \subseteq [call : Call, ec : {"success", "operation_aborted"}]
    /\ closing \subseteq Call
    /\ completed \in [Call -> Seq(Q!RespStatus)]
    /\ run \in RunPlaces
    /\ current \in Call \cup {Null}
    /\ continue_loop \in BOOLEAN
    /\ main \in MainPlaces

\* Until Stop adds its fictitious operator, every operator is in one place: free,
\* in a conversation, or with a conversation whose handler has not run.  No
\* operator is lost or given two calls, although it is freed by id, from a field
\* of the call, on another thread than the one that assigned it.
OperatorsConserved ==
    main \notin {"stop_awake", "join", "done"} =>
        \A op \in Op :
            LET free == {i \in 1 .. Len(free_operators) : free_operators[i] = op}
                over == {h \in ended : operator_id[h.call] = op}
                busy == {c \in {operators[op]} : c # Null}
            IN  /\ Cardinality(free) + Cardinality(over) + Cardinality(busy) = 1
                /\ \A c \in busy : operator_id[c] = op

\* What has become of a call after push.
Fates(c) ==
    LET is == [queued  |-> Q!Queued(c),
               fetched |-> current = c,
               talking |-> \E op \in Op : operators[op] = c,
               ended   |-> \E h \in ended : h.call = c,
               closing |-> c \in closing,
               timeout |-> cdr[c] = <<"TIMEOUT">>,
               ok      |-> completed[c] = <<"OK">>]
    IN  {f \in DOMAIN is : is[f]}

\* Across the two queues, the three kinds of threads and the shutdown, an
\* accepted call is in exactly one place, so it gets one CDR record, TIMEOUT or
\* OK and never both; a rejected call is nowhere.  Holds until a freed iterator
\* is used.
OneFate ==
    heap = "sound" =>
        \A c \in Call :
            /\ Cardinality(Fates(c)) = IF reply[c] = "OK" THEN 1 ELSE 0
            /\ Len(cdr[c]) + Len(completed[c]) <= 1

\* From the end of free_operators_.wait() to pop_front there is a free operator,
\* though no lock is held in between: pop_front, which AddCall calls outside its
\* try block, never throws.
OperatorStaysFree ==
    run \in {"inc_check", "inc_block", "inc_asleep", "flag", "pop", "assign"} =>
        free_operators # <<>>

\* Unless the server is shut down, every accepted call is recorded in the CDR.
\* This holds in spite of lost wakeups: a call that no operator takes is reset.
EveryCallRecorded ==
    \A c \in Call :
        reply[c] = "OK" ~> cdr[c] # <<>> \/ completed[c] # <<>> \/ main # "serving"

\* Undefined behaviour has two causes and no third.  One is the queue's own: a stale
\* handler whose caller is in the queue again.  The other is AddCall popping the null
\* pointer of awake(): Run had tested continue_loop_ before Stop cleared it, and the
\* call it waited for was gone.  No free timer is ever missing.
OnlyTheseBreak ==
    [][heap = "sound" /\ heap' # "sound" =>
         \/ \E h \in posted : Q!Stale(h) /\ Q!InQueue(cg_pn[h.call])
         \/ main = "join" /\ run = "pop" /\ Waiting = <<>>]_vars

\* With patient callers nothing is undefined while the server serves, nor while the io
\* threads are joined: what remains is the null pointer of awake(), at the very end.
SoundUntilAwake == heap # "sound" => main \in {"join", "done"}

\* The operators, their queue and their threads implement the abstract call centre,
\* shutdown included: calls are served in the order of arrival, no more of them at a
\* time than there are operators, are refused for the two reasons only, and are
\* recorded once, after the stay in the queue or the conversation has ended.
ImplementsCallCentre == CallCentre!Spec

\* A lost wakeup is made good: the operators' thread does not sleep for ever beside
\* free operators as long as one is busy, since the end of that conversation wakes it.
\* When all of them have been freed in the gap of wait(), nothing does: the calls time
\* out one by one, until the server is shut down.
SleeperIsWoken ==
    run = "free_asleep" /\ Len(free_operators) < count_op
      ~> run # "free_asleep" \/ main # "serving"

(* A property that a comment of the code states and the code does not have. *)

\* The shutdown started by a signal comes to an end (main.cpp: clean shutdown).
ShutdownEnds == main = "stopping" ~> main = "done" \/ heap = "crashed"
=============================================================================
