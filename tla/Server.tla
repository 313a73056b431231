------------------------------- MODULE Server -------------------------------
(***************************************************************************)
(* The HTTP server (classes Listener and Session) in front of the queue of  *)
(* incoming calls.                                                          *)
(*                                                                          *)
(* The listener keeps one accept pending; its handler starts a session and  *)
(* the next accept.  A session reads one request, under a timeout, offers a *)
(* call to the queue, writes the answer under the same timeout and ends.  A *)
(* peer may finish or reset its connection at any time.  A connection       *)
(* carries at most one request, so it is named by the Call it offers.       *)
(*                                                                          *)
(* A handler that throws leaves ioc.run(), which nothing catches: the       *)
(* process terminates.  The operators are those of the queue's pop: they    *)
(* take a call at any time.                                                 *)
(***************************************************************************)
EXTENDS Integers, Sequences, FiniteSets

CONSTANTS Call, CgPn, cg_pn, Addr, capacity, Null

VARIABLES incoming_calls, timers, free_timers, map_cg_pn_to_pos, posted, reply,
          taken, cdr, heap

Q == INSTANCE IncomingCallsQueue

ASSUME QueueAssumption == Q!ConstantsAssumption

VARIABLES acceptor,  \* "listening": an accept is pending; "accepted": its
                     \* handler is; "stopped": neither
          incoming,  \* the connection the handler is given, Null for an error
          peer,      \* the other end of each connection
          session,   \* where the session of each connection is
          deadline,  \* whether the stream's expiry time is set
          answer,    \* the answer of each session
          refused,   \* the statuses AddToQueue wrote to the CDR
          process

queueVars == <<incoming_calls, timers, free_timers, map_cg_pn_to_pos, posted,
               reply, taken, cdr, heap>>
acceptVars == <<acceptor, incoming>>
sessionVars == <<session, deadline, answer, refused>>
serverVars == <<acceptVars, peer, sessionVars, process>>
vars == <<queueVars, serverVars>>

Answers == {"CallId", "overloaded", "already waiting", "bad request"}

Up == Q!Running /\ process = "up"
SessionMoves(c, from, to) ==
    /\ Up
    /\ session[c] = from
    /\ session' = [session EXCEPT ![c] = to]

Init ==
    /\ Q!Init
    /\ acceptor = "listening"
    /\ incoming = Null
    /\ peer = [c \in Call |-> "absent"]
    /\ session = [c \in Call |-> "none"]
    /\ deadline = [c \in Call |-> FALSE]
    /\ answer = [c \in Call |-> "none"]
    /\ refused = [c \in Call |-> <<>>]
    /\ process = "up"

-----------------------------------------------------------------------------
(* The peers *)

PeerMoves(c, from, to) ==
    /\ Up
    /\ peer[c] \in from
    /\ peer' = [peer EXCEPT ![c] = to]
    /\ UNCHANGED <<queueVars, acceptVars, sessionVars, process>>

PeerConnects(c) == PeerMoves(c, {"absent"}, "connected")
PeerFinishes(c) == PeerMoves(c, {"connected"}, "finished")
PeerResets(c) == PeerMoves(c, {"connected", "finished"}, "reset")

-----------------------------------------------------------------------------
(* The listener *)

\* remote_endpoint() of a socket that is not open, or whose peer is gone.
RemoteEndpointThrows(c) == c \in Call => peer[c] = "reset"

Terminate ==
    /\ process' = "terminated"
    /\ UNCHANGED <<queueVars, acceptVars, peer, sessionVars>>

\* (fault) The handler does not start the next accept.
NoNextAccept == acceptor' = "stopped"
DoAccept == acceptor' = "listening"

AcceptCompletes(c) ==
    /\ Up /\ acceptor = "listening"
    /\ peer[c] # "absent" /\ session[c] = "none"
    /\ acceptor' = "accepted"
    /\ incoming' = c
    /\ UNCHANGED <<queueVars, peer, sessionVars, process>>

\* No descriptor is left, for example; at the start also when the constructor
\* returned early and left the acceptor closed.
AcceptFails ==
    /\ Up /\ acceptor = "listening"
    /\ acceptor' = "accepted"
    /\ incoming' = Null
    /\ UNCHANGED <<queueVars, peer, sessionVars, process>>

\* The arguments of the log line are evaluated before ec is tested, so the branch
\* for an error is never reached.
OnAcceptThrows ==
    /\ Up /\ acceptor = "accepted"
    /\ RemoteEndpointThrows(incoming)
    /\ Terminate

OnAcceptStarts ==
    /\ acceptor = "accepted"
    /\ ~RemoteEndpointThrows(incoming)
    /\ SessionMoves(incoming, "none", "starting")
    /\ DoAccept
    /\ incoming' = Null
    /\ UNCHANGED <<queueVars, peer, deadline, answer, refused, process>>

-----------------------------------------------------------------------------
(* The sessions *)

\* (fault) The expiry time of the stream is not set.
DeadlineForgotten(c) == deadline
DeadlineSet(c) == [deadline EXCEPT ![c] = TRUE]

DoRead(c) ==
    /\ SessionMoves(c, "starting", "reading")
    /\ deadline' = DeadlineSet(c)
    /\ UNCHANGED <<queueVars, acceptVars, peer, answer, refused, process>>

Ends(c, from) ==
    /\ SessionMoves(c, from, "ended")
    /\ UNCHANGED <<queueVars, acceptVars, peer, deadline, answer, refused, process>>

\* OnRead with an error, and with end_of_stream: no request, no answer.
ReadFails(c) == peer[c] \in {"finished", "reset"} /\ Ends(c, "reading")
ReadTimesOut(c) == deadline[c] /\ Ends(c, "reading")

\* OnRead with a request that is no GET or has no phone number; the peer may have
\* reset the connection after it sent the request.
HandleBadRequest(c) ==
    /\ ~RemoteEndpointThrows(c)
    /\ SessionMoves(c, "reading", "writing")
    /\ answer' = [answer EXCEPT ![c] = "bad request"]
    /\ UNCHANGED <<queueVars, acceptVars, peer, deadline, refused, process>>

BadRequestThrows(c) ==
    /\ Up /\ session[c] = "reading"
    /\ RemoteEndpointThrows(c)
    /\ Terminate

\* (fault) The case of an accepted call falls through to the end of the switch.
FallsThrough(status) == TRUE
IsRefusal(status) == status # "OK"

\* (fault) The body of a refusal is not filled in.
MessageLeftOut(status) == IF status = "OK" THEN "CallId" ELSE ""
Message(status) ==
    CASE status = "OK" -> "CallId"
      [] status = "OVERLOAD" -> "overloaded"
      [] status = "ALREADY_IN_QUEUE" -> "already waiting"

\* OnRead with a valid request: the call is offered to the queue.
HandleCall(c) ==
    /\ Q!Push(c)
    /\ IF IsRefusal(reply'[c])
         THEN SessionMoves(c, "reading", "refusing") /\ UNCHANGED answer
         ELSE /\ SessionMoves(c, "reading", "writing")
              /\ answer' = [answer EXCEPT ![c] = Message(reply'[c])]
    /\ UNCHANGED <<acceptVars, peer, deadline, refused, process>>

\* (fault) The case of the refusal returns before the record is written.
NotRecorded(c) == refused' = refused
\* The record of the call, but for its text.
WriteCDR(c) == refused' = [refused EXCEPT ![c] = Append(@, reply[c])]

\* The rest of AddToQueue, outside the queue's lock: the refused call is completed
\* and recorded, and only then answered.
RecordRefusal(c) ==
    /\ SessionMoves(c, "refusing", "writing")
    /\ WriteCDR(c)
    /\ answer' = [answer EXCEPT ![c] = Message(reply[c])]
    /\ UNCHANGED <<queueVars, acceptVars, peer, deadline, process>>

\* OnWrite, with or without an error: the session ends.  The expiry time is still
\* the one that DoRead set.
WriteEnds(c) == Ends(c, "writing")
WriteTimesOut(c) == deadline[c] /\ Ends(c, "writing")

-----------------------------------------------------------------------------
(* The queue: its timers, and the operators *)

ExpireInQueue(t) == Up /\ Q!TimerExpires(t) /\ UNCHANGED serverVars
ResetCall(h) == Up /\ Q!OnCallReset(h) /\ UNCHANGED serverVars
OperatorPops ==
    /\ Up
    /\ (\E call \in Call : Q!PopCall(call)) \/ Q!PopThrows
    /\ UNCHANGED serverVars

QueueMoves ==
    \/ \E t \in Q!Timer : ExpireInQueue(t)
    \/ \E h \in posted : ResetCall(h)
    \/ OperatorPops

Next ==
    \/ \E c \in Call :
          \/ PeerConnects(c) \/ PeerFinishes(c) \/ PeerResets(c)
          \/ AcceptCompletes(c)
          \/ DoRead(c) \/ ReadFails(c) \/ ReadTimesOut(c)
          \/ HandleBadRequest(c) \/ BadRequestThrows(c)
          \/ HandleCall(c) \/ RecordRefusal(c)
          \/ WriteEnds(c) \/ WriteTimesOut(c)
    \/ AcceptFails \/ OnAcceptThrows \/ OnAcceptStarts
    \/ QueueMoves

Spec == Init /\ [][Next]_vars

\* Connections in the backlog are accepted, io threads run the handlers and time
\* passes, for the streams and for the queue's timers.  That a peer sends a request or
\* reads an answer is not assumed, nor that an operator ever takes a call.
Fairness ==
    /\ WF_vars(\E c \in Call : AcceptCompletes(c))
    /\ WF_vars(OnAcceptThrows \/ OnAcceptStarts)
    /\ WF_vars(\E t \in Q!Timer : ExpireInQueue(t))
    /\ WF_vars(\E h \in posted : ResetCall(h))
    /\ \A c \in Call :
          /\ WF_vars(DoRead(c))
          /\ WF_vars(RecordRefusal(c))
          /\ WF_vars(ReadTimesOut(c) \/ WriteTimesOut(c))

FairSpec == Spec /\ Fairness

-----------------------------------------------------------------------------
(* Properties *)

\* Every variable has its type.
TypeOK ==
    /\ Q!TypeOK
    /\ acceptor \in {"listening", "accepted", "stopped"}
    /\ incoming \in Call \cup {Null}
    /\ peer \in [Call -> {"absent", "connected", "finished", "reset"}]
    /\ session \in [Call -> {"none", "starting", "reading", "refusing", "writing",
                             "ended"}]
    /\ deadline \in [Call -> BOOLEAN]
    /\ answer \in [Call -> Answers \cup {"none"}]
    /\ refused \in [Call -> Seq(Q!RespStatus)]
    /\ process \in {"up", "terminated"}

\* A call is recorded once: by the session that refused it, by the reset of its
\* timer or by the operator that took it, whose record is still to come.  Never by
\* two of them, although the session writes its record after push has returned,
\* when the queue may already have completed the call.
OneRecord ==
    heap = "sound" =>
        \A c \in Call :
            Len(cdr[c]) + Len(refused[c]) + Cardinality(taken \cap {c}) <= 1

\* What the peer is told is true when it is told: with a CallId its call was let in
\* and is waiting, taken or timed out; with a refusal it is none of these and is
\* already recorded with that status; without an answer there may be either.
AnswerIsTrue ==
    heap = "sound" =>
        \A c \in Call :
            LET accepted == Q!Queued(c) \/ c \in taken \/ cdr[c] # <<>>
            IN  /\ answer[c] = "CallId" => accepted /\ refused[c] = <<>>
                /\ answer[c] = "overloaded" =>
                     ~accepted /\ refused[c] = <<"OVERLOAD">>
                /\ answer[c] = "already waiting" =>
                     ~accepted /\ refused[c] = <<"ALREADY_IN_QUEUE">>
                /\ answer[c] = "bad request" => ~accepted /\ refused[c] = <<>>

\* A connection that is made gets a session, unless its peer gives it up or the
\* process ends: the accept loop never stops silently.
EveryPeerServed ==
    \A c \in Call :
        peer[c] = "connected" ~> session[c] # "none" \/ peer[c] = "reset" \/ ~Up

\* A session ends, whatever its peer does or leaves undone, and the one expiry time
\* set in DoRead is enough for the read and for the write.
EverySessionEnds ==
    \A c \in Call : session[c] = "starting" ~> session[c] = "ended" \/ ~Up

\* A call that was offered to the queue is recorded, or an operator has it: by the
\* session if it was refused, by its timer if it was let in, and whatever becomes of
\* the connection meanwhile, unless a throwing handler ends the process first.
EveryCallRecorded ==
    \A c \in Call :
        reply[c] # "none" ~>
            cdr[c] # <<>> \/ refused[c] # <<>> \/ c \in taken \/ heap # "sound" \/ ~Up

\* A failed accept does not end the process: on_accept logs the error and returns
\* (Listener.cpp).  The code does not get that far.
AcceptErrorIsHandled ==
    process = "terminated" => ~(acceptor = "accepted" /\ incoming = Null)
=============================================================================
