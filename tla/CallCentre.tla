----------------------------- MODULE CallCentre -----------------------------
(***************************************************************************)
(* What the call centre promises, without threads, timers, iterators and    *)
(* condition variables: a bounded queue without two calls of one number,    *)
(* served in the order of arrival by a fixed number of operators, with one  *)
(* record for every call that was let in.  Module Operators implements it.  *)
(***************************************************************************)
EXTENDS Integers, Sequences, FiniteSets

CONSTANTS Call, cg_pn, capacity, count_op

VARIABLES waiting,  \* the queued calls, the oldest first
          talking,  \* calls that have been given to an operator
          closing,  \* calls whose operator is free again, not yet recorded
          answer,   \* what the caller was told
          record,   \* the statuses recorded for each call
          broken    \* nothing is promised any more

vars == <<waiting, talking, closing, answer, record, broken>>

Init ==
    /\ waiting = <<>>
    /\ talking = {}
    /\ closing = {}
    /\ answer = [c \in Call |-> "none"]
    /\ record = [c \in Call |-> <<>>]
    /\ broken = FALSE

Answers(c, status) ==
    /\ answer[c] = "none"
    /\ answer' = [answer EXCEPT ![c] = status]
    /\ UNCHANGED <<talking, closing, record, broken>>

Waits(n) == \E i \in 1 .. Len(waiting) : cg_pn[waiting[i]] = n

RefuseDuplicate(c) ==
    /\ Waits(cg_pn[c])
    /\ Answers(c, "ALREADY_IN_QUEUE")
    /\ UNCHANGED waiting

RefuseOverload(c) ==
    /\ ~Waits(cg_pn[c]) /\ Len(waiting) = capacity
    /\ Answers(c, "OVERLOAD")
    /\ UNCHANGED waiting

LetIn(c) ==
    /\ ~Waits(cg_pn[c]) /\ Len(waiting) < capacity
    /\ Answers(c, "OK")
    /\ waiting' = Append(waiting, c)

Records(c, status) ==
    /\ record' = [record EXCEPT ![c] = Append(@, status)]
    /\ UNCHANGED <<answer, broken>>

\* A caller gives up, from any place in the queue.
GivesUp(i) ==
    /\ waiting' = [j \in 1 .. Len(waiting) - 1 |->
                     waiting[IF j < i THEN j ELSE j + 1]]
    /\ Records(waiting[i], "TIMEOUT")
    /\ UNCHANGED <<talking, closing>>

Take ==
    /\ waiting # <<>>
    /\ Cardinality(talking) < count_op
    /\ talking' = talking \cup {Head(waiting)}
    /\ waiting' = Tail(waiting)
    /\ UNCHANGED <<closing, answer, record, broken>>

HangUp(c) ==
    /\ talking' = talking \ {c}
    /\ closing' = closing \cup {c}
    /\ UNCHANGED <<waiting, answer, record, broken>>

Close(c) ==
    /\ closing' = closing \ {c}
    /\ Records(c, "OK")
    /\ UNCHANGED <<waiting, talking>>

\* Undefined behaviour: from here on everything may happen.
Break == broken' = TRUE

Next ==
    \/ \E c \in Call : RefuseDuplicate(c) \/ RefuseOverload(c) \/ LetIn(c)
    \/ \E i \in 1 .. Len(waiting) : GivesUp(i)
    \/ Take
    \/ \E c \in talking : HangUp(c)
    \/ \E c \in closing : Close(c)
    \/ Break

Spec == Init /\ [][Next]_vars
=============================================================================
