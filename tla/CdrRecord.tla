----------------------------- MODULE CdrRecord -----------------------------
(***************************************************************************)
(* The text of a CDR record (Log::WriteCDR), written by several io threads  *)
(* at once.  Each time of a call is converted by std::localtime into one    *)
(* struct tm that all threads share, and then formatted from it.  Times are *)
(* abstract: a time is named by the call and the field that holds it.       *)
(* (A read torn between two times would show even more than is shown here.) *)
(***************************************************************************)
EXTENDS Integers, Sequences

CONSTANTS Thread,       \* the io threads
          Call,         \* the calls to be recorded
          OkCall,       \* those that an operator has served
          TimeoutCall,  \* those that OnCallReset has taken out of the queue
          Null

VARIABLES tm,       \* the time in the shared struct tm
          writing,  \* the call each thread writes the record of, or Null
          filled,   \* whether a thread is between std::localtime and std::strftime
          text,     \* the times formatted so far for each call
          logged

vars == <<tm, writing, filled, text, logged>>

\* The conversions of WriteCDR: tpToStrYMD ("%F") and tpToStrHMS ("%T").
Conversions(c) ==
    << [time |-> <<c, "dt_request">>, format |-> "%F"],
       [time |-> <<c, "dt_request">>, format |-> "%T"],
       [time |-> <<c, "dt_completion">>, format |-> "%F"],
       [time |-> <<c, "dt_completion">>, format |-> "%T"] >>
    \o IF c \in OkCall THEN << [time |-> <<c, "dt_response">>, format |-> "%T"] >>
       ELSE <<>>

Init ==
    /\ tm = <<Null, "epoch">>
    /\ writing = [t \in Thread |-> Null]
    /\ filled = [t \in Thread |-> FALSE]
    /\ text = [c \in Call |-> <<>>]
    /\ logged = {}

\* A call is recorded once, by the thread whose handler completed it.  OnCallReset
\* does it with mux_queue in hand, so one TIMEOUT is recorded at a time; OnEndCall
\* and a session that refuses a call hold no lock.
BeginWriteCDR(t, c) ==
    /\ writing[t] = Null
    /\ c \notin logged /\ \A s \in Thread : writing[s] # c
    /\ c \in TimeoutCall => \A s \in Thread : writing[s] \notin TimeoutCall
    /\ writing' = [writing EXCEPT ![t] = c]
    /\ UNCHANGED <<tm, filled, text, logged>>

Current(t) == Conversions(writing[t])[Len(text[writing[t]]) + 1]
Unfinished(t) ==
    writing[t] # Null /\ Len(text[writing[t]]) < Len(Conversions(writing[t]))

LocalTime(t) ==
    /\ Unfinished(t) /\ ~filled[t]
    /\ tm' = Current(t).time
    /\ filled' = [filled EXCEPT ![t] = TRUE]
    /\ UNCHANGED <<writing, text, logged>>

StrFTime(t) ==
    /\ Unfinished(t) /\ filled[t]
    /\ text' = [text EXCEPT ![writing[t]] =
                  Append(@, [time |-> tm, format |-> Current(t).format])]
    /\ filled' = [filled EXCEPT ![t] = FALSE]
    /\ UNCHANGED <<tm, writing, logged>>

LogRecord(t) ==
    /\ writing[t] # Null /\ ~Unfinished(t)
    /\ logged' = logged \cup {writing[t]}
    /\ writing' = [writing EXCEPT ![t] = Null]
    /\ UNCHANGED <<tm, filled, text>>

Next ==
    \E t \in Thread :
        \/ \E c \in Call : BeginWriteCDR(t, c)
        \/ LocalTime(t) \/ StrFTime(t) \/ LogRecord(t)

Spec == Init /\ [][Next]_vars

-----------------------------------------------------------------------------
(* Property *)

\* A record shows the times of its own call (README.md, format of the CDR).  With
\* one io thread it does; with two, localtime of the other may come in between.
RecordShowsItsCall == \A c \in logged : text[c] = Conversions(c)
=============================================================================
