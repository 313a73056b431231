-------------------------- MODULE CdrRecord_proofs --------------------------
(***************************************************************************)
(* What the shared struct tm of std::localtime leaves of WriteCDR.  Records *)
(* show the times of their own calls, for any number of calls and threads,  *)
(* as long as no two threads are between localtime and strftime at once: so *)
(* it is with one io thread, main's own, when the program is started for    *)
(* two threads, the least it can be started for (main.cpp).                 *)
(***************************************************************************)
EXTENDS CdrRecord, TLAPS

OneThread == \A s, t \in Thread : s = t

\* No two threads are between localtime and strftime.
OneFilled == \A s, t \in Thread : filled[s] /\ filled[t] => s = t

\* The writers of records with the conversions one at a time.
SerialSpec == Init /\ [][Next /\ OneFilled']_vars

\* A conversion, and a formatted time.
Entry == [time : Call \X {"dt_request", "dt_completion", "dt_response"},
          format : {"%F", "%T"}]

TypeOK ==
    /\ writing \in [Thread -> Call \cup {Null}]
    /\ filled \in [Thread -> BOOLEAN]
    /\ text \in [Call -> Seq(Entry)]
    /\ logged \subseteq Call

\* What has been formatted for a call are the first of its conversions.
Begins(s, c) ==
    /\ Len(s) <= Len(Conversions(c))
    /\ \A i \in 1 .. Len(s) : s[i] = Conversions(c)[i]

\* Between localtime and strftime, tm holds the time that the thread means.
TmIsCurrent == \A t \in Thread : filled[t] => Unfinished(t) /\ tm = Current(t).time

\* No two threads write the record of one call.
OneWriter ==
    \A s, t \in Thread : writing[s] = writing[t] /\ writing[s] # Null => s = t

CdrInv ==
    /\ TypeOK
    /\ OneWriter
    /\ \A c \in Call : Begins(text[c], c)
    /\ \A c \in logged : Len(text[c]) = Len(Conversions(c))
    /\ TmIsCurrent

-----------------------------------------------------------------------------
(* The conversions of a call *)

LEMMA ConversionsType == \A c \in Call : Conversions(c) \in Seq(Entry)
<1> SUFFICES ASSUME NEW c \in Call PROVE Conversions(c) \in Seq(Entry)
  OBVIOUS
<1> DEFINE entry(field, fmt) == [time |-> <<c, field>>, format |-> fmt]
           first == << entry("dt_request", "%F"), entry("dt_request", "%T"),
                       entry("dt_completion", "%F"), entry("dt_completion", "%T") >>
           last == IF c \in OkCall THEN << entry("dt_response", "%T") >> ELSE <<>>
<1>1. \A field \in {"dt_request", "dt_completion", "dt_response"}, fmt \in {"%F", "%T"} :
        entry(field, fmt) \in Entry
  BY DEF Entry
<1>2. first \in Seq(Entry)
  <2> HIDE DEF entry
  <2> QED BY <1>1
<1>3. last \in Seq(Entry)
  <2> HIDE DEF entry
  <2> QED BY <1>1
<1>4. Conversions(c) = first \o last
  BY DEF Conversions
<1> HIDE DEF first, last
<1> QED BY <1>2, <1>3, <1>4

-----------------------------------------------------------------------------
(* The invariant *)

LEMMA CdrInit == Init => CdrInv
<1> SUFFICES ASSUME Init PROVE CdrInv
  OBVIOUS
<1>1. TypeOK
  BY DEF Init, TypeOK
<1>2. \A c \in Call : Begins(text[c], c)
  <2> SUFFICES ASSUME NEW c \in Call PROVE Begins(text[c], c)
    OBVIOUS
  <2>1. text[c] = <<>>
    BY DEF Init
  <2>2. Len(Conversions(c)) \in Nat
    BY ConversionsType
  <2> QED BY <2>1, <2>2 DEF Begins
<1> QED BY <1>1, <1>2 DEF Init, CdrInv, TmIsCurrent, OneWriter

\* A thread that begins a record, or ends one, is not between the two calls.
LEMMA BeginKeeps ==
  ASSUME CdrInv, NEW t \in Thread, NEW c \in Call, BeginWriteCDR(t, c)
  PROVE  CdrInv'
<1>1. TypeOK'
  BY DEF BeginWriteCDR, CdrInv, TypeOK
<1>2. TmIsCurrent'
  <2> SUFFICES ASSUME NEW s \in Thread, filled[s]
               PROVE  (Unfinished(s) /\ tm = Current(s).time)'
    BY DEF BeginWriteCDR, TmIsCurrent
  <2>1. Unfinished(s) /\ tm = Current(s).time
    BY DEF CdrInv, TmIsCurrent
  <2>2. s # t
    BY <2>1 DEF BeginWriteCDR, Unfinished
  <2>3. writing'[s] = writing[s]
    BY <2>2 DEF BeginWriteCDR, CdrInv, TypeOK
  <2> QED BY <2>1, <2>3 DEF BeginWriteCDR, Unfinished, Current
<1>3. OneWriter'
  BY DEF BeginWriteCDR, OneWriter, CdrInv, TypeOK
<1> QED BY <1>1, <1>2, <1>3 DEF CdrInv, BeginWriteCDR

\* The only step that can do harm: localtime fills tm for this thread, and no other
\* thread may have filled it for itself.
LEMMA LocalTimeKeeps ==
  ASSUME CdrInv, OneFilled', NEW t \in Thread, LocalTime(t)
  PROVE  CdrInv'
<1>1. PICK c \in Call : c = writing[t]
  BY DEF CdrInv, TypeOK, LocalTime, Unfinished
<1>2. Len(text[c]) + 1 \in 1 .. Len(Conversions(c))
  <2>1. text[c] \in Seq(Entry) /\ Conversions(c) \in Seq(Entry)
    BY ConversionsType DEF CdrInv, TypeOK
  <2> QED BY <2>1, <1>1 DEF LocalTime, Unfinished
<1>3. Current(t) \in Entry
  <2>1. Conversions(c)[Len(text[c]) + 1] \in Entry
    BY <1>2, ConversionsType
  <2> QED BY <2>1, <1>1 DEF Current
<1>4. TypeOK'
  BY <1>3 DEF LocalTime, CdrInv, TypeOK, Entry
<1>5. TmIsCurrent'
  <2> SUFFICES ASSUME NEW s \in Thread, filled'[s]
               PROVE  (Unfinished(s) /\ tm = Current(s).time)'
    BY DEF TmIsCurrent
  <2>1. s = t
    <3>1. filled'[t]
      BY DEF LocalTime, CdrInv, TypeOK
    <3> QED BY <3>1 DEF OneFilled
  <2> QED BY <2>1 DEF LocalTime, Unfinished, Current
<1>6. OneWriter'
  BY DEF LocalTime, OneWriter, CdrInv
<1> QED BY <1>4, <1>5, <1>6 DEF CdrInv, LocalTime

\* strftime formats the time the thread means, as tm has not been filled again; what
\* the other threads mean stays, as they write other records.
LEMMA StrFTimeKeeps ==
  ASSUME CdrInv, NEW t \in Thread, StrFTime(t)
  PROVE  CdrInv'
<1>1. PICK c \in Call : c = writing[t]
  BY DEF CdrInv, TypeOK, StrFTime, Unfinished
<1>2. text[c] \in Seq(Entry) /\ Conversions(c) \in Seq(Entry)
  BY ConversionsType DEF CdrInv, TypeOK
<1>3. Len(text[c]) + 1 \in 1 .. Len(Conversions(c))
  BY <1>1, <1>2 DEF StrFTime, Unfinished
<1>4. PICK e \in Entry : e = Conversions(c)[Len(text[c]) + 1]
  BY <1>2, <1>3
<1>5. Current(t) = e
  BY <1>1, <1>4 DEF Current
<1>6. [time |-> tm, format |-> Current(t).format] = e
  <2>1. tm = e.time
    BY <1>5 DEF StrFTime, CdrInv, TmIsCurrent
  <2> QED BY <2>1, <1>5 DEF Entry
<1>7. text' = [text EXCEPT ![c] = Append(@, e)]
  BY <1>1, <1>6 DEF StrFTime
<1>8. text'[c] = Append(text[c], e) /\ \A d \in Call : d # c => text'[d] = text[d]
  BY <1>7 DEF CdrInv, TypeOK
<1>9. TypeOK'
  BY <1>2, <1>7 DEF StrFTime, CdrInv, TypeOK
<1>10. Begins(Append(text[c], e), c)
  <2>1. Begins(text[c], c)
    BY DEF CdrInv
  <2>2. /\ Len(Append(text[c], e)) = Len(text[c]) + 1
        /\ Append(text[c], e)[Len(text[c]) + 1] = e
        /\ \A i \in 1 .. Len(text[c]) : Append(text[c], e)[i] = text[c][i]
    BY <1>2
  <2>3. \A i \in 1 .. Len(text[c]) + 1 : Append(text[c], e)[i] = Conversions(c)[i]
    <3> SUFFICES ASSUME NEW i \in 1 .. Len(text[c]) + 1
                 PROVE  Append(text[c], e)[i] = Conversions(c)[i]
      OBVIOUS
    <3>1. CASE i = Len(text[c]) + 1
      BY <3>1, <2>2, <1>4
    <3>2. CASE i # Len(text[c]) + 1
      <4>1. i \in 1 .. Len(text[c])
        BY <3>2, <1>2
      <4> QED BY <4>1, <2>1, <2>2 DEF Begins
    <3> QED BY <3>1, <3>2
  <2> QED BY <2>2, <2>3, <1>2, <1>3 DEF Begins
<1>11. \A d \in Call : Begins(text[d], d)'
  <2> SUFFICES ASSUME NEW d \in Call PROVE Begins(text'[d], d)
    BY DEF Begins
  <2>1. CASE d = c
    BY <2>1, <1>8, <1>10
  <2>2. CASE d # c
    BY <2>2, <1>8 DEF CdrInv
  <2> QED BY <2>1, <2>2
<1>12. \A d \in logged' : Len(text'[d]) = Len(Conversions(d))
  <2> SUFFICES ASSUME NEW d \in logged PROVE Len(text'[d]) = Len(Conversions(d))
    BY DEF StrFTime
  <2>1. d \in Call /\ Len(text[d]) = Len(Conversions(d))
    BY DEF CdrInv, TypeOK
  <2>2. d # c
    BY <2>1, <1>1 , <1>2 DEF StrFTime, Unfinished
  <2> QED BY <2>1, <2>2, <1>8
<1>13. TmIsCurrent'
  <2> SUFFICES ASSUME NEW s \in Thread, filled'[s]
               PROVE  (Unfinished(s) /\ tm = Current(s).time)'
    BY DEF TmIsCurrent
  <2>1. s # t /\ filled[s]
    BY DEF StrFTime, CdrInv, TypeOK
  <2>2. Unfinished(s) /\ tm = Current(s).time
    BY <2>1 DEF CdrInv, TmIsCurrent
  <2>3. writing[s] # c /\ writing[s] \in Call
    BY <2>1, <2>2, <1>1 DEF Unfinished, StrFTime, CdrInv, TypeOK, OneWriter
  <2>4. text'[writing[s]] = text[writing[s]] /\ writing' = writing /\ tm' = tm
    BY <2>3, <1>8 DEF StrFTime
  <2> QED BY <2>2, <2>4 DEF Unfinished, Current
<1>14. OneWriter'
  BY DEF StrFTime, OneWriter, CdrInv
<1> QED BY <1>9, <1>11, <1>12, <1>13, <1>14 DEF CdrInv

LEMMA LogKeeps ==
  ASSUME CdrInv, NEW t \in Thread, LogRecord(t)
  PROVE  CdrInv'
<1>1. PICK c \in Call : c = writing[t]
  BY DEF CdrInv, TypeOK, LogRecord
<1>2. TypeOK'
  BY DEF LogRecord, CdrInv, TypeOK
<1>3. Len(text[c]) = Len(Conversions(c))
  <2>1. text[c] \in Seq(Entry) /\ Conversions(c) \in Seq(Entry)
    BY ConversionsType DEF CdrInv, TypeOK
  <2>2. Begins(text[c], c)
    BY DEF CdrInv
  <2>3. ~ (Len(text[c]) < Len(Conversions(c)))
    BY <1>1 DEF LogRecord, Unfinished
  <2>4. Len(text[c]) \in Nat /\ Len(Conversions(c)) \in Nat
    BY <2>1
  <2> QED BY <2>2, <2>3, <2>4 DEF Begins
<1>4. TmIsCurrent'
  <2> SUFFICES ASSUME NEW s \in Thread, filled[s]
               PROVE  (Unfinished(s) /\ tm = Current(s).time)'
    BY DEF LogRecord, TmIsCurrent
  <2>1. Unfinished(s) /\ tm = Current(s).time
    BY DEF CdrInv, TmIsCurrent
  <2>2. s # t
    BY <2>1 DEF LogRecord
  <2>3. writing'[s] = writing[s]
    BY <2>2 DEF LogRecord, CdrInv, TypeOK
  <2> QED BY <2>1, <2>3 DEF LogRecord, Unfinished, Current
<1>5. OneWriter'
  BY DEF LogRecord, OneWriter, CdrInv, TypeOK
<1> QED BY <1>1, <1>2, <1>3, <1>4, <1>5 DEF CdrInv, LogRecord

LEMMA CdrNext == CdrInv /\ [Next /\ OneFilled']_vars => CdrInv'
<1> SUFFICES ASSUME CdrInv, [Next /\ OneFilled']_vars PROVE CdrInv'
  OBVIOUS
<1>1. ASSUME NEW t \in Thread, NEW c \in Call, BeginWriteCDR(t, c) PROVE CdrInv'
  BY <1>1, BeginKeeps
<1>2. ASSUME NEW t \in Thread, LocalTime(t), OneFilled' PROVE CdrInv'
  BY <1>2, LocalTimeKeeps
<1>3. ASSUME NEW t \in Thread, StrFTime(t) PROVE CdrInv'
  BY <1>3, StrFTimeKeeps
<1>4. ASSUME NEW t \in Thread, LogRecord(t) PROVE CdrInv'
  BY <1>4, LogKeeps
<1>5. CASE UNCHANGED vars
  BY <1>5 DEF vars, CdrInv, TypeOK, TmIsCurrent, Unfinished, Current, OneWriter
<1> QED BY <1>1, <1>2, <1>3, <1>4, <1>5 DEF Next

-----------------------------------------------------------------------------
(* The theorem *)

\* Without a localtime between the localtime and the strftime of another thread every
\* record shows the times of its own call, in the order of its fields.
LEMMA SerialConversionsShow == SerialSpec => []RecordShowsItsCall
<1>1. CdrInv => RecordShowsItsCall
  <2> SUFFICES ASSUME CdrInv, NEW c \in logged PROVE text[c] = Conversions(c)
    BY DEF RecordShowsItsCall
  <2>1. c \in Call /\ Len(text[c]) = Len(Conversions(c)) /\ Begins(text[c], c)
    BY DEF CdrInv, TypeOK
  <2>2. text[c] \in Seq(Entry) /\ Conversions(c) \in Seq(Entry)
    BY <2>1, ConversionsType DEF CdrInv, TypeOK
  <2> QED BY <2>1, <2>2 DEF Begins
<1> QED BY <1>1, CdrInit, CdrNext, PTL DEF SerialSpec

\* With one io thread WriteCDR records every call with its own times, in whatever order
\* calls are served, refused and reset.
THEOREM OneThreadShowsItsCall ==
  ASSUME OneThread PROVE Spec => []RecordShowsItsCall
<1>1. [Next]_vars => [Next /\ OneFilled']_vars
  BY DEF OneThread, OneFilled
<1>2. Spec => SerialSpec
  BY <1>1, PTL DEF Spec, SerialSpec
<1> QED BY <1>2, SerialConversionsShow
=============================================================================
