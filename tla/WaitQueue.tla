----------------------------- MODULE WaitQueue -----------------------------
(***************************************************************************)
(* A double-ended queue as its users see it: every operation is one step,   *)
(* a push wakes one sleeper, and wait() is a test followed by a sleep.      *)
(* Module TSQueue implements it with two mutexes and a condition variable;  *)
(* module Operators uses it, for both queues the operators' thread waits on.*)
(***************************************************************************)
EXTENDS Integers, Sequences

CONSTANTS Item, Waiter

VARIABLES items,   \* the queue
          waiter   \* where each waiting thread is

vars == <<items, waiter>>

WaiterPlaces == {"test", "block", "asleep", "pop"}

Init ==
    /\ items = <<>>
    /\ waiter = [w \in Waiter |-> "test"]

Moves(w, from, to) ==
    /\ waiter[w] = from
    /\ waiter' = [waiter EXCEPT ![w] = to]

\* One sleeper, if there is one, is woken.
WakesOne ==
    \/ \E w \in Waiter : Moves(w, "asleep", "test")
    \/ /\ \A w \in Waiter : waiter[w] # "asleep"
       /\ UNCHANGED waiter

Push(item) ==
    /\ items' \in {Append(items, item), <<item>> \o items}
    /\ WakesOne

Test(w) ==
    /\ Moves(w, "test", IF items = <<>> THEN "block" ELSE "pop")
    /\ UNCHANGED items

Sleep(w) ==
    /\ Moves(w, "block", "asleep")
    /\ UNCHANGED items

SpuriousWakeup(w) ==
    /\ Moves(w, "asleep", "test")
    /\ UNCHANGED items

\* Between the test and the pop others may have emptied the queue: pop throws.
Pop(w) ==
    /\ Moves(w, "pop", "test")
    /\ IF items = <<>> THEN UNCHANGED items
       ELSE items' \in {Tail(items), SubSeq(items, 1, Len(items) - 1)}

Clear ==
    /\ items' = <<>>
    /\ UNCHANGED waiter

Next ==
    \/ \E item \in Item : Push(item)
    \/ \E w \in Waiter : Test(w) \/ Sleep(w) \/ SpuriousWakeup(w) \/ Pop(w)
    \/ Clear

Spec == Init /\ [][Next]_vars
=============================================================================
