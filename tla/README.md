# CallCentre: a TLA+ model of the server, the queue, the operators and their shutdown

CallCentre (`src/`) emulates a call centre behind an HTTP server written with
Boost.Asio and Boost.Beast. A GET request with a phone number becomes a call;
the call waits in a bounded queue until a free operator takes it or until a
random timeout resets it; every finished call is written to a CDR file.

The program has three kinds of threads: the *io threads* in `ioc.run()` (requests
and timer handlers), the *operators' thread* in `Operators::Run`, and the *main
thread*, which is an io thread until a signal and then shuts the others down.
What is hard in this code is how they interleave. That is what the project models.

## Inventory

| Component | State | Operations | Interacts with | Hard behaviour | Correct when |
|---|---|---|---|---|---|
| Queue (`IncomingCallsQueue`) | list of calls, timers, FIFO of free timers, map number -> timer | `push`, `pop`, `OnCallReset`, `wait`, `awake`, `clear` | pushed by sessions, popped by the operators' thread, reset by timer handlers on io threads | a handler posted before its wait is cancelled; iterators of erased nodes; the wait/notify gap; four containers kept in step | list, map, timers and FIFO agree; one fate per call; no freed iterator is used; every call leaves |
| Operators | timers of conversations, FIFO of free operators, `continue_loop_` | `Run`, `AddCall`, `OnEndCall`, `Stop` | queue, TSQueue, CDR, main | no lock between wait, pop and pop_front; an operator freed by id on another thread; shutdown at any moment | operators are neither lost nor shared; every accepted call is recorded once; the shutdown ends |
| `TSQueue` | deque, two mutexes, condition variable | `push_back`, `push_front`, `pop_front`, `pop_back`, `clear`, `wait` | operators, io threads, main | lost wakeup; two nested mutexes | to its users each operation is one step; a sleeper is woken; a push returns |
| Session | socket, expiry time, request, response | `DoRead`, `OnRead`, `HandleRequest`, `AddToQueue`, `OnWrite`, `DoClose` | queue (`push`), CDR | one timeout for read and write; `remote_endpoint()` of a reset connection throws | one answer and one call per request; a rejected call is recorded |
| Phone numbers (`Session.cpp`) | none | `UrlDecode`, `isValidPhoneNumber`, `PreparePhoneNumber` | session | optional country code, 8 and 7; a pattern that matches in several ways | the well-dialled numbers are accepted, each with one normal form |
| Listener | acceptor | `do_accept`, `on_accept` | sessions | no accept after an error; throws before the error is tested | goes on accepting |
| Call | id, number, status, times, operator | constructor, two setters | all | wrapping id, fields shared by threads | |
| Log and CDR | loggers | `Init`, `WriteCDR` | all | `std::localtime` from several threads; order of records | one record per call, with that call's times |
| RandGen | shared distributions, one generator per thread | `getRandErlang`, `getRandUniform` | Call | data race on the distributions | |
| ReadConfig | settings | constructor | main | none over time | |
| main | threads | `Start` | all | order of the shutdown | everything is joined |
| `libs/` | | | | third-party code, not modelled | |

`PROJECT.json` lists the same components with their status, and the hazards at
their lines.

## Modules

### `IncomingCallsQueue.tla`

| Model | Code |
|---|---|
| `incoming_calls` | `incoming_calls_`, a sequence of nodes (address, call) |
| `timers[t]` | the wait pending on `timers_[t]`: the call it was armed for and the captured iterator |
| `free_timers`, `map_cg_pn_to_pos` | the members of these names |
| `posted` | completion handlers in the `io_context` that have not run |
| `reply`, `taken`, `cdr` | what `push` returned, what `pop` returned, the statuses in the CDR |
| `heap` | `sound` until a handler uses the iterator of an erased node |
| `PushDuplicate`, `PushOverload`, `PushAccept`, `PushNoTimer` | the paths of `push` |
| `PopCall`, `PopThrows`, `PopNull` | the paths of `pop` |
| `TimerExpires` | asio: the wait is over and its handler is queued |
| `ResetIgnored`, `ResetErases`, `ResetDangling` | the paths of `OnCallReset` |
| `Awake` | `awake` |

Each method runs under `mux_queue`, so each path is one action. A timer may expire
at any moment: the random durations are abstracted to arbitrary delays.

A list iterator is the address of a node, and an address that was freed may be
given to a later node. That is what makes the central hazard visible:
`TimerExpires` puts the handler in `posted`, where `cancel()` no longer reaches it;
`pop` takes the call; the caller calls again; the handler then finds the number in
the map and follows its old iterator (`ResetDangling`, or `ResetErases` on another
call's node, after which `heap` is `aliased`). Aliasing leaves list and map
inconsistent in ways the code gives no promise about, so the invariants speak of
states with `heap = "sound"`, and `OnlyRedialBreaks` says how those can end.

`PatientSpec` is the queue with callers for which this cannot happen: a number does
not get back into the queue while a stale handler of its earlier call is still
posted. The program does not enforce this. It is the assumption under which the
code keeps its promise, and it is stated to separate this flaw from the rest.

### `Operators.tla`

Instantiates the queue as `Q` over shared variables and adds the operators, the
operators' thread, the ends of conversations and main.

| Model | Code |
|---|---|
| `free_operators`, `continue_loop` | the members of these names |
| `operators[op]` | the call whose `OnEndCall` the timer `operators_[op]` will run |
| `operator_id` | the field of each call |
| `ended`, `closing` | posted handlers of operators' timers; calls between the halves of `OnEndCall` |
| `run`, `current` | where the operators' thread is, and `AddCall`'s local `call` |
| `main` | where main is in `Start` |
| `FreeCheck`, `IncomingCheck`, `Sleep`, `SpuriousWakeup` | the two `wait()` loops: test, sleep, wake up |
| `TestFlag`, `AddCallPop`, `AddCallNothing`, `AddCallNull`, `AddCallAssign` | the rest of `Run` and `AddCall` |
| `ConversationEnds`, `EndCallFrees`, `EndCallRecords` | expiry of an operator's timer; `OnEndCall` in two steps |
| `StopContext`, `JoinIoThreads`, `StopClearsFlag`, `StopPushesOperator`, `StopAwakes`, `JoinOperators` | the signal handler, the joins, `Operators::Stop` |

*Atomicity.* `push`, `awake` and `push_back` change the queue and notify while they
hold the queue's mutex, taking the second mutex inside. One step for "insert and
notify" loses no behaviour: this is what `TSQueue` is checked and proved for (below);
`IncomingCallsQueue` waits and notifies with the same code. The waiter's own test and
sleep are two steps, because it holds nothing between them. `AddCall` is two steps (pop;
pop_front and the start of the timer), `OnEndCall` is two (free; record), `Stop` is
three. The fields `AddCall` sets after `pop_front` are its thread's own until
`async_wait`.

### `CallCentre.tla`, and `Operators` as its implementation

What the call centre promises, in terms of its purpose: a bounded queue without two
calls of one number, served in the order of arrival by a fixed number of operators, one
record for every call that was let in. It has no threads, timers, iterators or condition
variables. `Operators` implements it (`ImplementsCallCentre`) under this mapping:

| Abstract | In `Operators` |
|---|---|
| `waiting` | `Waiting`: the calls in the list, without the null pointer of `awake()` |
| `talking` | `Talking`: the call in `AddCall` between pop and pop_front, the calls set on operators' timers, and those whose `OnEndCall` is posted |
| `closing`, `answer` | `closing`, `reply` |
| `record` | `cdr` and `completed`, one after the other |
| `broken` | `heap # "sound"` |

`LetIn`, `RefuseDuplicate`, `RefuseOverload` are `push`; `GivesUp` is an `OnCallReset`
that erases; `Take` is the pop in `AddCall`; `HangUp` and `Close` are the two halves of
`OnEndCall`. Everything else stutters: the tests, the sleeps, the wakeups, the choice of
the operator, the end of the conversation's timer, the shutdown. That `Take` is allowed
only with fewer conversations than operators is the hard part: the code counts no
conversations, it only has a free operator in its hand. `Break` is undefined behaviour,
after which nothing is promised.

### `TSQueue.tla` and `WaitQueue.tla`

`TSQueue` is the class of `ThreadSafeQueue.h` at the granularity of its mutexes: one step
per acquisition, with any number of pushers and waiters.

| Model | Code |
|---|---|
| `deqQueue`, `muxQueue`, `muxBlocking` | the members; the holder of each mutex |
| `push[p]` | the end a push has inserted at, until it returns |
| `waiter[w]` | `wait()`: testing, about to sleep, asleep, notified; `pop` outside it |
| `Insert`, `LockBlocking`, `NotifyAndReturn` | `push_back` and `push_front` |
| `Test`, `Lock`, `Sleep`, `WaitReturns`, `SpuriousWakeup` | `wait()` and `cvBlocking.wait` |
| `Pop`, `Clear` | `pop_front` and `pop_back`; `clear` |

`WaitQueue` is the queue with atomic steps on which `Operators` is built: a push inserts
and wakes one sleeper, a waiter tests and, as another step, goes to sleep. The mapping
hides the item of a push that has not notified yet (`Items`): nobody can see it, the push
holds `muxQueue`. The lost wakeup is in the abstract queue too: it is what the code does.

### `Server.tla`

Instantiates the queue as `Q` over shared variables and adds the listener, the sessions
and their peers. A connection carries at most one request, so it is named by the call
it may offer; a request that is not valid leaves that call unused.

| Model | Code |
|---|---|
| `acceptor`, `incoming` | whether an accept or its handler is pending, and the socket the handler gets (`Null` for an error) |
| `peer` | the client: absent, connected, finished (FIN), reset (RST) |
| `session` | where the session's chain of handlers is |
| `deadline` | whether `expires_after` has been called on the stream |
| `answer`, `refused` | what the response says; the statuses the session writes to the CDR |
| `process` | `terminated` once an exception has left `ioc.run()` |
| `AcceptCompletes`, `AcceptFails`, `OnAcceptStarts`, `OnAcceptThrows`, `DoAccept` | `async_accept` and the paths of `on_accept` |
| `DoRead`, `ReadFails`, `ReadTimesOut` | `Run` and `DoRead`; `OnRead` with an error or end of stream |
| `HandleBadRequest`, `BadRequestThrows` | the two refusals of `HandleRequest` |
| `HandleCall`, `RecordRefusal` | `AddToQueue`: `push`; then, without the queue's lock, the record of a refused call |
| `WriteEnds`, `WriteTimesOut` | `SendResponse`, `OnWrite`, `DoClose` |
| `ExpireInQueue`, `ResetCall`, `OperatorPops` | the queue's timers and their handlers, and any `pop`: the operators at this level |

The log macros are calls of `spdlog` methods, so their arguments are evaluated whatever
the level is. `remote_endpoint()` without an error code throws for a socket that is not
connected: this is `RemoteEndpointThrows`, in `on_accept` and in the two log lines of
`HandleRequest`. An early return of the listener's constructor leaves the acceptor
closed; its first accept then fails, which is `AcceptFails`. The signal that stops the
`io_context` is in `Operators` and not here.

### `PhoneNumber.tla`

`UrlDecode`, the pattern of `isValidPhoneNumber` and `PreparePhoneNumber` as functions of
the request's target, which a caller types token by token. Tokens are the digits, the
marks the pattern tells apart (dash and dot are in the same classes, so one token stands
for both), `x` for every other character, and `SP` for a space, which a target cannot hold
and only decoding writes. `ReadingsAfter` gives the readings of the first items of the
pattern (how many tokens, which groups), and `RegexMatches` *all* the ways to match the
whole target, as lists of capture groups; `Prepared` is the normal form the queue compares.
The reference definition, `WellDialled`, is stated by the place of each mark and has no
matcher. `DigitsIn` and `ReadingsAfter` are recursive functions, not RECURSIVE operators,
so that they can be reasoned about.

### `CdrRecord.tla`

`Log::WriteCDR` on several io threads: for each time of a call, `std::localtime` fills the
one `struct tm` of the process (`LocalTime`), and `std::strftime` formats what is there by
then (`StrFTime`). A time is named by its call and field. A record of a `TIMEOUT` is
written under the queue's mutex, so two of these never overlap (`TimeoutCall`); one and the
record of a served or refused call may.

### Model-checking modules

The `MC` modules give the constants values. In those of the queue, the operators and the
server, calls
`c1` and `c2` have the same number, so that it can be queued, taken and queued again;
node addresses, and `c1` with `c2`, are symmetric in the runs without liveness.
`MCTSQueue`, `MCPhoneNumber` and `MCCdrRecord` only name small sets.

## Runs

| Run | Bounds | Shows |
|---|---|---|
| `queue` | 5 calls, 4 numbers, 2 places, 3 addresses | the type invariant, the five safety invariants and `OnlyRedialBreaks` |
| `queue_patient` | 4 calls, 3 numbers, 2 places | patient callers: no freed iterator is used, every call leaves |
| `queue_redial` | 3 calls | *violated*: `StaleResetIsIgnored`, the comment in `OnCallReset` |
| `operators` | 3 calls, 2 places, 2 operators | operators are conserved, one fate per call, `pop_front` never throws, undefined behaviour has two causes (`OnlyTheseBreak`), `CallCentre` is implemented |
| `operators_liveness` | 3 calls, 1 place, 2 operators, 1 address | every accepted call is recorded, unless the server is shut down; a thread that has missed a free operator is woken while the other is busy (`SleeperIsWoken`); with patient callers nothing is undefined before `awake()` (`SoundUntilAwake`); `CallCentre` is implemented where calls are refused by overload too |
| `operators_hang` | 1 operator | *violated*: `ShutdownEnds`, the clean shutdown of `main.cpp` |
| `server` | 3 connections, 2 callers, 1 place, 2 addresses | one record per call; what the peer is told is what became of its call |
| `server_liveness` | 2 connections, 1 caller | every connection gets a session, every session ends, every call offered to the queue is recorded or taken (`EveryCallRecorded` of `Server`) |
| `server_accept` | 3 connections | *violated*: a failed accept is logged and ends only the accept loop |
| `tsqueue` | 2 pushers, 2 waiters, 3 items | what each mutex is held for; `WaitQueue` is implemented; every push returns, so there is no deadlock of the two mutexes |
| `phone_number` | 12 digits, 2 marks, first digit 7, 8 or 1 | exactly the well-dialled numbers are accepted, with one result, one form per number, and the form is stable |
| `cdr_record` | 2 threads, 2 calls | *violated*: a record shows the times of its call |

*Why the bounds are enough.* Two places are the least for which a node can be erased behind
another one, a timer can be given back out of order and a stale iterator can point at
another caller's node; five calls fill the queue, reject one as a duplicate and one as
overload, and still let a timer go round the FIFO. Three addresses are one more than places,
so that a new node may or may not reuse a freed one. Two operators are the least for which
an operator can be confused with another one. In `operators_liveness` three calls make a
second call of one caller and a call too many, and two operators let one be forgotten while
the other is busy; one address is enough for one place, until `awake()` puts a second node
into the list. Here `awake()` is reached only with an empty list; the run `operators`, with
three addresses, has it behind waiting calls. In `server` one place and three connections
are enough for each of the three answers of `push`. In `tsqueue` two pushers compete for the
mutexes and two waiters for the item and the notification; `MaxItems = 3` (a guard of
`Insert`) lets items be put in front of and behind others. In `phone_number` twelve digits
are one more than a number with its code has, and two marks fill one gap twice or two gaps;
the digits after the first differ from each other, so that a digit lost or out of its place
shows. `CHECK_DEADLOCK FALSE` stands in the other configurations because each call is pushed
once, the server can be shut down and a target is bounded: a run may come to its end.
`tsqueue` checks for deadlock.

*Fairness.* Weak fairness of the steps of each thread (the operating system runs a thread
that can run), of each timer's expiry (time passes) and of the posted handlers (`ioc.run()`
runs them). Nothing is assumed of callers, of the signal or of spurious wakeups. A sleeping
thread is not enabled: it needs a notification. In `EveryCallRecorded` the shutdown releases
the obligation, as the code records nothing after `ioc.stop()`. In `Server` the accept and
its handler, the start of a session and the record of a refusal are fair, as steps of io
threads, and so is the expiry of a stream and of the queue's timers, as time passes, and the
handlers of the latter; that a peer sends a request, closes or reads its answer is not
assumed, nor that an operator takes a call. In `TSQueue` a thread inside a method goes on
when it can get the mutex it needs; that anyone pushes or pops is not assumed. The temporal
runs of the queue and of the operators use `PatientFairSpec`: after undefined behaviour
nothing can be promised.

*Mutants.* Each property of a passing run has a faulty variant of one definition in
the module (marked `(fault)`), with which the property fails.

### What the code does not keep

1. `OnCallReset` looks up the number, not the call: a stale handler hits the
   caller's next call (`queue_redial`).
2. `wait()` in both queues tests and sleeps under different mutexes and does not test
   again before it sleeps. A wakeup can be lost, an idle operator can be forgotten until
   another one is freed, and both notifications of `Stop` can be lost, so that `main`
   never returns (`operators_hang`). The damage is limited: as long as an operator is
   busy, the end of that conversation wakes the thread (`SleeperIsWoken`), and a call
   nobody takes is still recorded as `TIMEOUT` (`EveryCallRecorded`). But if the last busy
   operator is freed in the gap, and with one operator that takes a single lost wakeup,
   nothing wakes the thread: every call times out from then on. Testing again under the
   second mutex would be no repair: it takes the mutexes in both orders (the mutant of
   `EveryPushReturns`).
3. If `Run` has just tested `continue_loop_`, and the call it waited for is reset, and
   `Stop` runs, `AddCall` pops the null pointer that `awake()` pushed. `OnlyTheseBreak`
   names this as the second of the two causes of undefined behaviour.
4. `ioc.stop()` does not cancel asynchronous operations: conversations and waits of the
   moment of the shutdown are abandoned without a record. `EveryCallRecorded` makes an
   exception of them.
5. `on_accept` asks the socket for its remote endpoint before it tests the error. A
   failed accept throws out of `ioc.run()` and ends the process; the branch that logs
   the error and returns is never reached (`server_accept`). `BadRequestThrows` is the
   same for a peer that resets its connection after a bad request, where no comment
   promises otherwise.
6. `WriteCDR` formats with `std::localtime` on several io threads at once; a record can
   show the times of another call (`cdr_record`).

Seen while modelling, without a run: `OnEndCall` frees the operator before it records the
call, the reverse of the order in `Operators.h:17`; `clear()` would leave the map and the
timers behind, but has no caller; a comment in `Session.cpp:156` speaks of 404 where the
answer is 400.

## Proofs

Everything here is proved for all values of the constants that the named assumptions
allow: each call has a number, the capacity and the number of operators are natural
numbers, `Null` is not one of the values it stands beside; the pushers and the waiters of
`TSQueue` are different threads; a target has at most 13 digits (a bound of the caller's
actions, who types digits that differ) and any number of marks. `CdrRecord` assumes
nothing.

| Module | Theorem | States |
|---|---|---|
| `IncomingCallsQueue_proofs` | `TypeCorrect` | `Spec => []TypeOK` |
| | `MapIsTheQueue` | `Spec => []ListMatchesMap` |
| | `TimersAreConserved` | `Spec => []TimersConserved` |
| | `ResetsArePending` | `Spec => []TimersMatchQueue` |
| | `HandlersArePending` | `Spec => []HandlersMatchQueue` |
| | `CallsHaveOneFate` | `Spec => []OneFate` |
| | `OnlyCause` | `Spec => OnlyRedialBreaks` |
| | `PatientCallersAreSafe` | `PatientSpec => []NeverBroken` |
| `TSQueue_proofs` | `MutexesAreDisciplined` | `Spec => []LockDiscipline` |
| | `QueueIsAtomic` | `Spec => ImplementsWaitQueue` |
| `Operators_proofs` | `TypeCorrect` | `Spec => []TypeOK` |
| | `PopFrontNeverThrows` | `Spec => []OperatorStaysFree` |
| | `OperatorsAreConserved` | `Spec => []OperatorsConserved` |
| | `TwoCausesOnly` | `Spec => OnlyTheseBreak` |
| | `CallsHaveOneFate` | `Spec => []OneFate` |
| | `PatientCallersAreServed` | `PatientSpec => []SoundUntilAwake` |
| `CallCentre_proofs` | `OperatorsImplementCallCentre` | `Spec => ImplementsCallCentre` |
| `Server_proofs` | `TypeCorrect` | `Spec => []TypeOK` |
| | `CallsAreRecordedOnce` | `Spec => []OneRecord` |
| | `AnswersAreTrue` | `Spec => []AnswerIsTrue` |
| | `OnlyRedialsBreakTheServer` | `Spec => QP!OnlyRedialBreaks` |
| `PhoneNumber_proofs` | `ReadingsAgree` | `Spec => []OneReading` |
| | `PreparedStays` | `Spec => []PreparedIsStable` |
| | `OneForm` | `Spec => []OneFormPerNumber` |
| | `AcceptsByTheRules` | `Spec => []AcceptsWellDialled` |
| `CdrRecord_proofs` | `OneThreadShowsItsCall` | `Spec => []RecordShowsItsCall`, if there is one io thread |

With these, every invariant and every safety property of a step that a passing run checks
is a theorem.

### The queue

The inductive invariant `IInv` is the conjunction of the type invariant
and the five safety invariants, each of which the run `queue` checks. None is inductive
alone:

- `push` finds a free timer because free timers and queued calls add up to the capacity
  (`TimerIsFree`), which needs that a timer given back was not free already, which needs
  that the map's entries are distinct and not in the FIFO.
- `pop` finds the number because of `ListMatchesMap` (`NumberIsKnown`).
- That `OnCallReset` gives back a timer without a pending wait needs
  `TimersMatchQueue` (a pending wait belongs to the queued call with that timer) and
  `HandlersMatchQueue` (that call has no handler posted) (`EraseLeaves`).
- A handler that goes wrong is stale, because the handler of a queued call points at
  that call's node and addresses are unique (`OnlyStaleErasesWrong`).

What `pop` and `OnCallReset` have in common, a call leaving from the *k*-th place, is
stated once (`Leaves`) with one lemma per invariant; `RemoveAtProperties` and
`ShiftProperties` say what becomes of the other places. Each action then has its own
lemma, and `SoundStep` puts them together and also yields `OnlyRedialBreaks`. With
patient callers the only way out of the sound states is closed, which is
`PatientCallersAreSafe`.

### The two mutexes

`LockDiscipline` is inductive. With it a push is alone between insertion and
notification, so hiding its item (`Items`) makes `Insert` and `LockBlocking` stutter and
`NotifyAndReturn` the abstract `Push`; and every step that reads or changes the deque
needs `muxQueue` free, where `Items` is the deque (`NextSeen`).

### The operators

The queue's proofs are used through an instance (`QP`): a step of `Operators` is a step of
the queue, `Awake`, the dereferencing of the null pointer, or leaves the queue alone
(`NextIsQueueStep`). The inductive invariant has four parts besides the types:

- `QueuedOnce`: a queued call has been pushed, not been taken and is in the list once. It
  is weaker than the queue's invariants but survives undefined behaviour, and so do
  `TypeOK`, `OperatorStaysFree` and `OperatorsConserved`, which rest on it.
- `Places`: until `Stop` adds its fictitious operator, each operator is free, busy or
  about to be freed, once, and a busy call's field names its operator. It needs that the
  call in `AddCall` is no operator's (`Holds`, from `QueuedOnce`): otherwise writing its
  `operator_id` would redirect a conversation under way. It also says that no wait for the
  end of a conversation is ever cancelled while handlers run (`NoneAborted`), so the early
  return of `OnEndCall` is not taken.
- `QueueInv`: the queue's own invariant until `awake()`; after it `Line`, what the calls
  in front of the null pointer keep. The null pointer is at the end because nothing is
  pushed after `ioc.stop()`.
- `TalkInv`: a taken call is in one of five places (`AddCall`, a conversation, its end,
  `OnEndCall`, recorded), with one operator and one handler.

`OneFate` is counted from the queue's fate of a call and its place. `OnlyTheseBreak`
comes from the queue's `SoundStep` and from `Line`, which makes the null pointer the front
only when no call waits. `PatientCallersAreServed` follows: patient callers exclude the
first cause, and after the second `main` is at the last step of `Stop` and stays there.

### The refinement

`CallCentre_proofs` has one lemma per action. The list the abstract caller sees is the
list up to the null pointer (`WaitingIs`), `push`'s look-up in the map is the abstract test
for a duplicate (`WaitsIsInQueue`, from `ListMatchesMap`), and an iterator that is not
stale removes its own call. For `Take` the invariant `Room` gives a place for one more
conversation: while the first free operator is not in a conversation, the field
`operator_id` maps the calls in conversation one to one into the other operators
(`FreeMeansRoom`); during the shutdown the thread is past the test of `continue_loop_` and
the bound is carried along. A step that ends with the heap unsound is `Break`, and
`NeverSoundAgain` keeps it so.

### The server

Its steps are steps of the queue or leave it alone (`QueueStep`), so the server implements
the queue's specification (the lemma `ServerUsesTheQueue`): the queue's invariant holds, and
so do its theorems, of which `OnlyRedialsBreakTheServer` is stated. `Follows` ties the
session's place, its answer and its records to what `push` returned; with the queue's
`OneFate` it gives `OneRecord` and `AnswerIsTrue`.

### Phone numbers

The matcher is a set of readings that grows item by item, so the first part of the module
describes that set once and for all: a target is matched exactly if there are places in it
at which the slash, the code, the groups and the gaps end (`Read`, `MatchesAre`), and the
groups are the pieces between those places. The four theorems use it in different ways:

- *One reading.* The three groups of digits have 3, 3 and 4 members, a gap has none, and a
  code is one digit; so two lists of places for one target are equal. The case that takes
  the work is that of a code that is read or not: eleven digits cannot be ten
  (`SameThreeGroups`, `SameFourGroups`, `NotThreeAndFour`, `OneMatch`).
- *Stability.* The prepared number is a digit and ten digits (`PreparedIs`); dialled as it
  stands it has places without gaps (`DialledAgain`), and by the first theorem these are
  the only ones.
- *One form.* `DigitsIn` counts the digits up to each place (`CountIs`, `ReadCount`), so
  the groups are the digits of the target in their order (`DigitsFound`) and the prepared
  number is the code and the last ten of them (`FormIs`).
- *The rules.* That an accepted target follows the rules is counting once more: in each gap
  the number of digits still to come is 11, 10, 7, 4 or 0 (`AcceptedIsDialled`). For the
  converse a place has to be found for each group: every digit has a place
  (`EveryDigitHasAPlace`), between two digits that follow each other there are only marks
  (`Between`), and the rules leave only those marks that the gap's class has
  (`NumberFound`, `DialledIsAccepted`).

The two recursive functions need induction, over numbers of items and of tokens. The
library's rules for it take an operator as a parameter and cannot be used; the module has
a rule of its own, `Induction`, stated for a *set* of numbers and derived from the
well-foundedness of `<` on the naturals. From it follows that the functions satisfy their
recursive definitions (`DigitsInIs`, `ReadingsAfterIs`), and everything else uses those.
The lemmas speak of any sequence of tokens; only the typing of `target` uses `Spec`.

### CDR records

`CdrInv` says that what has been formatted for a call are the first of its conversions, that
a logged call has all of them, that no two threads write one record, and that between
`localtime` and `strftime` the shared `struct tm` holds the time the thread means
(`TmIsCurrent`). Every step keeps it but one: `localtime` while another thread is between
its two calls (`LocalTimeKeeps`). With one io thread there is no other, and every record is
right, for any set of calls (`OneThreadShowsItsCall`): the program then runs with two
threads in all, the least it can be started with (`main.cpp:90`) and what the usage example
of `main.cpp` says. With two io threads, as in the example of the repository's `README.md`,
which starts three threads, the run `cdr_record` breaks the property.

### Model-checked only

The liveness properties (`EveryCallLeaves`, the `EveryCallRecorded` of `Operators` and of
`Server`, `SleeperIsWoken`, `EveryPushReturns`, `EveryPeerServed`, `EverySessionEnds`):
fairness and ENABLED are outside the proof system.
That the code does not keep four properties is shown by runs; of these
`RecordShowsItsCall` is proved under the condition named above, the others under none.

## Not modelled

- `src/libs/`: the third-party libraries nlohmann/json and spdlog, which are most of the
  repository's lines. They are code of other projects, and nothing in them is this
  program's own logic; Boost.Asio and Boost.Beast, which the repository does not contain,
  are modelled from how the code uses them.
- `RandGen`: a duration is any delay here. The data race on the shared distributions is
  listed as a hazard without a property.
- `ReadConfig` and the arguments of `main`: read once at the start; their values are
  CONSTANTS.
- `IncomingCallsQueue::clear`, which has no caller; `call_id` (a 32-bit counter that would
  repeat after 2^32 calls and on which nothing depends); the layout of a CDR record and
  of log lines, and where `spdlog` writes them.
- The tests in `src/tests/` were read, not modelled.
- An allocation that fails, and exceptions other than those of `pop`, `pop_front` and
  `remote_endpoint`.

## Plan

Done: the queue, the operators with the shutdown, the abstract call centre and its
refinement, the thread safe queue, the listener and the sessions, phone numbers, CDR
records, and the proofs of their safety properties. What would be worth adding next:

1. A session that talks to the whole of `Operators` instead of the queue alone, so that
   the shutdown meets sessions in the middle of a request.
2. The race in `RandGen`, if the durations are ever given a meaning in the model.
