# giraffic: TLA+ verification

TLA+ modules for the `giraffic` service (its traffic points, its packet loss
detector, its prime number detector, its HTTP dispatcher and its lifecycle) and
for the UDP client that feeds it.  The modules are written from the C++ source
under `src/` (`src/app/app.cpp` below means the file of that name in the
repository).  TLC checks them on small instances; TLAPS proves their safety
properties, all but one, for all values of their constants, and that the traffic
points implement an abstract registry.

`PROJECT.json` lists the components, the runs, the source lines behind every
definition, the mutants that show each property can fail, the hazards the
properties are aimed at, and the theorems.

## 1. The system

The service `giraffic` is one process with three kinds of threads.

* The **HTTP threads** of a Poco `HTTPServer` run one request each, from the
  dispatcher to the callback it finds, until the callback returns.
* Each registered **traffic point** owns a Poco `UDPServer` bound to the
  point's address, with a handler thread that takes datagrams from a buffer
  and calls back into the application.
* `std::async` **tasks** are started by the prime number detector, in `build()`
  and in every `is_prime` call that is large enough.

The **UDP client** is a process of its own: a thread that waits for a request to
terminate, `m_main_thread`, and the sender it starts, `m_traffic_thread`.

### Inventory

| Component | State | Operations | Shares with |
|---|---|---|---|
| traffic point registry, `app/app.cpp` | `m_traffic_detectors` (map: address to `shared_ptr<traffic_detector>`), `m_traffic_detectors_lock` (shared mutex), `m_max_traffic_points` (`atomic<int16_t>`) | PUT `add_traffic_point`, DELETE `rem_traffic_point`, GET `traffic_point_losses`, `traffic_packet_callback` | HTTP threads and UDP handler threads call it |
| UDP server, `udp/server` | socket, handler thread, buffered datagrams | construction (bind, start), `processData`, destruction (stop, wait) | owned by a traffic detector; calls `traffic_packet_callback` |
| losses detector, `losses` | clock point, period number, map of periods, shared mutex | `OnPacketReceived`, `GetCurrentLoss`, `GetAverageLoss` | fed by the UDP handler thread, read by HTTP threads |
| primes detector, `primes` | `m_numbers` (`vector<bool>`), `m_async_count` (atomic) | `build`, `is_prime` | HTTP threads and its own tasks |
| HTTP dispatcher, uri, parameters, `http` | routes, fixed before the server starts | match a request, call back, answer errors | HTTP threads |
| application lifecycle, `app/app.cpp` | main thread, stop token, members | startup, main, exit, destruction | everything |
| UDP client, `udp/client` | three threads, two stop tokens, loop variable, message builder | startup, rounds of numbered requests, exit, destruction | sends to a traffic point |
| messages, core, configuration | none | schema, error codes, `create_logger`, reading of JSON | used by service and client |

### What is hard

* An add checks the limit, looks the point up, binds a socket, counts and
  inserts in five steps, with the lock taken twice and released in between.
* A detector is destroyed by whoever drops the last reference to it: a
  removal, an add that replaces an entry, or an add whose point was removed
  before it returned.  The destructor waits for the handler thread, and the
  first two run it under the lock that handler thread needs.
* A packet callback looks its detector up by *name*, not by identity.
* The counter is changed outside the lock by adds and inside by removals.
* `vector<bool>` packs many elements into one word, and tasks write to it
  without synchronisation.
* `m_async_count` is tested and incremented in two steps by calls on many
  threads, and an exception of `std::async` skips the decrement.
* `GetLoss` computes and caches under a *shared* lock, and may do so while the
  period is still receiving packets.  `AddPacket` does not check its bounds.
* Periods follow the system clock, which can be set.
* `is_prime_for` counts with an `int` between 64-bit bounds.
* The client's sender is stopped and joined by nobody but the destructor of its
  `std::jthread`, so the order of the members decides what it finds; its message
  builder is never cleared; and every round repeats the numbers of the one
  before it over a network that loses, delays, reorders and repeats.
* `create_logger` may return null, and the first message uses it.

### What makes each component correct

* Registry: every request acts atomically on a set of points; the counter does
  not drift from the map; a detector is not used after its destructor began;
  packets are counted by the detector whose socket got them; the limit is
  exceeded by no more than the threads that raced; requests are answered.
* Losses detector: a lost packet is never hidden; a closed period read by one
  reader is exact; a fed detector answers with a percentage.
* Primes detector: a prime is never cleared; a composite survives only where
  two tasks share a word; `build()` and every search end; the answer is the
  mark; the number of asynchronous halves is bounded.
* HTTP dispatcher: the route found is the first that matches; a callback gets the
  parameters of the request, its own variables and the leftovers of the routes
  tried before it; only an exception in a callback leaves a request unanswered.
* Lifecycle: requests find what they need until destruction begins; set-up and
  destruction do not overlap; a termination request is never lost.
* UDP client: a stop ends it, between rounds, and before what the sender uses is
  gone.  Client, network and detector: a period is credited with no more packets
  than numbers have arrived in it, and it takes more packets than a window holds
  to overrun one.

## 2. Modules

| Module | Models | Composes |
|---|---|---|
| `PointRegistry` | abstract: what the traffic point API promises | |
| `TrafficPoints` | `app.cpp` callbacks, UDP server and its handler | refines `PointRegistry` through `INSTANCE` |
| `TrafficPointsProofs` | theorems about `TrafficPoints` | extends `TrafficPoints` |
| `PrimesSieve` | `primes::detector::build` and `build_for` | |
| `PrimesSieveProofs` | theorems about `PrimesSieve` | extends `PrimesSieve` |
| `PrimesSearch` | `primes::detector::is_prime` under `http_is_prime_callback` | |
| `PrimesSearchProofs` | theorems about `PrimesSearch` | extends `PrimesSearch` |
| `LossesDetector` | `losses::detector` and `losses::period` | environment justified by `TrafficPoints!FeedsItsOwn` |
| `LossesDetectorProofs` | theorems about `LossesDetector` | extends `LossesDetector` |
| `HttpDispatch` | `http`: uri, parameters, dispatcher, handler | |
| `HttpDispatchProofs` | theorems about `HttpDispatch` | extends `HttpDispatch` |
| `AppLifecycle` | `app::initialize`, `main`, `startup`, `exit`, `~app` | |
| `AppLifecycleProofs` | theorems about `AppLifecycle` | extends `AppLifecycle` |
| `UdpClient` | `udp/client`: the client's three threads | |
| `UdpClientProofs` | theorems about `UdpClient` | extends `UdpClient` |
| `TrafficLink` | client, network and losses detector together | extends `UdpClient`, instantiates `LossesDetector` |
| `TrafficLinkProofs` | theorems about `TrafficLink` | extends `TrafficLink` and `UdpClientProofs`, instantiates `LossesDetectorProofs` |
| `MCTrafficPoints`, `MCPrimesSearch`, `MCLossesDetector`, `MCHttpDispatch` | instances for TLC | |

### TrafficPoints

One HTTP thread runs one request.  `pc[t]` is the place in its callback, and a
label stands wherever another thread can run in between: around each lock,
each change of the atomic counter, each destructor.  `Receive` takes a request
from the environment and `Return` ends it.  `AddCheck` .. `AddDrop` are the
steps of `http_add_traffic_point_callback`, `RemErase` .. `RemReply` those of
`http_rem_traffic_point_callback`, `LossesFind` and `LossesRead` those of
`http_traffic_point_losses_callback`.

A `traffic_detector` object is a member of `Detectors`.  `handler[d]` is
`"none"` while the object does not exist, and otherwise says where its UDP
thread is: `"idle"`, `"wait"` (in the callback, before the lock) or `"feed"`
(inside `OnPacketReceived`, holding the shared lock).  `local[t]` is the
`shared_ptr` on the stack of an add; together with the map it decides who
drops the last reference, and `victim[t]` is the detector whose destructor
thread `t` is in.  `Destroy` can complete only while the handler is not in a
callback: Poco's `UDPServer` destructor stops the handler and waits for it.

A bind is exclusive for an address with a port.  Port 0 makes the system choose
a free one, so several servers can carry one name; `AnyPort` is the set of such
names.  `AddCreateThrows` is a bind or an address resolution that fails.  The
map's mutex is `writer` and `readers`.  `std::shared_mutex` says nothing about
fairness, and neither does `Spec`.

`reply[t]` is the first status a request was answered with: the callback's
own, or 500 where an exception of Poco left it.  (What the handler sends after an error
is the subject of `HttpDispatch`.)

### PointRegistry

A set of points and, per thread, a call and its outcome.  `Add` answers 200
exactly when it inserts the point, `Remove` exactly when it deletes it,
`Lookup` exactly when it is there; `Refuse` is allowed only when registered
points and other requests in progress together exceed the limit.
`TrafficPoints!Registry` maps `Registered` to the set, and the outcome of a
call is fixed at the step that takes effect (`RespondedWith`), before the
response is sent; `CallOf` is the abstract call of a thread.

### PrimesSieve

`build()` walks `i` and starts a task for each number still marked, without
waiting: the marks it reads may be about to be cleared.  A task repeats `Load`
and `Store`: `m_numbers[j] = false` reads the word of `j` and writes it back
with one bit cleared.  The data race between the two is undefined behaviour;
it is modelled by its outcome on the targets of the build, where a load and a
store of a word are each indivisible.  The compiler may also merge several
clears of one word into one load and one store, which the interleavings with
no other task in between cover for the first of them only; it makes the window
larger and does not add a kind of outcome.  `SpawnThrows` is `std::async`
failing in the middle of the loop; the destructors of the futures then wait for
what was started.

### PrimesSearch

A call of `is_prime_for` is a frame, addressed by the thread of the request and
a path of left (0) and right (1) halves.  `Check` reads the counter, `Split`
increments it and starts the halves, `Join` collects both results and
decrements.  `SplitThrows` is `std::async` throwing after the increment; the
exception leaves every caller without its decrement.  `abandoned` is a history
variable that counts these calls.  `m_numbers` does not change during a search,
so scanning an interval is one step, `Scan`.  Its loop variable is an `int`:
`ToInt` is the conversion of the start, with `IntMax` for 2^31 - 1, and past
`IntMax` the overflow is undefined, so the loop ends without a hit or, where the
compiler keeps the variable in a 64-bit register, goes on.  A number that
`std::stoll` cannot read and a `std::async` that throws leave the request without
a response: these are not exceptions of Poco, and the HTTP server closes the
connection (`reply` is `"closed"`).

### LossesDetector

`Receive` is `OnPacketReceived` up to the lock: it reads the clock and decides
on the period.  `File` is the part under the unique lock.  A reader sums up the
periods one after the other (`GetLoss`, `CalcLoss`, `EndSum`) under the shared
lock, so that two readers can be in `CalcLoss` of one period at a time.  `todo`
is the set of the keys a reader has still to go through; the next one is the
least, as in the map.  `std::sort` is the relation `Sortings`: the same numbers,
each as often as before, in ascending order.  Two readers in one period sort the
same vector at once, which leaves in each cell some number that was in one of
them (`RacedSortings`); what they count is modelled as any number up to the
exact one, since `m_expected` has no duplicates and every match is a value that
was in `m_current`.  `CalcLoss` sorts the unused cells (-1) to the front,
and a packet that arrives later overwrites the cell `m_last_packet` points to.
A serial number is whatever the narrowing of a request's 64-bit id to
`std::int32_t` gives, the mark of an empty cell included.
A packet beyond the window is written past the end of the vector; `overrun`
records it and the model stops there, because nothing can be said of what
follows.  `delivered` is a history variable, the packets filed per period.
`Percentage` is the quotient in whole numbers; the code's floating point
quotient may come out lower by one where it is not exact in binary, which no
property here depends on.

### HttpDispatch

A path is a sequence of segments and a query a sequence of tokens, each split
at `=`; splitting at `/` and `&` is Poco's.  A step is one turn of a loop, so that
what a loop computes for every input follows from an invariant of the steps.
`getParams` is a turn of the loop over the tokens in `uri::getParams`.  In
`dispatcher::execute`, `BeginRoute` compares the lengths of a route and the path,
`Compare` one segment, with the parameter and the `_executor` it sets or resets
(also where the match fails half-way), `EndRoute` goes on to the next route;
`General` is a turn of the second loop, for a route without segments.  `ex` is the
route and `n` the token or segment a loop is at, `k` the second iterator of the loop
over the segments, the one in the path; `MoreSegments` is that loop's condition.
A method without routes has an empty sequence of them.

`add` is `server::handle`, `execute` the arrival of a request, `Callback...` what
an executer can do (answer, answer twice, throw), `handleRequest` the rest of the
handler.  Poco's `HTTPServerResponse::send` throws when a response was sent before
(`Send`).  Poco's HTTP server tells exceptions apart: for one of its own (a second
`send`, an address that cannot be bound, a malformed URI, an empty token) it answers
500 where there is no response yet, and closes the connection (`Caught`); for any
other (`std::stoll`, `std::async`) it closes the connection as it is (`Uncaught`).
All three are external.  The reference definition of a route is `IsRouteFor`, that
of the parameters `HasParams`.

Variables of a route that failed at a later segment stay in the parameters.
`ParamsAreTheRequests` says exactly which (`Stored`) and what they do: they may
hide a value of the query, never a variable of the route that is called.  The four
routes of `app.cpp` have no variables.

### AppLifecycle

`pc` is the thread in `app::main(args)` and later `~app`, `worker` is
`m_main_thread`.  `initialize` loads the configuration; where that throws, Poco
logs it and `run()` returns.  `startupNoLogger` is `create_logger` returning null
for a sink it does not know: every step that logs then crashes the process.  A
termination request can arrive at any time; `exit` passes
it on through the stop token, which `WaitForStop` notices also when it was set
before the wait.  An exception in the worker is not covered by the `try` block
of `app::main(args)`, which runs on the other thread, and ends the process
(`WorkerThrows`); one in `startup()` is logged through `m_logger` before there
is one (`startupThrows`).  `~app` destroys the members in reverse order of
declaration, the HTTP server after what its requests use; `stopAll` does not
wait for requests in progress.

### UdpClient

`pc` is the thread in `app::main(args)` and later `~app`, `worker` is
`m_main_thread` and `sender` is `m_traffic_thread`, each with its stop token.
`exit` stops and joins the worker only; the sender is stopped (`DestroyTraffic`)
and joined (`JoinTraffic`) by the destructor of its `std::jthread`, before the
members declared above it go (`DestroyMembers`).  A round is `TestStop`, then
`Send` or `Skip` for each number of the window, `EndRound` and `WakeUp`.
`built` counts the requests in the flatbuffers builder.  Because nothing clears
it, `MaxRequests`, the number of requests in the longest datagram that UDP
carries (some thousands), is also the number of sends a client can make;
`SenderThrows` is that send, and any other failure of the socket.  `round` is a
history variable: what has been sent since the stop token was last read.

### TrafficLink

The client of `UdpClient` and the detector of `LossesDetector`, with a set of
datagrams in between.  `Deliver` takes any of them, so they are reordered and
late; `Lose` drops one, which also stands for a point that is not registered and
a full buffer; a delivery may leave the datagram in the network.  The client's
datagrams grow, and Poco's UDP server cuts one that is longer than its buffer.
The serial number arrives all the same: a flatbuffers builder fills its buffer from
the back, so that the request made last, the only one the server reads, is at the
front of the datagram.  That one
thread at a time feeds the detector is `TrafficPoints!FeedsItsOwn`.  The client
sleeps by its own clock and a datagram may take any time, so every pattern of
arrivals is possible and nothing relates the sleep to `now`.

## 3. Runs

| Run | Result | Shows |
|---|---|---|
| `points` | pass | three threads, two points, three detectors, limit 0: `CounterExact`, `NoUseAfterDestroy`, `FeedsItsOwn`, `OnlyDestroyDeadlocks` and the refinement of `PointRegistry` |
| `points_drain` | pass | two threads and three points, one with port 0: `PointsBounded`, the counter never falls below the map although adds overwrite entries, and under weak fairness, once the clients stop, every request is answered |
| `points_delete_stuck` | violation | a DELETE is never answered: the destructor deadlock |
| `sieve` | pass | all interleavings of `build()` up to 16, words of four elements: `PrimesStay`, `OnlySharedWordsFail`, `BuildEnds` |
| `sieve_lost_clear` | violation | a composite number stays marked after `build()` |
| `search` | pass | two requests, maximum 5, largest `int` 3, portion 0, limit 2, `std::async` may fail: `AnswerIsTheMark`, `AsyncBounded`, `CounterIsSplits`, `EveryNumberAnswered` |
| `search_unbuilt` | violation | without `build()` a composite number is answered 200 |
| `losses` | pass | a feeder, two racing readers, a clock that may be set: `LossNeverHidden`, `ClosedPeriodExact`, `FedDetectorReportsPercentage` |
| `link` | pass | client, network and detector: `SenderOutlivedByMembers`, `RoundsAreWhole`, `OnlyTheFirstPeriodCounts`, `OnlyArrivalsCount`, `OverrunTakesMoreThanAWindow`, `ClientTerminates`, `UnstoppedClientFails` |
| `link_window` | violation | a round of the repository's client arrives late and is written past the end of the window |
| `dispatch` | pass | all tables of up to two routes, with variables, and requests with malformed queries: `FindsTheRoute`, `ParamsAreTheRequests`, `OnlyCallbacksLeaveUnanswered` |
| `lifecycle` | pass | three HTTP threads, termination at any moment: `RequestsFindTheService`, `NothingIsCreatedAfterwards`, `TerminationIsHeard` |

### Bounds

* **Points.**  Limit 0 already lets one point in (the test is `>`), so that
  with two points and three threads the limit is passed by racing adds, and
  both the refusal and the acceptance happen.  Three threads allow an add, a
  removal and a second add or a query of one point at a time.  Three detectors
  are one for each point and one for the add that is about to fail or replace.
  One buffered datagram per handler suffices for a handler to be in any place
  while its detector is destroyed; more repeat the same steps.
  `points` has no port 0, with which `CounterExact` and the refinement are false;
  of the two destructions under the lock, by a removal and by an add that replaces
  an entry, `OnlyDestroyDeadlocks` therefore meets only the first.
  `points_drain` has three points, so that two threads without a limit would
  register more than the bound allows, and no packets: with them the deadlock of
  `points_delete_stuck` is reachable and the property false.
* **Sieve.**  16 gives tasks for 2 and 3 and, when the loop runs ahead of the
  first task, for 4; words of four make tasks meet in a word and also leave
  words with one writer, which `OnlySharedWordsFail` tells apart.
* **Search.**  With portion 0 no interval is short enough, so the counter alone
  ends the recursion.  A portion of 1 gives the same behaviours here: it differs
  for an interval of a single number only, and those come two levels deep, where
  the callers have brought the counter to the limit already.  Limit 2 gives calls
  two levels deep; a counter raised by failures stops at the limit, which
  bounds `abandoned`.  The numbers of the requests are below the range, in it,
  prime and composite, and above it.  With a maximum of 5 and a largest `int` of
  3 there are intervals that end beyond it and one that starts beyond it.
* **Losses.**  Two periods of two packets, and the serial numbers -1, 0, 2 and 3:
  packets expected by each period, a duplicate, an early and a late one, and a
  number that looks like an empty cell.
  `CurrentPeriod` 2 needs both periods.  `MaxPeriod` stops the model where the
  code goes on with period after period in the same way.

* **Dispatch.**  Two routes of one method are the least that lets a partial
  match precede another route or the catch-all; paths of two segments the least
  in which a match fails half-way.
* **Link.**  A window of two, with all numbers sent or every second one; three
  sends, so that a second round begins and repeats a number, and the builder is
  full in the middle of it; one repeated datagram; two periods, so that a round
  can fall into its own, a later or an earlier one.  Three sends and a repetition
  are more than the window of a period, so that it is overrun in some behaviours
  and `OverrunTakesMoreThanAWindow` is not vacuous.  The client's threads are
  modelled from start to end.
* **Lifecycle.**  The model is finite; three HTTP threads are in different
  phases at once.

Symmetry is used for threads and detectors in `points`, where no
liveness is checked and no definition distinguishes them, and for the
readers in `losses`.

Deadlock checking is off in `points`, where the deadlock
of section 6 is a behaviour of the code, in `points_delete_stuck`, which
exhibits it, in the runs of the losses detector, where the bounds and an overrun
end the behaviours, and in those of the link, where also the client ends.

### Fairness

* `PrimesSieve`, `PrimesSearch`: weak fairness of each thread.  The operating
  system schedules every thread that can run, and nothing in these components
  takes a lock.
* `AppLifecycle`: weak fairness of the application's thread and of
  `m_main_thread`; nobody has to send a termination request.  It assumes that
  the handlers of the UDP servers come out of their callbacks, which the
  deadlock of section 6 prevents.
* `UdpClient`: weak fairness of each of its three threads, and nobody has to ask
  it to end.  `TrafficLink` adds none: the network owes nobody a datagram and the
  queries need not come.
* `DrainSpec`: weak fairness of each HTTP thread and each handler, and clients
  that stop sending at some time.  `std::shared_mutex` promises nobody the lock
  while others keep taking it; without new requests weak fairness is enough,
  because a lock that is free stays free unless one of the finitely many steps
  left takes it.
* `FairSpec`: strong fairness, more than the code has.  It is used for the
  violation only: a DELETE that starves under strong fairness starves under
  any.

## 4. Properties and the code

`CounterExact` relates the atomic counter, which adds increment outside and
removals decrement inside the lock, to the map plus the threads in between.
`OnlyDestroyDeadlocks` says that the destructor under the unique lock is the
only circle of waiting in the code: whenever nobody inside a request can move,
it is that one.  `ImplementsRegistry` is the linearizability of the API.
`NoUseAfterDestroy` and `FeedsItsOwn` are about the lookup by name: the second
depends on the exclusive bind and fails with address reuse (mutant
`Create_Reuse`), and it is what makes the single feeding thread of
`LossesDetector` sound.

`OnlySharedWordsFail` separates the one real fault of the sieve, two writers of
a word, from the many things that look dangerous and are not: stale marks,
tasks for composite numbers, the order of the tasks.  `LossNeverHidden` says in
which direction the races and the caching of the losses detector err.

`OnlyTheFirstPeriodCounts` is what numbering from 0 in the client and from `k`
times the window in the detector amount to; `OnlyArrivalsCount` is the direction
in which client, network and detector together can be trusted: a number that
arrives twice, by a repetition of the network or in a later round, does not stand
in for one that was lost.
`OverrunTakesMoreThanAWindow` is the other side of the finding `link_window`:
delay and reordering alone overrun nothing, it takes a datagram more than the
window, and the client's second round has it.  `ParamsAreTheRequests` describes
without loops what the loops over tokens, routes and segments leave in one map that
all of them write.  `OnlyCallbacksLeaveUnanswered` says where the duty to answer is
lost: the handler answers for what fails before the callback and the HTTP server
for exceptions of Poco, so that what remains is any other exception in a callback.
`SenderOutlivedByMembers` fails as soon as the sender is not joined before the
members above it, which in the code depends on the order of two declarations.
`UnstoppedClientFails` says what the growing builder leads to: a client that is
not stopped ends with an exception.  `AnswerIsTheMark` says what the `int` in the
search costs: numbers beyond it may be denied, all others from 2 on are answered
by their mark.  With a maximum of more than twice the largest `int` plus one the
start of a part can convert to 0 or 1, so that 200 for these two is possible
there; below that maximum it is not.

## 5. Proofs

`TrafficPointsProofs` proves, for all values of the constants that satisfy
`ConstantsAssumption`,

* `TypeCorrect`: `Spec => []TypeOK`;
* `DetectorsOutliveTheirUse`: `Spec => []NoUseAfterDestroy`;
* `PacketsFeedTheirOwnDetector`: `Spec => []FeedsItsOwn`;
* `CounterNeverDrifts`: `Spec => []CounterExact`;
* `LimitExceededByThreadsOnly`: `Spec => []PointsBounded`;
* `CallbacksImplementRegistry`: `AnyPort = {} /\ Spec => ImplementsRegistry`.

The assumption: threads and points are finite sets, `None` is neither, threads
and detectors are different things, and limit plus threads fit into a
`std::int16_t`, without which the counter wraps around.

`SafetyInv` is the inductive invariant behind the first three.  `TypeOK` is not
inductive: a step that indexes the map with the request's point needs
`RequestInv`.  `LockInv` derives the holder of the mutex from the places the
threads are in; it is what keeps a removal out while a reader is in the map.
`OwnInv` gives every live detector one place: registered for the point it is
bound to, on the stack of the add that made it, or under destruction by one
thread.  Without its last two conjuncts two threads could destroy one detector.
`BindInv` is the exclusive bind, and `FoundInv` says that what was found under
the shared lock is still there.

`CountInv` adds `CounterExact` itself and `LimitInv`: counter plus adds that
passed the limit's test and have not counted yet stay within limit plus
threads.  The test alone says nothing about the adds that passed it before; the
sum is what each step preserves.  The step from `LimitInv` to the absence of
wraparound is why `TypeOK` and the counting are proved together.

The refinement is proved step by step: each action maps to one of
`PointRegistry` or to no change.  `AnswerInv` says which status belongs to which
place of a callback, so that a step which only sends an answer does not change
the abstract call; a refusal is justified by `CountInv`, which turns a counter
above the limit into registered points plus other requests in progress.  The
hypothesis `AnyPort = {}` is needed: adds of a port-0 address overwrite each
other's entry, and the second one is answered 200 without inserting anything.
The run `points`, which checks the refinement, has no such address either.

Each lemma has one step per action; facts about cardinalities of sets that gain
or lose one thread, and about the conversion to 16 bits, are lemmas of their
own.

`PrimesSieveProofs` proves, for every maximum and every size of a word,

* `TypeCorrect`: `Spec => []TypeOK`;
* `NoPrimeIsCleared`: `Spec => []PrimesStay`;
* `OnlySharedWordsLeaveComposites`: `Spec => []OnlySharedWordsFail`.

`SieveInv` adds four parts: `CountInv` makes the counter the number of running
tasks; `TaskInv` keeps `j` of a task a multiple of its number and every prime of
the word in what it has loaded; `LoopInv` says that every prime the loop has
passed has its task, which is done when `build()` returns; `ClearedInv` that a
multiple a task has passed is cleared, and cleared in what the task is about to
store, unless another task writes to its word.  `OnlySharedWordsFail` then needs arithmetic: a
composite number has a prime divisor whose square is not above it
(`SmallPrimeDivisor`).  That is induction over numbers, which the provers do not
do; the lemma `Least` (every non-empty set of natural numbers has a least
element), from the well-foundedness of `<`, takes its place.

`PrimesSearchProofs` proves, for every maximum, portion, limit, largest `int` and
finite set of threads (`SearchAssumption`),

* `TypeCorrect`: `Spec => []TypeOK`;
* `AnswersAreTheMarks`: `Spec => []AnswerIsTheMark`;
* `WorkersAreBounded`: `Spec => []AsyncBounded`;
* `CounterCountsSplits`: `Spec => []CounterIsSplits`.

`TreeInv` says that the callers of a call wait for it.  A call is therefore at
most as deep as the counter is high, each caller above it having incremented, and
there are at most as many calls as threads plus twice the waiting ones, each of
which has two halves; the test of the counter then bounds counter and splits
together.  `JoinsInv` is `CounterIsSplits` and the finiteness that counting
needs.  `CoverInv` says of each call which interval it answers for: the first one
for the whole range, the two a call waits for for its halves (`SearchOf`), so
that `false` at the root means that no part was left out.

`LossesDetectorProofs` proves, for every window, every evaluation period and any
set of readers (`LossesAssumption`: the three settings are positive),

* `TypeCorrect`: `Spec => []TypeOK`;
* `LossesAreNotHidden`: `Spec => []LossNeverHidden`;
* `ClosedPeriodsAreExact`: `Spec => ClosedPeriodExact`;
* `AnswersArePercentages`: `Spec => FedDetectorReportsPercentage`.

`LossesInv` adds to the types (`StateInv`) that the cells hold nothing but packets
filed into their period, and all of them for as long as no loss was computed
(`CellsInv`): an `AddPacket` after a sort may overwrite another packet, one before
it never does, because the cells beyond `m_last_packet` are empty.  -1 as a
serial number makes no difference, since no period expects it.  `SumInv` bounds
what a reader has added up by the periods it has taken out of `todo`, and says
that only in a detector without periods there is nothing to add up; the division
needs both, and that the lock keeps `File` out meanwhile.

`TrafficLinkProofs` proves, for every window, gape and network,

* `LinkIsClient`: `LinkSpec => Spec`, and `LinkIsDetector`: a behaviour of the
  link is one of the losses detector that is fed with the numbers of a window;
* `LinkTypeCorrect`: `LinkSpec => []LinkTypeOK`;
* `LaterPeriodsCountNothing`: `LinkSpec => []OnlyTheFirstPeriodCounts`;
* `CreditsHaveArrived`: `LinkSpec => []OnlyArrivalsCount`;
* `OneRoundFits`: `LinkSpec => []OverrunTakesMoreThanAWindow`.

The two implications carry the invariants of client and detector over to the
link, where they are not proved again.  `SentInv` is what the link adds: what is
in the network, waits for the lock or was filed has been sent, because a round
reaches a number only after the smaller ones and `gape` is read before the first
send.  The two properties of what is credited follow from it and from
`LossNeverHidden`.  `CountInv`, for the third, counts: the cells a period has
used, the packet that waits for the lock and the datagrams in the network are
together no more than what was sent or repeated.  A bound on the cells alone is
not inductive, since it says nothing of the datagrams still to come.  (The lemmas named `One...` say that the two instances of the detector's module,
in the model and in the proofs, are the same.)

`HttpDispatchProofs` proves, for every set of methods, patterns, paths and queries
and every number of routes (`DispatchAssumption`: a pattern is a sequence of
segments, a path one of strings, a query one of sequences of strings),

* `TypeCorrect`: `Spec => []TypeOK`;
* `RoutesAreFound`: `Spec => []FindsTheRoute`;
* `ParamsAreRight`: `Spec => []ParamsAreTheRequests`;
* `UnansweredInACallbackOnly`: `Spec => []OnlyCallbacksLeaveUnanswered`.

`DispatchInv` says what each loop has done so far.  `TableInv`: the callbacks of a
method are different ones, so that `_executor` tells which route was chosen.
`ParamsInv`: the parameters hold the last values of the tokens read and, over them,
the variables stored by the routes and segments compared so far; that a turn of the
loop adds at most one variable to `Stored`, the latest, is `StoredBySegment`.
`RouteInv`: no route before `ex` fits, the segments before `n` do (`SegmentInv`, which
also keeps `n` and `k` in step), and `_executor` is null exactly until the first of
them; after the loop it is null unless all segments fit.  An empty path
makes the first loop pass by the routes without segments, which the second one
then finds; `Hit` is therefore not quite `Matches`, and `FirstGeneral` shows that
the choice comes out the same.  `AnswerInv` says who has answered at each place,
that 501 is sent only where nothing was found, and that an exception which is not
Poco's comes from a callback.

`AppLifecycleProofs` proves for any set of HTTP threads

* `TypeCorrect`: `Spec => []TypeOK`;
* `ServiceIsThere`: `Spec => []RequestsFindTheService`;
* `SetUpBeforeDestruction`: `Spec => NothingIsCreatedAfterwards`.

The invariant adds to `TypeOK` what exists when the worker is at a given place
(`SetUpInv`, which also says that the worker is over, or was never started, once
`~app` has begun) and that requests exist only after the last step of the set-up
(`ServingInv`).  The action property follows from the second conjunct: no step
that creates a member is enabled during the destruction.

`UdpClientProofs` proves, for every window, every set of gapes and every size of
a datagram (`ClientAssumption`: natural numbers),

* `SenderIsOutlived`: `Spec => []SenderOutlivedByMembers`;
* `StopsBetweenRounds`: `Spec => []RoundsAreWhole`.

`ThreadsInv` relates the places of the three threads; `RoundInv` says what a
round has sent when it is at `j`, which `RoundsAreWhole` is silent about and
every `Send` and `Skip` needs.

Only model-checked: `OnlyDestroyDeadlocks` (it contains ENABLED) and the liveness
properties (fairness), both outside what the prover handles.  The violations are
counterexamples and need no proof.

## 6. Disagreements between code and documentation

With a run:

* `app.cpp:296` destroys a UDP server under the unique lock its handler may be
  waiting for (`points_delete_stuck`).
* `primes/detector.cpp:37` loses clears (`sieve_lost_clear`).
* `app.cpp:170` creates the primes detector and nobody calls `build()`
  (`search_unbuilt`).
* `losses/detector.cpp:42` writes past the window when a round of the
  repository's client is late (`link_window`).

Without a run, because they can be read off a few lines:

* `app.cpp:226` refuses an add when the counter is *greater* than the limit:
  one point too many, where the README calls it the maximum; `PointsBounded` is
  the bound that holds;
* `losses/detector.cpp:18` caches the loss of a period that is still receiving
  packets: what arrives later counts as lost for ever (`LossNeverHidden` is the
  direction that holds, `ClosedPeriodExact` the case that is exact);
* `udp/client/app.cpp:148` numbers every round from 0 and `losses/detector.cpp:8`
  expects period `k` to begin at `k` times the window: with the repository's own
  client every period after the first is reported as lost
  (`OnlyTheFirstPeriodCounts`);
* `udp/client/app.cpp:153` adds to a builder that is never cleared
  (`UnstoppedClientFails`);
* `config/giraffic.json` is not valid JSON, two commas are missing, so that
  `initialize` throws with the file as it is (`initializeThrows`);
* an add of a registered point is answered 425 (`app.cpp:242`), where the
  README lists 200 and 400;
* `GetAverageLoss` without any period converts 0/0 to an integer
  (`losses/detector.cpp:113`);
* the limit of asynchronous searches is `max_prime_workers` times the number of
  cores and can be passed by racing calls (`primes/detector.cpp:52`), where the
  README calls it the "max workers"; `AsyncBounded` is the bound that holds;
* a number above the maximum is answered 400, which the README does not list;
* `is_prime?number=abc`, and a number whose search `std::async` fails, get no response at
  all, where `README.md:24` lists 200 and 425: `std::stoll` (`app.cpp:190`) and
  `std::async` throw what Poco's HTTP server does not answer for (`Uncaught`);
* `tests/losses/test.cpp` drops every second packet and expects a loss of 0.

## 7. Not modelled

* **Vendored spdlog** (`contrib/spdlog`), 23,000 of the repository's 25,000 lines:
  a third-party library that the code uses through `create_logger` and the
  logging calls.  It is not the program's own logic, and the program does not
  depend on its state; what it does depend on, a null logger, is modelled.
  Of the program's own code about half the lines are behind a definition; the
  rest are includes, declarations, logging and the items below.
* **Messages**: a generated flatbuffers accessor for one integer.  A datagram is
  the number the server reads and how many requests it holds.
* **Core**: the error category's texts and `core::exception`, which nobody
  throws; logger levels and patterns.
* **Configuration**: read by Poco; the values are constants.  A maximum prime
  number below 2, with which the bounds of a search wrap around, is excluded by
  `SearchAssumption`.
* **Process set-up** in the two `main.cpp`: locale and sockets, no state.
* The growth of `losses::detector::m_packets`: nothing bounds it, so there is no
  bound to check.
* **Poco**: external.  The modules use that its HTTP server gives a thread to a
  request, and that a UDP server's destructor waits for its handler.

## 8. Status

Every invariant and every safety action property of the passing runs is stated by
a theorem, except `OnlyDestroyDeadlocks`.  What would extend the development:

1. The destructor deadlock, repaired: `TrafficPoints` with the erased detector
   destroyed after the lock is released, for which `EveryRequestAnswered` should
   hold with packets arriving.  It needs a change of the code first.
2. Several connections in `HttpDispatch`.  The dispatcher is const while the server
   runs, so that they do not interact; one connection says the same.
3. Traffic points, their detectors and the client in one module: today
   `TrafficLink` takes from `TrafficPoints!FeedsItsOwn` that one thread feeds a
   detector.
