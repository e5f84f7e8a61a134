---------------------------- MODULE TrafficPoints ----------------------------
(***************************************************************************)
(* The traffic points of giraffic::app (src/app/app.cpp): the HTTP worker  *)
(* threads that add, remove and query points, the UDP handler thread that  *)
(* every point owns, and what they share: the map m_traffic_detectors, its *)
(* shared mutex and the atomic counter m_max_traffic_points.               *)
(*                                                                         *)
(* A request is executed by one HTTP thread; every label of pc is a place  *)
(* where another thread can run in between.  A traffic_detector object     *)
(* (app.hpp:10) owns a udp::server, whose destructor stops and waits for   *)
(* the handler thread; the object is destroyed by the thread that drops    *)
(* the last shared_ptr to it.                                              *)
(***************************************************************************)
EXTENDS Integers, FiniteSets

CONSTANTS
  Threads,           \* HTTP worker threads
  Points,            \* point addresses ("host:port") that requests name
  AnyPort,           \* the points with port 0: every bind gets a free port
  Detectors,         \* identities of traffic_detector objects
  MaxTrafficPoints,  \* m_config._max_traffic_points
  MaxBacklog,        \* bound: datagrams a handler has buffered at one time
  None               \* the null pointer, no thread, no point

ASSUME ConstantsAssumption ==
  /\ IsFiniteSet(Threads)
  /\ IsFiniteSet(Points)
  /\ AnyPort \subseteq Points
  /\ Threads \cap Detectors = {}
  /\ None \notin Threads \cup Points \cup Detectors
  /\ MaxTrafficPoints \in Nat
  /\ MaxBacklog \in Nat
  /\ MaxTrafficPoints + Cardinality(Threads) < 32768

VARIABLES
  m_traffic_detectors,   \* point -> the detector registered for it, or None
  m_max_traffic_points,  \* std::atomic<std::int16_t>
  writer,                \* owner of the unique lock on the map, or None
  readers,               \* threads and handlers holding the shared lock
  pc,                    \* where the HTTP thread is in its callback
  op, point, reply,      \* its request and the first status it sent
  local,                 \* its _traffic_point, the shared_ptr on its stack
  victim,                \* the detector whose destructor it is running
  handler,               \* per detector: what its UDP handler thread does
  at,                    \* per detector: the point its socket is bound to
  backlog                \* per detector: datagrams received, not processed

table   == <<m_traffic_detectors, m_max_traffic_points>>
lock    == <<writer, readers>>
request == <<op, point>>
owned   == <<local, victim>>
udp     == <<handler, at, backlog>>
vars    == <<table, lock, pc, request, reply, owned, udp>>

Ops == {"add", "rem", "losses"}

Start == [add |-> "add_check", rem |-> "rem_erase", losses |-> "losses_find"]

Labels == {"idle", "replied",
           "add_check", "add_find", "add_create", "add_count", "add_insert",
           "add_replaced", "add_reply", "add_drop",
           "rem_erase", "rem_destroy", "rem_count", "rem_reply",
           "losses_find", "losses_read"}

Statuses == {"200", "400", "425", "500"}

\* The values of std::int16_t, the counter's type, and the conversion to it.
Int16s == {n \in Int : -32768 <= n /\ n <= 32767}
Int16(x) == ((x + 32768) % 65536) - 32768

CanReadLock  == writer = None
CanWriteLock == writer = None /\ readers = {}

Live(d)        == handler[d] # "none"
HeldLocally(d) == \E t \in Threads : local[t] = d
Stopping(d)    == \E t \in Threads : victim[t] = d

\* The points that have an entry in the map.
Registered == {p \in Points : m_traffic_detectors[p] # None}

Goto(t, l) == pc' = [pc EXCEPT ![t] = l]

Reply(t, s) == /\ reply' = [reply EXCEPT ![t] = s]
               /\ Goto(t, "replied")

Init ==
  /\ m_traffic_detectors = [p \in Points |-> None]
  /\ m_max_traffic_points = 0
  /\ writer = None
  /\ readers = {}
  /\ pc = [t \in Threads |-> "idle"]
  /\ op = [t \in Threads |-> "none"]
  /\ point = [t \in Threads |-> None]
  /\ reply = [t \in Threads |-> "none"]
  /\ local = [t \in Threads |-> None]
  /\ victim = [t \in Threads |-> None]
  /\ handler = [d \in Detectors |-> "none"]
  /\ at = [d \in Detectors |-> None]
  /\ backlog = [d \in Detectors |-> 0]

-----------------------------------------------------------------------------
(* The HTTP server hands a request to an idle thread, and takes the thread *)
(* back when its callback has returned.                                    *)

Receive(t, o, p) ==
  /\ pc[t] = "idle"
  /\ Goto(t, Start[o])
  /\ op' = [op EXCEPT ![t] = o]
  /\ point' = [point EXCEPT ![t] = p]
  /\ UNCHANGED <<table, lock, reply, owned, udp>>

Return(t) ==
  /\ pc[t] = "replied"
  /\ Goto(t, "idle")
  /\ op' = [op EXCEPT ![t] = "none"]
  /\ point' = [point EXCEPT ![t] = None]
  /\ reply' = [reply EXCEPT ![t] = "none"]
  /\ UNCHANGED <<table, lock, owned, udp>>

-----------------------------------------------------------------------------
(* The life of a traffic_detector.                                         *)

\* A mutant of Create: the socket is opened with address reuse.
Create_Reuse(d, p) ==
  /\ ~Live(d)
  /\ handler' = [handler EXCEPT ![d] = "idle"]
  /\ at' = [at EXCEPT ![d] = p]
  /\ UNCHANGED backlog

\* The udp::server constructor binds the socket and starts the handler; the
\* bind succeeds only where no live server is bound to the same address.
Create(d, p) ==
  /\ ~Live(d)
  /\ p \in AnyPort \/ \A e \in Detectors : Live(e) => at[e] # p
  /\ handler' = [handler EXCEPT ![d] = "idle"]
  /\ at' = [at EXCEPT ![d] = p]
  /\ UNCHANGED backlog

\* Thread t runs ~traffic_detector of its victim, which waits for the
\* handler thread to be out of processData.
Destroy(t) ==
  /\ handler[victim[t]] = "idle"
  /\ handler' = [handler EXCEPT ![victim[t]] = "none"]
  /\ at' = [at EXCEPT ![victim[t]] = None]
  /\ backlog' = [backlog EXCEPT ![victim[t]] = 0]
  /\ victim' = [victim EXCEPT ![t] = None]
  /\ UNCHANGED local

-----------------------------------------------------------------------------
(* http_add_traffic_point_callback                                         *)

\* A mutant of AddCheck: the limit is not tested.
AddCheck_NoLimit(t) ==
  /\ pc[t] = "add_check"
  /\ Goto(t, "add_find")
  /\ UNCHANGED <<table, lock, request, reply, owned, udp>>

AddCheck(t) ==
  /\ pc[t] = "add_check"
  /\ \/ /\ m_max_traffic_points > MaxTrafficPoints
        /\ Reply(t, "400")
     \/ /\ m_max_traffic_points <= MaxTrafficPoints
        /\ Goto(t, "add_find")
        /\ UNCHANGED reply
  /\ UNCHANGED <<table, lock, request, owned, udp>>

\* The shared lock is taken and released around the lookup.
AddFind(t) ==
  /\ pc[t] = "add_find"
  /\ CanReadLock
  /\ \/ /\ point[t] \in Registered
        /\ Reply(t, "425")
     \/ /\ point[t] \notin Registered
        /\ Goto(t, "add_create")
        /\ UNCHANGED reply
  /\ UNCHANGED <<table, lock, request, owned, udp>>

AddCreate(t) ==
  /\ pc[t] = "add_create"
  /\ \E d \in Detectors :
       /\ Create(d, point[t])
       /\ local' = [local EXCEPT ![t] = d]
  /\ Goto(t, "add_count")
  /\ UNCHANGED <<table, lock, request, reply, victim>>

\* A mutant of AddCreateThrows: the failed add is discounted.
AddCreateThrows_Discounts(t) ==
  /\ pc[t] = "add_create"
  /\ m_max_traffic_points' = Int16(m_max_traffic_points - 1)
  /\ Reply(t, "500")
  /\ UNCHANGED <<m_traffic_detectors, lock, request, owned, udp>>

\* The address does not resolve, or the bind fails: the exception leaves the
\* callback and the HTTP server answers 500.
AddCreateThrows(t) ==
  /\ pc[t] = "add_create"
  /\ Reply(t, "500")
  /\ UNCHANGED <<table, lock, request, owned, udp>>

AddCount(t) ==
  /\ pc[t] = "add_count"
  /\ m_max_traffic_points' = Int16(m_max_traffic_points + 1)
  /\ Goto(t, "add_insert")
  /\ UNCHANGED <<m_traffic_detectors, lock, request, reply, owned, udp>>

\* operator[] under the unique lock; an entry it overwrites loses a
\* reference, and if that was the last one its destructor runs right here.
AddInsert(t) ==
  LET old == m_traffic_detectors[point[t]] IN
  /\ pc[t] = "add_insert"
  /\ CanWriteLock
  /\ m_traffic_detectors' = [m_traffic_detectors EXCEPT ![point[t]] = local[t]]
  /\ \/ /\ old = None \/ HeldLocally(old)
        /\ Goto(t, "add_reply")
        /\ UNCHANGED <<writer, victim>>
     \/ /\ old # None /\ ~HeldLocally(old)
        /\ Goto(t, "add_replaced")
        /\ writer' = t
        /\ victim' = [victim EXCEPT ![t] = old]
  /\ UNCHANGED <<m_max_traffic_points, readers, request, reply, local, udp>>

AddReplaced(t) ==
  /\ pc[t] = "add_replaced"
  /\ Destroy(t)
  /\ writer' = None
  /\ Goto(t, "add_reply")
  /\ UNCHANGED <<table, readers, request, reply>>

\* The answer is sent, then _traffic_point goes out of scope: if the point
\* was removed in the meantime, this was the last reference.
AddReply(t) ==
  /\ pc[t] = "add_reply"
  /\ reply' = [reply EXCEPT ![t] = "200"]
  /\ local' = [local EXCEPT ![t] = None]
  /\ \/ /\ m_traffic_detectors[point[t]] = local[t]
        /\ Goto(t, "replied")
        /\ UNCHANGED victim
     \/ /\ m_traffic_detectors[point[t]] # local[t]
        /\ Goto(t, "add_drop")
        /\ victim' = [victim EXCEPT ![t] = local[t]]
  /\ UNCHANGED <<table, lock, request, udp>>

AddDrop(t) ==
  /\ pc[t] = "add_drop"
  /\ Destroy(t)
  /\ Goto(t, "replied")
  /\ UNCHANGED <<table, lock, request, reply>>

-----------------------------------------------------------------------------
(* http_rem_traffic_point_callback                                         *)

\* A mutant of RemErase: the lock taken does not exclude readers.
RemErase_IgnoresReaders(t) ==
  LET d == m_traffic_detectors[point[t]] IN
  /\ pc[t] = "rem_erase"
  /\ CanReadLock
  /\ d # None
  /\ m_traffic_detectors' = [m_traffic_detectors EXCEPT ![point[t]] = None]
  /\ writer' = t
  /\ ~HeldLocally(d)
  /\ Goto(t, "rem_destroy")
  /\ victim' = [victim EXCEPT ![t] = d]
  /\ UNCHANGED <<m_max_traffic_points, readers, request, reply, local, udp>>

\* find and erase under the unique lock.  Erasing drops the map's reference;
\* if an add still holds one, that add will run the destructor.
RemErase(t) ==
  LET d == m_traffic_detectors[point[t]] IN
  /\ pc[t] = "rem_erase"
  /\ CanWriteLock
  /\ \/ /\ d = None
        /\ Reply(t, "400")
        /\ UNCHANGED <<m_traffic_detectors, writer, victim>>
     \/ /\ d # None
        /\ m_traffic_detectors' = [m_traffic_detectors EXCEPT ![point[t]] = None]
        /\ writer' = t
        /\ \/ /\ HeldLocally(d)
              /\ Goto(t, "rem_count")
              /\ UNCHANGED victim
           \/ /\ ~HeldLocally(d)
              /\ Goto(t, "rem_destroy")
              /\ victim' = [victim EXCEPT ![t] = d]
        /\ UNCHANGED reply
  /\ UNCHANGED <<m_max_traffic_points, readers, request, local, udp>>

\* Still holding the unique lock.
RemDestroy(t) ==
  /\ pc[t] = "rem_destroy"
  /\ Destroy(t)
  /\ Goto(t, "rem_count")
  /\ UNCHANGED <<table, lock, request, reply>>

RemCount(t) ==
  /\ pc[t] = "rem_count"
  /\ m_max_traffic_points' = Int16(m_max_traffic_points - 1)
  /\ writer' = None
  /\ Goto(t, "rem_reply")
  /\ UNCHANGED <<m_traffic_detectors, readers, request, reply, owned, udp>>

RemReply(t) ==
  /\ pc[t] = "rem_reply"
  /\ Reply(t, "200")
  /\ UNCHANGED <<table, lock, request, owned, udp>>

-----------------------------------------------------------------------------
(* http_traffic_point_losses_callback                                      *)

LossesFind(t) ==
  /\ pc[t] = "losses_find"
  /\ CanReadLock
  /\ \/ /\ point[t] \notin Registered
        /\ Reply(t, "400")
        /\ UNCHANGED readers
     \/ /\ point[t] \in Registered
        /\ readers' = readers \cup {t}
        /\ Goto(t, "losses_read")
        /\ UNCHANGED reply
  /\ UNCHANGED <<table, writer, request, owned, udp>>

\* A mutant of LossesRead: the shared lock is not released.
LossesRead_KeepsLock(t) ==
  /\ pc[t] = "losses_read"
  /\ Reply(t, "200")
  /\ UNCHANGED <<table, lock, request, owned, udp>>

\* GetCurrentLoss and GetAverageLoss, then the JSON answer, under the lock.
LossesRead(t) ==
  /\ pc[t] = "losses_read"
  /\ readers' = readers \ {t}
  /\ Reply(t, "200")
  /\ UNCHANGED <<table, writer, request, owned, udp>>

-----------------------------------------------------------------------------
(* The UDP handler thread of detector d: udp_handler::processData calls    *)
(* server::packet_handler calls app::traffic_packet_callback.              *)

handlerOnly == <<table, writer, pc, request, reply, owned, at>>

\* A datagram is buffered; a socket that is being closed receives no more.
Arrive(d) ==
  /\ Live(d) /\ ~Stopping(d)
  /\ backlog[d] < MaxBacklog
  /\ backlog' = [backlog EXCEPT ![d] = @ + 1]
  /\ UNCHANGED <<handlerOnly, readers, handler>>

\* A mutant of ProcessData: the handler does not look for data first.
ProcessData_NoData(d) ==
  /\ handler[d] = "idle"
  /\ handler' = [handler EXCEPT ![d] = "wait"]
  /\ backlog' = [backlog EXCEPT ![d] = @ - 1]
  /\ UNCHANGED <<handlerOnly, readers>>

\* The handler works through its buffers, also once it was told to stop.
ProcessData(d) ==
  /\ handler[d] = "idle"
  /\ backlog[d] > 0
  /\ handler' = [handler EXCEPT ![d] = "wait"]
  /\ backlog' = [backlog EXCEPT ![d] = @ - 1]
  /\ UNCHANGED <<handlerOnly, readers>>

CallbackFind(d) ==
  /\ handler[d] = "wait"
  /\ CanReadLock
  /\ \/ /\ at[d] \notin Registered
        /\ handler' = [handler EXCEPT ![d] = "idle"]
        /\ UNCHANGED readers
     \/ /\ at[d] \in Registered
        /\ handler' = [handler EXCEPT ![d] = "feed"]
        /\ readers' = readers \cup {d}
  /\ UNCHANGED <<handlerOnly, backlog>>

\* OnPacketReceived on the detector the map has for the handler's point.
CallbackFeed(d) ==
  /\ handler[d] = "feed"
  /\ handler' = [handler EXCEPT ![d] = "idle"]
  /\ readers' = readers \ {d}
  /\ UNCHANGED <<handlerOnly, backlog>>

-----------------------------------------------------------------------------
AddStep(t) == \/ AddCheck(t) \/ AddFind(t) \/ AddCreate(t) \/ AddCreateThrows(t)
              \/ AddCount(t) \/ AddInsert(t) \/ AddReplaced(t)
              \/ AddReply(t) \/ AddDrop(t)
RemStep(t) == RemErase(t) \/ RemDestroy(t) \/ RemCount(t) \/ RemReply(t)
LossesStep(t) == LossesFind(t) \/ LossesRead(t)

ThreadStep(t) == AddStep(t) \/ RemStep(t) \/ LossesStep(t) \/ Return(t)
HandlerStep(d) == ProcessData(d) \/ CallbackFind(d) \/ CallbackFeed(d)

Next ==
  \/ \E t \in Threads :
       \/ \E o \in Ops, p \in Points : Receive(t, o, p)
       \/ ThreadStep(t)
  \/ \E d \in Detectors : Arrive(d) \/ HandlerStep(d)

Spec == Init /\ [][Next]_vars

\* Every thread that can go on does, and a lock that is free again and again
\* is granted to each thread that waits for it: more than std::shared_mutex
\* promises, so what fails under this fairness fails under any.
FairSpec ==
  /\ Spec
  /\ \A t \in Threads : SF_vars(ThreadStep(t))
  /\ \A d \in Detectors : SF_vars(HandlerStep(d))

NewRequest == \E t \in Threads, o \in Ops, p \in Points : Receive(t, o, p)

\* Only what the scheduler guarantees: a thread that can go on and stays able
\* to goes on.  The clients stop sending requests at some time.
DrainSpec ==
  /\ Spec
  /\ \A t \in Threads : WF_vars(ThreadStep(t))
  /\ \A d \in Detectors : WF_vars(HandlerStep(d))
  /\ <>[][~NewRequest]_vars

-----------------------------------------------------------------------------
(* Properties.                                                             *)

\* The variables have the types of the members they stand for.
TypeOK ==
  /\ m_traffic_detectors \in [Points -> Detectors \cup {None}]
  /\ m_max_traffic_points \in Int16s
  /\ writer \in Threads \cup {None}
  /\ readers \subseteq Threads \cup Detectors
  /\ pc \in [Threads -> Labels]
  /\ op \in [Threads -> Ops \cup {"none"}]
  /\ point \in [Threads -> Points \cup {None}]
  /\ reply \in [Threads -> Statuses \cup {"none"}]
  /\ local \in [Threads -> Detectors \cup {None}]
  /\ victim \in [Threads -> Detectors \cup {None}]
  /\ handler \in [Detectors -> {"none", "idle", "wait", "feed"}]
  /\ at \in [Detectors -> Points \cup {None}]
  /\ backlog \in [Detectors -> 0..MaxBacklog]

\* Adds that have counted their point and not stored it yet, and removals
\* that have erased their point and not discounted it yet.
Counted == {t \in Threads : pc[t] \in {"add_insert", "rem_destroy", "rem_count"}}

\* The counter, which is read and changed outside the map's lock, never
\* falls below the number of registered points, and where every bind is
\* exclusive it is exactly that number plus the requests between their two
\* updates: no interleaving of adds and removals makes it drift.
CounterExact ==
  LET n == Cardinality(Registered) + Cardinality(Counted)
  IN  /\ m_max_traffic_points >= n
      /\ AnyPort = {} => m_max_traffic_points = n

\* The limit is tested before the point is counted, so it can be passed, but
\* never by more than the number of threads that can be in the handler at
\* one time; the std::int16_t counter then cannot wrap around.
PointsBounded ==
  /\ Cardinality(Registered) <= MaxTrafficPoints + Cardinality(Threads)
  /\ m_max_traffic_points <= MaxTrafficPoints + Cardinality(Threads)

\* What a losses request reads and a packet callback feeds is found in the
\* map and alive, and nobody is running its destructor.
NoUseAfterDestroy ==
  LET InUse(d) == d # None /\ Live(d) /\ ~Stopping(d) IN
  /\ \A t \in Threads : pc[t] = "losses_read" =>
        InUse(m_traffic_detectors[point[t]])
  /\ \A d \in Detectors : handler[d] = "feed" =>
        Live(d) /\ InUse(m_traffic_detectors[at[d]])

\* traffic_packet_callback looks the detector up by name.  Unless the address
\* has port 0, the one it finds is the one whose own socket received the
\* packet, so a losses::detector has a single writer thread.
FeedsItsOwn ==
  \A d \in Detectors : handler[d] = "feed" /\ at[d] \notin AnyPort =>
    m_traffic_detectors[at[d]] = d

\* A destructor run under the unique lock waits for a handler that waits for
\* the same lock.
DestroyDeadlock ==
  \E t \in Threads : /\ pc[t] \in {"add_replaced", "rem_destroy"}
                     /\ handler[victim[t]] = "wait"

\* Whenever no thread inside a request and no handler can take a step
\* although one of them is not finished, it is that deadlock: there is no
\* other way for the locks and the destructors to block each other.
OnlyDestroyDeadlocks ==
  (/\ \E t \in Threads : pc[t] # "idle"
   /\ \A t \in Threads : ~ENABLED ThreadStep(t)
   /\ \A d \in Detectors : ~ENABLED HandlerStep(d)) => DestroyDeadlock

\* What a request is bound to be answered with, from the step on at which it
\* takes effect.
RespondedWith(t) ==
  IF pc[t] \in {"add_replaced", "add_reply", "add_drop", "rem_destroy",
                "rem_count", "rem_reply", "losses_read"}
  THEN "200" ELSE reply[t]

CallOf(t) ==
  IF pc[t] = "idle" THEN [op |-> "none"]
  ELSE [op |-> op[t], point |-> point[t], out |-> RespondedWith(t)]

Registry == INSTANCE PointRegistry WITH
  Limit    <- MaxTrafficPoints,
  registry <- Registered,
  call     <- [t \in Threads |-> CallOf(t)]

\* The map, the requests and their answers implement the abstract registry:
\* each PUT, DELETE and GET acts atomically although it takes several locks.
ImplementsRegistry == Registry!Spec

\* Every request is eventually answered: add, remove and query never leave a
\* lock behind and never wait for each other in a circle.
EveryRequestAnswered ==
  \A t \in Threads : pc[t] # "idle" ~> pc[t] = "idle"

\* README: DELETE rem_traffic_point => HTTP_OK/HTTP_BAD_REQUEST.
RemoveIsAnswered ==
  \A t \in Threads : op[t] = "rem" ~> reply[t] \in {"200", "400"}

-----------------------------------------------------------------------------
(* The inductive invariant behind the safety properties.                   *)

\* A thread in a callback has a request.
RequestInv == \A t \in Threads : pc[t] # "idle" => point[t] \in Points

\* Who holds the map's mutex follows from where everybody is.
LockInv ==
  /\ \A t \in Threads :
       /\ writer = t <=> pc[t] \in {"add_replaced", "rem_destroy", "rem_count"}
       /\ t \in readers <=> pc[t] = "losses_read"
  /\ \A d \in Detectors : d \in readers <=> handler[d] = "feed"
  /\ writer # None => readers = {}

\* Every live detector has one place: it is registered for the point its
\* socket is bound to, or on the stack of the add that made it, or both, or
\* it is being destroyed by one thread.
OwnInv ==
  /\ \A p \in Registered : Live(m_traffic_detectors[p])
                           /\ at[m_traffic_detectors[p]] = p
                           /\ ~Stopping(m_traffic_detectors[p])
  /\ \A t \in Threads :
       /\ local[t] # None <=>
             pc[t] \in {"add_count", "add_insert", "add_replaced", "add_reply"}
       /\ local[t] # None => /\ Live(local[t])
                             /\ at[local[t]] = point[t]
                             /\ ~Stopping(local[t])
       /\ pc[t] \in {"add_count", "add_insert"} =>
             m_traffic_detectors[point[t]] # local[t]
       /\ victim[t] # None <=>
             pc[t] \in {"add_replaced", "rem_destroy", "add_drop"}
       /\ victim[t] # None => Live(victim[t])
  /\ \A t, u \in Threads :
       t # u => /\ local[t] # None => local[t] # local[u]
                /\ victim[t] # None => victim[t] # victim[u]

\* A live detector is bound to a point, which it shares with another one only
\* where the port is 0.
BindInv ==
  \A d \in Detectors :
    Live(d) => /\ at[d] \in Points
               /\ \A e \in Detectors :
                    Live(e) /\ at[e] = at[d] /\ at[d] \notin AnyPort => d = e

\* What was found under the shared lock is still there.
FoundInv ==
  /\ \A t \in Threads : pc[t] = "losses_read" => point[t] \in Registered
  /\ \A d \in Detectors : handler[d] = "feed" => at[d] \in Registered

SafetyInv == /\ TypeOK /\ RequestInv /\ LockInv
             /\ OwnInv /\ BindInv /\ FoundInv

\* Adds that have passed the test of the limit and not counted their point.
Adding == {t \in Threads : pc[t] \in {"add_find", "add_create", "add_count"}}

\* Each of them was let in at a counter value within the limit.
LimitInv == m_max_traffic_points + Cardinality(Adding)
              <= MaxTrafficPoints + Cardinality(Threads)

CountInv == SafetyInv /\ CounterExact /\ LimitInv

\* A thread's place fits its request, and the request has an answer once it
\* was sent.
AnswerInv ==
  \A t \in Threads :
    /\ pc[t] \in {"add_check", "add_find", "add_create", "add_count", "add_insert",
                 "add_replaced", "add_reply", "add_drop"} => op[t] = "add"
    /\ pc[t] \in {"rem_erase", "rem_destroy", "rem_count", "rem_reply"} => op[t] = "rem"
    /\ pc[t] \in {"losses_find", "losses_read"} => op[t] = "losses"
    /\ pc[t] = "replied" => op[t] \in Ops /\ reply[t] # "none"
    /\ pc[t] = "add_drop" => reply[t] = "200"
    /\ pc[t] \in {"idle", "add_check", "add_find", "add_create", "add_count",
                 "add_insert", "rem_erase", "losses_find"} => reply[t] = "none"
=============================================================================
