------------------------- MODULE TrafficPointsProofs -------------------------
(***************************************************************************)
(* Theorems about TrafficPoints, for every set of threads and points and   *)
(* every limit the std::int16_t counter can hold.                          *)
(***************************************************************************)
EXTENDS TrafficPoints, FiniteSetTheorems, TLAPS

-----------------------------------------------------------------------------
(* Type correctness.                                                       *)

\* Conversion to std::int16_t yields a std::int16_t.
LEMMA Int16Range == ASSUME NEW x \in Int PROVE Int16(x) \in Int16s
  BY DEF Int16, Int16s

\* Within the range of std::int16_t the conversion changes nothing.
LEMMA Int16Identity == ASSUME NEW x \in Int16s PROVE Int16(x) = x
<1>1. ASSUME NEW y \in Int, 0 <= y, y < 65536 PROVE y % 65536 = y
  BY <1>1
<1>2. x + 32768 \in Int /\ 0 <= x + 32768 /\ x + 32768 < 65536
  BY DEF Int16s
<1>3. (x + 32768) % 65536 = x + 32768
  BY <1>1, <1>2
<1>4. QED BY <1>3 DEF Int16, Int16s

LEMMA Int16Natural ==
  ASSUME NEW x \in Int, 0 <= x, x < 32768 PROVE Int16(x) = x
<1>1. x \in Int16s
  BY DEF Int16s
<1>2. QED BY <1>1, Int16Identity

LEMMA Int16Int == ASSUME NEW x \in Int16s PROVE x \in Int
  BY DEF Int16s

LEMMA ZeroInt16 == 0 \in Int16s
  BY DEF Int16s

LEMMA TypeInit == Init => TypeOK
  BY ConstantsAssumption, ZeroInt16 DEF Init, TypeOK, Labels

\* A callback indexes the map with its request's point, so the types hold
\* together with RequestInv only.
LEMMA TypeStep == TypeOK /\ RequestInv /\ [Next]_vars => TypeOK'
<1> SUFFICES ASSUME TypeOK, RequestInv, [Next]_vars PROVE TypeOK'
  OBVIOUS
<1> USE DEF TypeOK, Labels, Statuses, Goto, Reply, table, lock, request, owned,
            udp, handlerOnly
<1>1. ASSUME NEW t \in Threads, NEW o \in Ops, NEW p \in Points,
             Receive(t, o, p)
      PROVE  TypeOK'
  <2>1. Start[o] \in Labels
    BY DEF Start, Ops
  <2>2. QED BY <1>1, <2>1 DEF Receive
<1>2. ASSUME NEW t \in Threads, Return(t) PROVE TypeOK'
  BY <1>2 DEF Return
<1>3. ASSUME NEW t \in Threads, AddCheck(t) PROVE TypeOK'
  BY <1>3 DEF AddCheck
<1>4. ASSUME NEW t \in Threads, AddFind(t) PROVE TypeOK'
  BY <1>4 DEF AddFind
<1>5. ASSUME NEW t \in Threads, AddCreate(t) PROVE TypeOK'
  <2>1. PICK d \in Detectors : /\ handler' = [handler EXCEPT ![d] = "idle"]
                               /\ at' = [at EXCEPT ![d] = point[t]]
                               /\ UNCHANGED backlog
                               /\ local' = [local EXCEPT ![t] = d]
    BY <1>5 DEF AddCreate, Create
  <2>2. /\ Goto(t, "add_count")
        /\ UNCHANGED <<table, lock, request, reply, victim>>
    BY <1>5 DEF AddCreate
  <2>3. QED BY <2>1, <2>2
<1>6. ASSUME NEW t \in Threads, AddCreateThrows(t) PROVE TypeOK'
  BY <1>6 DEF AddCreateThrows
<1>7. ASSUME NEW t \in Threads, AddCount(t) PROVE TypeOK'
  <2>1. m_max_traffic_points' \in Int16s
    BY <1>7, Int16Range, Int16Int DEF AddCount
  <2>2. QED BY <1>7, <2>1 DEF AddCount
<1>8. ASSUME NEW t \in Threads, AddInsert(t) PROVE TypeOK'
  <2>1. point[t] \in Points
    BY <1>8 DEF AddInsert, RequestInv
  <2>2. QED BY <1>8, <2>1 DEF AddInsert
<1>9. ASSUME NEW t \in Threads, Destroy(t)
      PROVE  /\ handler' \in [Detectors -> {"none", "idle", "wait", "feed"}]
             /\ at' \in [Detectors -> Points \cup {None}]
             /\ backlog' \in [Detectors -> 0..MaxBacklog]
             /\ victim' \in [Threads -> Detectors \cup {None}]
             /\ local' \in [Threads -> Detectors \cup {None}]
  <2>1. 0 \in 0..MaxBacklog
    BY ConstantsAssumption
  <2>2. QED BY <1>9, <2>1 DEF Destroy
<1>10. ASSUME NEW t \in Threads, AddReplaced(t) PROVE TypeOK'
  <2>1. Destroy(t) BY <1>10 DEF AddReplaced
  <2>2. QED BY <1>10, <2>1, <1>9 DEF AddReplaced
<1>11. ASSUME NEW t \in Threads, AddReply(t) PROVE TypeOK'
  BY <1>11 DEF AddReply
<1>12. ASSUME NEW t \in Threads, AddDrop(t) PROVE TypeOK'
  <2>1. Destroy(t) BY <1>12 DEF AddDrop
  <2>2. QED BY <1>12, <2>1, <1>9 DEF AddDrop
<1>13. ASSUME NEW t \in Threads, RemErase(t) PROVE TypeOK'
  <2>1. point[t] \in Points
    BY <1>13 DEF RemErase, RequestInv
  <2>2. QED BY <1>13, <2>1 DEF RemErase
<1>14. ASSUME NEW t \in Threads, RemDestroy(t) PROVE TypeOK'
  <2>1. Destroy(t) BY <1>14 DEF RemDestroy
  <2>2. QED BY <1>14, <2>1, <1>9 DEF RemDestroy
<1>15. ASSUME NEW t \in Threads, RemCount(t) PROVE TypeOK'
  <2>1. m_max_traffic_points' \in Int16s
    BY <1>15, Int16Range, Int16Int DEF RemCount
  <2>2. QED BY <1>15, <2>1 DEF RemCount
<1>16. ASSUME NEW t \in Threads, RemReply(t) PROVE TypeOK'
  BY <1>16 DEF RemReply
<1>17. ASSUME NEW t \in Threads, LossesFind(t) PROVE TypeOK'
  BY <1>17 DEF LossesFind
<1>18. ASSUME NEW t \in Threads, LossesRead(t) PROVE TypeOK'
  BY <1>18 DEF LossesRead
<1>19. ASSUME NEW d \in Detectors, Arrive(d) PROVE TypeOK'
  <2>1. backlog' \in [Detectors -> 0..MaxBacklog]
    BY <1>19, ConstantsAssumption DEF Arrive
  <2>2. QED BY <1>19, <2>1 DEF Arrive
<1>20. ASSUME NEW d \in Detectors, ProcessData(d) PROVE TypeOK'
  <2>1. backlog' \in [Detectors -> 0..MaxBacklog]
    BY <1>20, ConstantsAssumption DEF ProcessData
  <2>2. QED BY <1>20, <2>1 DEF ProcessData
<1>21. ASSUME NEW d \in Detectors, CallbackFind(d) PROVE TypeOK'
  BY <1>21 DEF CallbackFind
<1>22. ASSUME NEW d \in Detectors, CallbackFeed(d) PROVE TypeOK'
  BY <1>22 DEF CallbackFeed
<1>23. CASE UNCHANGED vars
  BY <1>23 DEF vars
<1> HIDE DEF TypeOK
<1>24. QED
  BY <1>1, <1>2, <1>3, <1>4, <1>5, <1>6, <1>7, <1>8, <1>10, <1>11, <1>12,
     <1>13, <1>14, <1>15, <1>16, <1>17, <1>18, <1>19, <1>20, <1>21, <1>22, <1>23
     DEF Next, ThreadStep, AddStep, RemStep, LossesStep, HandlerStep

LEMMA RequestStep == TypeOK /\ RequestInv /\ [Next]_vars => RequestInv'
<1> SUFFICES ASSUME TypeOK, RequestInv, [Next]_vars,
                    NEW t \in Threads, pc'[t] # "idle"
             PROVE  point'[t] \in Points
  BY DEF RequestInv
<1>1. CASE UNCHANGED <<point, pc>>
  BY <1>1 DEF RequestInv
<1>2. ASSUME NEW u \in Threads, UNCHANGED point, pc[u] # "idle",
             \E l \in Labels : pc' = [pc EXCEPT ![u] = l]
      PROVE  point'[t] \in Points
  BY <1>2 DEF RequestInv, TypeOK
<1>3. ASSUME NEW u \in Threads, NEW o \in Ops, NEW p \in Points, Receive(u, o, p)
      PROVE  point'[t] \in Points
  BY <1>3 DEF RequestInv, TypeOK, Receive, Goto
<1>4. ASSUME NEW u \in Threads, Return(u) PROVE point'[t] \in Points
  BY <1>4 DEF RequestInv, TypeOK, Return, Goto
<1>5. ASSUME NEW u \in Threads, AddStep(u) PROVE point'[t] \in Points
  BY <1>5, <1>2 DEF AddStep, AddCheck, AddFind, AddCreate, AddCreateThrows,
     AddCount, AddInsert, AddReplaced, AddReply, AddDrop, Goto, Reply, Labels,
     request
<1>6. ASSUME NEW u \in Threads, RemStep(u) PROVE point'[t] \in Points
  BY <1>6, <1>2 DEF RemStep, RemErase, RemDestroy, RemCount, RemReply, Goto,
     Reply, Labels, request
<1>7. ASSUME NEW u \in Threads, LossesStep(u) PROVE point'[t] \in Points
  BY <1>7, <1>2 DEF LossesStep, LossesFind, LossesRead, Goto, Reply, Labels,
     request
<1>8. ASSUME NEW d \in Detectors, Arrive(d) \/ HandlerStep(d)
      PROVE  point'[t] \in Points
  BY <1>8, <1>1 DEF Arrive, HandlerStep, ProcessData, CallbackFind, CallbackFeed,
     handlerOnly, request
<1>9. CASE UNCHANGED vars
  BY <1>9, <1>1 DEF vars, request
<1>10. QED
  BY <1>3, <1>4, <1>5, <1>6, <1>7, <1>8, <1>9 DEF Next, ThreadStep

\* Every reachable state of app's traffic point handling is well typed: the
\* counter stays a std::int16_t and every pointer names a detector or is null.
THEOREM TypeCorrect == Spec => []TypeOK
<1>1. Init => RequestInv
  BY DEF Init, RequestInv
<1>2. QED
  BY <1>1, TypeInit, TypeStep, RequestStep, PTL DEF Spec

-----------------------------------------------------------------------------
(* The inductive invariant.                                                *)

LEMMA Distinct ==
  /\ \A t \in Threads : t # None /\ t \notin Detectors
  /\ \A d \in Detectors : d # None /\ d \notin Threads
  /\ \A p \in Points : p # None
  BY ConstantsAssumption

LEMMA LockStep == TypeOK /\ LockInv /\ [Next]_vars => LockInv'
<1> SUFFICES ASSUME TypeOK, LockInv, [Next]_vars PROVE LockInv'
  OBVIOUS
<1>0. /\ pc \in [Threads -> Labels]
      /\ handler \in [Detectors -> {"none", "idle", "wait", "feed"}]
      /\ victim \in [Threads -> Detectors \cup {None}]
      /\ writer \in Threads \cup {None}
      /\ readers \subseteq Threads \cup Detectors
  BY DEF TypeOK
<1> USE <1>0, Distinct DEF Goto, Reply, table, lock, request, owned, udp, handlerOnly,
        CanReadLock, CanWriteLock
\* The steps of a thread that only move it between places without a lock.
<1>1. ASSUME NEW t \in Threads, UNCHANGED <<lock, handler>>,
             pc[t] \notin {"add_replaced", "rem_destroy", "rem_count", "losses_read"},
             NEW l \in Labels \ {"add_replaced", "rem_destroy", "rem_count", "losses_read"},
             pc' = [pc EXCEPT ![t] = l]
      PROVE  LockInv'
  BY <1>1 DEF LockInv
<1>2. ASSUME NEW t \in Threads, NEW o \in Ops, NEW p \in Points, Receive(t, o, p)
      PROVE  LockInv'
  <2>1. Start[o] \in {"add_check", "rem_erase", "losses_find"}
    BY DEF Start, Ops
  <2>2. QED BY <1>1, <1>2, <2>1 DEF Receive, Labels
<1>3. ASSUME NEW t \in Threads, Return(t) PROVE LockInv'
  BY <1>1, <1>3 DEF Return, Labels
<1>4. ASSUME NEW t \in Threads, AddCheck(t) PROVE LockInv'
  BY <1>1, <1>4 DEF AddCheck, Labels
<1>5. ASSUME NEW t \in Threads, AddFind(t) PROVE LockInv'
  BY <1>1, <1>5 DEF AddFind, Labels
<1>6. ASSUME NEW t \in Threads, AddCreate(t) PROVE LockInv'
  <2>1. PICK d \in Detectors : /\ handler[d] = "none"
                               /\ handler' = [handler EXCEPT ![d] = "idle"]
    BY <1>6 DEF AddCreate, Create, Live
  <2>2. QED BY <1>6, <2>1 DEF AddCreate, LockInv
<1>7. ASSUME NEW t \in Threads, AddCreateThrows(t) PROVE LockInv'
  BY <1>1, <1>7 DEF AddCreateThrows, Labels
<1>8. ASSUME NEW t \in Threads, AddCount(t) PROVE LockInv'
  BY <1>1, <1>8 DEF AddCount, Labels
<1>9. ASSUME NEW t \in Threads, AddInsert(t) PROVE LockInv'
  BY <1>9 DEF AddInsert, LockInv
<1>10. ASSUME NEW t \in Threads, AddReplaced(t) PROVE LockInv'
  BY <1>10 DEF AddReplaced, Destroy, LockInv
<1>11. ASSUME NEW t \in Threads, AddReply(t) PROVE LockInv'
  BY <1>1, <1>11 DEF AddReply, Labels
<1>12. ASSUME NEW t \in Threads, AddDrop(t) PROVE LockInv'
  BY <1>12 DEF AddDrop, Destroy, LockInv
<1>13. ASSUME NEW t \in Threads, RemErase(t) PROVE LockInv'
  BY <1>13 DEF RemErase, LockInv
<1>14. ASSUME NEW t \in Threads, RemDestroy(t) PROVE LockInv'
  BY <1>14 DEF RemDestroy, Destroy, LockInv
<1>15. ASSUME NEW t \in Threads, RemCount(t) PROVE LockInv'
  BY <1>15 DEF RemCount, LockInv
<1>16. ASSUME NEW t \in Threads, RemReply(t) PROVE LockInv'
  BY <1>1, <1>16 DEF RemReply, Labels
<1>17. ASSUME NEW t \in Threads, LossesFind(t) PROVE LockInv'
  BY <1>17 DEF LossesFind, LockInv
<1>18. ASSUME NEW t \in Threads, LossesRead(t) PROVE LockInv'
  BY <1>18 DEF LossesRead, LockInv
<1>19. ASSUME NEW d \in Detectors, Arrive(d) PROVE LockInv'
  BY <1>19 DEF Arrive, LockInv
<1>20. ASSUME NEW d \in Detectors, ProcessData(d) PROVE LockInv'
  BY <1>20 DEF ProcessData, LockInv
<1>21. ASSUME NEW d \in Detectors, CallbackFind(d) PROVE LockInv'
  BY <1>21 DEF CallbackFind, LockInv
<1>22. ASSUME NEW d \in Detectors, CallbackFeed(d) PROVE LockInv'
  BY <1>22 DEF CallbackFeed, LockInv
<1>23. CASE UNCHANGED vars
  BY <1>23 DEF vars, LockInv
<1>24. QED
  BY <1>2, <1>3, <1>4, <1>5, <1>6, <1>7, <1>8, <1>9, <1>10, <1>11, <1>12,
     <1>13, <1>14, <1>15, <1>16, <1>17, <1>18, <1>19, <1>20, <1>21, <1>22, <1>23
     DEF Next, ThreadStep, AddStep, RemStep, LossesStep, HandlerStep

LEMMA OwnStep == TypeOK /\ RequestInv /\ OwnInv /\ [Next]_vars => OwnInv'
<1> SUFFICES ASSUME TypeOK, RequestInv, OwnInv, [Next]_vars PROVE OwnInv'
  OBVIOUS
<1>0. /\ m_traffic_detectors \in [Points -> Detectors \cup {None}]
      /\ pc \in [Threads -> Labels]
      /\ point \in [Threads -> Points \cup {None}]
      /\ local \in [Threads -> Detectors \cup {None}]
      /\ victim \in [Threads -> Detectors \cup {None}]
      /\ handler \in [Detectors -> {"none", "idle", "wait", "feed"}]
      /\ at \in [Detectors -> Points \cup {None}]
  BY DEF TypeOK
<1> USE <1>0, Distinct DEF Goto, Reply, table, lock, request, owned, udp, handlerOnly,
        CanReadLock, CanWriteLock, Registered, Live, Stopping
\* The steps of a thread that move it between places where it owns nothing.
<1>1. ASSUME NEW t \in Threads, UNCHANGED <<m_traffic_detectors, owned, handler, at>>,
             \A u \in Threads \ {t} : point'[u] = point[u],
             local[t] = None, victim[t] = None,
             NEW l \in Labels \ {"add_count", "add_insert", "add_replaced", "add_reply",
                                "rem_destroy", "add_drop"},
             pc' = [pc EXCEPT ![t] = l]
      PROVE  OwnInv'
  BY <1>1 DEF OwnInv
<1>2. ASSUME NEW t \in Threads, NEW o \in Ops, NEW p \in Points, Receive(t, o, p)
      PROVE  OwnInv'
  <2>1. Start[o] \in {"add_check", "rem_erase", "losses_find"}
    BY DEF Start, Ops
  <2>2. QED BY <1>1, <1>2, <2>1 DEF Receive, Labels, OwnInv
<1>3. ASSUME NEW t \in Threads, Return(t) PROVE OwnInv'
  BY <1>1, <1>3 DEF Return, Labels, OwnInv
<1>4. ASSUME NEW t \in Threads, AddCheck(t) PROVE OwnInv'
  BY <1>1, <1>4 DEF AddCheck, Labels, OwnInv
<1>5. ASSUME NEW t \in Threads, AddFind(t) PROVE OwnInv'
  BY <1>1, <1>5 DEF AddFind, Labels, OwnInv
<1>6. ASSUME NEW t \in Threads, AddCreate(t) PROVE OwnInv'
  <2>1. PICK d \in Detectors : Create(d, point[t]) /\ local' = [local EXCEPT ![t] = d]
    BY <1>6 DEF AddCreate
  <2>2. QED BY <1>6, <2>1 DEF AddCreate, Create, OwnInv, RequestInv
<1>7. ASSUME NEW t \in Threads, AddCreateThrows(t) PROVE OwnInv'
  BY <1>1, <1>7 DEF AddCreateThrows, Labels, OwnInv
<1>8. ASSUME NEW t \in Threads, AddCount(t) PROVE OwnInv'
  BY <1>8 DEF AddCount, OwnInv
<1>9. ASSUME NEW t \in Threads, AddInsert(t) PROVE OwnInv'
  BY <1>9 DEF AddInsert, OwnInv, RequestInv, HeldLocally
<1>10. ASSUME NEW t \in Threads, AddReplaced(t) PROVE OwnInv'
  BY <1>10 DEF AddReplaced, Destroy, OwnInv
<1>11. ASSUME NEW t \in Threads, AddReply(t) PROVE OwnInv'
  BY <1>11 DEF AddReply, OwnInv, RequestInv
<1>12. ASSUME NEW t \in Threads, AddDrop(t) PROVE OwnInv'
  BY <1>12 DEF AddDrop, Destroy, OwnInv
<1>13. ASSUME NEW t \in Threads, RemErase(t) PROVE OwnInv'
  BY <1>13 DEF RemErase, OwnInv, RequestInv, HeldLocally
<1>14. ASSUME NEW t \in Threads, RemDestroy(t) PROVE OwnInv'
  BY <1>14 DEF RemDestroy, Destroy, OwnInv
<1>15. ASSUME NEW t \in Threads, RemCount(t) PROVE OwnInv'
  BY <1>15 DEF RemCount, OwnInv
<1>16. ASSUME NEW t \in Threads, RemReply(t) PROVE OwnInv'
  BY <1>1, <1>16 DEF RemReply, Labels, OwnInv
<1>17. ASSUME NEW t \in Threads, LossesFind(t) PROVE OwnInv'
  BY <1>1, <1>17 DEF LossesFind, Labels, OwnInv
<1>18. ASSUME NEW t \in Threads, LossesRead(t) PROVE OwnInv'
  BY <1>1, <1>18 DEF LossesRead, Labels, OwnInv
<1>19. ASSUME NEW d \in Detectors, Arrive(d) PROVE OwnInv'
  BY <1>19 DEF Arrive, OwnInv
<1>20. ASSUME NEW d \in Detectors, HandlerStep(d) PROVE OwnInv'
  <2>1. /\ handler[d] # "none"
        /\ \E h \in {"idle", "wait", "feed"} : handler' = [handler EXCEPT ![d] = h]
        /\ UNCHANGED <<m_traffic_detectors, pc, point, owned, at>>
    BY <1>20 DEF HandlerStep, ProcessData, CallbackFind, CallbackFeed
  <2>2. QED BY <2>1 DEF OwnInv
<1>21. CASE UNCHANGED vars
  BY <1>21 DEF vars, OwnInv
<1>22. QED
  BY <1>2, <1>3, <1>4, <1>5, <1>6, <1>7, <1>8, <1>9, <1>10, <1>11, <1>12,
     <1>13, <1>14, <1>15, <1>16, <1>17, <1>18, <1>19, <1>20, <1>21
     DEF Next, ThreadStep, AddStep, RemStep, LossesStep

LEMMA BindStep == TypeOK /\ RequestInv /\ BindInv /\ [Next]_vars => BindInv'
<1> SUFFICES ASSUME TypeOK, RequestInv, BindInv, [Next]_vars PROVE BindInv'
  OBVIOUS
<1>0. /\ handler \in [Detectors -> {"none", "idle", "wait", "feed"}]
      /\ at \in [Detectors -> Points \cup {None}]
  BY DEF TypeOK
<1> USE <1>0 DEF Live, udp
<1>1. CASE UNCHANGED <<handler, at>>
  BY <1>1 DEF BindInv
<1>2. ASSUME NEW t \in Threads, AddCreate(t) PROVE BindInv'
  <2>1. PICK d \in Detectors : Create(d, point[t])
    BY <1>2 DEF AddCreate
  <2>2. point[t] \in Points
    BY <1>2 DEF AddCreate, RequestInv
  <2>3. QED BY <2>1, <2>2 DEF Create, BindInv
<1>3. ASSUME NEW t \in Threads, Destroy(t) PROVE BindInv'
  BY <1>3 DEF Destroy, BindInv
<1>4. ASSUME NEW t \in Threads, ThreadStep(t) PROVE BindInv'
  BY <1>4, <1>1, <1>2, <1>3 DEF ThreadStep, AddStep, RemStep, LossesStep, Return,
     AddCheck, AddFind, AddCreateThrows, AddCount, AddInsert, AddReplaced, AddReply,
     AddDrop, RemErase, RemDestroy, RemCount, RemReply, LossesFind, LossesRead
<1>5. ASSUME NEW d \in Detectors, HandlerStep(d) PROVE BindInv'
  <2>1. /\ handler[d] # "none"
        /\ \E h \in {"idle", "wait", "feed"} : handler' = [handler EXCEPT ![d] = h]
        /\ UNCHANGED at
    BY <1>5 DEF HandlerStep, ProcessData, CallbackFind, CallbackFeed, handlerOnly
  <2>2. QED BY <2>1 DEF BindInv
<1>6. QED
  BY <1>1, <1>4, <1>5 DEF Next, Receive, Arrive, handlerOnly, vars

LEMMA FoundStep ==
  TypeOK /\ RequestInv /\ LockInv /\ FoundInv /\ [Next]_vars => FoundInv'
<1> SUFFICES ASSUME TypeOK, RequestInv, LockInv, FoundInv, [Next]_vars PROVE FoundInv'
  OBVIOUS
<1>0. /\ m_traffic_detectors \in [Points -> Detectors \cup {None}]
      /\ pc \in [Threads -> Labels]
      /\ point \in [Threads -> Points \cup {None}]
      /\ victim \in [Threads -> Detectors \cup {None}]
      /\ local \in [Threads -> Detectors \cup {None}]
      /\ handler \in [Detectors -> {"none", "idle", "wait", "feed"}]
      /\ at \in [Detectors -> Points \cup {None}]
  BY DEF TypeOK
<1> USE <1>0, Distinct DEF Goto, Reply, table, lock, request, owned, udp, handlerOnly,
        CanReadLock, CanWriteLock, Registered
\* While somebody has found a point, nobody has the map for writing.
<1>1. ASSUME readers = {} PROVE /\ \A t \in Threads : pc[t] # "losses_read"
                                /\ \A d \in Detectors : handler[d] # "feed"
  BY <1>1 DEF LockInv
<1>2. ASSUME NEW t \in Threads, NEW l \in Labels \ {"losses_read"},
             pc' = [pc EXCEPT ![t] = l],
             \A u \in Threads \ {t} : point'[u] = point[u],
             UNCHANGED <<m_traffic_detectors, handler, at>>
      PROVE  FoundInv'
  BY <1>2 DEF FoundInv
<1>3. ASSUME NEW t \in Threads, NEW o \in Ops, NEW p \in Points, Receive(t, o, p)
      PROVE  FoundInv'
  <2>1. Start[o] \in {"add_check", "rem_erase", "losses_find"}
    BY DEF Start, Ops
  <2>2. QED BY <1>2, <1>3, <2>1 DEF Receive, Labels
<1>4. ASSUME NEW t \in Threads, AddCreate(t) PROVE FoundInv'
  <2>1. PICK d \in Detectors : Create(d, point[t])
    BY <1>4 DEF AddCreate
  <2>2. QED BY <1>4, <2>1 DEF AddCreate, Create, Live, FoundInv
<1>5. ASSUME NEW t \in Threads, AddInsert(t) PROVE FoundInv'
  BY <1>5, <1>1 DEF AddInsert, FoundInv
<1>6. ASSUME NEW t \in Threads, RemErase(t) PROVE FoundInv'
  BY <1>6, <1>1 DEF RemErase, FoundInv
<1>7. ASSUME NEW t \in Threads, AddReplaced(t) \/ AddDrop(t) \/ RemDestroy(t)
      PROVE  FoundInv'
  BY <1>7 DEF AddReplaced, AddDrop, RemDestroy, Destroy, FoundInv
<1>8. ASSUME NEW t \in Threads, AddStep(t) PROVE FoundInv'
  BY <1>2, <1>4, <1>5, <1>7, <1>8 DEF AddStep, AddCheck, AddFind, AddCreateThrows,
     AddCount, AddReply, Labels
<1>9. ASSUME NEW t \in Threads, RemStep(t) PROVE FoundInv'
  BY <1>2, <1>6, <1>7, <1>9 DEF RemStep, RemCount, RemReply, Labels
<1>10. ASSUME NEW t \in Threads, LossesFind(t) PROVE FoundInv'
  <2>1. point[t] \in Points
    BY <1>10 DEF LossesFind, RequestInv
  <2>2. QED BY <1>10, <2>1 DEF LossesFind, FoundInv
<1>11. ASSUME NEW t \in Threads, LossesRead(t) \/ Return(t) PROVE FoundInv'
  BY <1>2, <1>11 DEF LossesRead, Return, Labels
<1>12. ASSUME NEW d \in Detectors, Arrive(d) \/ HandlerStep(d) PROVE FoundInv'
  BY <1>12 DEF Arrive, HandlerStep, ProcessData, CallbackFind, CallbackFeed, FoundInv
<1>13. CASE UNCHANGED vars
  BY <1>13 DEF vars, FoundInv
<1>14. QED
  BY <1>3, <1>8, <1>9, <1>10, <1>11, <1>12, <1>13 DEF Next, ThreadStep, LossesStep

LEMMA SafetyInvariant == Spec => []SafetyInv
<1>1. Init => SafetyInv
  BY TypeInit, Distinct DEF Init, SafetyInv, RequestInv, LockInv, OwnInv, BindInv,
     FoundInv, Registered, Live, Stopping
<1>2. SafetyInv /\ [Next]_vars => SafetyInv'
  BY TypeStep, RequestStep, LockStep, OwnStep, BindStep, FoundStep DEF SafetyInv
<1>3. QED BY <1>1, <1>2, PTL DEF Spec

\* No losses request and no packet callback ever works on a detector that has
\* been destroyed or whose destructor has begun, however adds, removals,
\* queries and packets interleave.
THEOREM DetectorsOutliveTheirUse == Spec => []NoUseAfterDestroy
<1>1. SafetyInv => NoUseAfterDestroy
  <2> SUFFICES ASSUME SafetyInv PROVE NoUseAfterDestroy
    OBVIOUS
  <2>1. ASSUME NEW p \in Registered
        PROVE  /\ m_traffic_detectors[p] # None /\ Live(m_traffic_detectors[p])
               /\ ~Stopping(m_traffic_detectors[p])
    BY <2>1 DEF SafetyInv, OwnInv, Registered
  <2>2. QED BY <2>1 DEF SafetyInv, FoundInv, NoUseAfterDestroy, Live
<1>2. QED BY <1>1, SafetyInvariant, PTL

\* A packet that arrived on a point's own socket is counted by that point's
\* detector, unless the address has port 0: OnPacketReceived has one caller.
THEOREM PacketsFeedTheirOwnDetector == Spec => []FeedsItsOwn
<1>1. SafetyInv => FeedsItsOwn
  <2> SUFFICES ASSUME SafetyInv, NEW d \in Detectors, handler[d] = "feed",
                      at[d] \notin AnyPort
               PROVE  m_traffic_detectors[at[d]] = d
    BY DEF FeedsItsOwn
  <2>1. at[d] \in Registered
    BY DEF SafetyInv, FoundInv
  <2>2. /\ m_traffic_detectors[at[d]] \in Detectors
        /\ Live(m_traffic_detectors[at[d]]) /\ at[m_traffic_detectors[at[d]]] = at[d]
    BY <2>1 DEF SafetyInv, TypeOK, OwnInv, Registered
  <2>3. Live(d)
    BY DEF Live
  <2>4. QED BY <2>2, <2>3 DEF SafetyInv, BindInv
<1>2. QED BY <1>1, SafetyInvariant, PTL

-----------------------------------------------------------------------------
(* The counter.                                                            *)

LEMMA CardinalityAdd ==
  ASSUME NEW S, IsFiniteSet(S), NEW x, x \notin S
  PROVE  Cardinality(S \cup {x}) = Cardinality(S) + 1
  BY FS_AddElement

LEMMA CardinalityRemove ==
  ASSUME NEW S, IsFiniteSet(S), NEW x, x \in S
  PROVE  Cardinality(S \ {x}) = Cardinality(S) - 1
  BY FS_RemoveElement

LEMMA FinitePoints ==
  /\ IsFiniteSet(Registered) /\ Cardinality(Registered) \in Nat
  /\ IsFiniteSet(Counted) /\ Cardinality(Counted) \in Nat
  /\ IsFiniteSet(Adding) /\ Cardinality(Adding) \in Nat
  /\ IsFiniteSet(Threads) /\ Cardinality(Threads) \in Nat
  /\ MaxTrafficPoints \in Nat /\ MaxTrafficPoints + Cardinality(Threads) < 32768
<1>1. Registered \subseteq Points /\ Counted \subseteq Threads /\ Adding \subseteq Threads
  BY DEF Registered, Counted, Adding
<1>2. IsFiniteSet(Registered) /\ IsFiniteSet(Counted) /\ IsFiniteSet(Adding)
  BY <1>1, ConstantsAssumption, FS_Subset
<1>3. QED BY <1>2, ConstantsAssumption, FS_CardinalityType

\* Where every bind is exclusive, an add never overwrites an entry.
LEMMA InsertIsFresh ==
  ASSUME SafetyInv, AnyPort = {}, NEW t \in Threads, pc[t] = "add_insert"
  PROVE  m_traffic_detectors[point[t]] = None
<1>1. point[t] \in Points
  BY DEF SafetyInv, RequestInv
<1>2. SUFFICES ASSUME m_traffic_detectors[point[t]] # None PROVE FALSE
  OBVIOUS
<1>3. LET d == m_traffic_detectors[point[t]]
      IN  d \in Detectors /\ Live(d) /\ at[d] = point[t]
  BY <1>1, <1>2 DEF SafetyInv, OwnInv, Registered, TypeOK
<1>4. /\ local[t] \in Detectors /\ Live(local[t]) /\ at[local[t]] = point[t]
      /\ m_traffic_detectors[point[t]] # local[t]
  BY DEF SafetyInv, OwnInv, TypeOK
<1>5. QED BY <1>3, <1>4 DEF SafetyInv, BindInv

LEMMA CountStep == CountInv /\ [Next]_vars => CounterExact' /\ LimitInv'
<1> SUFFICES ASSUME CountInv, [Next]_vars PROVE CounterExact' /\ LimitInv'
  OBVIOUS
<1>0. /\ m_traffic_detectors \in [Points -> Detectors \cup {None}]
      /\ pc \in [Threads -> Labels]
      /\ point \in [Threads -> Points \cup {None}]
      /\ local \in [Threads -> Detectors \cup {None}]
      /\ m_max_traffic_points \in Int
      /\ SafetyInv /\ CounterExact /\ LimitInv
  BY Int16Int DEF CountInv, SafetyInv, TypeOK
<1> USE <1>0, FinitePoints DEF Goto, Reply, table
<1>1. ASSUME UNCHANGED table, Counted' = Counted, Adding' \subseteq Adding
      PROVE  CounterExact' /\ LimitInv'
  <2>1. Cardinality(Adding') \in Nat /\ Cardinality(Adding') <= Cardinality(Adding)
    BY <1>1, FS_Subset, FS_CardinalityType
  <2>2. Registered' = Registered
    BY <1>1 DEF Registered
  <2>3. QED BY <1>1, <2>1, <2>2 DEF CounterExact, LimitInv
<1>2. ASSUME UNCHANGED <<table, pc>> PROVE CounterExact' /\ LimitInv'
  BY <1>2, <1>1 DEF Counted, Adding
\* A step that neither counts nor stores anything.
<1>3. ASSUME NEW t \in Threads, UNCHANGED table, NEW l \in Labels,
             pc' = [pc EXCEPT ![t] = l],
             pc[t] \in {"add_insert", "rem_destroy", "rem_count"} <=>
               l \in {"add_insert", "rem_destroy", "rem_count"},
             l \in {"add_find", "add_create", "add_count"} =>
               pc[t] \in {"add_find", "add_create", "add_count"}
      PROVE  CounterExact' /\ LimitInv'
  BY <1>1, <1>3 DEF Counted, Adding
<1>4. ASSUME NEW t \in Threads, NEW o \in Ops, NEW p \in Points, Receive(t, o, p)
      PROVE  CounterExact' /\ LimitInv'
  <2>1. Start[o] \in {"add_check", "rem_erase", "losses_find"}
    BY DEF Start, Ops
  <2>2. Start[o] \in Labels
    BY <2>1 DEF Labels
  <2>3. pc[t] = "idle" /\ UNCHANGED table /\ pc' = [pc EXCEPT ![t] = Start[o]]
    BY <1>4 DEF Receive
  <2>4. /\ Start[o] \notin {"add_insert", "rem_destroy", "rem_count"}
        /\ Start[o] \notin {"add_find", "add_create", "add_count"}
    BY <2>1
  <2>5. Counted' = Counted /\ Adding' = Adding
    BY <2>3, <2>4 DEF Counted, Adding
  <2>6. QED BY <1>1, <2>3, <2>5
<1>5. ASSUME NEW t \in Threads, AddCheck(t) PROVE CounterExact' /\ LimitInv'
  <2>1. CASE m_max_traffic_points > MaxTrafficPoints
    BY <1>3, <1>5, <2>1 DEF AddCheck, Labels
  <2>2. CASE m_max_traffic_points <= MaxTrafficPoints
    <3>1. /\ UNCHANGED table /\ pc[t] = "add_check"
          /\ pc' = [pc EXCEPT ![t] = "add_find"]
      BY <1>5, <2>2 DEF AddCheck
    <3>2. Counted' = Counted /\ Registered' = Registered
      BY <3>1 DEF Counted, Registered
    <3>3. Adding' = Adding \cup {t} /\ t \notin Adding /\ Adding' \subseteq Threads
      BY <3>1 DEF Adding
    <3>4. Cardinality(Adding') <= Cardinality(Threads) /\ Cardinality(Adding') \in Nat
      BY <3>3, FS_Subset, FS_CardinalityType
    <3>5. QED BY <2>2, <3>1, <3>2, <3>4 DEF CounterExact, LimitInv
  <2>3. QED BY <2>1, <2>2
<1>6. ASSUME NEW t \in Threads, AddCount(t) PROVE CounterExact' /\ LimitInv'
  <2>1. /\ pc[t] = "add_count" /\ pc' = [pc EXCEPT ![t] = "add_insert"]
        /\ UNCHANGED m_traffic_detectors
        /\ m_max_traffic_points' = Int16(m_max_traffic_points + 1)
    BY <1>6 DEF AddCount
  <2>2. Counted' = Counted \cup {t} /\ t \notin Counted
    BY <2>1 DEF Counted
  <2>3. Adding' = Adding \ {t} /\ t \in Adding
    BY <2>1 DEF Adding
  <2>4. Cardinality(Counted') = Cardinality(Counted) + 1
    BY <2>2, CardinalityAdd
  <2>5. Cardinality(Adding') = Cardinality(Adding) - 1 /\ Cardinality(Adding') \in Nat
    BY <2>3, FS_RemoveElement, FS_CardinalityType
  <2>6. m_max_traffic_points >= 0 /\ m_max_traffic_points + 1 < 32768
    BY <2>5 DEF CounterExact, LimitInv
  <2>7. m_max_traffic_points' = m_max_traffic_points + 1
    BY <2>1, <2>6, Int16Natural
  <2>8. Registered' = Registered
    BY <2>1 DEF Registered
  <2>9. QED BY <2>4, <2>5, <2>7, <2>8 DEF CounterExact, LimitInv
<1>7. ASSUME NEW t \in Threads, AddInsert(t) PROVE CounterExact' /\ LimitInv'
  <2>1. /\ pc[t] = "add_insert" /\ UNCHANGED m_max_traffic_points
        /\ pc' = [pc EXCEPT ![t] = "add_reply"] \/ pc' = [pc EXCEPT ![t] = "add_replaced"]
        /\ m_traffic_detectors' = [m_traffic_detectors EXCEPT ![point[t]] = local[t]]
    BY <1>7 DEF AddInsert
  <2>2. local[t] # None /\ point[t] \in Points
    BY <2>1 DEF SafetyInv, OwnInv, RequestInv
  <2>3. Registered' = Registered \cup {point[t]}
    BY <2>1, <2>2 DEF Registered
  <2>4. AnyPort = {} => point[t] \notin Registered
    BY <2>1, InsertIsFresh DEF Registered
  <2>5. Counted' = Counted \ {t} /\ t \in Counted /\ Adding' = Adding
    BY <2>1 DEF Counted, Adding
  <2>6. Cardinality(Counted') = Cardinality(Counted) - 1
    BY <2>5, CardinalityRemove
  <2>7. /\ Cardinality(Registered') <= Cardinality(Registered) + 1
        /\ AnyPort = {} => Cardinality(Registered') = Cardinality(Registered) + 1
    <3>1. CASE point[t] \in Registered
      <4>1. Registered' = Registered
        BY <2>3, <3>1
      <4>2. QED BY <2>4, <3>1, <4>1
    <3>2. CASE point[t] \notin Registered
      <4>1. Cardinality(Registered') = Cardinality(Registered) + 1
        BY <2>3, <3>2, CardinalityAdd
      <4>2. QED BY <4>1
    <3>3. QED BY <3>1, <3>2
  <2>8. Cardinality(Registered') \in Nat
    BY <2>3, FS_AddElement, FS_CardinalityType
  <2>9. QED BY <2>1, <2>5, <2>6, <2>7, <2>8 DEF CounterExact, LimitInv
<1>8. ASSUME NEW t \in Threads, RemErase(t) PROVE CounterExact' /\ LimitInv'
  <2>1. CASE m_traffic_detectors[point[t]] = None
    BY <1>3, <1>8, <2>1 DEF RemErase, Labels
  <2>2. CASE m_traffic_detectors[point[t]] # None
    <3>1. /\ pc[t] = "rem_erase" /\ UNCHANGED m_max_traffic_points
          /\ pc' = [pc EXCEPT ![t] = "rem_count"] \/ pc' = [pc EXCEPT ![t] = "rem_destroy"]
          /\ m_traffic_detectors' = [m_traffic_detectors EXCEPT ![point[t]] = None]
      BY <1>8, <2>2 DEF RemErase
    <3>2. point[t] \in Points
      BY <3>1 DEF SafetyInv, RequestInv
    <3>3. Registered' = Registered \ {point[t]} /\ point[t] \in Registered
      BY <2>2, <3>1, <3>2 DEF Registered
    <3>4. Counted' = Counted \cup {t} /\ t \notin Counted /\ Adding' = Adding
      BY <3>1 DEF Counted, Adding
    <3>5. Cardinality(Registered') = Cardinality(Registered) - 1
      BY <3>3, CardinalityRemove
    <3>6. Cardinality(Counted') = Cardinality(Counted) + 1
      BY <3>4, CardinalityAdd
    <3>7. QED BY <3>1, <3>4, <3>5, <3>6 DEF CounterExact, LimitInv
  <2>3. QED BY <2>1, <2>2
<1>9. ASSUME NEW t \in Threads, RemCount(t) PROVE CounterExact' /\ LimitInv'
  <2>1. /\ pc[t] = "rem_count" /\ pc' = [pc EXCEPT ![t] = "rem_reply"]
        /\ UNCHANGED m_traffic_detectors
        /\ m_max_traffic_points' = Int16(m_max_traffic_points - 1)
    BY <1>9 DEF RemCount
  <2>2. Counted' = Counted \ {t} /\ t \in Counted /\ Adding' = Adding
    BY <2>1 DEF Counted, Adding
  <2>3. Cardinality(Counted') = Cardinality(Counted) - 1 /\ Cardinality(Counted') \in Nat
    BY <2>2, FS_RemoveElement, FS_CardinalityType
  <2>4. m_max_traffic_points >= 1 /\ m_max_traffic_points < 32768
    BY <2>3 DEF CounterExact, LimitInv
  <2>5. m_max_traffic_points' = m_max_traffic_points - 1
    BY <2>1, <2>4, Int16Natural
  <2>6. Registered' = Registered
    BY <2>1 DEF Registered
  <2>7. QED BY <2>2, <2>3, <2>5, <2>6 DEF CounterExact, LimitInv
<1>10. ASSUME NEW t \in Threads, AddStep(t) PROVE CounterExact' /\ LimitInv'
  BY <1>3, <1>5, <1>6, <1>7, <1>10 DEF AddStep, AddFind, AddCreate, AddCreateThrows,
     AddReplaced, AddReply, AddDrop, Labels
<1>11. ASSUME NEW t \in Threads, RemStep(t) PROVE CounterExact' /\ LimitInv'
  BY <1>3, <1>8, <1>9, <1>11 DEF RemStep, RemDestroy, RemReply, Labels
<1>12. ASSUME NEW t \in Threads, LossesStep(t) \/ Return(t)
       PROVE  CounterExact' /\ LimitInv'
  BY <1>3, <1>12 DEF LossesStep, LossesFind, LossesRead, Return, Labels
<1>13. ASSUME NEW d \in Detectors, Arrive(d) \/ HandlerStep(d)
       PROVE  CounterExact' /\ LimitInv'
  BY <1>2, <1>13 DEF Arrive, HandlerStep, ProcessData, CallbackFind, CallbackFeed,
     handlerOnly
<1>14. CASE UNCHANGED vars
  BY <1>2, <1>14 DEF vars
<1>15. QED
  BY <1>4, <1>10, <1>11, <1>12, <1>13, <1>14 DEF Next, ThreadStep

LEMMA CountInvariant == Spec => []CountInv
<1>1. Init => CounterExact /\ LimitInv
  <2> SUFFICES ASSUME Init PROVE CounterExact /\ LimitInv
    OBVIOUS
  <2>1. Registered = {} /\ Counted = {} /\ Adding = {}
    BY DEF Init, Registered, Counted, Adding
  <2>2. QED BY <2>1, FS_EmptySet, FinitePoints DEF Init, CounterExact, LimitInv
<1>2. CountInv /\ [Next]_vars => CounterExact' /\ LimitInv'
  BY CountStep
<1>3. QED BY <1>1, <1>2, SafetyInvariant, PTL DEF Spec, CountInv

\* The counter http_add and http_rem update outside and inside the lock never
\* drifts from the number of registered points.
THEOREM CounterNeverDrifts == Spec => []CounterExact
<1>1. CountInv => CounterExact
  BY DEF CountInv
<1>2. QED BY <1>1, CountInvariant, PTL

\* The limit of http_add is exceeded by at most the number of HTTP threads, so
\* the std::int16_t counter never wraps around.
THEOREM LimitExceededByThreadsOnly == Spec => []PointsBounded
<1>1. CountInv => PointsBounded
  <2> SUFFICES ASSUME CountInv PROVE PointsBounded
    OBVIOUS
  <2>1. m_max_traffic_points \in Int
    BY Int16Int DEF CountInv, SafetyInv, TypeOK
  <2>2. QED BY <2>1, FinitePoints DEF CountInv, CounterExact, LimitInv, PointsBounded
<1>2. QED BY <1>1, CountInvariant, PTL

-----------------------------------------------------------------------------
(* The refinement.                                                         *)

LEMMA AnswerStep == TypeOK /\ AnswerInv /\ [Next]_vars => AnswerInv'
<1> SUFFICES ASSUME TypeOK, AnswerInv, [Next]_vars PROVE AnswerInv'
  OBVIOUS
<1>0. /\ pc \in [Threads -> Labels]
      /\ op \in [Threads -> Ops \cup {"none"}]
      /\ reply \in [Threads -> Statuses \cup {"none"}]
  BY DEF TypeOK
<1> USE <1>0 DEF Goto, Reply, table, lock, request, owned, udp, handlerOnly
<1>1. ASSUME NEW t \in Threads, NEW o \in Ops, NEW p \in Points, Receive(t, o, p)
      PROVE  AnswerInv'
  BY <1>1 DEF Receive, AnswerInv, Start, Ops
<1>2. ASSUME NEW t \in Threads, Return(t) PROVE AnswerInv'
  BY <1>2 DEF Return, AnswerInv
<1>3. ASSUME NEW t \in Threads, AddStep(t) PROVE AnswerInv'
  BY <1>3 DEF AddStep, AddCheck, AddFind, AddCreate, AddCreateThrows, AddCount,
     AddInsert, AddReplaced, AddReply, AddDrop, AnswerInv, Ops
<1>4. ASSUME NEW t \in Threads, RemStep(t) PROVE AnswerInv'
  BY <1>4 DEF RemStep, RemErase, RemDestroy, RemCount, RemReply, AnswerInv, Ops
<1>5. ASSUME NEW t \in Threads, LossesStep(t) PROVE AnswerInv'
  BY <1>5 DEF LossesStep, LossesFind, LossesRead, AnswerInv, Ops
<1>6. ASSUME NEW d \in Detectors, Arrive(d) \/ HandlerStep(d) PROVE AnswerInv'
  BY <1>6 DEF Arrive, HandlerStep, ProcessData, CallbackFind, CallbackFeed, AnswerInv
<1>7. CASE UNCHANGED vars
  BY <1>7 DEF vars, AnswerInv
<1>8. QED
  BY <1>1, <1>2, <1>3, <1>4, <1>5, <1>6, <1>7 DEF Next, ThreadStep

LEMMA AnswerInvariant == Spec => []AnswerInv
<1>1. Init => AnswerInv
  BY DEF Init, AnswerInv
<1>2. QED BY <1>1, AnswerStep, TypeCorrect, PTL DEF Spec

\* A step of one thread changes one call of the registry.
LEMMA CallsOfOthers ==
  ASSUME NEW t \in Threads,
         \A u \in Threads \ {t} : /\ pc'[u] = pc[u] /\ op'[u] = op[u]
                                  /\ point'[u] = point[u] /\ reply'[u] = reply[u]
  PROVE  [u \in Threads |-> CallOf(u)]'
           = [[u \in Threads |-> CallOf(u)] EXCEPT ![t] = CallOf(t)']
<1>1. ASSUME NEW u \in Threads \ {t} PROVE CallOf(u)' = CallOf(u)
  BY DEF CallOf, RespondedWith
<1>2. QED BY <1>1

\* A step that changes neither the map nor what the thread's call is bound to
\* be answered with is not seen by the callers.
LEMMA Unseen ==
  ASSUME NEW t \in Threads, UNCHANGED m_traffic_detectors,
         \A u \in Threads \ {t} : /\ pc'[u] = pc[u] /\ op'[u] = op[u]
                                  /\ point'[u] = point[u] /\ reply'[u] = reply[u],
         CallOf(t)' = CallOf(t)
  PROVE  UNCHANGED Registry!vars
<1>1. Registered' = Registered
  BY DEF Registered
<1>2. [u \in Threads |-> CallOf(u)]' = [u \in Threads |-> CallOf(u)]
  BY CallsOfOthers
<1>3. QED BY <1>1, <1>2 DEF Registry!vars

\* The answer of a pending call is fixed.
LEMMA Answered ==
  ASSUME NEW t \in Threads, NEW o \in Ops, NEW s \in Statuses, NEW l \in Labels,
         pc \in [Threads -> Labels], reply \in [Threads -> Statuses \cup {"none"}],
         UNCHANGED request, op[t] = o, reply[t] = "none",
         pc[t] \in {"add_check", "add_find", "add_create", "add_count", "add_insert",
                    "rem_erase", "losses_find"},
         pc' = [pc EXCEPT ![t] = l],
         \/ l = "replied" /\ reply' = [reply EXCEPT ![t] = s]
         \/ /\ l \in {"add_replaced", "add_reply", "rem_destroy", "rem_count",
                      "losses_read"}
            /\ s = "200" /\ UNCHANGED reply
  PROVE  /\ Registry!Pending(t, o)
         /\ Registry!Outcome(t, s)
         /\ CallOf(t).point = point[t]
<1>1. CallOf(t) = [op |-> o, point |-> point[t], out |-> "none"]
  BY DEF CallOf, RespondedWith
<1>2. CallOf(t)' = [op |-> o, point |-> point[t], out |-> s]
  BY DEF CallOf, RespondedWith, request, Statuses
<1>3. [u \in Threads |-> CallOf(u)]'
        = [[u \in Threads |-> CallOf(u)] EXCEPT ![t] = CallOf(t)']
  BY CallsOfOthers DEF request
<1>4. o # "none"
  BY DEF Ops
<1>5. Registry!Pending(t, o)
  BY <1>1, <1>4 DEF Registry!Pending, Registry!Idle
<1>6. Registry!Outcome(t, s)
  <2>1. CallOf(t)' = [CallOf(t) EXCEPT !.out = s]
    BY <1>1, <1>2
  <2>2. QED BY <1>3, <2>1 DEF Registry!Outcome
<1>7. QED BY <1>1, <1>5, <1>6

\* PointRegistry counts as this module does.
LEMMA SameCardinality == ASSUME NEW S PROVE Registry!Cardinality(S) = Cardinality(S)
  BY DEF Registry!Cardinality, Cardinality

\* The threads between their two updates of counter and map are among the
\* requests in progress.
LEMMA CountedInProgress ==
  ASSUME CountInv, AnswerInv, AnyPort = {}, NEW t \in Threads, pc[t] = "add_check",
         m_max_traffic_points > MaxTrafficPoints
  PROVE  Cardinality(Registered) + Cardinality(Registry!InProgress \ {t})
           > MaxTrafficPoints
<1>1. Counted \subseteq Registry!InProgress \ {t}
  <2> SUFFICES ASSUME NEW u \in Counted PROVE u \in Registry!InProgress \ {t}
    OBVIOUS
  <2>1. u \in Threads /\ pc[u] \in {"add_insert", "rem_destroy", "rem_count"}
    BY DEF Counted
  <2>2. op[u] \in {"add", "rem"}
    BY <2>1 DEF AnswerInv
  <2>3. CallOf(u) = [op |-> op[u], point |-> point[u], out |-> RespondedWith(u)]
    BY <2>1 DEF CallOf
  <2>4. CallOf(u) # [op |-> "none"]
    BY <2>2, <2>3
  <2>5. QED BY <2>1, <2>4 DEF Registry!InProgress, Registry!Idle
<1>2. IsFiniteSet(Registry!InProgress \ {t})
  <2>1. Registry!InProgress \ {t} \subseteq Threads
    BY DEF Registry!InProgress
  <2>2. QED BY <2>1, ConstantsAssumption, FS_Subset
<1>3. /\ Cardinality(Registry!InProgress \ {t}) \in Nat
      /\ Cardinality(Counted) <= Cardinality(Registry!InProgress \ {t})
  BY <1>1, <1>2, FS_Subset, FS_CardinalityType
<1>4. m_max_traffic_points = Cardinality(Registered) + Cardinality(Counted)
  BY DEF CountInv, CounterExact
<1>5. QED BY <1>3, <1>4, FinitePoints

LEMMA RegistryStep ==
  ASSUME AnyPort = {}, CountInv, AnswerInv, [Next]_vars
  PROVE  [Registry!Next]_(Registry!vars)
<1>0. /\ m_traffic_detectors \in [Points -> Detectors \cup {None}]
      /\ pc \in [Threads -> Labels]
      /\ op \in [Threads -> Ops \cup {"none"}]
      /\ point \in [Threads -> Points \cup {None}]
      /\ reply \in [Threads -> Statuses \cup {"none"}]
      /\ local \in [Threads -> Detectors \cup {None}]
      /\ m_max_traffic_points \in Int
      /\ SafetyInv
  BY Int16Int DEF CountInv, SafetyInv, TypeOK
<1> USE <1>0 DEF Goto, Reply, table, lock, request, owned
<1>1. ASSUME NEW t \in Threads, NEW o \in Ops, NEW p \in Points, Receive(t, o, p)
      PROVE  Registry!Invoke(t, o, p)
  <2>1. /\ pc[t] = "idle" /\ pc' = [pc EXCEPT ![t] = Start[o]]
        /\ op' = [op EXCEPT ![t] = o] /\ point' = [point EXCEPT ![t] = p]
        /\ UNCHANGED <<m_traffic_detectors, reply>>
    BY <1>1 DEF Receive
  <2>2. Start[o] \in {"add_check", "rem_erase", "losses_find"}
    BY DEF Start, Ops
  <2>3. CallOf(t) = [op |-> "none"]
    BY <2>1 DEF CallOf
  <2>4. CallOf(t)' = [op |-> o, point |-> p, out |-> "none"]
    BY <2>1, <2>2 DEF CallOf, RespondedWith, AnswerInv
  <2>5. [u \in Threads |-> CallOf(u)]'
          = [[u \in Threads |-> CallOf(u)] EXCEPT ![t] = CallOf(t)']
    BY <2>1, CallsOfOthers
  <2>6. Registered' = Registered
    BY <2>1 DEF Registered
  <2>7. QED BY <2>3, <2>4, <2>5, <2>6 DEF Registry!Invoke, Registry!Idle
<1>2. ASSUME NEW t \in Threads, Return(t) PROVE Registry!Respond(t)
  <2>1. /\ pc[t] = "replied" /\ pc' = [pc EXCEPT ![t] = "idle"]
        /\ op' = [op EXCEPT ![t] = "none"] /\ point' = [point EXCEPT ![t] = None]
        /\ reply' = [reply EXCEPT ![t] = "none"]
        /\ UNCHANGED m_traffic_detectors
    BY <1>2 DEF Return
  <2>2. CallOf(t) = [op |-> op[t], point |-> point[t], out |-> reply[t]]
    BY <2>1 DEF CallOf, RespondedWith
  <2>3. op[t] # "none" /\ reply[t] # "none"
    BY <2>1 DEF AnswerInv, Ops
  <2>4. CallOf(t)' = [op |-> "none"]
    BY <2>1 DEF CallOf
  <2>5. [u \in Threads |-> CallOf(u)]'
          = [[u \in Threads |-> CallOf(u)] EXCEPT ![t] = CallOf(t)']
    BY <2>1, CallsOfOthers
  <2>6. Registered' = Registered
    BY <2>1 DEF Registered
  <2>7. CallOf(t) # [op |-> "none"] /\ CallOf(t).out # "none"
    BY <2>2, <2>3
  <2>8. QED BY <2>4, <2>5, <2>6, <2>7 DEF Registry!Respond, Registry!Idle
\* The steps between the one that takes effect and the response, and those
\* before it.
<1>3. ASSUME NEW t \in Threads, NEW l \in Labels,
             UNCHANGED <<m_traffic_detectors, op, point, reply>>,
             pc' = [pc EXCEPT ![t] = l],
             LET Before == {"add_check", "add_find", "add_create", "add_count", "add_insert"}
                 After  == {"add_replaced", "add_reply", "add_drop", "rem_destroy",
                            "rem_count", "rem_reply", "losses_read"}
             IN  (pc[t] \in Before /\ l \in Before) \/ (pc[t] \in After /\ l \in After)
      PROVE  UNCHANGED Registry!vars
  <2>1. CallOf(t)' = CallOf(t)
    BY <1>3 DEF CallOf, RespondedWith
  <2>2. QED BY <1>3, <2>1, Unseen
\* The response is what the call was bound to be answered with.
<1>4. ASSUME NEW t \in Threads, UNCHANGED <<m_traffic_detectors, op, point>>,
             pc[t] \in {"add_reply", "add_drop", "rem_reply", "losses_read"},
             NEW l \in {"replied", "add_drop"},
             pc' = [pc EXCEPT ![t] = l],
             reply' = [reply EXCEPT ![t] = "200"]
      PROVE  UNCHANGED Registry!vars
  <2>1. CallOf(t)' = CallOf(t)
    BY <1>4 DEF CallOf, RespondedWith, Labels
  <2>2. QED BY <1>4, <2>1, Unseen
<1>5. ASSUME NEW t \in Threads, AddCheck(t)
      PROVE  Registry!Refuse(t) \/ UNCHANGED Registry!vars
  <2>1. CASE m_max_traffic_points > MaxTrafficPoints
    <3>1. /\ pc[t] = "add_check" /\ pc' = [pc EXCEPT ![t] = "replied"]
          /\ reply' = [reply EXCEPT ![t] = "400"]
          /\ UNCHANGED <<m_traffic_detectors, request>>
      BY <1>5, <2>1, ConstantsAssumption DEF AddCheck
    <3>2. op[t] = "add" /\ reply[t] = "none"
      BY <3>1 DEF AnswerInv
    <3>3. Registry!Pending(t, "add") /\ Registry!Outcome(t, "400")
      BY <3>1, <3>2, Answered DEF Ops, Statuses, Labels
    <3>4. Registered' = Registered
      BY <3>1 DEF Registered
    <3>5. Cardinality(Registered) + Cardinality(Registry!InProgress \ {t})
            > MaxTrafficPoints
      BY <2>1, <3>1, CountedInProgress
    <3>6. QED BY <3>3, <3>4, <3>5, SameCardinality DEF Registry!Refuse
  <2>2. CASE ~(m_max_traffic_points > MaxTrafficPoints)
    BY <1>3, <1>5, <2>2, ConstantsAssumption DEF AddCheck, Labels
  <2>3. QED BY <2>1, <2>2
<1>6. ASSUME NEW t \in Threads, AddFind(t)
      PROVE  Registry!Add(t) \/ UNCHANGED Registry!vars
  <2>1. CASE point[t] \in Registered
    <3>1. /\ pc[t] = "add_find" /\ pc' = [pc EXCEPT ![t] = "replied"]
          /\ reply' = [reply EXCEPT ![t] = "425"]
          /\ UNCHANGED <<m_traffic_detectors, request>>
      BY <1>6, <2>1 DEF AddFind
    <3>2. op[t] = "add" /\ reply[t] = "none"
      BY <3>1 DEF AnswerInv
    <3>3. /\ Registry!Pending(t, "add") /\ Registry!Outcome(t, "425")
          /\ CallOf(t).point = point[t]
      BY <3>1, <3>2, Answered DEF Ops, Statuses, Labels
    <3>4. Registered' = Registered
      BY <3>1 DEF Registered
    <3>5. QED BY <2>1, <3>3, <3>4 DEF Registry!Add
  <2>2. CASE point[t] \notin Registered
    BY <1>3, <1>6, <2>2 DEF AddFind, Labels
  <2>3. QED BY <2>1, <2>2
<1>7. ASSUME NEW t \in Threads, AddCreateThrows(t) PROVE Registry!Add(t)
  <2>1. /\ pc[t] = "add_create" /\ pc' = [pc EXCEPT ![t] = "replied"]
        /\ reply' = [reply EXCEPT ![t] = "500"]
        /\ UNCHANGED <<m_traffic_detectors, request>>
    BY <1>7 DEF AddCreateThrows
  <2>2. op[t] = "add" /\ reply[t] = "none"
    BY <2>1 DEF AnswerInv
  <2>3. Registry!Pending(t, "add") /\ Registry!Outcome(t, "500")
    BY <2>1, <2>2, Answered DEF Ops, Statuses, Labels
  <2>4. Registered' = Registered
    BY <2>1 DEF Registered
  <2>5. QED BY <2>3, <2>4 DEF Registry!Add
<1>8. ASSUME NEW t \in Threads, AddInsert(t) PROVE Registry!Add(t)
  <2>1. /\ pc[t] = "add_insert" /\ UNCHANGED <<reply, request>>
        /\ pc' = [pc EXCEPT ![t] = "add_reply"] \/ pc' = [pc EXCEPT ![t] = "add_replaced"]
        /\ m_traffic_detectors' = [m_traffic_detectors EXCEPT ![point[t]] = local[t]]
    BY <1>8 DEF AddInsert
  <2>2. op[t] = "add" /\ reply[t] = "none"
    BY <2>1 DEF AnswerInv
  <2>3. /\ Registry!Pending(t, "add") /\ Registry!Outcome(t, "200")
        /\ CallOf(t).point = point[t]
    BY <2>1, <2>2, Answered DEF Ops, Statuses, Labels
  <2>4. local[t] # None /\ point[t] \in Points
    BY <2>1 DEF SafetyInv, OwnInv, RequestInv
  <2>5. point[t] \notin Registered
    BY <2>1, InsertIsFresh DEF Registered
  <2>6. Registered' = Registered \cup {point[t]}
    BY <2>1, <2>4 DEF Registered
  <2>7. QED BY <2>3, <2>5, <2>6 DEF Registry!Add
<1>9. ASSUME NEW t \in Threads, RemErase(t) PROVE Registry!Remove(t)
  <2>1. pc[t] = "rem_erase" /\ UNCHANGED request
    BY <1>9 DEF RemErase
  <2>2. op[t] = "rem" /\ reply[t] = "none" /\ point[t] \in Points
    BY <2>1 DEF AnswerInv, SafetyInv, RequestInv
  <2>3. CASE m_traffic_detectors[point[t]] = None
    <3>1. /\ pc' = [pc EXCEPT ![t] = "replied"] /\ reply' = [reply EXCEPT ![t] = "400"]
          /\ UNCHANGED m_traffic_detectors
      BY <1>9, <2>3 DEF RemErase
    <3>2. /\ Registry!Pending(t, "rem") /\ Registry!Outcome(t, "400")
          /\ CallOf(t).point = point[t]
      BY <2>1, <2>2, <3>1, Answered DEF Ops, Statuses, Labels
    <3>3. point[t] \notin Registered /\ Registered' = Registered \ {point[t]}
      BY <2>3, <3>1 DEF Registered
    <3>4. QED BY <3>2, <3>3 DEF Registry!Remove
  <2>4. CASE m_traffic_detectors[point[t]] # None
    <3>1. /\ pc' = [pc EXCEPT ![t] = "rem_count"] \/ pc' = [pc EXCEPT ![t] = "rem_destroy"]
          /\ m_traffic_detectors' = [m_traffic_detectors EXCEPT ![point[t]] = None]
          /\ UNCHANGED reply
      BY <1>9, <2>4 DEF RemErase
    <3>2. /\ Registry!Pending(t, "rem") /\ Registry!Outcome(t, "200")
          /\ CallOf(t).point = point[t]
      BY <2>1, <2>2, <3>1, Answered DEF Ops, Statuses, Labels
    <3>3. point[t] \in Registered /\ Registered' = Registered \ {point[t]}
      BY <2>2, <2>4, <3>1 DEF Registered
    <3>4. QED BY <3>2, <3>3 DEF Registry!Remove
  <2>5. QED BY <2>3, <2>4
<1>10. ASSUME NEW t \in Threads, LossesFind(t) PROVE Registry!Lookup(t)
  <2>1. pc[t] = "losses_find" /\ UNCHANGED <<m_traffic_detectors, request>>
    BY <1>10 DEF LossesFind
  <2>2. op[t] = "losses" /\ reply[t] = "none"
    BY <2>1 DEF AnswerInv
  <2>3. Registered' = Registered
    BY <2>1 DEF Registered
  <2>4. CASE point[t] \notin Registered
    <3>1. pc' = [pc EXCEPT ![t] = "replied"] /\ reply' = [reply EXCEPT ![t] = "400"]
      BY <1>10, <2>4 DEF LossesFind
    <3>2. /\ Registry!Pending(t, "losses") /\ Registry!Outcome(t, "400")
          /\ CallOf(t).point = point[t]
      BY <2>1, <2>2, <3>1, Answered DEF Ops, Statuses, Labels
    <3>3. QED BY <2>3, <2>4, <3>2 DEF Registry!Lookup
  <2>5. CASE point[t] \in Registered
    <3>1. pc' = [pc EXCEPT ![t] = "losses_read"] /\ UNCHANGED reply
      BY <1>10, <2>5 DEF LossesFind
    <3>2. /\ Registry!Pending(t, "losses") /\ Registry!Outcome(t, "200")
          /\ CallOf(t).point = point[t]
      BY <2>1, <2>2, <3>1, Answered DEF Ops, Statuses, Labels
    <3>3. QED BY <2>3, <2>5, <3>2 DEF Registry!Lookup
  <2>6. QED BY <2>4, <2>5
<1>11. ASSUME NEW t \in Threads, AddCreate(t) \/ AddCount(t) \/ AddReplaced(t)
                                  \/ RemDestroy(t) \/ RemCount(t)
       PROVE  UNCHANGED Registry!vars
  BY <1>3, <1>11 DEF AddCreate, AddCount, AddReplaced, RemDestroy, RemCount, Labels
<1>12. ASSUME NEW t \in Threads, AddReply(t) \/ RemReply(t) \/ LossesRead(t)
       PROVE  UNCHANGED Registry!vars
  BY <1>4, <1>12 DEF AddReply, RemReply, LossesRead
<1>13. ASSUME NEW t \in Threads, AddDrop(t) PROVE UNCHANGED Registry!vars
  <2>1. /\ pc[t] = "add_drop" /\ pc' = [pc EXCEPT ![t] = "replied"]
        /\ UNCHANGED <<m_traffic_detectors, op, point, reply>>
    BY <1>13 DEF AddDrop
  <2>2. reply[t] = "200"
    BY <2>1 DEF AnswerInv
  <2>3. reply' = [reply EXCEPT ![t] = "200"]
    BY <2>1, <2>2
  <2>4. QED BY <1>4, <2>1, <2>3
<1>14. ASSUME UNCHANGED <<m_traffic_detectors, pc, op, point, reply>>
       PROVE  UNCHANGED Registry!vars
  BY <1>14 DEF Registry!vars, Registered, CallOf, RespondedWith
<1>15. ASSUME NEW d \in Detectors, Arrive(d) \/ HandlerStep(d)
       PROVE  UNCHANGED Registry!vars
  BY <1>14, <1>15 DEF Arrive, HandlerStep, ProcessData, CallbackFind, CallbackFeed,
     handlerOnly
<1>16. CASE UNCHANGED vars
  BY <1>14, <1>16 DEF vars
<1>17. QED
  BY <1>1, <1>2, <1>5, <1>6, <1>7, <1>8, <1>9, <1>10, <1>11, <1>12, <1>13, <1>15, <1>16
     DEF Next, ThreadStep, AddStep, RemStep, LossesStep, Registry!Next, Registry!Ops, Ops

\* Where every bind is exclusive, the callbacks of app.cpp implement the
\* registry for any number of threads and points: every PUT, DELETE and GET acts
\* atomically, and a PUT is refused only where the points and the requests in
\* progress together exceed the limit.  With port 0 an add may overwrite an
\* entry and be answered 200, which the registry does not allow.
THEOREM CallbacksImplementRegistry == AnyPort = {} /\ Spec => ImplementsRegistry
<1> SUFFICES ASSUME AnyPort = {} PROVE Spec => ImplementsRegistry
  OBVIOUS
<1>1. Init => Registry!Init
  BY DEF Init, Registry!Init, Registry!Idle, Registered, CallOf
<1>2. CountInv /\ AnswerInv /\ [Next]_vars
        => [Registry!Next]_(Registry!vars)
  BY RegistryStep
<1>3. QED
  BY <1>1, <1>2, CountInvariant, AnswerInvariant, PTL
     DEF Spec, ImplementsRegistry, Registry!Spec

=============================================================================
