------------------------- MODULE HttpDispatchProofs --------------------------
(***************************************************************************)
(* Proofs about HttpDispatch, for every table of routes, every path and    *)
(* every query: the loops of dispatcher::execute compute what IsRouteFor   *)
(* defines, with the parameters of the request, and the request is         *)
(* answered once.  DispatchInv says what the loops have done so far.       *)
(***************************************************************************)
EXTENDS HttpDispatch, TLAPS

-----------------------------------------------------------------------------
(* Sequences, routes and parameters.                                       *)

LEMMA RequestFacts ==
  ASSUME CallInv, at # "idle"
  PROVE  /\ running /\ request.method \in Methods
         /\ request \in [method : Methods, path : Paths, query : Queries]
         /\ request.path \in Seq(STRING) /\ request.query \in Seq(Seq(STRING))
         /\ Len(request.path) \in Nat /\ DOMAIN request.path = 1..Len(request.path)
         /\ Len(request.query) \in Nat /\ DOMAIN request.query = 1..Len(request.query)
<1>1. /\ running /\ request.method \in Methods
      /\ request \in [method : Methods, path : Paths, query : Queries]
      /\ request.path \in Seq(STRING) /\ request.query \in Seq(Seq(STRING))
  BY DispatchAssumption DEF CallInv
<1>2. QED BY <1>1

LEMMA RouteFacts ==
  ASSUME TableInv, CallInv, at # "idle"
  PROVE  /\ Len(Routes) \in Nat /\ DOMAIN Routes = 1..Len(Routes)
         /\ \A i \in DOMAIN Routes :
              /\ Routes[i].executor \in Nat \ {NoExecutor} /\ Routes[i].executor <= handled
              /\ Routes[i].pattern \in Patterns
              /\ Routes[i].pattern \in Seq([variable : BOOLEAN, name : STRING])
              /\ Len(Routes[i].pattern) \in Nat
              /\ DOMAIN Routes[i].pattern = 1..Len(Routes[i].pattern)
         /\ \A i, j \in DOMAIN Routes : Routes[i].executor = Routes[j].executor => i = j
<1>1. request.method \in Methods
  BY RequestFacts
<1> DEFINE Route == [pattern : Patterns, executor : Nat \ {NoExecutor}]
<1>2. Routes \in Seq(Route)
  BY <1>1 DEF TableInv, Routes
<1> HIDE DEF Route
<1>3. Len(Routes) \in Nat /\ DOMAIN Routes = 1..Len(Routes)
  BY <1>2
<1>4. ASSUME NEW i \in DOMAIN Routes
      PROVE  /\ Routes[i].executor \in Nat \ {NoExecutor} /\ Routes[i].pattern \in Patterns
             /\ Routes[i].executor <= handled
  <2>1. Routes[i] \in Route
    BY <1>2, <1>3
  <2>2. Routes[i].executor <= handled
    BY <1>1 DEF TableInv, Routes
  <2>3. QED BY <2>1, <2>2 DEF Route
<1>5. ASSUME NEW i \in DOMAIN Routes
      PROVE  Routes[i].pattern \in Seq([variable : BOOLEAN, name : STRING])
  BY <1>4, DispatchAssumption
<1>6. ASSUME NEW i \in DOMAIN Routes
      PROVE  /\ Len(Routes[i].pattern) \in Nat
             /\ DOMAIN Routes[i].pattern = 1..Len(Routes[i].pattern)
  BY <1>5
<1>7. \A i, j \in DOMAIN Routes : Routes[i].executor = Routes[j].executor => i = j
  BY <1>1 DEF TableInv, Routes
<1>8. QED BY <1>3, <1>4, <1>5, <1>6, <1>7

\* While a request is in progress the table does not change.
LEMMA TableFixed ==
  ASSUME CallInv, at # "idle", [Next]_vars
  PROVE  UNCHANGED <<m_executers, handled, running>>
  BY DEF CallInv, Next, vars, table, add, start, execute, getParams, getParamsReturns,
     BeginRoute, Compare, EndCompare, EndRoute, EndRoutes, General, Call, Callback,
     CallbackSendsTwice, CallbackThrows, CallbackEscapes,
     handleRequest, Caught, Uncaught, Return

\* Without a request there is the set-up or a new request.
LEMMA IdleSteps ==
  ASSUME at = "idle", [Next]_vars
  PROVE  \/ \E m \in Methods, p \in Patterns : add(m, p)
         \/ start
         \/ \E m \in Methods, path \in Paths, query \in Queries : execute(m, path, query)
         \/ UNCHANGED vars
  BY DEF Next, getParams, getParamsReturns, BeginRoute, Compare, EndCompare, EndRoute,
     EndRoutes, General, Call, Callback, CallbackSendsTwice, CallbackThrows,
     CallbackEscapes, handleRequest, Caught, Uncaught, Return

LEMMA EmptyPattern ==
  ASSUME TableInv, CallInv, at # "idle", NEW i \in DOMAIN Routes
  PROVE  Routes[i].pattern = <<>> <=> Len(Routes[i].pattern) = 0
  BY RouteFacts

LEMMA EmptyPath ==
  ASSUME CallInv, at # "idle"
  PROVE  request.path = <<>> <=> Len(request.path) = 0
  BY RequestFacts

-----------------------------------------------------------------------------
(* What the loops find is the route of the request.                        *)

LEMMA FirstHit ==
  ASSUME TableInv, CallInv, at # "idle",
         NEW i \in DOMAIN Routes, Hit(i), Passed(i - 1)
  PROVE  IsRouteFor(i, Routes, request.path)
<1> DEFINE matching == {h \in DOMAIN Routes : Matches(Routes[h].pattern, request.path)}
<1>1. i \in matching
  BY DEF Hit
<1>2. ASSUME NEW h \in matching PROVE i <= h
  <2>1. Hit(h) /\ h \in 1..Len(Routes) /\ i \in 1..Len(Routes) /\ Len(Routes) \in Nat
    BY RouteFacts DEF Hit
  <2>2. QED BY <2>1 DEF Passed
<1>3. QED BY <1>1, <1>2 DEF IsRouteFor

LEMMA FirstGeneral ==
  ASSUME TableInv, CallInv, at # "idle", Passed(Len(Routes)),
         NEW i \in DOMAIN Routes, Routes[i].pattern = <<>>,
         \A h \in 1..(i - 1) : Routes[h].pattern # <<>>
  PROVE  IsRouteFor(i, Routes, request.path)
<1> DEFINE matching == {h \in DOMAIN Routes : Matches(Routes[h].pattern, request.path)}
           general  == {h \in DOMAIN Routes : Routes[h].pattern = <<>>}
<1>1. Len(Routes) \in Nat /\ DOMAIN Routes = 1..Len(Routes)
  BY RouteFacts
<1>2. i \in general /\ \A h \in general : i <= h
  BY <1>1
<1>3. CASE request.path # <<>>
  <2>1. matching = {}
    BY <1>1, <1>3 DEF Passed, Hit
  <2>2. QED BY <1>2, <2>1 DEF IsRouteFor
<1>4. CASE request.path = <<>>
  <2>1. ASSUME NEW h \in DOMAIN Routes, Matches(Routes[h].pattern, request.path)
        PROVE  Routes[h].pattern = <<>>
    BY <1>4, <2>1, EmptyPath, EmptyPattern DEF Matches
  <2>2. Matches(Routes[i].pattern, request.path)
    BY <1>4 DEF Matches
  <2>3. i \in matching /\ \A h \in matching : i <= h
    BY <1>2, <2>1, <2>2
  <2>4. QED BY <2>3 DEF IsRouteFor
<1>5. QED BY <1>3, <1>4

LEMMA NothingFits ==
  ASSUME TableInv, CallInv, at # "idle", Passed(Len(Routes)),
         \A h \in DOMAIN Routes : Routes[h].pattern # <<>>
  PROVE  NoRoute
<1>1. Len(Routes) \in Nat /\ DOMAIN Routes = 1..Len(Routes)
  BY RouteFacts
<1>2. ASSUME NEW h \in DOMAIN Routes PROVE ~Matches(Routes[h].pattern, request.path)
  <2>1. CASE request.path # <<>>
    BY <1>1, <2>1 DEF Passed, Hit
  <2>2. CASE request.path = <<>>
    BY <2>2, EmptyPath, EmptyPattern DEF Matches
  <2>3. QED BY <2>1, <2>2
<1>3. QED BY <1>2 DEF NoRoute, IsRouteFor

-----------------------------------------------------------------------------
(* The table and the request.                                              *)

LEMMA TableStep ==
  ASSUME TableInv, CallInv, [Next]_vars
  PROVE  TableInv'
<1>1. ASSUME NEW m \in Methods, NEW p \in Patterns, add(m, p) PROVE TableInv'
  <2> DEFINE Route == [pattern : Patterns, executor : Nat \ {NoExecutor}]
             new   == [pattern |-> p, executor |-> handled + 1]
             old   == m_executers[m]
  <2>1. handled \in Nat /\ handled' = handled + 1 /\ handled' \in Nat
    BY <1>1 DEF add, TableInv
  <2>2. new \in Route
    BY <2>1 DEF NoExecutor
  <2>3. m_executers \in [Methods -> Seq(Route)]
    BY DEF TableInv
  <2>4. m_executers' = [m_executers EXCEPT ![m] = Append(old, new)]
    BY <1>1, <2>1 DEF add
  <2> HIDE DEF Route
  <2>5. old \in Seq(Route) /\ Append(old, new) \in Seq(Route)
    BY <2>2, <2>3
  <2>6. /\ Len(old) \in Nat /\ DOMAIN old = 1..Len(old)
        /\ DOMAIN Append(old, new) = 1..(Len(old) + 1)
        /\ \A i \in 1..Len(old) : Append(old, new)[i] = old[i]
        /\ Append(old, new)[Len(old) + 1] = new
    BY <2>2, <2>5
  <2>7. m_executers' \in [Methods -> Seq(Route)]
    BY <2>3, <2>4, <2>5
  <2>8. ASSUME NEW h \in Methods, NEW i \in DOMAIN m_executers'[h],
               NEW j \in DOMAIN m_executers'[h]
        PROVE  /\ m_executers'[h][i].executor <= handled'
               /\ m_executers'[h][i].executor = m_executers'[h][j].executor => i = j
    <3>1. CASE h # m
      <4>1. m_executers'[h] = m_executers[h]
        BY <2>3, <2>4, <3>1
      <4>2. /\ m_executers[h][i].executor <= handled
            /\ m_executers[h][i].executor = m_executers[h][j].executor => i = j
        BY <4>1 DEF TableInv
      <4>3. m_executers[h][i] \in Route
        BY <2>3, <4>1
      <4>4. m_executers[h][i].executor \in Nat
        BY <4>3 DEF Route
      <4>5. QED BY <2>1, <4>1, <4>2, <4>4
    <3>2. CASE h = m
      <4>1. m_executers'[h] = Append(old, new)
        BY <2>3, <2>4, <3>2
      <4>2. new.executor = handled + 1
        OBVIOUS
      <4> HIDE DEF new
      <4>3. \A l \in 1..Len(old) : old[l].executor \in Nat /\ old[l].executor <= handled
        <5>1. \A l \in 1..Len(old) : old[l] \in Route
          BY <2>5
        <5>2. \A l \in 1..Len(old) : old[l].executor <= handled
          BY <2>6 DEF TableInv
        <5>3. QED BY <5>1, <5>2 DEF Route
      <4>4. \A l, o \in 1..Len(old) : old[l].executor = old[o].executor => l = o
        <5>1. \A l, o \in DOMAIN old : old[l].executor = old[o].executor => l = o
          BY DEF TableInv
        <5>2. QED BY <2>6, <5>1
      <4> HIDE DEF old
      <4>5. /\ i \in 1..Len(old) \/ i = Len(old) + 1
            /\ j \in 1..Len(old) \/ j = Len(old) + 1
        BY <2>6, <4>1
      <4>6. \A l \in 1..Len(old) : m_executers'[h][l] = old[l]
        BY <2>6, <4>1
      <4>7. m_executers'[h][Len(old) + 1] = new
        BY <2>6, <4>1
      <4>8. m_executers'[h][i].executor <= handled'
        BY <2>1, <4>2, <4>3, <4>5, <4>6, <4>7
      <4>9. ASSUME m_executers'[h][i].executor = m_executers'[h][j].executor PROVE i = j
        <5>1. \A l \in 1..Len(old) : old[l].executor # new.executor
          BY <2>1, <4>2, <4>3
        <5>2. QED BY <4>4, <4>5, <4>6, <4>7, <4>9, <5>1
      <4>10. QED BY <4>8, <4>9
    <3>3. QED BY <3>1, <3>2
  <2>9. QED BY <2>1, <2>7, <2>8 DEF TableInv, Route
<1>2. CASE UNCHANGED <<m_executers, handled>>
  BY <1>2 DEF TableInv
<1>3. CASE at = "idle"
  BY <1>1, <1>2, <1>3, IdleSteps DEF start, execute, table, vars
<1>4. CASE at # "idle"
  BY <1>2, <1>4, TableFixed
<1>5. QED BY <1>3, <1>4

\* A step of a request in progress keeps its table and the request.
LEMMA RequestFixed ==
  ASSUME CallInv, at # "idle", at' # "idle", [Next]_vars
  PROVE  UNCHANGED <<m_executers, handled, running, request, Routes>>
<1>1. UNCHANGED request
  BY DEF CallInv, Next, vars, table, add, start, execute, getParams,
     getParamsReturns, BeginRoute, Compare, EndCompare, EndRoute, EndRoutes, General,
     Call, Callback, CallbackSendsTwice, CallbackThrows, CallbackEscapes,
     handleRequest, Caught, Uncaught, Return
<1>2. QED BY <1>1, TableFixed DEF Routes

LEMMA CallStep ==
  ASSUME TableInv, CallInv, [Next]_vars
  PROVE  CallInv'
<1>1. CASE at # "idle" /\ at' # "idle"
  <2>1. UNCHANGED <<running, request>>
    BY <1>1, RequestFixed
  <2>2. at' \in {"token", "route", "segment", "compared", "general", "callback",
                 "executed", "threw", "escaped", "done", "closed"}
    BY <1>1 DEF CallInv, Next, vars, table, add, start, execute, getParams,
       getParamsReturns, BeginRoute, Compare, EndCompare, EndRoute, EndRoutes, General,
       Call, Callback, Send, CallbackSendsTwice, CallbackThrows, CallbackEscapes,
       handleRequest, Caught, Uncaught, Return
  <2>3. QED BY <1>1, <2>1, <2>2 DEF CallInv
<1>2. CASE at # "idle" /\ at' = "idle"
  <2>1. Return
    BY <1>2 DEF Next, vars, table, add, start, execute, getParams, getParamsReturns,
       BeginRoute, Compare, EndCompare, EndRoute, EndRoutes, General, Call, Callback,
       Send, CallbackSendsTwice, CallbackThrows, CallbackEscapes,
       handleRequest, Caught, Uncaught
  <2>2. QED BY <1>2, <2>1 DEF Return, CallInv
<1>3. CASE at = "idle"
  <2>1. ASSUME NEW m \in Methods, NEW path \in Paths, NEW query \in Queries,
               execute(m, path, query)
        PROVE  CallInv'
    <3>1. /\ at' \in {"token", "threw"} /\ running'
          /\ request' = [method |-> m, path |-> path, query |-> query]
      BY <2>1 DEF execute, table
    <3>2. request' \in [method : Methods, path : Paths, query : Queries]
      BY <3>1
    <3>3. QED BY <3>1, <3>2 DEF CallInv
  <2>2. CASE UNCHANGED <<at, request, params, executor, ex, n, k, sent>>
    BY <1>3, <2>2 DEF CallInv
  <2>3. QED BY <1>3, <2>1, <2>2, IdleSteps DEF add, start, vars
<1>4. QED BY <1>1, <1>2, <1>3

-----------------------------------------------------------------------------
(* The loops over the routes and their segments.                           *)

LEMMA SegmentFacts ==
  ASSUME TableInv, CallInv, RouteInv, at = "segment"
  PROVE  /\ ex \in DOMAIN Routes /\ Passed(ex - 1) /\ SegmentInv
         /\ Len(request.path) \in Nat /\ Len(Routes[ex].pattern) = Len(request.path)
         /\ n \in 1..(Len(request.path) + 1)
         /\ DOMAIN Routes[ex].pattern = 1..Len(request.path)
         /\ DOMAIN request.path = 1..Len(request.path)
         /\ k = n
         /\ MoreSegments <=> n \in 1..Len(request.path)
<1>1. ex \in DOMAIN Routes /\ Passed(ex - 1) /\ SegmentInv
  BY DEF RouteInv
<1>2. /\ Len(request.path) \in Nat /\ Len(Routes[ex].pattern) = Len(request.path)
      /\ n \in 1..(Len(request.path) + 1) /\ k = n
      /\ DOMAIN Routes[ex].pattern = 1..Len(request.path)
      /\ DOMAIN request.path = 1..Len(request.path)
  BY <1>1, RouteFacts, RequestFacts DEF SegmentInv
<1>3. MoreSegments <=> n \in 1..Len(request.path)
  BY <1>2 DEF MoreSegments
<1>4. QED BY <1>1, <1>2, <1>3

LEMMA HitsKept ==
  ASSUME UNCHANGED <<request, Routes>>
  PROVE  \A h : Hit(h)' <=> Hit(h)
  BY DEF Hit

\* A segment that matches.
LEMMA SegmentMatches ==
  ASSUME TableInv, CallInv, RouteInv, Compare, at' = "segment",
         UNCHANGED <<request, Routes>>
  PROVE  RouteInv'
<1> DEFINE pattern == Routes[ex].pattern
           path    == request.path
<1>1. /\ ex \in DOMAIN Routes /\ Passed(ex - 1) /\ SegmentInv
      /\ Len(path) \in Nat /\ Len(pattern) = Len(path) /\ n \in 1..Len(path) /\ k = n
  BY SegmentFacts DEF Compare
<1>2. /\ n' = n + 1 /\ k' = n' /\ ex' = ex /\ executor' = Routes[ex].executor
      /\ Fits(pattern[n], path[n])
  BY <1>1 DEF Compare, Fits
<1>3. \A i \in 1..n : Fits(pattern[i], path[i])
  <2>1. \A i \in 1..(n - 1) : Fits(pattern[i], path[i])
    BY <1>1 DEF SegmentInv
  <2>2. \A i \in 1..n : i \in 1..(n - 1) \/ i = n
    BY <1>1
  <2>3. QED BY <1>2, <2>1, <2>2
<1>4. SegmentInv'
  <2>1. Routes[ex].executor # NoExecutor /\ n' # 1 /\ n' - 1 = n /\ n' \in 1..(Len(pattern) + 1)
    BY <1>1, <1>2, RouteFacts DEF Compare
  <2>2. QED BY <1>1, <1>2, <1>3, <2>1 DEF SegmentInv
<1>5. Passed(ex - 1)'
  BY <1>1, <1>2, HitsKept DEF Passed
<1>6. QED BY <1>1, <1>2, <1>4, <1>5 DEF RouteInv

\* A comparison ends, at a segment that differs or behind the last one.
LEMMA ComparisonEnds ==
  ASSUME TableInv, CallInv, RouteInv, BeginRoute \/ Compare \/ EndCompare,
         at' = "compared", UNCHANGED <<request, Routes>>
  PROVE  RouteInv'
<1> DEFINE pattern == Routes[ex].pattern
<1>1. ex' = ex
  BY DEF BeginRoute, Compare, EndCompare
<1>2. ex \in DOMAIN Routes /\ Passed(ex - 1) /\ at # "idle"
  <2>1. CASE at = "segment"
    BY <2>1, SegmentFacts
  <2>2. CASE BeginRoute
    BY <2>2, RouteFacts DEF BeginRoute, RouteInv
  <2>3. QED BY <2>1, <2>2 DEF Compare, EndCompare
<1>3. Passed(ex - 1)'
  BY <1>1, <1>2, HitsKept DEF Passed
<1>4. \/ executor' = NoExecutor /\ ~Hit(ex)
      \/ executor' = Routes[ex].executor /\ Hit(ex)
  <2>1. CASE BeginRoute
    BY <2>1 DEF BeginRoute, RouteInv, Hit, Matches
  <2>2. CASE Compare
    <3>1. /\ n \in DOMAIN pattern
          /\ ~Fits(pattern[n], request.path[n])
          /\ executor' = NoExecutor
      BY <2>2, SegmentFacts DEF Compare, Fits
    <3>2. QED BY <3>1 DEF Hit, Matches
  <2>3. CASE EndCompare
    <3>1. /\ SegmentInv /\ Len(request.path) \in Nat /\ Len(pattern) = Len(request.path)
          /\ n = Len(pattern) + 1 /\ DOMAIN pattern = 1..Len(pattern)
          /\ UNCHANGED executor
      BY <2>3, SegmentFacts DEF EndCompare
    <3>2. CASE request.path = <<>>
      <4>1. n = 1
        BY <1>2, <3>1, <3>2, EmptyPath
      <4>2. QED BY <3>1, <3>2, <4>1 DEF SegmentInv, Hit
    <3>3. CASE request.path # <<>>
      <4>1. n # 1 /\ n - 1 = Len(pattern)
        BY <1>2, <3>1, <3>3, EmptyPath
      <4>2. Hit(ex)
        BY <3>1, <3>3, <4>1 DEF SegmentInv, Hit, Matches
      <4>3. QED BY <3>1, <4>1, <4>2 DEF SegmentInv
    <3>4. QED BY <3>2, <3>3
  <2>4. QED BY <2>1, <2>2, <2>3
<1>5. \/ executor' = NoExecutor /\ ~Hit(ex)'
      \/ executor' = Routes[ex].executor' /\ Hit(ex)'
  BY <1>1, <1>4 DEF Hit
<1>6. QED BY <1>1, <1>2, <1>3, <1>5 DEF RouteInv

LEMMA ChosenKept ==
  ASSUME Chosen, UNCHANGED <<request, Routes, executor>>
  PROVE  Chosen'
  BY DEF Chosen

\* The first loop is over.
LEMMA RouteEnds ==
  ASSUME TableInv, CallInv, RouteInv, EndRoute \/ EndRoutes,
         UNCHANGED <<request, Routes>>
  PROVE  RouteInv'
<1>1. Len(Routes) \in Nat /\ DOMAIN Routes = 1..Len(Routes)
  BY RouteFacts DEF EndRoute, EndRoutes
<1>2. CASE EndRoute /\ executor # NoExecutor
  <2>1. /\ ex \in DOMAIN Routes /\ Passed(ex - 1) /\ Hit(ex)
        /\ executor = Routes[ex].executor
    BY <1>2 DEF EndRoute, RouteInv
  <2>2. IsRouteFor(ex, Routes, request.path)
    BY <1>2, <2>1, FirstHit DEF EndRoute
  <2>3. Chosen
    BY <2>1, <2>2 DEF Chosen
  <2>4. Chosen'
    BY <1>2, <2>3, ChosenKept DEF EndRoute
  <2>5. QED BY <1>2, <2>4 DEF EndRoute, RouteInv
<1>3. CASE EndRoute /\ executor = NoExecutor
  <2>1. ex \in 1..Len(Routes) /\ Passed(ex - 1)
    BY <1>1, <1>3 DEF EndRoute, RouteInv
  <2>2. ~Hit(ex)
    <3>1. Routes[ex].executor # NoExecutor
      BY <1>1, <1>3, <2>1, RouteFacts DEF EndRoute
    <3>2. QED BY <1>3, <3>1 DEF EndRoute, RouteInv
  <2>3. ex' = ex + 1 /\ at' = "route" /\ executor' = NoExecutor
    BY <1>3 DEF EndRoute
  <2>4. Passed(ex - 1)'
    <3>1. \A h \in 1..ex : h \in 1..(ex - 1) \/ h = ex
      BY <1>1, <2>1
    <3>2. (ex - 1)' = ex
      BY <1>1, <2>1, <2>3
    <3>3. \A h \in 1..ex : ~Hit(h)'
      BY <2>1, <2>2, <3>1, HitsKept DEF Passed
    <3>4. QED BY <3>2, <3>3 DEF Passed
  <2>5. ex' \in 1..(Len(Routes)' + 1)
    BY <1>1, <2>1, <2>3
  <2>6. QED BY <2>3, <2>4, <2>5 DEF RouteInv
<1>4. CASE EndRoutes
  <2>1. executor = NoExecutor /\ Passed(Len(Routes)) /\ ex' = 1 /\ at' = "general"
    BY <1>1, <1>4 DEF EndRoutes, RouteInv
  <2>2. Passed(Len(Routes))'
    BY <2>1, HitsKept DEF Passed
  <2>3. executor' = NoExecutor
    BY <1>4, <2>1 DEF EndRoutes
  <2>4. QED BY <1>1, <2>1, <2>2, <2>3 DEF RouteInv
<1>5. QED BY <1>2, <1>3, <1>4

\* The second loop.
LEMMA GeneralTurn ==
  ASSUME TableInv, CallInv, RouteInv, General, UNCHANGED <<request, Routes>>
  PROVE  RouteInv'
<1>1. /\ at = "general" /\ at' = "general" /\ executor = NoExecutor /\ ex' = ex + 1
      /\ executor' = IF Len(Routes[ex].pattern) = 0 THEN Routes[ex].executor ELSE NoExecutor
  BY DEF General
<1>2. Len(Routes) \in Nat /\ DOMAIN Routes = 1..Len(Routes)
  BY <1>1, RouteFacts
<1>3. ~Chosen
  BY <1>1, RouteFacts DEF Chosen
<1>4. /\ ex \in 1..Len(Routes) /\ Passed(Len(Routes))
      /\ \A h \in 1..(ex - 1) : Routes[h].pattern # <<>>
  BY <1>1, <1>2, <1>3 DEF General, RouteInv
<1>5. CASE Routes[ex].pattern = <<>>
  <2>1. IsRouteFor(ex, Routes, request.path)
    BY <1>1, <1>2, <1>4, <1>5, FirstGeneral
  <2>2. executor' = Routes[ex].executor
    BY <1>1, <1>5
  <2>3. Chosen'
    <3>1. IsRouteFor(ex, Routes', request'.path)
      BY <2>1
    <3>2. QED BY <1>2, <1>4, <2>2, <3>1 DEF Chosen
  <2>4. QED BY <1>1, <2>3 DEF RouteInv
<1>6. CASE Routes[ex].pattern # <<>>
  <2>1. executor' = NoExecutor
    BY <1>1, <1>2, <1>4, <1>6, EmptyPattern
  <2>2. Passed(Len(Routes))'
    BY <1>4, HitsKept DEF Passed
  <2>3. \A h \in 1..(ex' - 1) : Routes[h].pattern # <<>>
    <3>1. \A h \in 1..(ex' - 1) : h \in 1..(ex - 1) \/ h = ex
      BY <1>1, <1>4
    <3>2. QED BY <1>4, <1>6, <3>1
  <2>4. ex' \in 1..(Len(Routes)' + 1)
    BY <1>1, <1>2, <1>4
  <2>5. QED BY <1>1, <2>1, <2>2, <2>3, <2>4 DEF RouteInv
<1>7. QED BY <1>5, <1>6

LEMMA RouteStep ==
  ASSUME TableInv, CallInv, ParamsInv, RouteInv, CallInv', [Next]_vars
  PROVE  RouteInv'
<1> DEFINE Searching == {"route", "segment", "compared", "general", "callback"}
<1>1. CASE at' \notin Searching
  BY <1>1 DEF RouteInv
<1>2. CASE at = "idle"
  <2>1. at' \in {"idle", "token", "threw"}
    BY <1>2, IdleSteps DEF add, start, execute, vars
  <2>2. QED BY <1>1, <2>1
<1>3. CASE at # "idle" /\ at' \in Searching
  <2>1. UNCHANGED <<request, Routes>>
    BY <1>3, RequestFixed
  <2>2. /\ Len(Routes) \in Nat /\ DOMAIN Routes = 1..Len(Routes)
        /\ Len(request.path) \in Nat
    BY <1>3, RouteFacts, RequestFacts
  <2>3. CASE getParamsReturns
    <3>1. at' = "route" /\ executor' = NoExecutor /\ ex' = 1
      BY <2>3 DEF getParamsReturns, ParamsInv
    <3>2. QED BY <2>1, <2>2, <3>1 DEF RouteInv, Passed
  <2>4. CASE BeginRoute /\ at' = "segment"
    <3>1. /\ ex \in 1..Len(Routes) /\ executor = NoExecutor /\ Passed(ex - 1)
          /\ Len(Routes[ex].pattern) = Len(request.path)
          /\ n' = 1 /\ k' = 1 /\ UNCHANGED <<executor, ex>>
      BY <2>2, <2>4 DEF BeginRoute, RouteInv
    <3>2. SegmentInv'
      BY <2>1, <2>2, <3>1 DEF SegmentInv
    <3>3. Passed(ex - 1)'
      BY <2>1, <3>1, HitsKept DEF Passed
    <3>4. QED BY <2>1, <2>2, <2>4, <3>1, <3>2, <3>3 DEF RouteInv
  <2>5. CASE Compare /\ at' = "segment"
    BY <2>1, <2>5, SegmentMatches
  <2>6. CASE (BeginRoute \/ Compare \/ EndCompare) /\ at' = "compared"
    BY <2>1, <2>6, ComparisonEnds
  <2>7. CASE EndRoute \/ EndRoutes
    BY <2>1, <2>7, RouteEnds
  <2>8. CASE General
    BY <2>1, <2>8, GeneralTurn
  <2>9. CASE Call
    <3>1. at' = "callback" /\ executor # NoExecutor /\ UNCHANGED executor
      BY <1>3, <2>9 DEF Call
    <3>2. Chosen
      BY <2>9, <3>1 DEF Call, RouteInv
    <3>3. QED BY <2>1, <3>1, <3>2, ChosenKept DEF RouteInv
  <2>10. CASE UNCHANGED vars
    <3>1. UNCHANGED <<at, executor, ex, n, k>>
      BY <2>10 DEF vars
    <3>2. Chosen => Chosen'
      BY <2>1, <3>1, ChosenKept
    <3>3. SegmentInv => SegmentInv'
      BY <2>1, <3>1 DEF SegmentInv
    <3>4. /\ Passed(ex - 1) => Passed(ex - 1)'
          /\ Passed(Len(Routes)) => Passed(Len(Routes))'
          /\ Hit(ex)' <=> Hit(ex)
      BY <2>1, <3>1, HitsKept DEF Passed
    <3>5. QED BY <2>1, <3>1, <3>2, <3>3, <3>4 DEF RouteInv
  <2>11. \/ getParamsReturns
         \/ BeginRoute /\ at' = "segment"
         \/ Compare /\ at' = "segment"
         \/ (BeginRoute \/ Compare \/ EndCompare) /\ at' = "compared"
         \/ EndRoute \/ EndRoutes \/ General \/ Call \/ UNCHANGED vars
    <3>1. /\ BeginRoute \/ Compare => at' \in {"segment", "compared"}
          /\ EndCompare => at' = "compared"
      BY DEF BeginRoute, Compare, EndCompare
    <3>2. ~getParams
      BY <1>3 DEF getParams
    <3>3. \/ getParamsReturns \/ BeginRoute \/ Compare \/ EndCompare
          \/ EndRoute \/ EndRoutes \/ General \/ Call \/ UNCHANGED vars
      BY <1>3, <3>2 DEF Next, add, start, execute, CallInv, Callback, Send,
         CallbackSendsTwice, CallbackThrows, CallbackEscapes, handleRequest, Caught,
         Uncaught, Return
    <3>4. QED BY <3>1, <3>3
  <2>12. QED
    BY <2>3, <2>4, <2>5, <2>6, <2>7, <2>8, <2>9, <2>10, <2>11
<1>4. QED BY <1>1, <1>2, <1>3

-----------------------------------------------------------------------------
(* The parameters.                                                         *)

LEMMA StoredKept ==
  ASSUME UNCHANGED <<request, Routes>>
  PROVE  \A i, l : Stored(i, l)' = Stored(i, l)
  BY DEF Stored

LEMMA ParamsKept ==
  ASSUME NEW i, NEW j, HasParams(Len(request.query), Stored(i, j)),
         UNCHANGED <<params, request, Routes>>
  PROVE  HasParams(Len(request.query), Stored(i, j))'
<1>1. \A w : NameOf(w)' = NameOf(w)
  BY DEF NameOf
<1>2. Stored(i, j)' = Stored(i, j)
  BY StoredKept
<1>3. QED BY <1>1, <1>2 DEF HasParams, Later

\* A turn of the loop of getParams.
LEMMA TokenRead ==
  ASSUME TableInv, CallInv, ParamsInv, getParams, at' = "token",
         UNCHANGED <<request, Routes>>
  PROVE  TokensRead(n - 1)' /\ HasParams(n - 1, {})'
<1> DEFINE q    == request.query
           name == q[n][1]
<1>1. /\ q \in Seq(Seq(STRING)) /\ Len(q) \in Nat
      /\ n \in 1..Len(q) /\ n' = n + 1 /\ q[n] # <<>>
      /\ params' = SetParam(params, name, ValueOf(q[n]))
  BY RequestFacts DEF getParams, ParamsInv
<1>2. /\ DOMAIN params' = DOMAIN params \cup {name}
      /\ params'[name] = ValueOf(q[n])
      /\ \A m \in DOMAIN params : m # name => params'[m] = params[m]
  BY <1>1 DEF SetParam
<1>3. TokensRead(n - 1) /\ HasParams(n - 1, {})
  BY DEF ParamsInv, getParams
<1>4. ASSUME NEW m \in DOMAIN params'
      PROVE  \E i \in 1..n : q[i][1] = m
  <2>1. CASE m = name
    BY <1>1, <2>1
  <2>2. CASE m \in DOMAIN params
    BY <1>1, <1>3, <2>2 DEF HasParams
  <2>3. QED BY <1>2, <2>1, <2>2
<1>5. ASSUME NEW i \in 1..n, \A j \in (i + 1)..n : q[j][1] # q[i][1]
      PROVE  q[i][1] \in DOMAIN params' /\ params'[q[i][1]] = ValueOf(q[i])
  <2>1. CASE i = n
    BY <1>2, <2>1
  <2>2. CASE i # n
    <3>1. i \in 1..(n - 1) /\ n \in (i + 1)..n /\ \A j \in (i + 1)..(n - 1) : j \in (i + 1)..n
      BY <1>1, <2>2
    <3>2. q[i][1] # name /\ \A j \in (i + 1)..(n - 1) : q[j][1] # q[i][1]
      BY <1>5, <3>1
    <3>3. q[i][1] \in DOMAIN params /\ params[q[i][1]] = ValueOf(q[i])
      BY <1>3, <3>1, <3>2 DEF HasParams
    <3>4. QED BY <1>2, <3>2, <3>3
  <2>3. QED BY <2>1, <2>2
<1>6. (n - 1)' = n /\ \A i \in 1..n : i \in 1..(n - 1) \/ i = n
  BY <1>1
<1>7. TokensRead(n - 1)'
  BY <1>1, <1>3, <1>6 DEF TokensRead
<1>8. HasParams(n - 1, {})'
  BY <1>4, <1>5, <1>6 DEF HasParams
<1>9. QED BY <1>7, <1>8

\* A variable that comes after all that are stored.
LEMMA VariableStored ==
  ASSUME NEW l, NEW stored, HasParams(l, stored), NEW v,
         \A w \in stored : Later(v, w) /\ ~Later(w, v),
         params' = SetParam(params, NameOf(v), request.path[v[2]]),
         UNCHANGED <<request, Routes>>
  PROVE  HasParams(l, stored \cup {v})'
<1>1. \A w : NameOf(w)' = NameOf(w)
  BY DEF NameOf
<1> DEFINE name == NameOf(v)
<1>2. /\ DOMAIN params' = DOMAIN params \cup {name}
      /\ params'[name] = request.path[v[2]]
      /\ \A m \in DOMAIN params : m # name => params'[m] = params[m]
  BY DEF SetParam
<1>3. \A m \in DOMAIN params' :
        \/ \E i \in 1..l : request.query[i][1] = m
        \/ \E w \in stored \cup {v} : NameOf(w) = m
  BY <1>2 DEF HasParams
<1>4. ASSUME NEW w \in stored \cup {v},
             \A u \in stored \cup {v} : Later(u, w) => NameOf(u) # NameOf(w)
      PROVE  NameOf(w) \in DOMAIN params' /\ params'[NameOf(w)] = request.path[w[2]]
  <2>1. CASE w = v
    BY <1>2, <2>1
  <2>2. CASE w # v
    <3>1. w \in stored /\ NameOf(w) # name
      BY <1>4, <2>2
    <3>2. NameOf(w) \in DOMAIN params /\ params[NameOf(w)] = request.path[w[2]]
      BY <1>4, <3>1 DEF HasParams
    <3>3. QED BY <1>2, <3>1, <3>2
  <2>3. QED BY <2>1, <2>2
<1>5. ASSUME NEW i \in 1..l, \A j \in (i + 1)..l : request.query[j][1] # request.query[i][1],
             \A w \in stored \cup {v} : NameOf(w) # request.query[i][1]
      PROVE  /\ request.query[i][1] \in DOMAIN params'
             /\ params'[request.query[i][1]] = ValueOf(request.query[i])
  <2>1. /\ request.query[i][1] \in DOMAIN params
        /\ params[request.query[i][1]] = ValueOf(request.query[i])
    BY <1>5 DEF HasParams
  <2>2. QED BY <1>2, <1>5, <2>1
<1>6. QED BY <1>1, <1>3, <1>4, <1>5 DEF HasParams, Later

\* What one more segment adds to the variables.
LEMMA StoredBySegment ==
  ASSUME TableInv, CallInv, RouteInv, at = "segment", n # Len(request.path) + 1,
         Fits(Routes[ex].pattern[n], request.path[n])
  PROVE  /\ Routes[ex].pattern[n].variable =>
              /\ Stored(ex, n + 1) = Stored(ex, n) \cup {<<ex, n>>}
              /\ \A w \in Stored(ex, n) : Later(<<ex, n>>, w) /\ ~Later(w, <<ex, n>>)
         /\ ~Routes[ex].pattern[n].variable => Stored(ex, n + 1) = Stored(ex, n)
<1> DEFINE pattern == Routes[ex].pattern
           pairs   == (DOMAIN Routes) \X (DOMAIN request.path)
<1>1. /\ ex \in DOMAIN Routes /\ DOMAIN Routes = 1..Len(Routes) /\ Len(Routes) \in Nat
      /\ DOMAIN request.path = 1..Len(request.path) /\ Len(request.path) \in Nat
      /\ Len(pattern) = Len(request.path) /\ n \in 1..Len(request.path)
      /\ \A i \in 1..(n - 1) : Fits(pattern[i], request.path[i])
  BY SegmentFacts, RouteFacts DEF SegmentInv
<1>2. <<ex, n>> \in pairs /\ <<ex, n>>[1] = ex /\ <<ex, n>>[2] = n
  BY <1>1
<1>3. ASSUME NEW w \in pairs
      PROVE  /\ w[1] \in Nat /\ w[2] \in Nat /\ w = <<w[1], w[2]>>
             /\ w[1] = ex /\ w[2] < n + 1 <=> (w[1] = ex /\ w[2] < n) \/ w = <<ex, n>>
  BY <1>1
<1>4. \A w \in Stored(ex, n) : Later(<<ex, n>>, w) /\ ~Later(w, <<ex, n>>)
  <2> SUFFICES ASSUME NEW w \in Stored(ex, n)
               PROVE  Later(<<ex, n>>, w) /\ ~Later(w, <<ex, n>>)
    OBVIOUS
  <2>1. w \in pairs /\ (w[1] < ex \/ (w[1] = ex /\ w[2] < n))
    BY DEF Stored
  <2>2. w[1] \in Nat /\ w[2] \in Nat /\ ex \in Nat /\ n \in Nat
    BY <1>1, <2>1
  <2>3. QED BY <2>1, <2>2 DEF Later
<1>5. ASSUME NEW w \in pairs
      PROVE  w \in Stored(ex, n + 1) <=>
               w \in Stored(ex, n) \/ (w = <<ex, n>> /\ pattern[n].variable)
  <2>1. CASE w = <<ex, n>>
    <3>1. w[1] = ex /\ w[2] = n /\ n < n + 1 /\ ~(n < n) /\ ~(ex < ex)
      BY <1>1, <2>1
    <3>2. QED BY <1>1, <2>1, <3>1 DEF Stored
  <2>2. CASE w # <<ex, n>>
    BY <1>3, <2>2 DEF Stored
  <2>3. QED BY <2>1, <2>2
<1>6. Stored(ex, n) \subseteq pairs /\ Stored(ex, n + 1) \subseteq pairs
  BY DEF Stored
<1>7. QED BY <1>2, <1>4, <1>5, <1>6

\* The first loop leaves a route with what its last segment has stored.
LEMMA StoredByRoute ==
  ASSUME TableInv, CallInv, at # "idle", NEW i \in DOMAIN Routes,
         NEW l \in 1..(Len(request.path) + 1),
         \/ l = Len(request.path) + 1
         \/ Len(Routes[i].pattern) # Len(request.path)
         \/ l \in 1..Len(request.path) /\ ~Fits(Routes[i].pattern[l], request.path[l])
  PROVE  Stored(i + 1, 1) = Stored(i, l)
<1> DEFINE pairs == (DOMAIN Routes) \X (DOMAIN request.path)
<1>1. /\ DOMAIN Routes = 1..Len(Routes) /\ Len(Routes) \in Nat
      /\ DOMAIN request.path = 1..Len(request.path) /\ Len(request.path) \in Nat
  BY RouteFacts, RequestFacts
<1>2. ASSUME NEW w \in pairs
      PROVE  w \in Stored(i + 1, 1) <=> w \in Stored(i, l)
  <2>1. w[1] \in 1..Len(Routes) /\ w[2] \in 1..Len(request.path)
    BY <1>1
  <2>2. w[1] < i + 1 \/ (w[1] = i + 1 /\ w[2] < 1) <=> w[1] < i \/ w[1] = i
    BY <1>1, <2>1
  <2>3. CASE w[1] # i
    BY <2>2, <2>3 DEF Stored
  <2>4. CASE w[1] = i /\ w[2] < l
    BY <2>2, <2>4 DEF Stored
  <2>5. CASE w[1] = i /\ ~(w[2] < l)
    <3>1. w \notin Stored(i, l)
      BY <1>1, <2>5 DEF Stored
    <3>2. CASE l = Len(request.path) + 1
      BY <1>1, <2>1, <2>5, <3>2
    <3>3. CASE Len(Routes[i].pattern) # Len(request.path)
      BY <2>5, <3>1, <3>3 DEF Stored
    <3>4. CASE l \in 1..Len(request.path) /\ ~Fits(Routes[i].pattern[l], request.path[l])
      <4>1. CASE w[2] = l
        BY <2>5, <3>1, <3>4, <4>1 DEF Stored, Fits
      <4>2. CASE w[2] # l
        <5>1. l \in 1..(w[2] - 1)
          BY <1>1, <2>1, <2>5, <3>4, <4>2
        <5>2. QED BY <2>5, <3>1, <3>4, <5>1 DEF Stored
      <4>3. QED BY <4>1, <4>2
    <3>5. QED BY <3>2, <3>3, <3>4
  <2>6. QED BY <2>3, <2>4, <2>5
<1>3. Stored(i + 1, 1) \subseteq pairs /\ Stored(i, l) \subseteq pairs
  BY DEF Stored
<1>4. QED BY <1>2, <1>3

\* A turn of the first loop inside a route.
LEMMA SegmentParams ==
  ASSUME TableInv, CallInv, RouteInv, ParamsInv, BeginRoute \/ Compare \/ EndCompare,
         UNCHANGED <<request, Routes>>
  PROVE  /\ at' = "segment" => HasParams(Len(request.query), Stored(ex, n))'
         /\ at' = "compared" => HasParams(Len(request.query), Stored(ex + 1, 1))'
<1> DEFINE l == Len(request.query)
           pattern == Routes[ex].pattern
<1>1. /\ Len(request.path) \in Nat /\ ex' = ex /\ at' \in {"segment", "compared"}
      /\ ex \in DOMAIN Routes
  <2>1. Len(request.path) \in Nat
    BY RequestFacts DEF BeginRoute, Compare, EndCompare
  <2>2. ex \in DOMAIN Routes
    BY SegmentFacts, RouteFacts DEF RouteInv, BeginRoute, Compare, EndCompare
  <2>3. QED BY <2>1, <2>2 DEF CallInv, BeginRoute, Compare, EndCompare
<1>2. CASE BeginRoute
  <2>1. at # "idle" /\ HasParams(l, Stored(ex, 1)) /\ UNCHANGED params
    BY <1>2 DEF BeginRoute, ParamsInv
  <2>2. CASE at' = "segment"
    <3>1. n' = 1
      BY <1>2, <2>2 DEF BeginRoute
    <3>2. QED BY <1>1, <2>1, <2>2, <3>1, ParamsKept
  <2>3. CASE at' = "compared"
    <3>1. Len(pattern) # Len(request.path)
      BY <1>2, <2>3 DEF BeginRoute
    <3>2. Stored(ex + 1, 1) = Stored(ex, 1)
      BY <1>1, <2>1, <3>1, StoredByRoute
    <3>3. QED BY <1>1, <2>1, <2>3, <3>2, ParamsKept
  <2>4. QED BY <1>1, <2>2, <2>3
<1>3. CASE (Compare \/ EndCompare) /\ at' = "compared"
  <2>1. /\ at = "segment" /\ HasParams(l, Stored(ex, n)) /\ UNCHANGED params
        /\ n \in 1..(Len(request.path) + 1) /\ k = n
        /\ MoreSegments <=> n \in 1..Len(request.path)
    BY <1>3, SegmentFacts DEF Compare, EndCompare, ParamsInv
  <2>2. n = Len(request.path) + 1 \/ ~Fits(pattern[n], request.path[n])
    BY <1>1, <1>3, <2>1 DEF Compare, EndCompare, Fits
  <2>3. Stored(ex + 1, 1) = Stored(ex, n)
    BY <1>1, <2>1, <2>2, StoredByRoute
  <2>4. QED BY <1>1, <1>3, <2>1, <2>3, ParamsKept
<1>4. CASE Compare /\ at' = "segment"
  <2>1. /\ at = "segment" /\ HasParams(l, Stored(ex, n)) /\ n' = n + 1 /\ k = n
        /\ n # Len(request.path) + 1 /\ Fits(pattern[n], request.path[n])
        /\ params' = IF pattern[n].variable
                     THEN SetParam(params, pattern[n].name, request.path[n]) ELSE params
    BY <1>4, SegmentFacts DEF Compare, ParamsInv, Fits
  <2>2. CASE ~pattern[n].variable
    <3>1. Stored(ex, n + 1) = Stored(ex, n) /\ UNCHANGED params
      BY <2>1, <2>2, StoredBySegment
    <3>2. QED BY <1>1, <1>4, <2>1, <3>1, ParamsKept
  <2>3. CASE pattern[n].variable
    <3> DEFINE v == <<ex, n>>
    <3>1. /\ Stored(ex, n + 1) = Stored(ex, n) \cup {v}
          /\ \A w \in Stored(ex, n) : Later(v, w) /\ ~Later(w, v)
      BY <2>1, <2>3, StoredBySegment
    <3>2. NameOf(v) = pattern[n].name /\ v[2] = n
      BY DEF NameOf
    <3>3. params' = SetParam(params, NameOf(v), request.path[v[2]])
      BY <2>1, <2>3, <3>2
    <3>4. \A stored : stored = Stored(ex, n) \cup {v} => HasParams(l, stored)'
      BY <2>1, <3>1, <3>3, VariableStored
    <3>5. Stored(ex, n)' = Stored(ex, n) \cup {v}
      BY <1>1, <2>1, <3>1, StoredKept
    <3>6. QED BY <1>4, <3>4, <3>5
  <2>4. QED BY <2>2, <2>3
<1>5. QED BY <1>1, <1>2, <1>3, <1>4 DEF EndCompare

\* A route is called after it was compared, a catch-all after all were.
LEMMA ChosenParams ==
  ASSUME TableInv, CallInv, RouteInv, ParamsInv, EndRoute \/ EndRoutes \/ General,
         UNCHANGED <<request, Routes>>, at' = "general"
  PROVE  IF executor' = NoExecutor
         THEN HasParams(Len(request.query), Stored(Len(Routes) + 1, 1))'
         ELSE \A i \in DOMAIN Routes' : Routes'[i].executor = executor' =>
                HasParams(Len(request.query), Stored(Tried(i) + 1, 1))'
<1> DEFINE l == Len(request.query)
<1>1. /\ Len(Routes) \in Nat /\ DOMAIN Routes = 1..Len(Routes) /\ UNCHANGED params
      /\ \A i, j \in DOMAIN Routes : Routes[i].executor = Routes[j].executor => i = j
      /\ \A i : Tried(i)' = Tried(i)
  BY RouteFacts DEF EndRoute, EndRoutes, General, Tried
<1>2. CASE EndRoute
  <2>1. /\ ex \in DOMAIN Routes /\ Hit(ex) /\ executor = Routes[ex].executor
        /\ executor' = executor /\ executor # NoExecutor
        /\ HasParams(l, Stored(ex + 1, 1)) /\ at = "compared"
    BY <1>2 DEF EndRoute, RouteInv, ParamsInv
  <2>2. Routes[ex].pattern # <<>>
    BY <2>1, EmptyPath, EmptyPattern DEF Hit, Matches
  <2>3. Tried(ex) = ex
    BY <2>2 DEF Tried
  <2>4. QED BY <1>1, <2>1, <2>3, ParamsKept
<1>3. CASE EndRoutes
  <2>1. executor' = NoExecutor /\ ex = Len(Routes) + 1 /\ HasParams(l, Stored(ex, 1))
    BY <1>3 DEF EndRoutes, RouteInv, ParamsInv
  <2>2. QED BY <1>1, <2>1, ParamsKept
<1>4. CASE General
  <2>1. /\ executor = NoExecutor /\ HasParams(l, Stored(Len(Routes) + 1, 1))
        /\ executor' = IF Len(Routes[ex].pattern) = 0 THEN Routes[ex].executor ELSE NoExecutor
    BY <1>4 DEF General, ParamsInv
  <2>2. CASE executor' = NoExecutor
    BY <1>1, <2>1, <2>2, ParamsKept
  <2>3. CASE executor' # NoExecutor
    <3>1. ex \in DOMAIN Routes /\ Len(Routes[ex].pattern) = 0 /\ executor' = Routes[ex].executor
      <4>1. ~Chosen
        BY <1>4, <2>1, RouteFacts DEF General, Chosen
      <4>2. ex \in 1..Len(Routes)
        BY <1>1, <1>4, <4>1 DEF General, RouteInv
      <4>3. QED BY <1>1, <2>1, <2>3, <4>2
    <3>2. Tried(ex) = Len(Routes)
      BY <1>4, <3>1, EmptyPattern DEF General, Tried
    <3>3. QED BY <1>1, <2>1, <2>3, <3>1, <3>2, ParamsKept
  <2>4. QED BY <2>2, <2>3
<1>5. QED BY <1>2, <1>3, <1>4

LEMMA ParamsStep ==
  ASSUME TableInv, CallInv, RouteInv, ParamsInv, RouteInv', CallInv', [Next]_vars
  PROVE  ParamsInv'
<1> DEFINE Searching == {"route", "segment", "compared", "general", "callback"}
           l         == Len(request.query)
<1>1. ASSUME NEW m \in Methods, NEW path \in Paths, NEW query \in Queries,
             execute(m, path, query)
      PROVE  ParamsInv'
  <2>1. /\ at' \in {"token", "threw"}
        /\ n' = 1 /\ ex' = 1 /\ executor' = NoExecutor /\ params' = NoParams
    BY <1>1 DEF execute, CallInv
  <2>2. DOMAIN params' = {}
    BY <2>1 DEF NoParams
  <2>3. HasParams(n - 1, {})' /\ TokensRead(n - 1)'
    BY <2>1, <2>2 DEF HasParams, TokensRead
  <2>4. Len(request.query)' \in Nat
    <3>1. request' \in [method : Methods, path : Paths, query : Queries]
      BY <2>1 DEF CallInv
    <3>2. request'.query \in Seq(Seq(STRING))
      BY <3>1, DispatchAssumption
    <3>3. QED BY <3>2
  <2>5. QED BY <2>1, <2>3, <2>4 DEF ParamsInv
<1>2. CASE at # "idle" /\ at' = "token"
  <2>1. UNCHANGED <<request, Routes>>
    BY <1>2, RequestFixed
  <2>2. getParams \/ UNCHANGED vars
    BY <1>2 DEF Next, add, start, execute, CallInv, getParamsReturns, BeginRoute, Compare,
       EndCompare, EndRoute, EndRoutes, General, Call, Callback, Send, CallbackSendsTwice,
       CallbackThrows, CallbackEscapes,
       handleRequest, Caught, Uncaught, Return
  <2>3. CASE getParams
    <3>1. TokensRead(n - 1)' /\ HasParams(n - 1, {})'
      BY <1>2, <2>1, <2>3, TokenRead
    <3>2. /\ n \in 1..Len(request.query) /\ n' = n + 1 /\ Len(request.query) \in Nat
          /\ executor' = NoExecutor /\ ex' = 1
      BY <1>2, <2>3, RequestFacts DEF getParams, ParamsInv
    <3>3. QED BY <1>2, <2>1, <3>1, <3>2 DEF ParamsInv
  <2>4. CASE UNCHANGED vars
    <3>1. UNCHANGED <<at, n, ex, executor, params>>
      BY <2>4 DEF vars
    <3>2. /\ n \in 1..(l + 1) /\ executor = NoExecutor /\ ex = 1
          /\ TokensRead(n - 1) /\ HasParams(n - 1, {})
      BY <1>2, <3>1 DEF ParamsInv
    <3>3. TokensRead(n - 1)'
      BY <2>1, <3>1, <3>2 DEF TokensRead
    <3>4. HasParams(n - 1, {})'
      BY <2>1, <3>1, <3>2 DEF HasParams
    <3>5. QED BY <1>2, <2>1, <3>1, <3>2, <3>3, <3>4 DEF ParamsInv
  <2>5. QED BY <2>2, <2>3, <2>4
<1>3. CASE at # "idle" /\ at' \in Searching
  <2>1. UNCHANGED <<request, Routes>>
    BY <1>3, RequestFixed
  <2>2. CASE getParamsReturns
    <3>1. /\ n - 1 = l /\ TokensRead(n - 1) /\ HasParams(n - 1, {}) /\ UNCHANGED params
          /\ at' = "route" /\ ex' = 1
      BY <1>3, <2>2, RequestFacts DEF getParamsReturns, ParamsInv
    <3>2. Stored(1, 1) = {}
      BY <1>3, RouteFacts, RequestFacts DEF Stored
    <3>3. HasParams(l, Stored(1, 1))
      BY <3>1, <3>2
    <3>4. HasParams(l, Stored(ex, 1))' /\ TokensRead(l)'
      BY <2>1, <3>1, <3>3, ParamsKept DEF TokensRead
    <3>5. QED BY <3>1, <3>4 DEF ParamsInv
  <2>3. CASE ~getParamsReturns
    <3>1. \/ BeginRoute \/ Compare \/ EndCompare
          \/ EndRoute \/ EndRoutes \/ General \/ Call \/ UNCHANGED vars
      BY <1>3, <2>3 DEF Next, add, start, execute, getParams, CallInv, Callback, Send,
         CallbackSendsTwice, CallbackThrows, CallbackEscapes, handleRequest, Caught,
         Uncaught, Return
    <3>2. at \in Searching
      BY <1>3, <3>1 DEF BeginRoute, Compare, EndCompare, EndRoute, EndRoutes, General,
         Call, vars
    <3>3. TokensRead(l)'
      BY <2>1, <3>2 DEF ParamsInv, TokensRead
    <3>4. CASE BeginRoute \/ Compare \/ EndCompare
      <4>1. at' \in {"segment", "compared"}
        BY <1>3, <3>4 DEF BeginRoute, Compare, EndCompare
      <4>2. QED BY <2>1, <3>3, <3>4, <4>1, SegmentParams DEF ParamsInv
    <3>5. CASE (EndRoute \/ EndRoutes \/ General) /\ at' = "general"
      BY <2>1, <3>3, <3>5, ChosenParams DEF ParamsInv
    <3>6. CASE EndRoute /\ at' = "route"
      <4>1. HasParams(l, Stored(ex + 1, 1)) /\ ex' = ex + 1 /\ UNCHANGED params
        BY <3>6 DEF EndRoute, ParamsInv
      <4>2. HasParams(l, Stored(ex, 1))'
        BY <2>1, <4>1, ParamsKept
      <4>3. QED BY <3>3, <3>6, <4>2 DEF ParamsInv
    <3>7. CASE Call \/ UNCHANGED vars
      <4>1. UNCHANGED <<params, executor, ex, n>>
        BY <3>7 DEF Call, vars
      <4>2. at' = at \/ (at = "general" /\ at' = "callback")
        BY <1>3, <3>7 DEF Call, vars
      <4>3. \A i : Tried(i)' = Tried(i)
        BY <2>1 DEF Tried
      <4>4. QED BY <1>3, <2>1, <3>3, <4>1, <4>2, <4>3, ParamsKept DEF ParamsInv
    <3>8. QED
      BY <3>1, <3>4, <3>5, <3>6, <3>7 DEF EndRoute, EndRoutes, General
  <2>4. QED BY <2>2, <2>3
<1>4. CASE at' \notin Searching \cup {"token"}
  BY <1>4 DEF ParamsInv
<1>5. CASE at = "idle"
  BY <1>1, <1>4, <1>5, IdleSteps DEF add, start, vars
<1>6. QED BY <1>2, <1>3, <1>4, <1>5

-----------------------------------------------------------------------------
(* The answers.                                                            *)

LEMMA AnswerStep ==
  ASSUME TableInv, CallInv, RouteInv, ParamsInv, AnswerInv, CallInv', [Next]_vars
  PROVE  AnswerInv'
<1>1. CASE at' = "idle"
  BY <1>1 DEF AnswerInv
<1>2. CASE at = "idle" /\ at' # "idle"
  <2>1. at' \in {"token", "threw"} /\ sent' = <<>>
    BY <1>2, IdleSteps DEF add, start, execute, vars, CallInv
  <2>2. QED BY <2>1 DEF AnswerInv
<1>3. CASE at # "idle" /\ at' # "idle"
  <2>1. UNCHANGED <<request, Routes>>
    BY <1>3, RequestFixed
  <2>2. (NoRoute' <=> NoRoute) /\ (Dispatched' <=> Dispatched)
    BY <2>1 DEF NoRoute, Dispatched, TokensRead
  <2>3. CASE \/ getParams \/ getParamsReturns \/ BeginRoute \/ Compare \/ EndCompare
             \/ EndRoute \/ EndRoutes \/ General
    <3>1. /\ sent = <<>> /\ sent' = sent
          /\ at' \in {"token", "route", "segment", "compared", "general", "threw"}
      BY <2>3 DEF AnswerInv, getParams, getParamsReturns, BeginRoute, Compare, EndCompare,
         EndRoute, EndRoutes, General
    <3>2. QED BY <3>1 DEF AnswerInv
  <2>4. CASE Call
    <3>1. sent = <<>> /\ sent' = sent /\ at = "general"
      BY <2>4 DEF AnswerInv, Call
    <3>2. CASE at' = "callback"
      BY <3>1, <3>2 DEF AnswerInv
    <3>3. CASE executor = NoExecutor /\ ex = Len(Routes) + 1 /\ errc' = "not_found"
               /\ at' = "executed"
      <4>1. ~Chosen
        BY <1>3, <3>3, RouteFacts DEF Chosen
      <4>2. /\ Passed(Len(Routes))
            /\ \A h \in 1..(ex - 1) : Routes[h].pattern # <<>>
        BY <3>1, <4>1 DEF RouteInv
      <4>3. NoRoute
        BY <1>3, <3>3, <4>2, NothingFits, RouteFacts
      <4>4. QED BY <2>2, <3>1, <3>3, <4>3 DEF AnswerInv
    <3>4. QED BY <2>4, <3>2, <3>3 DEF Call
  <2>5. ASSUME NEW status \in {"200", "400", "425"}, NEW result \in {"success", "fail"},
               Callback(status, result)
        PROVE  AnswerInv'
    <3>1. sent = <<>>
      BY <2>5 DEF Callback, AnswerInv
    <3>2. at' = "executed" /\ sent' = <<status>> /\ errc' = result
      BY <2>5, <3>1 DEF Callback, Send
    <3>3. QED BY <3>2 DEF AnswerInv
  <2>6. CASE CallbackSendsTwice \/ CallbackThrows
    BY <2>6 DEF CallbackSendsTwice, CallbackThrows, AnswerInv
  <2>7. CASE CallbackEscapes
    <3>1. at = "callback" /\ at' = "escaped" /\ sent' = <<>>
      BY <2>7 DEF CallbackEscapes, AnswerInv
    <3>2. TokensRead(Len(request.query)) /\ Chosen
      BY <3>1 DEF ParamsInv, RouteInv
    <3>3. Dispatched
      BY <3>2 DEF Dispatched, NoRoute, Chosen
    <3>4. QED BY <2>2, <3>1, <3>3 DEF AnswerInv
  <2>8. CASE handleRequest
    <3>1. CASE errc = "not_found" /\ sent = <<>> /\ NoRoute
      BY <2>2, <2>8, <3>1 DEF handleRequest, Send, AnswerInv
    <3>2. CASE errc \in {"success", "fail"} /\ sent \in {<<"200">>, <<"400">>, <<"425">>}
      <4>1. sent # <<>>
        BY <3>2
      <4>2. sent' = sent /\ at' \in {"done", "threw"}
        BY <2>8, <4>1 DEF handleRequest, Send
      <4>3. QED BY <3>2, <4>2 DEF AnswerInv
    <3>3. QED BY <2>8, <3>1, <3>2 DEF handleRequest, AnswerInv
  <2>9. CASE Caught
    BY <2>9 DEF Caught, AnswerInv
  <2>10. CASE Uncaught
    BY <2>2, <2>10 DEF Uncaught, AnswerInv
  <2>11. CASE UNCHANGED vars
    BY <2>2, <2>11 DEF vars, AnswerInv
  <2>12. ~Return
    BY <1>3 DEF Return
  <2>13. QED
    BY <1>3, <2>3, <2>4, <2>5, <2>6, <2>7, <2>8, <2>9, <2>10, <2>11, <2>12 DEF Next, add,
       start, execute, CallInv
<1>4. QED BY <1>1, <1>2, <1>3

-----------------------------------------------------------------------------
(* The theorems.                                                           *)

\* What the loops of getParams and execute have done so far, and who has
\* answered.
THEOREM DispatchInvariant == Spec => []DispatchInv
<1>1. Init => DispatchInv
  <2> SUFFICES ASSUME Init PROVE DispatchInv
    OBVIOUS
  <2>1. TableInv
    BY DEF Init, TableInv
  <2>2. CallInv
    BY DEF Init, CallInv
  <2>3. ParamsInv /\ RouteInv /\ AnswerInv
    BY DEF Init, ParamsInv, RouteInv, AnswerInv
  <2>4. QED BY <2>1, <2>2, <2>3 DEF DispatchInv
<1>2. DispatchInv /\ [Next]_vars => DispatchInv'
  BY TableStep, CallStep, RouteStep, ParamsStep, AnswerStep DEF DispatchInv
<1>3. QED BY <1>1, <1>2, PTL DEF Spec

\* A response is sent at most once and only registered callbacks are called,
\* for every table that server::handle has filled.
THEOREM TypeCorrect == Spec => []TypeOK
<1>1. DispatchInv => TypeOK
  <2> SUFFICES ASSUME DispatchInv PROVE TypeOK
    OBVIOUS
  <2>1. ASSUME NEW m \in Methods, NEW i \in DOMAIN m_executers[m]
        PROVE  m_executers[m][i].pattern \in Patterns
    <3> DEFINE Route == [pattern : Patterns, executor : Nat \ {NoExecutor}]
    <3>1. m_executers[m] \in Seq(Route)
      BY DEF DispatchInv, TableInv
    <3> HIDE DEF Route
    <3>2. m_executers[m][i] \in Route
      BY <3>1
    <3>3. QED BY <3>2 DEF Route
  <2>2. Len(sent) <= 1
    <3>1. \/ sent = <<>>
          \/ \E status \in {"200", "400", "425", "500", "501"} : sent = <<status>>
      BY DEF DispatchInv, CallInv, AnswerInv
    <3>2. Len(<<>>) = 0 /\ \A status \in STRING : Len(<<status>>) = 1
      OBVIOUS
    <3>3. Len(sent) \in {0, 1}
      BY <3>1, <3>2
    <3>4. \A l \in {0, 1} : l <= 1
      OBVIOUS
    <3>5. QED BY <3>3, <3>4
  <2>3. at = "callback" => executor \in 1..handled
    <3> SUFFICES ASSUME at = "callback" PROVE executor \in 1..handled
      OBVIOUS
    <3>1. PICK i \in DOMAIN Routes : Routes[i].executor = executor
      BY DEF DispatchInv, RouteInv, Chosen
    <3>2. executor \in Nat \ {0} /\ executor <= handled /\ handled \in Nat
      BY <3>1, RouteFacts DEF DispatchInv, NoExecutor, TableInv
    <3>3. QED BY <3>2
  <2>4. QED BY <2>1, <2>2, <2>3 DEF TypeOK, DispatchInv, CallInv
<1>2. QED BY <1>1, DispatchInvariant, PTL

\* dispatcher::execute calls back the first route that matches or else the
\* first catch-all, and answers not_found only where there is neither: for
\* tables of any size, although _executor is set before a route is known to
\* match.
THEOREM RoutesAreFound == Spec => []FindsTheRoute
<1>1. DispatchInv => FindsTheRoute
  BY DEF DispatchInv, RouteInv, AnswerInv, Chosen, FindsTheRoute
<1>2. QED BY <1>1, DispatchInvariant, PTL

\* The callback is given the values of its own variables and of the query and,
\* of the routes that failed before it, the variables they had stored: which of
\* them it sees is settled for every table, path and query.
THEOREM ParamsAreRight == Spec => []ParamsAreTheRequests
<1>1. DispatchInv => ParamsAreTheRequests
  <2> SUFFICES ASSUME DispatchInv, at = "callback"
               PROVE  \A i \in DOMAIN Routes : Routes[i].executor = executor =>
                        HasParams(Len(request.query), Stored(Tried(i) + 1, 1))
    BY DEF ParamsAreTheRequests
  <2>1. executor # NoExecutor
    BY RouteFacts DEF DispatchInv, RouteInv, Chosen
  <2>2. QED BY <2>1 DEF DispatchInv, ParamsInv
<1>2. QED BY <1>1, DispatchInvariant, PTL

\* Parser, dispatcher, handler and HTTP server answer every request between
\* them that no callback was at when an exception escaped, and 501 says that
\* there was no route: for every table, path and query.
THEOREM UnansweredInACallbackOnly == Spec => []OnlyCallbacksLeaveUnanswered
<1>1. DispatchInv => OnlyCallbacksLeaveUnanswered
  BY DEF DispatchInv, AnswerInv, OnlyCallbacksLeaveUnanswered
<1>2. QED BY <1>1, DispatchInvariant, PTL
=============================================================================
