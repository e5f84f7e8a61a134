---------------------------- MODULE HttpDispatch -----------------------------
(***************************************************************************)
(* The way of a request through src/http: uri and params take it apart,    *)
(* dispatcher::execute chooses a callback, handler::handleRequest answers  *)
(* for the callback where that failed.  A step is one turn of a loop.      *)
(*                                                                         *)
(* One connection is modelled.  The dispatcher is filled before the server *)
(* starts and is const from then on, so connections do not interact.       *)
(***************************************************************************)
EXTENDS Integers, Sequences

CONSTANTS
  Methods,    \* HTTP methods
  Patterns,   \* paths that server::handle is called with, as segments
  Paths,      \* paths of requests, as segments
  Queries,    \* query strings, as tokens between & of pieces between =
  MaxRoutes   \* bound: calls of server::handle

\* A segment of a pattern: a literal, or ":name", which takes any segment.
Literal(s)  == [variable |-> FALSE, name |-> s]
Variable(s) == [variable |-> TRUE, name |-> s]

ASSUME DispatchAssumption ==
  /\ MaxRoutes \in Nat
  /\ Patterns \subseteq Seq([variable : BOOLEAN, name : STRING])
  /\ Paths \subseteq Seq(STRING)
  /\ Queries \subseteq Seq(Seq(STRING))

VARIABLES
  m_executers,  \* method -> its routes, in the order they were added
  handled,      \* calls of server::handle
  running,      \* server::start was called
  at,           \* where the request in progress is
  request,      \* its method, path and query
  params,       \* its parameters
  executor,     \* _executor
  ex,           \* the route that the loop is at
  n,            \* the token or the pattern's segment that the innermost loop is at
  k,            \* the path's segment that it is at
  errc,         \* what execute has returned
  sent          \* the responses sent

table == <<m_executers, handled, running>>
vars  == <<m_executers, handled, running, at, request, params, executor, ex, n, k, errc,
           sent>>

NoExecutor == 0
NoParams   == [m \in {} |-> ""]
NoRequest  == [method |-> "", path |-> <<>>, query |-> <<>>]

Routes == m_executers[request.method]

Init ==
  /\ m_executers = [m \in Methods |-> <<>>]
  /\ handled = 0
  /\ running = FALSE
  /\ at = "idle"
  /\ request = NoRequest
  /\ params = NoParams
  /\ executor = NoExecutor
  /\ ex = 1 /\ n = 1 /\ k = 1
  /\ errc = "none"
  /\ sent = <<>>

-----------------------------------------------------------------------------
(* The set-up.                                                             *)

\* server::handle; a callback is the number of its registration.
add(m, p) ==
  /\ ~running
  /\ handled < MaxRoutes
  /\ handled' = handled + 1
  /\ m_executers' = [m_executers EXCEPT ![m] =
                       Append(@, [pattern |-> p, executor |-> handled'])]
  /\ UNCHANGED <<running, at, request, params, executor, ex, n, k, errc, sent>>

start ==
  /\ ~running
  /\ running' = TRUE
  /\ UNCHANGED <<m_executers, handled, at, request, params, executor, ex, n, k, errc, sent>>

-----------------------------------------------------------------------------
(* uri and params.                                                         *)

\* dispatcher::execute is called.  The constructor of uri throws where the URI
\* is malformed.
execute(m, path, query) ==
  /\ running
  /\ at = "idle"
  /\ at' \in {"token", "threw"}
  /\ request' = [method |-> m, path |-> path, query |-> query]
  /\ UNCHANGED <<table, params, executor, ex, n, k, errc, sent>>

SetParam(ps, name, value) ==
  [m \in DOMAIN ps \cup {name} |-> IF m = name THEN value ELSE ps[m]]

ValueOf(token) == IF Len(token) > 1 THEN token[2] ELSE ""

\* A turn of the loop of getParams: keyValueTokenizer[0] of an empty token
\* throws.
getParams ==
  /\ at = "token" /\ n <= Len(request.query)
  /\ LET token == request.query[n] IN
     \/ /\ token = <<>>
        /\ at' = "threw"
        /\ UNCHANGED <<params, n>>
     \/ /\ token # <<>>
        /\ params' = SetParam(params, token[1], ValueOf(token))
        /\ n' = n + 1 /\ UNCHANGED at
  /\ UNCHANGED <<table, request, executor, ex, k, errc, sent>>

getParamsReturns ==
  /\ at = "token" /\ n = Len(request.query) + 1
  /\ at' = "route"
  /\ UNCHANGED <<table, request, params, executor, ex, n, k, errc, sent>>

-----------------------------------------------------------------------------
(* dispatcher::execute: the routes of the method in turn.                  *)

\* Only a route of the right length is compared.
BeginRoute ==
  /\ at = "route" /\ ex <= Len(Routes)
  /\ \/ /\ Len(Routes[ex].pattern) = Len(request.path)
        /\ at' = "segment" /\ n' = 1 /\ k' = 1
     \/ /\ Len(Routes[ex].pattern) # Len(request.path)
        /\ at' = "compared" /\ UNCHANGED <<n, k>>
  /\ UNCHANGED <<table, request, params, executor, ex, errc, sent>>

\* n or k has not reached its end.
MoreSegments ==
  n # Len(Routes[ex].pattern) + 1 \/ k # Len(request.path) + 1

\* A mutant of Compare: a mismatch ends the comparison and keeps _executor.
Compare_KeepsExecutor ==
  /\ at = "segment" /\ MoreSegments
  /\ LET segment == Routes[ex].pattern[n] IN
     \/ /\ segment.name # request.path[k] /\ ~segment.variable
        /\ at' = "compared"
        /\ UNCHANGED <<params, executor, n, k>>
     \/ /\ segment.name = request.path[k] \/ segment.variable
        /\ params' = IF segment.variable
                       THEN SetParam(params, segment.name, request.path[k]) ELSE params
        /\ executor' = Routes[ex].executor
        /\ n' = n + 1 /\ k' = k + 1 /\ UNCHANGED at
  /\ UNCHANGED <<table, request, ex, errc, sent>>

\* A mutant of Compare: a variable does not replace a value that is there.
Compare_FirstStays ==
  /\ at = "segment" /\ MoreSegments
  /\ LET segment == Routes[ex].pattern[n] IN
     \/ /\ segment.name # request.path[k] /\ ~segment.variable
        /\ executor' = NoExecutor
        /\ at' = "compared"
        /\ UNCHANGED <<params, n, k>>
     \/ /\ segment.name = request.path[k] \/ segment.variable
        /\ params' = IF segment.variable /\ segment.name \notin DOMAIN params
                     THEN SetParam(params, segment.name, request.path[k]) ELSE params
        /\ executor' = Routes[ex].executor
        /\ n' = n + 1 /\ k' = k + 1 /\ UNCHANGED at
  /\ UNCHANGED <<table, request, ex, errc, sent>>

\* A turn of the loop over the segments.  Variables are stored as they are
\* met, also where a later segment differs.
Compare ==
  /\ at = "segment" /\ MoreSegments
  /\ LET segment == Routes[ex].pattern[n] IN
     \/ /\ segment.name # request.path[k] /\ ~segment.variable
        /\ executor' = NoExecutor
        /\ at' = "compared"
        /\ UNCHANGED <<params, n, k>>
     \/ /\ segment.name = request.path[k] \/ segment.variable
        /\ params' = IF segment.variable
                       THEN SetParam(params, segment.name, request.path[k]) ELSE params
        /\ executor' = Routes[ex].executor
        /\ n' = n + 1 /\ k' = k + 1 /\ UNCHANGED at
  /\ UNCHANGED <<table, request, ex, errc, sent>>

EndCompare ==
  /\ at = "segment" /\ ~MoreSegments
  /\ at' = "compared"
  /\ UNCHANGED <<table, request, params, executor, ex, n, k, errc, sent>>

\* The next route, unless this one is it.
EndRoute ==
  /\ at = "compared"
  /\ \/ /\ executor # NoExecutor
        /\ at' = "general" /\ UNCHANGED ex
     \/ /\ executor = NoExecutor
        /\ at' = "route" /\ ex' = ex + 1
  /\ UNCHANGED <<table, request, params, executor, n, k, errc, sent>>

EndRoutes ==
  /\ at = "route" /\ ex = Len(Routes) + 1
  /\ at' = "general" /\ ex' = 1
  /\ UNCHANGED <<table, request, params, executor, n, k, errc, sent>>

\* The second loop, for the first route without segments.
General ==
  /\ at = "general" /\ executor = NoExecutor /\ ex <= Len(Routes)
  /\ executor' = IF Len(Routes[ex].pattern) = 0 THEN Routes[ex].executor ELSE NoExecutor
  /\ ex' = ex + 1
  /\ UNCHANGED <<table, at, request, params, n, k, errc, sent>>

\* The callback is called, or there is none.
Call ==
  /\ at = "general"
  /\ \/ /\ executor # NoExecutor
        /\ at' = "callback" /\ UNCHANGED errc
     \/ /\ executor = NoExecutor /\ ex = Len(Routes) + 1
        /\ at' = "executed" /\ errc' = "not_found"
  /\ UNCHANGED <<table, request, params, executor, ex, n, k, sent>>

-----------------------------------------------------------------------------
(* The answer.                                                             *)

\* response.send(): a response is sent once, a second call throws.
Send(status, next) ==
  /\ at'   = IF sent = <<>> THEN next ELSE "threw"
  /\ sent' = IF sent = <<>> THEN <<status>> ELSE sent

\* The answers of the callbacks of app.cpp, with what they return.
Callback(status, result) ==
  /\ at = "callback"
  /\ Send(status, "executed")
  /\ errc' = result
  /\ UNCHANGED <<table, request, params, executor, ex, n, k>>

\* http_traffic_point_losses_callback sends its JSON and goes on to a second
\* send.
CallbackSendsTwice ==
  /\ at = "callback"
  /\ at' = "threw"
  /\ sent' = <<"200">>
  /\ UNCHANGED <<table, request, params, executor, ex, n, k, errc>>

\* A callback throws an exception of Poco before there is an answer: the
\* address of the traffic point cannot be parsed or bound.
CallbackThrows ==
  /\ at = "callback"
  /\ at' = "threw"
  /\ UNCHANGED <<table, request, params, executor, ex, n, k, errc, sent>>

\* A callback throws an exception of the standard library before there is an
\* answer: std::stoll for what is no number, std::async without a thread.
CallbackEscapes ==
  /\ at = "callback"
  /\ at' = "escaped"
  /\ UNCHANGED <<table, request, params, executor, ex, n, k, errc, sent>>

\* A mutant of handleRequest: every failure counts as answered.
handleRequest_TrustsCallback ==
  /\ at = "executed"
  /\ at' = "done"
  /\ UNCHANGED <<table, request, params, executor, ex, n, k, errc, sent>>

\* A mutant of handleRequest: the second response reaches the client.
handleRequest_SendsAgain ==
  /\ at = "executed"
  /\ at' = "done"
  /\ sent' = sent \o IF errc = "success" THEN <<>> ELSE <<"501">>
  /\ UNCHANGED <<table, request, params, executor, ex, n, k, errc>>

\* The rest of handleRequest.
handleRequest ==
  /\ at = "executed"
  /\ \/ /\ errc = "success"
        /\ at' = "done" /\ UNCHANGED sent
     \/ /\ errc # "success"
        /\ Send("501", "done")
  /\ UNCHANGED <<table, request, params, executor, ex, n, k, errc>>

\* The HTTP server catches what derives from Poco::Exception: it answers for a
\* handler that has not, and closes the connection.
Caught ==
  /\ at = "threw"
  /\ at' = "closed"
  /\ sent' = IF sent = <<>> THEN <<"500">> ELSE sent
  /\ UNCHANGED <<table, request, params, executor, ex, n, k, errc>>

\* Any other exception leaves it: the connection is closed as it is.
Uncaught ==
  /\ at = "escaped"
  /\ at' = "closed"
  /\ UNCHANGED <<table, request, params, executor, ex, n, k, errc, sent>>

\* The HTTP server takes the next request, on this connection or on a new one,
\* and has a new handler made for it.
Return ==
  /\ at \in {"done", "closed"}
  /\ at' = "idle"
  /\ request' = NoRequest
  /\ params' = NoParams
  /\ executor' = NoExecutor
  /\ ex' = 1 /\ n' = 1 /\ k' = 1
  /\ errc' = "none"
  /\ sent' = <<>>
  /\ UNCHANGED table

Next ==
  \/ \E m \in Methods, p \in Patterns : add(m, p)
  \/ start
  \/ \E m \in Methods, path \in Paths, query \in Queries : execute(m, path, query)
  \/ getParams \/ getParamsReturns
  \/ BeginRoute \/ Compare \/ EndCompare \/ EndRoute \/ EndRoutes
  \/ General \/ Call
  \/ Callback("200", "success") \/ Callback("425", "success")
  \/ Callback("400", "success") \/ Callback("400", "fail")
  \/ CallbackSendsTwice \/ CallbackThrows \/ CallbackEscapes
  \/ handleRequest \/ Caught \/ Uncaught \/ Return

Spec == Init /\ [][Next]_vars

-----------------------------------------------------------------------------
(* Properties.                                                             *)

\* A response is sent at most once, and what is called is registered.
TypeOK ==
  /\ \A m \in Methods : \A i \in DOMAIN m_executers[m] :
       m_executers[m][i].pattern \in Patterns
  /\ at \in {"idle", "token", "route", "segment", "compared", "general", "callback",
             "executed", "threw", "escaped", "done", "closed"}
  /\ Len(sent) <= 1
  /\ at = "callback" => executor \in 1..handled

\* What a route means: it has the length of the path, and every segment is a
\* variable or the same.
Fits(segment, s) == segment.variable \/ segment.name = s

Matches(pattern, path) ==
  /\ Len(pattern) = Len(path)
  /\ \A i \in DOMAIN pattern : Fits(pattern[i], path[i])

\* The route a request is for: the first that matches, or else the first
\* catch-all, or else none.
IsRouteFor(i, routes, path) ==
  LET matching == {j \in DOMAIN routes : Matches(routes[j].pattern, path)}
      general  == {j \in DOMAIN routes : routes[j].pattern = <<>>}
      choice   == IF matching # {} THEN matching ELSE general
  IN  /\ i \in choice
      /\ \A j \in choice : i <= j

NoRoute == \A i \in DOMAIN Routes : ~IsRouteFor(i, Routes, request.path)

\* The loops of dispatcher::execute, which set and reset _executor segment by
\* segment, find the route the request is for, and none only where there is
\* none.
FindsTheRoute ==
  /\ at = "callback" =>
       \E i \in DOMAIN Routes : /\ IsRouteFor(i, Routes, request.path)
                                /\ Routes[i].executor = executor
  /\ at = "executed" /\ errc = "not_found" => NoRoute

\* The variables, as pairs of a route and a segment, that are stored once the
\* first loop has come to segment l of route i: those of the routes that were
\* compared, up to the segment at which they failed.
Stored(i, l) ==
  {v \in (DOMAIN Routes) \X (DOMAIN request.path) :
     LET pattern == Routes[v[1]].pattern IN
     /\ v[1] < i \/ (v[1] = i /\ v[2] < l)
     /\ Len(pattern) = Len(request.path)
     /\ pattern[v[2]].variable
     /\ \A j \in 1..(v[2] - 1) : Fits(pattern[j], request.path[j])}

Later(v, w) == v[1] > w[1] \/ (v[1] = w[1] /\ v[2] > w[2])

NameOf(v) == Routes[v[1]].pattern[v[2]].name

\* What is in params after l tokens of the query and the variables of stored:
\* for a name, the segment of the last variable, or else the value of the last
\* token, or else nothing.
HasParams(l, stored) ==
  /\ \A name \in DOMAIN params :
       \/ \E i \in 1..l : request.query[i][1] = name
       \/ \E v \in stored : NameOf(v) = name
  /\ \A v \in stored :
       (\A w \in stored : Later(w, v) => NameOf(w) # NameOf(v)) =>
         NameOf(v) \in DOMAIN params /\ params[NameOf(v)] = request.path[v[2]]
  /\ \A i \in 1..l :
       LET name == request.query[i][1] IN
       /\ \A j \in (i + 1)..l : request.query[j][1] # name
       /\ \A v \in stored : NameOf(v) # name
       => name \in DOMAIN params /\ params[name] = ValueOf(request.query[i])

\* A route is called after it was compared, a catch-all after all were.
Tried(i) == IF Routes[i].pattern = <<>> THEN Len(Routes) ELSE i

\* The callback is given the last values of the query, the values of its own
\* variables, and of the routes that failed before it exactly the variables
\* they had stored: such a leftover hides a value of the query, never one of
\* the callback's own, and nothing comes from an earlier request.
ParamsAreTheRequests ==
  at = "callback" =>
    \A i \in DOMAIN Routes : Routes[i].executor = executor =>
      HasParams(Len(request.query), Stored(Tried(i) + 1, 1))

\* No token of the query is empty, and there is a route.
TokensRead(l) == \A i \in 1..l : request.query[i] # <<>>
Dispatched    == TokensRead(Len(request.query)) /\ ~NoRoute

\* Only a callback can leave a client without a response, and then the
\* connection is closed: whatever is wrong with the request before, and a
\* callback that returns an error without an answer, is answered.  The 501 of
\* handleRequest is for a request without a route: where the callback answered
\* and then returned an error, the client sees the callback's status.
OnlyCallbacksLeaveUnanswered ==
  at \in {"done", "closed"} =>
    /\ sent = <<>> => at = "closed" /\ Dispatched
    /\ sent = <<"501">> => NoRoute

-----------------------------------------------------------------------------
(* The inductive invariant behind them.                                    *)

\* The routes are numbered as they come, each with a number of its own.
TableInv ==
  /\ handled \in Nat
  /\ m_executers \in [Methods -> Seq([pattern : Patterns, executor : Nat \ {NoExecutor}])]
  /\ \A m \in Methods : \A i, j \in DOMAIN m_executers[m] :
       /\ m_executers[m][i].executor <= handled
       /\ m_executers[m][i].executor = m_executers[m][j].executor => i = j

\* Routes are added only before there are requests.
CallInv ==
  /\ at \in {"idle", "token", "route", "segment", "compared", "general", "callback",
             "executed", "threw", "escaped", "done", "closed"}
  /\ at # "idle" => running /\ request \in [method : Methods, path : Paths, query : Queries]
  /\ at = "idle" => /\ params = NoParams /\ executor = NoExecutor
                    /\ ex = 1 /\ n = 1 /\ k = 1 /\ sent = <<>>

\* A route that the first loop stops at: it has segments, and they match.
Hit(i) == request.path # <<>> /\ Matches(Routes[i].pattern, request.path)

Passed(l) == \A i \in 1..l : ~Hit(i)

Chosen ==
  \E i \in DOMAIN Routes :
    IsRouteFor(i, Routes, request.path) /\ Routes[i].executor = executor

\* What the first n - 1 segments have shown.
SegmentInv ==
  LET pattern == Routes[ex].pattern IN
  /\ Len(pattern) = Len(request.path)
  /\ n \in 1..(Len(pattern) + 1) /\ k = n
  /\ \A i \in 1..(n - 1) : Fits(pattern[i], request.path[i])
  /\ executor = IF n = 1 THEN NoExecutor ELSE Routes[ex].executor

\* What the routes before ex have shown.
RouteInv ==
  /\ at = "route" => ex \in 1..(Len(Routes) + 1) /\ executor = NoExecutor /\ Passed(ex - 1)
  /\ at = "segment" => ex \in DOMAIN Routes /\ Passed(ex - 1) /\ SegmentInv
  /\ at = "compared" =>
       /\ ex \in DOMAIN Routes /\ Passed(ex - 1)
       /\ \/ executor = NoExecutor /\ ~Hit(ex)
          \/ executor = Routes[ex].executor /\ Hit(ex)
  /\ at = "general" =>
       \/ /\ executor = NoExecutor
          /\ ex \in 1..(Len(Routes) + 1) /\ Passed(Len(Routes))
          /\ \A i \in 1..(ex - 1) : Routes[i].pattern # <<>>
       \/ Chosen
  /\ at = "callback" => Chosen

\* What the parameters are at each place.
ParamsInv ==
  LET l == Len(request.query) IN
  /\ at = "token" => /\ n \in 1..(l + 1)
                     /\ executor = NoExecutor /\ ex = 1
                     /\ TokensRead(n - 1) /\ HasParams(n - 1, {})
  /\ at \in {"route", "segment", "compared", "general", "callback"} => TokensRead(l)
  /\ at = "route" => HasParams(l, Stored(ex, 1))
  /\ at = "segment" => HasParams(l, Stored(ex, n))
  /\ at = "compared" => HasParams(l, Stored(ex + 1, 1))
  /\ at \in {"general", "callback"} =>
       IF executor = NoExecutor THEN HasParams(l, Stored(Len(Routes) + 1, 1))
       ELSE \A i \in DOMAIN Routes : Routes[i].executor = executor =>
              HasParams(l, Stored(Tried(i) + 1, 1))

\* Who has answered, and that nobody answers 501 for a route.
AnswerInv ==
  /\ at \in {"token", "route", "segment", "compared", "general", "callback"} => sent = <<>>
  /\ at = "executed" =>
       \/ errc = "not_found" /\ sent = <<>> /\ NoRoute
       \/ errc \in {"success", "fail"} /\ sent \in {<<"200">>, <<"400">>, <<"425">>}
  /\ at = "threw" => sent \in {<<>>, <<"200">>, <<"400">>, <<"425">>}
  /\ at = "escaped" => sent = <<>> /\ Dispatched
  /\ at \in {"done", "closed"} =>
       \/ sent = <<"501">> /\ NoRoute
       \/ sent \in {<<"200">>, <<"400">>, <<"425">>, <<"500">>}
       \/ at = "closed" /\ sent = <<>> /\ Dispatched

DispatchInv == TableInv /\ CallInv /\ RouteInv /\ ParamsInv /\ AnswerInv
=============================================================================
