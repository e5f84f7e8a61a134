---------------------------- MODULE PointRegistry ----------------------------
(***************************************************************************)
(* What the traffic point part of the HTTP API promises its callers: a set *)
(* of registered points on which every PUT, DELETE and GET takes effect    *)
(* atomically at one instant between the request and its response.         *)
(* Nothing here mentions locks, sockets or detectors; TrafficPoints shows  *)
(* that app.cpp implements it.                                             *)
(***************************************************************************)
EXTENDS Integers, FiniteSets

CONSTANTS
  Threads,   \* the requests that can be in progress at one time
  Points,    \* the addresses a caller may name
  Limit      \* max_traffic_points of the configuration

VARIABLES
  registry,  \* the points that are registered
  call       \* per thread: the operation, its point and its outcome

vars == <<registry, call>>

Ops == {"add", "rem", "losses"}

Idle == [op |-> "none"]

Calls == {Idle} \cup [op : Ops, point : Points,
                      out : {"none", "200", "400", "425", "500"}]

InProgress == {t \in Threads : call[t] # Idle}

Init ==
  /\ registry = {}
  /\ call = [t \in Threads |-> Idle]

Invoke(t, o, p) ==
  /\ call[t] = Idle
  /\ call' = [call EXCEPT ![t] = [op |-> o, point |-> p, out |-> "none"]]
  /\ UNCHANGED registry

Pending(t, o) == call[t] # Idle /\ call[t].op = o /\ call[t].out = "none"

Outcome(t, s) == call' = [call EXCEPT ![t].out = s]

\* A PUT that is answered 200 is the one that registered the point.
Add(t) ==
  /\ Pending(t, "add")
  /\ \/ /\ call[t].point \notin registry
        /\ registry' = registry \cup {call[t].point}
        /\ Outcome(t, "200")
     \/ /\ call[t].point \in registry
        /\ Outcome(t, "425")
        /\ UNCHANGED registry
     \/ /\ Outcome(t, "500")
        /\ UNCHANGED registry

\* A PUT is refused for the limit only when the registered points, together
\* with the other requests in progress, exceed it.
Refuse(t) ==
  /\ Pending(t, "add")
  /\ Cardinality(registry) + Cardinality(InProgress \ {t}) > Limit
  /\ Outcome(t, "400")
  /\ UNCHANGED registry

\* A DELETE is answered 200 exactly when it removed the point.
Remove(t) ==
  /\ Pending(t, "rem")
  /\ registry' = registry \ {call[t].point}
  /\ Outcome(t, IF call[t].point \in registry THEN "200" ELSE "400")

\* A GET finds the point exactly when it is registered.
Lookup(t) ==
  /\ Pending(t, "losses")
  /\ Outcome(t, IF call[t].point \in registry THEN "200" ELSE "400")
  /\ UNCHANGED registry

Respond(t) ==
  /\ call[t] # Idle
  /\ call[t].out # "none"
  /\ call' = [call EXCEPT ![t] = Idle]
  /\ UNCHANGED registry

Next ==
  \E t \in Threads :
    \/ \E o \in Ops, p \in Points : Invoke(t, o, p)
    \/ Add(t)
    \/ Refuse(t)
    \/ Remove(t)
    \/ Lookup(t)
    \/ Respond(t)

Spec == Init /\ [][Next]_vars
=============================================================================
