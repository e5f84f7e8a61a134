---------------------------- MODULE PrimesSearch -----------------------------
(***************************************************************************)
(* primes::detector::is_prime (src/primes/detector.cpp) as the HTTP threads *)
(* run it from app::http_is_prime_callback (src/app/app.cpp): a recursive   *)
(* search that halves its interval and hands one half to std::async while   *)
(* the shared counter m_async_count is below its limit.                     *)
(*                                                                          *)
(* A call of is_prime_for is a frame.  The frame of thread t with path q is *)
(* the call reached from t's first one by taking the left half, run by the  *)
(* caller itself, where q has 0, and the right half, run by a new thread,   *)
(* where q has 1.                                                           *)
(***************************************************************************)
EXTENDS Integers, Sequences, FiniteSets

CONSTANTS
  Threads,   \* HTTP worker threads
  Inputs,    \* the numbers std::stoll finds in the requests
  Max,       \* m_max_number, m_config._max_prime_number
  Portion,   \* m_portion
  Workers,   \* m_workers
  Cores,     \* std::thread::hardware_concurrency()
  Marked,    \* the indices for which m_numbers is true
  IntMax,    \* the largest int: 2^31 - 1, and small in an instance
  None       \* no number

Limit == Workers * Cores

\* Max below 2 makes end - start wrap around, which is not modelled.
ASSUME SearchAssumption ==
  /\ IsFiniteSet(Threads)
  /\ Inputs \subseteq Int /\ None \notin Inputs
  /\ Max \in Nat /\ Max >= 2
  /\ Portion \in Nat /\ Limit \in Nat
  /\ Marked \subseteq 0..Max
  /\ IntMax \in Nat

VARIABLES
  m_async_count,  \* std::atomic<std::size_t>
  number,         \* per thread: the request's number, while it has one
  reply,          \* per thread: the status of the response, or that there was none
  frame,          \* per thread and path: the call of is_prime_for
  abandoned       \* history: calls an exception left after their increment

vars == <<m_async_count, number, reply, frame, abandoned>>

\* A call splits only below the limit, and each of its ancestors is counted:
\* no call is deeper than that.
Paths == UNION {[1..n -> {0, 1}] : n \in 0..Limit}
Root == <<>>
Left(q) == Append(q, 0)
Right(q) == Append(q, 1)

NoCall == [at |-> "none"]
Calling(s, e) == [at |-> "check", start |-> s, end |-> e]
Returned(b) == [at |-> "returned", value |-> b]
Threw == [at |-> "threw"]

Over(f) == f.at \in {"returned", "threw"}

Init ==
  /\ m_async_count = 0
  /\ number = [t \in Threads |-> None]
  /\ reply = [t \in Threads |-> "none"]
  /\ frame = [t \in Threads |-> [q \in Paths |-> NoCall]]
  /\ abandoned = 0

-----------------------------------------------------------------------------
(* app::http_is_prime_callback                                             *)

Idle(t) == number[t] = None /\ reply[t] = "none"

\* A mutant of Receive: the search begins at 0.
Receive_FromZero(t, n) ==
  /\ Idle(t)
  /\ number' = [number EXCEPT ![t] = n]
  /\ \/ /\ n > Max
        /\ reply' = [reply EXCEPT ![t] = "400"]
        /\ UNCHANGED frame
     \/ /\ n <= Max
        /\ frame' = [frame EXCEPT ![t][Root] = Calling(0, Max)]
        /\ UNCHANGED reply
  /\ UNCHANGED <<m_async_count, abandoned>>

Receive(t, n) ==
  /\ Idle(t)
  /\ number' = [number EXCEPT ![t] = n]
  /\ \/ /\ n > Max
        /\ reply' = [reply EXCEPT ![t] = "400"]
        /\ UNCHANGED frame
     \/ /\ n <= Max
        /\ frame' = [frame EXCEPT ![t][Root] = Calling(2, Max)]
        /\ UNCHANGED reply
  /\ UNCHANGED <<m_async_count, abandoned>>

\* std::stoll throws on a parameter that is no number.  The HTTP server answers
\* for exceptions of Poco only: here it closes the connection.
ReceiveNoNumber(t) ==
  /\ Idle(t)
  /\ reply' = [reply EXCEPT ![t] = "closed"]
  /\ UNCHANGED <<m_async_count, number, frame, abandoned>>

\* The callback answers, or std::async threw and the connection is closed.
Answer(t) ==
  LET f == frame[t][Root] IN
  /\ Over(f)
  /\ reply' = [reply EXCEPT ![t] = CASE f = Returned(TRUE)  -> "200"
                                     [] f = Returned(FALSE) -> "425"
                                     [] f = Threw           -> "closed"]
  /\ frame' = [frame EXCEPT ![t][Root] = NoCall]
  /\ UNCHANGED <<m_async_count, number, abandoned>>

Return(t) ==
  /\ reply[t] # "none"
  /\ number' = [number EXCEPT ![t] = None]
  /\ reply' = [reply EXCEPT ![t] = "none"]
  /\ UNCHANGED <<m_async_count, frame, abandoned>>

-----------------------------------------------------------------------------
(* is_prime_for                                                            *)

\* The conversion of a std::uint64_t to int.
ToInt(u) == LET r == u % (2 * (IntMax + 1))
            IN  IF r > IntMax THEN r - 2 * (IntMax + 1) ELSE r

\* What the loop over start..end can return.  Its variable is an int that is
\* compared with 64-bit numbers: a negative one is beyond every end, and past
\* IntMax, which is undefined, it has become negative or was kept in 64 bits.
Scan(n, start, end) ==
  LET i == ToInt(start)
      Hit(last) == n \in Marked \cap i..last
  IN
  IF i < 0 THEN {FALSE}
  ELSE IF end <= IntMax \/ Hit(IntMax) THEN {Hit(end)}
  ELSE {FALSE, Hit(end)}

\* A mutant of Check: the counter is not looked at.
Check_NoLimit(t, q) ==
  LET f == frame[t][q] IN
  /\ f.at = "check"
  /\ \/ /\ f.end - f.start < Portion \/ Len(q) = Limit
        /\ \E b \in Scan(number[t], f.start, f.end) :
             frame' = [frame EXCEPT ![t][q] = Returned(b)]
     \/ /\ f.end - f.start >= Portion /\ Len(q) < Limit
        /\ frame' = [frame EXCEPT ![t][q].at = "split"]
  /\ UNCHANGED <<m_async_count, number, reply, abandoned>>

\* A mutant of Check: at the limit the call waits for a free worker.
Check_WaitsForWorker(t, q) ==
  LET f == frame[t][q] IN
  /\ f.at = "check"
  /\ \/ /\ f.end - f.start < Portion
        /\ \E b \in Scan(number[t], f.start, f.end) :
             frame' = [frame EXCEPT ![t][q] = Returned(b)]
     \/ /\ f.end - f.start >= Portion
        /\ frame' = IF m_async_count >= Limit THEN frame
                    ELSE [frame EXCEPT ![t][q].at = "split"]
  /\ UNCHANGED <<m_async_count, number, reply, abandoned>>

\* A short interval, or any interval once the limit is reached, is searched
\* by this thread.  m_numbers does not change, so the loop is one step.
Check(t, q) ==
  LET f == frame[t][q] IN
  /\ f.at = "check"
  /\ \/ /\ f.end - f.start < Portion \/ m_async_count >= Limit
        /\ \E b \in Scan(number[t], f.start, f.end) :
             frame' = [frame EXCEPT ![t][q] = Returned(b)]
     \/ /\ f.end - f.start >= Portion /\ m_async_count < Limit
        /\ frame' = [frame EXCEPT ![t][q].at = "split"]
  /\ UNCHANGED <<m_async_count, number, reply, abandoned>>

Mid(f) == f.start + (f.end - f.start) \div 2

\* The counter is incremented some time after it was tested; then the right
\* half starts on a new thread and the left half on this one.
Split(t, q) ==
  LET f == frame[t][q] IN
  /\ f.at = "split"
  /\ m_async_count' = m_async_count + 1
  /\ frame' = [frame EXCEPT ![t][q].at     = "join",
                            ![t][Left(q)]  = Calling(f.start, Mid(f)),
                            ![t][Right(q)] = Calling(Mid(f), f.end)]
  /\ UNCHANGED <<number, reply, abandoned>>

\* std::async throws: the counter has been incremented and stays so.
SplitThrows(t, q) ==
  /\ frame[t][q].at = "split"
  /\ m_async_count' = m_async_count + 1
  /\ frame' = [frame EXCEPT ![t][q] = Threw]
  /\ abandoned' = abandoned + 1
  /\ UNCHANGED <<number, reply>>

\* A mutant of Join: an exception of a half is taken for "not found".
Join_IgnoresThrow(t, q) ==
  LET l == frame[t][Left(q)]
      r == frame[t][Right(q)]
      Found(f) == f = Returned(TRUE)
  IN
  /\ frame[t][q].at = "join" /\ Over(l) /\ Over(r)
  /\ frame' = [frame EXCEPT ![t][q] = Returned(Found(l) \/ Found(r)),
                            ![t][Left(q)] = NoCall, ![t][Right(q)] = NoCall]
  /\ m_async_count' = m_async_count - 1
  /\ UNCHANGED <<number, reply, abandoned>>

\* A mutant of Join: the decrement is missing.
Join_NoDecrement(t, q) ==
  LET l == frame[t][Left(q)]
      r == frame[t][Right(q)]
  IN
  /\ frame[t][q].at = "join" /\ Over(l) /\ Over(r)
  /\ frame' = [frame EXCEPT ![t][q] = IF Threw \in {l, r} THEN Threw
                                      ELSE Returned(l.value \/ r.value),
                            ![t][Left(q)] = NoCall, ![t][Right(q)] = NoCall]
  /\ UNCHANGED <<m_async_count, number, reply, abandoned>>

\* The left half has returned and _handle.get() has the result of the right
\* one.  An exception of either half leaves this call too, after the future's
\* destructor has waited for the right half, and skips the decrement.
Join(t, q) ==
  LET l == frame[t][Left(q)]
      r == frame[t][Right(q)]
  IN
  /\ frame[t][q].at = "join" /\ Over(l) /\ Over(r)
  /\ \/ /\ Threw \in {l, r}
        /\ frame' = [frame EXCEPT ![t][q] = Threw,
                                  ![t][Left(q)] = NoCall, ![t][Right(q)] = NoCall]
        /\ abandoned' = abandoned + 1
        /\ UNCHANGED m_async_count
     \/ /\ Threw \notin {l, r}
        /\ frame' = [frame EXCEPT ![t][q] = Returned(l.value \/ r.value),
                                  ![t][Left(q)] = NoCall, ![t][Right(q)] = NoCall]
        /\ m_async_count' = m_async_count - 1
        /\ UNCHANGED abandoned
  /\ UNCHANGED <<number, reply>>

-----------------------------------------------------------------------------
CallStep(t, q) == Check(t, q) \/ Split(t, q) \/ SplitThrows(t, q) \/ Join(t, q)

Next ==
  \E t \in Threads :
    \/ \E n \in Inputs : Receive(t, n)
    \/ ReceiveNoNumber(t)
    \/ Answer(t)
    \/ Return(t)
    \/ \E q \in Paths : CallStep(t, q)

\* Every thread, those of std::async included, is scheduled.
Spec ==
  /\ Init /\ [][Next]_vars
  /\ \A t \in Threads :
       /\ WF_vars(Answer(t) \/ Return(t))
       /\ \A q \in Paths : WF_vars(CallStep(t, q))

-----------------------------------------------------------------------------
(* Properties.                                                             *)

Calls == {c \in Threads \X Paths : frame[c[1]][c[2]].at # "none"}
At(l) == {c \in Calls : frame[c[1]][c[2]].at = l}

\* Every call is of the recursion: it searches a part of 2..Max, and it has
\* a caller that waits for it.
TypeOK ==
  /\ m_async_count \in Nat /\ abandoned \in Nat
  /\ number \in [Threads -> Inputs \cup {None}]
  /\ reply \in [Threads -> {"none", "200", "400", "425", "closed"}]
  /\ \A c \in Calls : LET f == frame[c[1]][c[2]] IN
       /\ f.at \in {"check", "split", "join", "returned", "threw"}
       /\ f.at \in {"check", "split", "join"} =>
            f.start \in 2..Max /\ f.end \in (f.start)..Max
       /\ c[2] # Root => frame[c[1]][SubSeq(c[2], 1, Len(c[2]) - 1)].at = "join"

\* However the interval is cut up and whichever threads search the parts, 200
\* is for numbers whose mark is set, and never for 0 and 1, whose marks are set
\* too, unless the maximum is so large that the loop variable of a part wraps
\* around to them.  A number that an int can hold is not answered 425 when its
\* mark is set: an interval that ends beyond IntMax does not hide the numbers
\* before it.  A search that lost a part is not answered 425.
AnswerIsTheMark ==
  \A t \in Threads :
    /\ reply[t] = "200" => /\ number[t] \in Marked
                           /\ number[t] < 2 => Max > 2 * IntMax + 1
    /\ reply[t] = "425" => number[t] <= Max
                           /\ (number[t] <= IntMax => number[t] \notin Marked \cap (2..Max))

\* The counter is tested and then incremented, so its limit can be passed; but
\* every call that is about to split runs on a thread of its own, and there
\* are no more threads than requests and counted splits.
AsyncBounded ==
  Limit >= 1 =>
    m_async_count + Cardinality(At("split")) <= 2 * (Limit - 1) + Cardinality(Threads)

\* The counter is what the splits in progress make it and the failures of
\* std::async have left: nothing else keeps it raised, which would end all
\* parallelism for good, and no exception lowers it twice.
CounterIsSplits == m_async_count = Cardinality(At("join")) + abandoned

\* Every request gets its answer for every portion, 0 and 1 included, where
\* halving an interval does not shrink it and only the counter ends the
\* recursion.
EveryNumberAnswered ==
  \A t \in Threads : number[t] # None ~> reply[t] # "none"

Composite(n) == \E k \in 2..(n - 1) : n % k = 0

\* README: GET is_prime => HTTP_OK/425, the first for prime numbers.
CompositesRejected ==
  \A t \in Threads : reply[t] = "200" => ~Composite(number[t])

-----------------------------------------------------------------------------
(* The inductive invariant behind the safety properties.                   *)

Searching == {f \in [at : {"check", "split", "join"}, start : 2..Max, end : 2..Max] :
                f.start <= f.end}
Frames == {NoCall, Threw} \cup {Returned(b) : b \in BOOLEAN} \cup Searching

FrameInv ==
  /\ number \in [Threads -> Inputs \cup {None}]
  /\ reply \in [Threads -> {"none", "200", "400", "425", "closed"}]
  /\ frame \in [Threads -> [Paths -> Frames]]
  /\ m_async_count \in Nat /\ abandoned \in Nat

\* The callers of a call, its first one included.
Above(q) == {SubSeq(q, 1, k) : k \in 0..(Len(q) - 1)}

\* The callers of a call wait for it.  A call that splits has fewer of them
\* than the limit, so its halves are in Paths.
TreeInv ==
  \A t \in Threads, q \in Paths :
    /\ frame[t][q] # NoCall => \A p \in Above(q) : frame[t][p].at = "join"
    /\ frame[t][q].at \in {"split", "join"} => Len(q) < Limit

\* A thread is in the search exactly while its request has no answer.
RequestInv ==
  \A t \in Threads :
    /\ frame[t][Root] # NoCall <=> number[t] # None /\ reply[t] = "none"
    /\ frame[t][Root] # NoCall => number[t] <= Max

JoinsInv == IsFiniteSet(At("join")) /\ CounterIsSplits

\* Call f is the search for n in s..e, and when it is over its value is right
\* as far as AnswerIsTheMark says.
SearchOf(f, n, s, e) ==
  /\ f # NoCall
  /\ f.at \in {"check", "split", "join"} => f.start = s /\ f.end = e
  /\ f = Returned(TRUE) => n \in Marked /\ (n < 2 => Max > 2 * IntMax + 1)
  /\ f = Returned(FALSE) => (n <= IntMax => n \notin Marked \cap (s..e))

\* The first call searches 2..Max and the two that a call waits for search the
\* halves of its interval.
CoverInv ==
  \A t \in Threads :
    /\ frame[t][Root] # NoCall => SearchOf(frame[t][Root], number[t], 2, Max)
    /\ \A q \in Paths : LET f == frame[t][q] IN
         f.at = "join" => /\ SearchOf(frame[t][Left(q)], number[t], f.start, Mid(f))
                          /\ SearchOf(frame[t][Right(q)], number[t], Mid(f), f.end)

SearchInv == FrameInv /\ TreeInv /\ RequestInv /\ JoinsInv /\ CoverInv
             /\ AnswerIsTheMark /\ AsyncBounded
=============================================================================
