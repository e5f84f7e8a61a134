----------------------------- MODULE PrimesSieve -----------------------------
(***************************************************************************)
(* primes::detector::build (src/primes/detector.cpp): a sieve whose inner  *)
(* loops run as concurrent std::async tasks on one std::vector<bool>.      *)
(*                                                                         *)
(* vector<bool> packs its elements into words.  m_numbers[j] = false loads *)
(* the word of j and stores it back with one bit cleared; nothing orders   *)
(* the two against the same steps of another task.  That data race is      *)
(* modelled by its outcome on the build's targets, where the load and the  *)
(* store of a word are each indivisible and the pair is not.               *)
(***************************************************************************)
EXTENDS Integers, FiniteSets

CONSTANTS
  Max,        \* m_max_number
  WordBits    \* elements in one word of vector<bool>

ASSUME SieveAssumption == Max \in Nat /\ Max >= 2 /\ WordBits \in Nat \ {0}

VARIABLES
  m_numbers,      \* the indices whose element is true
  m_async_count,  \* std::atomic<std::size_t>
  pc,             \* where build() is: its loop, its futures' destructors, out
  i,              \* its loop variable
  task,           \* per number: what the build_for task for it does
  j,              \* per number: that task's loop variable
  word            \* per number: the word the task has loaded, as indices

vars == <<m_numbers, m_async_count, pc, i, task, j, word>>

Indices == 0..Max

\* The numbers build_for can be started for.
Factors == {n \in 2..Max : n * n <= Max}

WordOf(n) == {m \in Indices : m \div WordBits = n \div WordBits}

Init ==
  /\ m_numbers = Indices
  /\ m_async_count = 0
  /\ pc = "loop"
  /\ i = 2
  /\ task = [n \in Factors |-> "none"]
  /\ j = [n \in Factors |-> 0]
  /\ word = [n \in Factors |-> {}]

-----------------------------------------------------------------------------
(* build()                                                                 *)

\* A number that is still marked prime gets a task.  The mark is read while
\* earlier tasks are running, so it may be one they have yet to clear.
Spawn ==
  /\ pc = "loop"
  /\ i * i <= Max
  /\ task' = [task EXCEPT ![i] = IF i \in m_numbers THEN "ready" ELSE @]
  /\ i' = i + 1
  /\ UNCHANGED <<m_numbers, m_async_count, pc, j, word>>

\* std::async cannot start a thread: the exception leaves the loop.
SpawnThrows ==
  /\ pc = "loop"
  /\ i * i <= Max
  /\ i \in m_numbers
  /\ pc' = "unwind"
  /\ UNCHANGED <<m_numbers, m_async_count, i, task, j, word>>

EndLoop ==
  /\ pc = "loop"
  /\ i * i > Max
  /\ pc' = "join"
  /\ UNCHANGED <<m_numbers, m_async_count, i, task, j, word>>

\* The destructors of the futures wait for all the tasks.
Join ==
  /\ pc \in {"join", "unwind"}
  /\ \A n \in Factors : task[n] \in {"none", "done"}
  /\ pc' = IF pc = "join" THEN "returned" ELSE "threw"
  /\ UNCHANGED <<m_numbers, m_async_count, i, task, j, word>>

-----------------------------------------------------------------------------
(* build_for(n)                                                            *)

\* A mutant of Begin: the task does not count itself.
Begin_NoIncrement(n) ==
  /\ task[n] = "ready"
  /\ task' = [task EXCEPT ![n] = "load"]
  /\ j' = [j EXCEPT ![n] = n * 2]
  /\ UNCHANGED <<m_numbers, m_async_count, pc, i, word>>

\* A mutant of Begin: the task clears its own number too.
Begin_AtNumber(n) ==
  /\ task[n] = "ready"
  /\ m_async_count' = m_async_count + 1
  /\ task' = [task EXCEPT ![n] = "load"]
  /\ j' = [j EXCEPT ![n] = n]
  /\ UNCHANGED <<m_numbers, pc, i, word>>

Begin(n) ==
  /\ task[n] = "ready"
  /\ m_async_count' = m_async_count + 1
  /\ task' = [task EXCEPT ![n] = "load"]
  /\ j' = [j EXCEPT ![n] = n * 2]
  /\ UNCHANGED <<m_numbers, pc, i, word>>

\* A mutant of Load: the loop stops before m_max_number.
Load_BelowMax(n) ==
  /\ task[n] = "load"
  /\ j[n] <= Max
  /\ task' = [task EXCEPT ![n] = IF j[n] < Max THEN "store" ELSE "load"]
  /\ word' = [word EXCEPT ![n] = WordOf(j[n]) \cap m_numbers]
  /\ j' = [j EXCEPT ![n] = IF j[n] < Max THEN @ ELSE Max + 1]
  /\ UNCHANGED <<m_numbers, m_async_count, pc, i>>

Load(n) ==
  /\ task[n] = "load"
  /\ j[n] <= Max
  /\ task' = [task EXCEPT ![n] = "store"]
  /\ word' = [word EXCEPT ![n] = WordOf(j[n]) \cap m_numbers]
  /\ UNCHANGED <<m_numbers, m_async_count, pc, i, j>>

Store(n) ==
  /\ task[n] = "store"
  /\ m_numbers' = (m_numbers \ WordOf(j[n])) \cup (word[n] \ {j[n]})
  /\ task' = [task EXCEPT ![n] = "load"]
  /\ j' = [j EXCEPT ![n] = @ + n]
  /\ word' = [word EXCEPT ![n] = {}]
  /\ UNCHANGED <<m_async_count, pc, i>>

\* A mutant of End: the counter is not decremented.
End_NoDecrement(n) ==
  /\ task[n] = "load"
  /\ j[n] > Max
  /\ task' = [task EXCEPT ![n] = "done"]
  /\ UNCHANGED <<m_numbers, m_async_count, pc, i, j, word>>

End(n) ==
  /\ task[n] = "load"
  /\ j[n] > Max
  /\ m_async_count' = m_async_count - 1
  /\ task' = [task EXCEPT ![n] = "done"]
  /\ UNCHANGED <<m_numbers, pc, i, j, word>>

-----------------------------------------------------------------------------
Build == Spawn \/ SpawnThrows \/ EndLoop \/ Join
BuildFor(n) == Begin(n) \/ Load(n) \/ Store(n) \/ End(n)

Finished == pc \in {"returned", "threw"} /\ UNCHANGED vars

Next == Build \/ (\E n \in Factors : BuildFor(n)) \/ Finished

\* Every started thread is scheduled.
Spec == /\ Init /\ [][Next]_vars
        /\ WF_vars(Build)
        /\ \A n \in Factors : WF_vars(BuildFor(n))

-----------------------------------------------------------------------------
(* Properties.                                                             *)

TypeOK ==
  /\ m_numbers \subseteq Indices
  /\ m_async_count \in 0..Cardinality(Factors)
  /\ pc \in {"loop", "join", "unwind", "returned", "threw"}
  /\ i \in 2..(Max + 1)
  /\ task \in [Factors -> {"none", "ready", "load", "store", "done"}]
  /\ j \in [Factors -> 0..(2 * Max)]
  /\ word \in [Factors -> SUBSET Indices]

Composite(n) == \E k \in 2..(n - 1) : n % k = 0
Primes == {n \in 2..Max : ~Composite(n)}

\* No interleaving of the tasks clears a prime, although every store writes
\* back a word that may be out of date, and although tasks are started for
\* numbers that are not prime.
PrimesStay == Primes \subseteq m_numbers

\* The tasks of a finished build that write to the word of number n.
Writers(n) == {f \in Factors : /\ task[f] = "done"
                               /\ \E m \in WordOf(n) : m >= 2 * f /\ m % f = 0}

\* A composite number survives a build that returned only where two tasks
\* wrote to its word: neither the stale marks the loop reads nor the order of
\* the tasks can leave one behind.
OnlySharedWordsFail ==
  pc = "returned" =>
    \A n \in m_numbers : n >= 2 /\ Composite(n) => Cardinality(Writers(n)) >= 2

\* build() comes back, with every task accounted for: is_prime_for starts
\* with the counter at zero, also after an exception.
BuildEnds == <>[](pc \in {"returned", "threw"} /\ m_async_count = 0)

\* tests/primes/test.cpp: "EXPECT_FALSE(_primes_detector->is_prime(500))"
\* after build(): what the sieve leaves marked is what is prime.
SieveExact == pc = "returned" => m_numbers \cap (2..Max) = Primes

-----------------------------------------------------------------------------
(* The inductive invariant behind the safety properties.                   *)

\* The tasks between their increment and their decrement of the counter.
Running == {n \in Factors : task[n] \in {"load", "store"}}

CountInv == m_async_count = Cardinality(Running)

\* A task is at a multiple of its number, which is not that number itself, and
\* the word it is about to store has its primes.
TaskInv ==
  \A n \in Factors :
    /\ task[n] # "none" => n < i
    /\ task[n] \in {"load", "store", "done"} =>
         j[n] % n = 0 /\ j[n] >= 2 * n /\ j[n] <= Max + n
    /\ task[n] = "store" => /\ j[n] <= Max
                            /\ word[n] \subseteq WordOf(j[n])
                            /\ Primes \cap WordOf(j[n]) \subseteq word[n]
    /\ task[n] = "done" => j[n] > Max

\* Every prime the loop has passed has a task, and build() is over only when
\* its tasks are.
LoopInv ==
  /\ \A n \in Factors \cap Primes : n < i => task[n] # "none"
  /\ pc \in {"join", "returned"} => i * i > Max
  /\ pc \in {"returned", "threw"} => \A n \in Factors : task[n] \in {"none", "done"}

\* The task of f writes to the word of n some time.
Touches(f, n) == /\ task[f] # "none"
                 /\ \E m \in WordOf(n) : m >= 2 * f /\ m % f = 0

\* A multiple of d that the task of d has passed is marked, or comes back with
\* the word this task holds, only where another task writes to the same word.
ClearedInv ==
  \A d \in Factors, n \in Indices :
    /\ n % d = 0 /\ n >= 2 * d
    /\ task[d] \in {"load", "store", "done"} /\ j[d] > n
    /\ n \in m_numbers \/ (task[d] = "store" /\ n \in word[d])
    => \E f \in Factors \ {d} : Touches(f, n)

SieveInv == TypeOK /\ CountInv /\ TaskInv /\ LoopInv /\ PrimesStay /\ ClearedInv
=============================================================================
