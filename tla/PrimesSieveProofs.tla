-------------------------- MODULE PrimesSieveProofs --------------------------
(***************************************************************************)
(* Theorems about PrimesSieve, for every maximum and every size of a word. *)
(***************************************************************************)
EXTENDS PrimesSieve, FiniteSetTheorems, WellFoundedInduction, TLAPS

-----------------------------------------------------------------------------
(* Multiples and divisors.                                                 *)

LEMMA MultipleIsProduct ==
  ASSUME NEW a \in Nat, NEW n \in Nat \ {0}, a % n = 0
  PROVE  \E q \in Nat : a = q * n
<1>1. a = n * (a \div n) + (a % n) /\ a \div n \in Nat
  OBVIOUS
<1>2. a = (a \div n) * n
  BY <1>1
<1>3. QED BY <1>1, <1>2

LEMMA ProductIsMultiple ==
  ASSUME NEW q \in Nat, NEW n \in Nat \ {0}
  PROVE  (q * n) % n = 0
  OBVIOUS

LEMMA NextMultiple ==
  ASSUME NEW a \in Nat, NEW n \in Nat \ {0}, a % n = 0
  PROVE  (a + n) % n = 0
<1>1. PICK q \in Nat : a = q * n
  BY MultipleIsProduct
<1>2. a + n = (q + 1) * n
  BY <1>1
<1>3. ((q + 1) * n) % n = 0
  BY ProductIsMultiple
<1>4. QED BY <1>2, <1>3

\* There is no multiple between a multiple and the next one.
LEMMA MultiplesApart ==
  ASSUME NEW a \in Nat, NEW b \in Nat, NEW n \in Nat \ {0}, a % n = 0, b % n = 0, a < b
  PROVE  a + n <= b
<1>1. PICK q \in Nat : a = q * n
  BY MultipleIsProduct
<1>2. PICK r \in Nat : b = r * n
  BY MultipleIsProduct
<1>3. q < r
  BY <1>1, <1>2
<1>4. (q + 1) * n <= r * n
  BY <1>3
<1>5. (q + 1) * n = a + n
  BY <1>1
<1>6. QED BY <1>2, <1>4, <1>5

LEMMA DivisorOfDivisor ==
  ASSUME NEW a \in Nat, NEW d \in Nat \ {0}, NEW e \in Nat \ {0}, a % d = 0, d % e = 0
  PROVE  a % e = 0
<1>1. PICK q \in Nat : a = q * d
  BY MultipleIsProduct
<1>2. PICK r \in Nat : d = r * e
  BY MultipleIsProduct
<1>3. a = (q * r) * e /\ q * r \in Nat
  BY <1>1, <1>2
<1>4. QED BY <1>3, ProductIsMultiple

LEMMA Least ==
  ASSUME NEW T, T \subseteq Nat, T # {}
  PROVE  \E x \in T : \A y \in T : x <= y
<1> DEFINE R == {ss \in Nat \X Nat : ss[1] < ss[2]}
<1>1. R = OpToRel(<, Nat)
  BY Zenon DEF OpToRel
<1>2. IsWellFoundedOn(R, Nat)
  BY <1>1, NatLessThanWellFounded, Zenon
<1>3. \A a, b \in Nat : a < b => <<a, b>> \in R
  OBVIOUS
<1> HIDE DEF R
<1>4. PICK x \in T : \A y \in T : ~(<<y, x>> \in R)
  BY <1>2, WFMin
<1>5. ASSUME NEW y \in T PROVE x <= y
  <2>1. x \in Nat /\ y \in Nat
    BY <1>4
  <2>2. ~(y < x)
    BY <1>3, <1>4, <2>1
  <2>3. QED BY <2>1, <2>2
<1>6. QED BY <1>5

\* A composite number has a prime divisor whose square is not above it.
LEMMA SmallPrimeDivisor ==
  ASSUME NEW n \in Nat, n >= 2, Composite(n)
  PROVE  \E d \in Nat : /\ d >= 2 /\ d * d <= n /\ n % d = 0 /\ n >= 2 * d
                        /\ ~Composite(d)
<1> DEFINE D == {d \in Nat : d >= 2 /\ d < n /\ n % d = 0}
<1>1. D \subseteq Nat /\ D # {}
  <2>1. PICK k \in 2..(n - 1) : n % k = 0
    BY DEF Composite
  <2>2. k \in D
    BY <2>1
  <2>3. QED BY <2>2
<1>2. PICK d \in D : \A e \in D : d <= e
  BY <1>1, Least
<1>3. d \in Nat /\ d >= 2 /\ d < n /\ n % d = 0
  BY <1>2
<1>4. PICK q \in Nat : n = q * d
  BY <1>3, MultipleIsProduct
<1>5. q >= 2
  BY <1>3, <1>4
<1>6. n = d * q
  BY <1>3, <1>4
<1>7. n % q = 0
  BY <1>3, <1>5, <1>6, ProductIsMultiple
<1>8. q < n
  BY <1>3, <1>5, <1>6
<1>9. q \in D
  BY <1>5, <1>7, <1>8
<1>10. d <= q
  BY <1>2, <1>9
<1>11. d * d <= d * q
  BY <1>3, <1>10
<1>12. ~Composite(d)
  <2> SUFFICES ASSUME NEW k \in 2..(d - 1), d % k = 0 PROVE FALSE
    BY DEF Composite
  <2>1. k \in Nat /\ k >= 2 /\ k < d
    BY <1>3
  <2>2. k \in Nat \ {0} /\ d \in Nat \ {0}
    BY <1>3, <2>1
  <2>3. n % k = 0
    BY <1>3, <2>2, DivisorOfDivisor, Zenon
  <2>4. k \in D
    BY <1>3, <2>1, <2>3
  <2>5. d <= k
    BY <1>2, <2>4, Zenon
  <2>6. QED BY <1>3, <2>1, <2>5
<1>13. 2 * d <= q * d
  BY <1>3, <1>5
<1>14. QED BY <1>3, <1>4, <1>6, <1>11, <1>12, <1>13

-----------------------------------------------------------------------------
(* Factors and words.                                                      *)

LEMMA FactorFacts ==
  ASSUME NEW n \in Factors
  PROVE  /\ n \in Nat /\ n >= 2 /\ n * n <= Max /\ 2 * n <= Max /\ n * 2 = 2 * n
         /\ n \in Nat \ {0}
<1>1. n \in Nat /\ n >= 2 /\ n * n <= Max
  BY SieveAssumption DEF Factors
<1>2. 2 * n <= n * n
  BY <1>1
<1>3. QED BY <1>1, <1>2, SieveAssumption

LEMMA FiniteFactors == IsFiniteSet(Factors) /\ Cardinality(Factors) \in Nat
<1>1. IsFiniteSet(2..Max)
  BY FS_Interval, SieveAssumption
<1>2. Factors \subseteq 2..Max
  BY DEF Factors
<1>3. QED BY <1>1, <1>2, FS_Subset, FS_CardinalityType

LEMMA WordFacts ==
  ASSUME NEW n \in Indices
  PROVE  /\ n \in WordOf(n) /\ WordOf(n) \subseteq Indices
         /\ \A m \in WordOf(n) : n \in WordOf(m)
         /\ \A m \in Indices : n \in WordOf(m) => WordOf(m) = WordOf(n)
  BY Zenon DEF WordOf

LEMMA IndexFacts ==
  /\ Max \in Nat /\ Max >= 2
  /\ \A n \in Indices : n \in Nat /\ n <= Max
  /\ \A n \in Nat : n <= Max => n \in Indices
  BY SieveAssumption DEF Indices

\* A multiple of n that is at least twice n is not prime.
LEMMA MultipleNotPrime ==
  ASSUME NEW n \in Factors, NEW m \in Nat, m % n = 0, m >= 2 * n
  PROVE  m \notin Primes
<1>1. n \in 2..(m - 1)
  BY FactorFacts
<1>2. Composite(m)
  BY <1>1 DEF Composite
<1>3. QED BY <1>2 DEF Primes

LEMMA PrimeIndices == Primes \subseteq Indices
  BY SieveAssumption DEF Primes, Indices

-----------------------------------------------------------------------------
(* Types and the counter.                                                  *)

\* All of TypeOK but the bound of the counter, which CountInv gives.
LEMMA TypeStep ==
  ASSUME TypeOK, TaskInv, [Next]_vars
  PROVE  /\ m_numbers' \subseteq Indices
         /\ pc' \in {"loop", "join", "unwind", "returned", "threw"}
         /\ i' \in 2..(Max + 1)
         /\ task' \in [Factors -> {"none", "ready", "load", "store", "done"}]
         /\ j' \in [Factors -> 0..(2 * Max)]
         /\ word' \in [Factors -> SUBSET Indices]
<1> DEFINE Typed ==
      /\ m_numbers \subseteq Indices
      /\ pc \in {"loop", "join", "unwind", "returned", "threw"}
      /\ i \in 2..(Max + 1)
      /\ task \in [Factors -> {"none", "ready", "load", "store", "done"}]
      /\ j \in [Factors -> 0..(2 * Max)]
      /\ word \in [Factors -> SUBSET Indices]
<1>0. Typed
  BY DEF TypeOK
<1> SUFFICES Typed'
  OBVIOUS
<1>1. CASE Spawn
  <2>1. i' \in 2..(Max + 1)
    <3>1. i \in Nat /\ i >= 2 /\ i * i <= Max /\ i' = i + 1
      BY <1>0, <1>1, SieveAssumption DEF Spawn
    <3>2. 2 * i <= i * i
      BY <3>1
    <3>3. QED BY <3>1, <3>2, SieveAssumption
  <2>2. QED BY <1>0, <1>1, <2>1 DEF Spawn
<1>2. CASE SpawnThrows \/ EndLoop \/ Join
  BY <1>0, <1>2 DEF SpawnThrows, EndLoop, Join
<1>3. ASSUME NEW n \in Factors, Begin(n) PROVE Typed'
  <2>1. n * 2 \in 0..(2 * Max)
    BY FactorFacts, SieveAssumption
  <2>2. QED BY <1>0, <1>3, <2>1 DEF Begin
<1>4. ASSUME NEW n \in Factors, Load(n) PROVE Typed'
  BY <1>0, <1>4 DEF Load
<1>5. ASSUME NEW n \in Factors, Store(n) PROVE Typed'
  <2>1. j[n] <= Max /\ task[n] = "store"
    BY <1>5 DEF Store, TaskInv
  <2>2. j[n] + n \in 0..(2 * Max)
    BY <1>0, <2>1, FactorFacts, SieveAssumption
  <2>3. QED BY <1>0, <1>5, <2>2 DEF Store
<1>6. ASSUME NEW n \in Factors, End(n) PROVE Typed'
  BY <1>0, <1>6 DEF End
<1>7. CASE UNCHANGED vars
  BY <1>0, <1>7 DEF vars
<1> HIDE DEF Typed
<1>8. QED
  BY <1>1, <1>2, <1>3, <1>4, <1>5, <1>6, <1>7 DEF Next, Build, BuildFor, Finished

LEMMA CountStep == TypeOK /\ TaskInv /\ CountInv /\ [Next]_vars => CountInv'
<1> SUFFICES ASSUME TypeOK, TaskInv, CountInv, [Next]_vars PROVE CountInv'
  OBVIOUS
<1>0. /\ task \in [Factors -> {"none", "ready", "load", "store", "done"}]
      /\ IsFiniteSet(Running) /\ Cardinality(Running) \in Nat
      /\ m_async_count = Cardinality(Running)
  <2>1. Running \subseteq Factors
    BY DEF Running
  <2>2. QED BY <2>1, FiniteFactors, FS_Subset, FS_CardinalityType DEF TypeOK, CountInv
<1>1. ASSUME UNCHANGED m_async_count, Running' = Running PROVE CountInv'
  BY <1>0, <1>1 DEF CountInv
<1>2. CASE Spawn
  <2>1. \A n \in Factors : task[n] # "none" => n # i
    BY DEF TypeOK, TaskInv
  <2>2. Running' = Running
    BY <1>0, <1>2, <2>1 DEF Spawn, Running
  <2>3. QED BY <1>1, <1>2, <2>2 DEF Spawn
<1>3. CASE SpawnThrows \/ EndLoop \/ Join
  BY <1>1, <1>3 DEF SpawnThrows, EndLoop, Join, Running
<1>4. ASSUME NEW n \in Factors, Begin(n) PROVE CountInv'
  <2>1. Running' = Running \cup {n} /\ n \notin Running
    BY <1>0, <1>4 DEF Begin, Running
  <2>2. Cardinality(Running') = Cardinality(Running) + 1
    BY <1>0, <2>1, FS_AddElement
  <2>3. QED BY <1>0, <1>4, <2>2 DEF Begin, CountInv
<1>5. ASSUME NEW n \in Factors, Load(n) \/ Store(n) PROVE CountInv'
  <2>1. Running' = Running
    BY <1>0, <1>5 DEF Load, Store, Running
  <2>2. QED BY <1>1, <1>5, <2>1 DEF Load, Store
<1>6. ASSUME NEW n \in Factors, End(n) PROVE CountInv'
  <2>1. Running' = Running \ {n} /\ n \in Running
    BY <1>0, <1>6 DEF End, Running
  <2>2. Cardinality(Running') = Cardinality(Running) - 1
    BY <1>0, <2>1, FS_RemoveElement
  <2>3. QED BY <1>0, <1>6, <2>2 DEF End, CountInv
<1>7. CASE UNCHANGED vars
  BY <1>1, <1>7 DEF vars, Running
<1>8. QED
  BY <1>2, <1>3, <1>4, <1>5, <1>6, <1>7 DEF Next, Build, BuildFor, Finished

LEMMA CountBounded == CountInv => m_async_count \in 0..Cardinality(Factors)
<1>1. Running \subseteq Factors
  BY DEF Running
<1>2. Cardinality(Running) \in Nat /\ Cardinality(Running) <= Cardinality(Factors)
  BY <1>1, FiniteFactors, FS_Subset, FS_CardinalityType
<1>3. QED BY <1>2, FiniteFactors DEF CountInv

-----------------------------------------------------------------------------
(* The primes.                                                             *)

\* What a step of the task for m leaves alone of the others.
LEMMA OthersUntouched ==
  ASSUME TypeOK, NEW m \in Factors, BuildFor(m), NEW n \in Factors, n # m
  PROVE  task'[n] = task[n] /\ j'[n] = j[n] /\ word'[n] = word[n] /\ i' = i /\ pc' = pc
  BY DEF TypeOK, BuildFor, Begin, Load, Store, End

LEMMA TaskStep == TypeOK /\ TaskInv /\ PrimesStay /\ [Next]_vars => TaskInv'
<1> SUFFICES ASSUME TypeOK, TaskInv, PrimesStay, [Next]_vars PROVE TaskInv'
  OBVIOUS
<1>0. /\ task \in [Factors -> {"none", "ready", "load", "store", "done"}]
      /\ j \in [Factors -> 0..(2 * Max)]
      /\ word \in [Factors -> SUBSET Indices]
      /\ i \in Nat /\ Max \in Nat
  BY SieveAssumption DEF TypeOK
<1> DEFINE Fine(n) ==
      /\ task[n] # "none" => n < i
      /\ task[n] \in {"load", "store", "done"} =>
           j[n] % n = 0 /\ j[n] >= 2 * n /\ j[n] <= Max + n
      /\ task[n] = "store" => /\ j[n] <= Max
                              /\ word[n] \subseteq WordOf(j[n])
                              /\ Primes \cap WordOf(j[n]) \subseteq word[n]
      /\ task[n] = "done" => j[n] > Max
<1> SUFFICES ASSUME NEW n \in Factors PROVE Fine(n)'
  BY DEF TaskInv
<1>1. Fine(n) /\ n \in Nat
  BY FactorFacts DEF TaskInv
<1>2. CASE Spawn
  BY <1>0, <1>1, <1>2 DEF Spawn
<1>3. CASE SpawnThrows \/ EndLoop \/ Join
  BY <1>0, <1>1, <1>3 DEF SpawnThrows, EndLoop, Join
<1>4. ASSUME NEW m \in Factors, BuildFor(m), m # n PROVE Fine(n)'
  BY <1>1, <1>4, OthersUntouched
<1>5. CASE Begin(n)
  <2>1. (n * 2) % n = 0 /\ n * 2 >= 2 * n /\ n * 2 <= Max + n
    <3>1. (2 * n) % n = 0
      BY FactorFacts, ProductIsMultiple
    <3>2. QED BY <1>0, <3>1, FactorFacts
  <2>2. task'[n] = "load" /\ j'[n] = n * 2 /\ i' = i /\ task[n] = "ready"
    BY <1>0, <1>5 DEF Begin
  <2>3. QED BY <1>1, <2>1, <2>2
<1>6. CASE Load(n)
  <2>1. /\ task[n] = "load" /\ task'[n] = "store" /\ j'[n] = j[n] /\ i' = i
        /\ word'[n] = WordOf(j[n]) \cap m_numbers /\ j[n] <= Max
    BY <1>0, <1>6 DEF Load
  <2>2. Primes \cap WordOf(j[n]) \subseteq word'[n] /\ word'[n] \subseteq WordOf(j[n])
    BY <2>1 DEF PrimesStay
  <2>3. QED BY <1>1, <2>1, <2>2
<1>7. CASE Store(n)
  <2>1. /\ task[n] = "store" /\ task'[n] = "load" /\ j'[n] = j[n] + n /\ i' = i
    BY <1>0, <1>7 DEF Store
  <2>2. j[n] \in Nat /\ j[n] % n = 0 /\ j[n] >= 2 * n /\ j[n] <= Max
    BY <1>0, <1>1, <2>1
  <2>3. (j[n] + n) % n = 0
    BY <2>2, FactorFacts, NextMultiple
  <2>4. j[n] + n >= 2 * n /\ j[n] + n <= Max + n
    BY <1>0, <1>1, <2>2
  <2>5. QED BY <1>1, <2>1, <2>3, <2>4
<1>8. CASE End(n)
  <2>1. /\ task[n] = "load" /\ task'[n] = "done" /\ j'[n] = j[n] /\ i' = i /\ j[n] > Max
    BY <1>0, <1>8 DEF End
  <2>2. QED BY <1>1, <2>1
<1>9. CASE UNCHANGED vars
  BY <1>1, <1>9 DEF vars
<1> HIDE DEF Fine
<1>10. QED
  BY <1>2, <1>3, <1>4, <1>5, <1>6, <1>7, <1>8, <1>9 DEF Next, Build, BuildFor, Finished

LEMMA LoopStep == TypeOK /\ LoopInv /\ PrimesStay /\ [Next]_vars => LoopInv'
<1> SUFFICES ASSUME TypeOK, LoopInv, PrimesStay, [Next]_vars PROVE LoopInv'
  OBVIOUS
<1>0. /\ task \in [Factors -> {"none", "ready", "load", "store", "done"}]
      /\ i \in Nat /\ \A n \in Factors : n \in Nat
      /\ pc \in {"loop", "join", "unwind", "returned", "threw"}
  BY FactorFacts DEF TypeOK
<1>1. CASE Spawn
  <2>1. /\ pc = "loop" /\ pc' = pc /\ i' = i + 1
        /\ task' = [task EXCEPT ![i] = IF i \in m_numbers THEN "ready" ELSE @]
    BY <1>1 DEF Spawn
  <2>2. ASSUME NEW n \in Factors \cap Primes, n < i' PROVE task'[n] # "none"
    <3>1. CASE n = i
      BY <1>0, <2>1, <3>1 DEF PrimesStay
    <3>2. CASE n < i
      BY <1>0, <2>1, <3>2 DEF LoopInv
    <3>3. QED BY <1>0, <2>1, <2>2, <3>1, <3>2
  <2>3. QED BY <2>1, <2>2 DEF LoopInv
<1>2. CASE SpawnThrows
  BY <1>2 DEF SpawnThrows, LoopInv
<1>3. CASE EndLoop
  BY <1>3 DEF EndLoop, LoopInv
<1>4. CASE Join
  BY <1>0, <1>4 DEF Join, LoopInv
<1>5. ASSUME NEW m \in Factors, BuildFor(m) PROVE LoopInv'
  <2>1. \A n \in Factors : task[n] # "none" => task'[n] # "none"
    BY <1>0, <1>5 DEF BuildFor, Begin, Load, Store, End
  <2>2. pc' = pc /\ i' = i
    BY <1>5 DEF BuildFor, Begin, Load, Store, End
  <2>3. task[m] \notin {"none", "done"}
    BY <1>5 DEF BuildFor, Begin, Load, Store, End
  <2>4. QED BY <2>1, <2>2, <2>3 DEF LoopInv
<1>6. CASE UNCHANGED vars
  BY <1>6 DEF vars, LoopInv
<1>7. QED
  BY <1>1, <1>2, <1>3, <1>4, <1>5, <1>6 DEF Next, Build, Finished

LEMMA PrimesStep == TypeOK /\ TaskInv /\ PrimesStay /\ [Next]_vars => PrimesStay'
<1> SUFFICES ASSUME TypeOK, TaskInv, PrimesStay, [Next]_vars,
                    NEW p \in Primes
             PROVE  p \in m_numbers'
  BY DEF PrimesStay
<1>1. CASE UNCHANGED m_numbers
  BY <1>1 DEF PrimesStay
<1>2. ASSUME NEW n \in Factors, Store(n) PROVE p \in m_numbers'
  <2>1. /\ task[n] = "store"
        /\ m_numbers' = (m_numbers \ WordOf(j[n])) \cup (word[n] \ {j[n]})
    BY <1>2 DEF Store
  <2>2. Primes \cap WordOf(j[n]) \subseteq word[n]
    BY <2>1 DEF TaskInv
  <2>3. j[n] \in Nat /\ j[n] % n = 0 /\ j[n] >= 2 * n
    BY <2>1 DEF TaskInv, TypeOK
  <2>4. p # j[n]
    BY <2>3, MultipleNotPrime
  <2>5. QED BY <2>1, <2>2, <2>4 DEF PrimesStay
<1>3. QED
  BY <1>1, <1>2 DEF Next, Build, BuildFor, Finished, Spawn, SpawnThrows, EndLoop, Join,
     Begin, Load, End, vars

-----------------------------------------------------------------------------
(* The composites.                                                         *)

LEMMA TouchesStable ==
  ASSUME TypeOK, TaskInv, [Next]_vars, NEW f \in Factors, NEW n, Touches(f, n)
  PROVE  Touches(f, n)'
<1>1. task \in [Factors -> {"none", "ready", "load", "store", "done"}] /\ task[f] # "none"
  BY DEF TypeOK, Touches
<1>2. task'[f] # "none"
  BY <1>1 DEF Next, Build, BuildFor, Finished, Spawn, SpawnThrows, EndLoop, Join, Begin,
     Load, Store, End, vars
<1>3. QED BY <1>2 DEF Touches

LEMMA ClearedStep == TypeOK /\ TaskInv /\ ClearedInv /\ [Next]_vars => ClearedInv'
<1> SUFFICES ASSUME TypeOK, TaskInv, ClearedInv, [Next]_vars PROVE ClearedInv'
  OBVIOUS
<1> DEFINE Left(d, n) ==
      /\ task[d] \in {"load", "store", "done"} /\ j[d] > n
      /\ n \in m_numbers \/ (task[d] = "store" /\ n \in word[d])
<1> SUFFICES ASSUME NEW d \in Factors, NEW n \in Indices, n % d = 0, n >= 2 * d, Left(d, n)'
             PROVE  \E f \in Factors \ {d} : Touches(f, n)'
  BY DEF ClearedInv
<1>0. /\ task \in [Factors -> {"none", "ready", "load", "store", "done"}]
      /\ j \in [Factors -> 0..(2 * Max)]
      /\ word \in [Factors -> SUBSET Indices]
      /\ m_numbers \subseteq Indices
      /\ i \in Nat /\ Max \in Nat /\ n \in Nat /\ d \in Nat \ {0} /\ d >= 2 /\ j[d] \in Nat
  BY SieveAssumption, IndexFacts, FactorFacts DEF TypeOK
<1>1. ASSUME Left(d, n) PROVE \E f \in Factors \ {d} : Touches(f, n)'
  <2>1. PICK f \in Factors \ {d} : Touches(f, n)
    BY <1>1 DEF ClearedInv
  <2>2. Touches(f, n)'
    BY <2>1, TouchesStable
  <2>3. QED BY <2>2
<1>2. CASE Spawn
  <2>1. d < i \/ task[d] = "none"
    BY DEF TaskInv
  <2>2. task'[d] = task[d] \/ task'[d] = "ready"
    BY <1>0, <1>2 DEF Spawn
  <2>3. Left(d, n)
    BY <1>2, <2>2 DEF Spawn
  <2>4. QED BY <1>1, <2>3
<1>3. CASE SpawnThrows \/ EndLoop \/ Join \/ UNCHANGED vars
  BY <1>1, <1>3 DEF SpawnThrows, EndLoop, Join, vars
<1>4. ASSUME NEW m \in Factors, BuildFor(m), m # d
      PROVE  \E f \in Factors \ {d} : Touches(f, n)'
  <2>1. task'[d] = task[d] /\ j'[d] = j[d] /\ word'[d] = word[d]
    BY <1>4, OthersUntouched
  <2>2. CASE Left(d, n)
    BY <1>1, <2>2
  <2>3. CASE ~Left(d, n)
    <3>1. n \in m_numbers' /\ n \notin m_numbers
      BY <2>1, <2>3
    <3>2. /\ task[m] = "store"
          /\ m_numbers' = (m_numbers \ WordOf(j[m])) \cup (word[m] \ {j[m]})
      BY <1>4, <3>1 DEF BuildFor, Begin, Load, Store, End
    <3>3. /\ j[m] \in Nat /\ j[m] <= Max /\ j[m] % m = 0 /\ j[m] >= 2 * m
          /\ word[m] \subseteq WordOf(j[m])
      BY <1>0, <3>2 DEF TaskInv
    <3>4. n \in WordOf(j[m]) /\ j[m] \in Indices
      BY <3>1, <3>2, <3>3, IndexFacts
    <3>5. j[m] \in WordOf(n)
      BY <3>4, WordFacts
    <3>6. Touches(m, n)
      BY <3>2, <3>3, <3>5 DEF Touches
    <3>7. Touches(m, n)'
      BY <3>6, TouchesStable
    <3>8. QED BY <1>4, <3>7
  <2>4. QED BY <2>2, <2>3
<1>5. CASE Begin(d)
  <2>1. j'[d] = d * 2
    BY <1>0, <1>5 DEF Begin
  <2>2. QED BY <1>0, <2>1
<1>6. CASE Load(d)
  <2>1. /\ task[d] = "load" /\ j'[d] = j[d] /\ m_numbers' = m_numbers
        /\ word'[d] = WordOf(j[d]) \cap m_numbers
    BY <1>0, <1>6 DEF Load
  <2>2. QED BY <1>1, <2>1
<1>7. CASE Store(d)
  <2>1. /\ task[d] = "store" /\ j'[d] = j[d] + d /\ task'[d] = "load"
        /\ m_numbers' = (m_numbers \ WordOf(j[d])) \cup (word[d] \ {j[d]})
    BY <1>0, <1>7 DEF Store
  <2>2. j[d] % d = 0
    BY <2>1 DEF TaskInv
  <2>3. CASE j[d] > n
    BY <1>1, <2>1, <2>3
  <2>4. CASE j[d] = n
    <3>1. n \in WordOf(n)
      BY WordFacts
    <3>2. QED BY <2>1, <2>4, <3>1
  <2>5. CASE j[d] < n
    <3>1. j[d] + d <= n
      BY <1>0, <2>2, <2>5, MultiplesApart
    <3>2. QED BY <1>0, <2>1, <3>1
  <2>6. QED BY <1>0, <2>3, <2>4, <2>5
<1>8. CASE End(d)
  <2>1. /\ task[d] = "load" /\ j'[d] = j[d] /\ m_numbers' = m_numbers
        /\ task'[d] = "done"
    BY <1>0, <1>8 DEF End
  <2>2. QED BY <1>1, <2>1
<1> HIDE DEF Left
<1>9. QED
  BY <1>2, <1>3, <1>4, <1>5, <1>6, <1>7, <1>8 DEF Next, Build, BuildFor, Finished

-----------------------------------------------------------------------------
(* The theorems.                                                           *)

LEMMA SieveInvariant == Spec => []SieveInv
<1>1. Init => SieveInv
  <2> SUFFICES ASSUME Init PROVE SieveInv
    OBVIOUS
  <2>1. CountInv
    <3>1. Running = {}
      BY DEF Init, Running
    <3>2. QED BY <3>1, FS_EmptySet DEF Init, CountInv
  <2>2. TypeOK
    <3>1. 0 \in 0..(2 * Max) /\ 2 \in 2..(Max + 1)
      BY SieveAssumption
    <3>2. m_async_count \in 0..Cardinality(Factors)
      BY <2>1, CountBounded
    <3>3. QED BY <3>1, <3>2 DEF Init, TypeOK
  <2>3. \A n \in Factors : task[n] = "none"
    BY DEF Init
  <2>4. TaskInv
    BY <2>3 DEF TaskInv
  <2>5. LoopInv
    <3>1. \A n \in Factors : ~(n < i)
      BY FactorFacts DEF Init
    <3>2. QED BY <3>1 DEF Init, LoopInv
  <2>6. PrimesStay
    BY PrimeIndices DEF Init, PrimesStay
  <2>7. ClearedInv
    BY <2>3 DEF ClearedInv
  <2>8. QED BY <2>1, <2>2, <2>4, <2>5, <2>6, <2>7 DEF SieveInv
<1>2. SieveInv /\ [Next]_vars => SieveInv'
  <2> SUFFICES ASSUME SieveInv, [Next]_vars PROVE SieveInv'
    OBVIOUS
  <2>1. TypeOK /\ CountInv /\ TaskInv /\ LoopInv /\ PrimesStay /\ ClearedInv
    BY DEF SieveInv
  <2>2. CountInv' /\ TaskInv' /\ LoopInv' /\ PrimesStay' /\ ClearedInv'
    BY <2>1, CountStep, TaskStep, LoopStep, PrimesStep, ClearedStep
  <2>3. (m_async_count \in 0..Cardinality(Factors))'
    BY <2>2, CountBounded, PTL
  <2>4. TypeOK'
    BY <2>1, <2>3, TypeStep DEF TypeOK
  <2>5. QED BY <2>2, <2>4 DEF SieveInv
<1>3. QED BY <1>1, <1>2, PTL DEF Spec

\* The sieve is typed: the counter of running tasks never goes below zero nor
\* above the number of tasks, the loop variables of build and build_for stay
\* below twice the maximum, and every index that is stored is in m_numbers.
THEOREM TypeCorrect == Spec => []TypeOK
<1>1. SieveInv => TypeOK
  BY DEF SieveInv
<1>2. QED BY <1>1, SieveInvariant, PTL

\* For every maximum and every size of a word: no interleaving of the
\* build_for tasks clears the element of a prime.
THEOREM NoPrimeIsCleared == Spec => []PrimesStay
<1>1. SieveInv => PrimesStay
  BY DEF SieveInv
<1>2. QED BY <1>1, SieveInvariant, PTL

LEMMA TwoWriters ==
  ASSUME NEW n, NEW d \in Writers(n), NEW f \in Writers(n), d # f
  PROVE  Cardinality(Writers(n)) >= 2
<1>1. Writers(n) \subseteq Factors
  BY DEF Writers
<1>2. IsFiniteSet(Writers(n)) /\ Cardinality(Writers(n)) \in Nat
  BY <1>1, FiniteFactors, FS_Subset, FS_CardinalityType
<1>3. IsFiniteSet({d}) /\ Cardinality({d}) = 1
  BY FS_Singleton
<1>4. Cardinality({d} \cup {f}) = 2
  BY <1>3, FS_AddElement
<1>5. {d} \cup {f} \subseteq Writers(n)
  OBVIOUS
<1>6. Cardinality({d} \cup {f}) <= Cardinality(Writers(n))
  BY <1>2, <1>5, FS_Subset
<1>7. QED BY <1>2, <1>4, <1>6

\* For every maximum and every size of a word: when build has returned, the
\* only composite numbers that are still marked prime lie in words that two
\* build_for tasks have written, so only a lost update leaves one behind.
THEOREM OnlySharedWordsLeaveComposites == Spec => []OnlySharedWordsFail
<1>1. SieveInv => OnlySharedWordsFail
  <2> SUFFICES ASSUME SieveInv, pc = "returned",
                      NEW n \in m_numbers, n >= 2, Composite(n)
               PROVE  Cardinality(Writers(n)) >= 2
    BY DEF OnlySharedWordsFail
  <2>0. TypeOK /\ TaskInv /\ LoopInv /\ ClearedInv
    BY DEF SieveInv
  <2>1. n \in Indices /\ n \in Nat /\ n <= Max /\ Max \in Nat
    BY <2>0, IndexFacts DEF TypeOK
  <2>2. PICK d \in Nat : d >= 2 /\ d * d <= n /\ n % d = 0 /\ n >= 2 * d /\ ~Composite(d)
    BY <2>1, SmallPrimeDivisor
  <2>3. d * d <= Max /\ d <= Max
    BY <2>1, <2>2
  <2>4. d \in Factors \cap Primes
    BY <2>2, <2>3 DEF Factors, Primes
  <2>5. d < i
    <3>1. i * i > Max /\ i \in Nat
      BY <2>0 DEF LoopInv, TypeOK
    <3>2. ASSUME i <= d PROVE FALSE
      <4>1. i * i <= d * d
        BY <2>2, <3>1, <3>2
      <4>2. QED BY <2>1, <2>2, <2>3, <3>1, <4>1
    <3>3. QED BY <2>2, <3>1, <3>2
  <2>6. \A f \in Factors : task[f] # "none" => task[f] = "done"
    BY <2>0 DEF LoopInv
  <2>7. task[d] = "done"
    BY <2>0, <2>4, <2>5, <2>6 DEF LoopInv
  <2>8. j[d] > n
    <3>1. j[d] > Max /\ j[d] \in Nat
      BY <2>0, <2>4, <2>7 DEF TaskInv, TypeOK
    <3>2. QED BY <2>1, <3>1
  <2>9. PICK f \in Factors \ {d} : Touches(f, n)
    BY <2>0, <2>1, <2>2, <2>4, <2>7, <2>8 DEF ClearedInv
  <2>10. f \in Writers(n)
    BY <2>6, <2>9 DEF Touches, Writers
  <2>11. d \in Writers(n)
    BY <2>1, <2>2, <2>4, <2>7, WordFacts DEF Writers
  <2>12. QED BY <2>9, <2>10, <2>11, TwoWriters
<1>2. QED BY <1>1, SieveInvariant, PTL
=============================================================================
