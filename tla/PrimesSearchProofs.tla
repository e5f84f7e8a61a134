-------------------------- MODULE PrimesSearchProofs -------------------------
(***************************************************************************)
(* Theorems about PrimesSearch, for every number of threads, every maximum *)
(* and portion and every limit of the counter.                             *)
(***************************************************************************)
EXTENDS PrimesSearch, FiniteSetTheorems, SequenceTheorems, TLAPS

-----------------------------------------------------------------------------
(* Paths.                                                                  *)

LEMMA PathFacts ==
  ASSUME NEW q \in Paths
  PROVE  /\ Limit \in Nat /\ q \in Seq({0, 1}) /\ Len(q) \in Nat /\ Len(q) <= Limit
         /\ \A k \in 1..Len(q) : q[k] \in {0, 1}
<1>1. PICK n \in 0..Limit : q \in [1..n -> {0, 1}]
  BY DEF Paths
<1>2. n \in Nat /\ n <= Limit /\ Limit \in Nat
  BY <1>1, SearchAssumption
<1>3. q \in Seq({0, 1})
  BY <1>1, <1>2, SeqDef
<1>4. Len(q) = n
  BY <1>1, <1>2, <1>3, LenProperties
<1>5. QED BY <1>1, <1>2, <1>3, <1>4

LEMMA IsPath ==
  ASSUME NEW q \in Seq({0, 1}), Len(q) <= Limit
  PROVE  q \in Paths
<1>1. Len(q) \in 0..Limit /\ q \in [1..Len(q) -> {0, 1}]
  BY SearchAssumption, LenProperties
<1>2. QED BY <1>1 DEF Paths

LEMMA RootFacts == Root \in Paths /\ Len(Root) = 0 /\ Above(Root) = {}
<1>1. Root \in Seq({0, 1}) /\ Len(Root) = 0
  BY EmptySeq DEF Root
<1>2. Root \in Paths
  <2>1. Len(Root) <= Limit
    BY <1>1, SearchAssumption
  <2>2. QED BY <1>1, <2>1, IsPath, Zenon
<1>3. 0..(Len(Root) - 1) = {}
  BY <1>1
<1>4. QED BY <1>1, <1>2, <1>3 DEF Above

\* The calls that a call with path q makes.
Halves(q) == {Left(q), Right(q)}

LEMMA HalfFacts ==
  ASSUME NEW q \in Paths
  PROVE  /\ Left(q) # Right(q)
         /\ \A h \in Halves(q) : /\ h \in Seq({0, 1}) /\ Len(h) = Len(q) + 1 /\ h # Root
                                 /\ h # q
                                 /\ Len(q) < Limit => h \in Paths
                                 /\ SubSeq(h, 1, Len(h) - 1) = q
         /\ \A p \in Paths : p # q => Halves(p) \cap Halves(q) = {}
<1>1. q \in Seq({0, 1}) /\ Len(q) \in Nat /\ 0 \in {0, 1} /\ 1 \in {0, 1}
  BY PathFacts
<1>2. Left(q) # Right(q)
  BY <1>1, AppendInjective DEF Left, Right
<1>3. ASSUME NEW b \in {0, 1}
      PROVE  /\ Append(q, b) \in Seq({0, 1}) /\ Len(Append(q, b)) = Len(q) + 1
             /\ Append(q, b) # Root /\ Append(q, b) # q
             /\ SubSeq(Append(q, b), 1, Len(Append(q, b)) - 1) = q
  <2>1. /\ Append(q, b) \in Seq({0, 1}) /\ Len(Append(q, b)) = Len(q) + 1
        /\ Append(q, b) # Root /\ \A k \in 1..Len(q) : Append(q, b)[k] = q[k]
    BY <1>1, AppendProperties DEF Root
  <2>2. \A k \in 1..Len(q) : Append(q, b)[k] \in {0, 1}
    BY <2>1, PathFacts
  <2>3. /\ SubSeq(Append(q, b), 1, Len(q)) \in Seq({0, 1})
        /\ Len(SubSeq(Append(q, b), 1, Len(q))) = Len(q)
        /\ \A k \in 1..Len(q) : SubSeq(Append(q, b), 1, Len(q))[k] = Append(q, b)[k]
    <3>1. 1 \in Int /\ Len(q) \in Int
      BY <1>1
    <3>2. /\ SubSeq(Append(q, b), 1, Len(q)) \in Seq({0, 1})
          /\ Len(SubSeq(Append(q, b), 1, Len(q))) = IF 1 <= Len(q) THEN Len(q) - 1 + 1 ELSE 0
          /\ \A k \in 1..(Len(q) - 1 + 1) :
               SubSeq(Append(q, b), 1, Len(q))[k] = Append(q, b)[1 + k - 1]
      BY <2>2, <3>1, SubSeqProperties
    <3>3. QED BY <1>1, <3>2
  <2>4. SubSeq(Append(q, b), 1, Len(q)) = q
    BY <1>1, <2>1, <2>3, SeqEqual
  <2>5. Len(Append(q, b)) - 1 = Len(q) /\ Append(q, b) # q
    BY <1>1, <2>1
  <2>6. QED BY <2>1, <2>4, <2>5, Zenon
<1>4. ASSUME NEW p \in Paths, NEW b \in {0, 1}, NEW c \in {0, 1}, Append(p, b) = Append(q, c)
      PROVE  p = q
  <2>1. p \in Seq({0, 1})
    BY PathFacts
  <2>2. QED BY <1>1, <1>4, <2>1, AppendInjective
<1>5. \A h : h \in Halves(q) => \E b \in {0, 1} : h = Append(q, b)
  BY DEF Halves, Left, Right
<1>6. ASSUME NEW b \in {0, 1}, Len(q) < Limit PROVE Append(q, b) \in Paths
  <2>1. Append(q, b) \in Seq({0, 1}) /\ Len(Append(q, b)) = Len(q) + 1
    BY <1>3
  <2>2. Len(Append(q, b)) <= Limit
    BY <1>1, <1>6, <2>1, SearchAssumption
  <2>3. QED BY <2>1, <2>2, IsPath, Zenon
<1>7. ASSUME NEW p \in Paths, NEW h \in Halves(p) \cap Halves(q) PROVE p = q
  BY <1>4, <1>7 DEF Halves, Left, Right
<1>8. QED BY <1>2, <1>3, <1>5, <1>6, <1>7

\* The strict prefixes of a path.
LEMMA PrefixFacts ==
  ASSUME NEW q \in Paths, NEW k \in 0..Len(q)
  PROVE  /\ SubSeq(q, 1, k) \in Paths /\ Len(SubSeq(q, 1, k)) = k
         /\ \A n \in 1..k : SubSeq(q, 1, k)[n] = q[n]
         /\ k = Len(q) => SubSeq(q, 1, k) = q
<1>1. /\ q \in Seq({0, 1}) /\ Len(q) \in Nat /\ k \in Nat /\ k <= Len(q) /\ Len(q) <= Limit
      /\ Limit \in Nat
  BY PathFacts
<1>2. \A n \in 1..k : q[n] \in {0, 1}
  BY <1>1, PathFacts
<1>3. 1 \in Int /\ k \in Int
  BY <1>1
<1>4. /\ SubSeq(q, 1, k) \in Seq({0, 1})
      /\ Len(SubSeq(q, 1, k)) = IF 1 <= k THEN k - 1 + 1 ELSE 0
      /\ \A n \in 1..(k - 1 + 1) : SubSeq(q, 1, k)[n] = q[1 + n - 1]
  BY <1>2, <1>3, SubSeqProperties
<1>5. Len(SubSeq(q, 1, k)) = k /\ \A n \in 1..k : SubSeq(q, 1, k)[n] = q[n]
  BY <1>1, <1>4
<1>6. SubSeq(q, 1, k) \in Paths
  <2>1. Len(SubSeq(q, 1, k)) <= Limit
    BY <1>1, <1>5
  <2>2. QED BY <1>4, <2>1, IsPath, Zenon
<1>7. k = Len(q) => SubSeq(q, 1, k) = q
  BY <1>1, SubSeqFull
<1>8. QED BY <1>5, <1>6, <1>7

\* The call of which a call is a half.
Caller(q) == SubSeq(q, 1, Len(q) - 1)

LEMMA NextPrefix ==
  ASSUME NEW q \in Paths, NEW k \in 0..(Len(q) - 1)
  PROVE  SubSeq(q, 1, k + 1) \in Halves(SubSeq(q, 1, k))
<1>1. /\ q \in Seq({0, 1}) /\ Len(q) \in Nat /\ k \in Nat /\ k + 1 <= Len(q)
      /\ k \in 0..Len(q) /\ k + 1 \in 0..Len(q) /\ k + 1 \in 1..Len(q)
  BY PathFacts
<1> DEFINE s == SubSeq(q, 1, k)
           t == SubSeq(q, 1, k + 1)
<1>2. /\ s \in Paths /\ Len(s) = k /\ \A n \in 1..k : s[n] = q[n]
      /\ t \in Paths /\ Len(t) = k + 1 /\ \A n \in 1..(k + 1) : t[n] = q[n]
  BY <1>1, PrefixFacts
<1>3. q[k + 1] \in {0, 1}
  BY <1>1, PathFacts
<1>4. s \in Seq({0, 1}) /\ t \in Seq({0, 1})
  BY <1>2, PathFacts
<1> HIDE DEF s, t
<1>5. /\ Append(s, q[k + 1]) \in Seq({0, 1})
      /\ Len(Append(s, q[k + 1])) = k + 1
      /\ \A n \in 1..k : Append(s, q[k + 1])[n] = s[n]
      /\ Append(s, q[k + 1])[k + 1] = q[k + 1]
  BY <1>2, <1>3, <1>4, AppendProperties
<1>6. \A n \in 1..Len(t) : t[n] = Append(s, q[k + 1])[n]
  <2>1. ASSUME NEW n \in 1..Len(t) PROVE t[n] = Append(s, q[k + 1])[n]
    <3>1. CASE n = k + 1
      BY <1>1, <1>2, <1>5, <3>1
    <3>2. CASE n \in 1..k
      <4>1. t[n] = q[n]
        BY <1>1, <1>2, <3>2
      <4>2. QED BY <1>2, <1>5, <3>2, <4>1
    <3>3. QED BY <1>1, <1>2, <3>1, <3>2
  <2>2. QED BY <2>1
<1>7. t = Append(s, q[k + 1])
  BY <1>2, <1>4, <1>5, <1>6, SeqEqual
<1>8. t \in Halves(s)
  BY <1>3, <1>7 DEF Halves, Left, Right
<1>9. QED BY <1>8 DEF s, t

LEMMA CallerFacts ==
  ASSUME NEW q \in Paths, q # Root
  PROVE  /\ Caller(q) \in Paths /\ q \in Halves(Caller(q)) /\ Caller(q) \in Above(q)
         /\ Len(q) = Len(Caller(q)) + 1
<1>1. Len(q) \in Nat /\ Len(q) > 0
  BY PathFacts, EmptySeq DEF Root
<1>2. Len(q) - 1 \in 0..(Len(q) - 1) /\ Len(q) - 1 \in 0..Len(q) /\ Len(q) \in 0..Len(q)
      /\ (Len(q) - 1) + 1 = Len(q)
  BY <1>1
<1>3. Caller(q) \in Paths /\ Len(Caller(q)) = Len(q) - 1 /\ SubSeq(q, 1, Len(q)) = q
  BY <1>2, PrefixFacts DEF Caller
<1>4. SubSeq(q, 1, (Len(q) - 1) + 1) \in Halves(Caller(q))
  BY <1>2, NextPrefix DEF Caller
<1>5. q \in Halves(Caller(q))
  BY <1>2, <1>3, <1>4
<1>6. Caller(q) \in Above(q)
  BY <1>2 DEF Above, Caller
<1>7. QED BY <1>1, <1>3, <1>5, <1>6

LEMMA AboveFacts ==
  ASSUME NEW q \in Paths
  PROVE  /\ Above(q) \subseteq Paths
         /\ q \notin Above(q)
         /\ \A p \in Above(q) : \E h \in Halves(p) : h = q \/ h \in Above(q)
<1>1. Len(q) \in Nat
  BY PathFacts
<1>2. ASSUME NEW p \in Above(q)
      PROVE  p \in Paths /\ p # q /\ \E h \in Halves(p) : h = q \/ h \in Above(q)
  <2>1. PICK k \in 0..(Len(q) - 1) : p = SubSeq(q, 1, k)
    BY DEF Above
  <2>2. k \in 0..Len(q) /\ k < Len(q) /\ k + 1 \in 0..Len(q)
    BY <1>1, <2>1
  <2>3. p \in Paths /\ Len(p) = k
    BY <2>1, <2>2, PrefixFacts
  <2>4. SubSeq(q, 1, k + 1) \in Halves(p)
    BY <2>1, NextPrefix
  <2>5. SubSeq(q, 1, k + 1) = q \/ SubSeq(q, 1, k + 1) \in Above(q)
    <3>1. CASE k + 1 = Len(q)
      BY <2>2, <3>1, PrefixFacts
    <3>2. CASE k + 1 # Len(q)
      <4>1. k + 1 \in 0..(Len(q) - 1)
        BY <1>1, <2>1, <2>2, <3>2
      <4>2. QED BY <4>1 DEF Above
    <3>3. QED BY <3>1, <3>2
  <2>6. p # q
    BY <1>1, <2>2, <2>3
  <2>7. QED BY <2>3, <2>4, <2>5, <2>6, Zenon
<1>3. QED BY <1>2

LEMMA RootAbove ==
  ASSUME NEW q \in Paths, q # Root
  PROVE  Root \in Above(q)
<1>1. Len(q) \in Nat /\ Len(q) > 0
  BY PathFacts, EmptySeq DEF Root
<1>2. 0 \in 0..(Len(q) - 1) /\ 0 < 1
  BY <1>1
<1>3. SubSeq(q, 1, 0) = Root
  BY SubSeqEmpty DEF Root
<1>4. QED BY <1>2, <1>3, Zenon DEF Above

LEMMA AboveHalf ==
  ASSUME NEW q \in Paths, NEW h \in Halves(q), h \in Paths
  PROVE  Above(h) = Above(q) \cup {q}
<1>1. Len(q) \in Nat /\ Len(h) = Len(q) + 1 /\ SubSeq(h, 1, Len(q)) = q
  <2>1. Len(q) \in Nat
    BY PathFacts
  <2>2. Len(h) = Len(q) + 1 /\ SubSeq(h, 1, Len(h) - 1) = q
    BY HalfFacts
  <2>3. Len(h) - 1 = Len(q)
    BY <2>1, <2>2
  <2>4. QED BY <2>1, <2>2, <2>3, Zenon
<1>2. ASSUME NEW k \in 0..(Len(q) - 1) PROVE SubSeq(h, 1, k) = SubSeq(q, 1, k)
  <2>1. k \in Nat /\ k \in 0..Len(q) /\ k \in 0..Len(h) /\ Len(q) \in 0..Len(h)
    BY <1>1
  <2>2. /\ SubSeq(h, 1, k) \in Paths /\ Len(SubSeq(h, 1, k)) = k
        /\ \A n \in 1..k : SubSeq(h, 1, k)[n] = h[n]
    BY <2>1, PrefixFacts
  <2>3. /\ SubSeq(q, 1, k) \in Paths /\ Len(SubSeq(q, 1, k)) = k
        /\ \A n \in 1..k : SubSeq(q, 1, k)[n] = q[n]
    BY <2>1, PrefixFacts
  <2>4. \A n \in 1..Len(q) : SubSeq(h, 1, Len(q))[n] = h[n]
    BY <2>1, PrefixFacts
  <2>5. \A n \in 1..k : q[n] = h[n]
    <3>1. \A n \in 1..Len(q) : q[n] = h[n]
      BY <1>1, <2>4, Zenon
    <3>2. QED BY <2>1, <3>1
  <2>6. SubSeq(h, 1, k) \in Seq({0, 1}) /\ SubSeq(q, 1, k) \in Seq({0, 1})
    BY <2>2, <2>3, PathFacts
  <2>7. \A n \in 1..k : SubSeq(h, 1, k)[n] = SubSeq(q, 1, k)[n]
    BY <2>2, <2>3, <2>5
  <2>8. QED BY <2>2, <2>3, <2>6, <2>7, SeqEqual
<1>3. 0..(Len(h) - 1) = 0..(Len(q) - 1) \cup {Len(q)}
  BY <1>1
<1>4. Above(h) = {SubSeq(h, 1, k) : k \in 0..(Len(q) - 1) \cup {Len(q)}}
  BY <1>3 DEF Above
<1>5. QED BY <1>1, <1>2, <1>4, Zenon DEF Above

LEMMA AboveCardinality ==
  ASSUME NEW q \in Paths
  PROVE  IsFiniteSet(Above(q)) /\ Cardinality(Above(q)) = Len(q)
<1>1. Len(q) \in Nat
  BY PathFacts
<1> DEFINE f == [k \in 0..(Len(q) - 1) |-> SubSeq(q, 1, k)]
<1>2. ASSUME NEW k \in 0..(Len(q) - 1) PROVE f[k] \in Above(q) /\ Len(f[k]) = k
  <2>1. k \in 0..Len(q)
    BY <1>1
  <2>2. QED BY <2>1, PrefixFacts DEF Above
<1>3. \A p \in Above(q) : \E k \in 0..(Len(q) - 1) : f[k] = p
  BY DEF Above
<1>4. f \in [0..(Len(q) - 1) -> Above(q)]
  BY <1>2
<1> HIDE DEF f
<1>5. f \in Bijection(0..(Len(q) - 1), Above(q))
  <2>1. \A k, n \in 0..(Len(q) - 1) : f[k] = f[n] => k = n
    BY <1>2, Zenon
  <2>2. f \in Injection(0..(Len(q) - 1), Above(q))
    BY <1>4, <2>1 DEF Injection, IsInjective
  <2>3. f \in Surjection(0..(Len(q) - 1), Above(q))
    BY <1>3, <1>4 DEF Surjection
  <2>4. QED BY <2>2, <2>3 DEF Bijection
<1>6. IsFiniteSet(0..(Len(q) - 1)) /\ Cardinality(0..(Len(q) - 1)) = Len(q)
  <2>1. 0 \in Int /\ Len(q) - 1 \in Int
    BY <1>1
  <2>2. /\ IsFiniteSet(0..(Len(q) - 1))
        /\ Cardinality(0..(Len(q) - 1)) =
             IF 0 > Len(q) - 1 THEN 0 ELSE (Len(q) - 1) - 0 + 1
    BY <2>1, FS_Interval, Zenon
  <2>3. QED BY <1>1, <2>2
<1>7. QED BY <1>5, <1>6, FS_Bijection DEF ExistsBijection

-----------------------------------------------------------------------------
(* Frames and calls.                                                       *)

LEMMA FrameFacts ==
  ASSUME NEW f \in Frames
  PROVE  /\ f.at \in {"none", "check", "split", "join", "returned", "threw"}
         /\ f.at = "none" <=> f = NoCall
         /\ f.at = "threw" <=> f = Threw
         /\ f.at = "returned" <=> f = Returned(TRUE) \/ f = Returned(FALSE)
         /\ f.at \in {"check", "split", "join"} =>
              f \in Searching /\ f.start \in 2..Max /\ f.end \in (f.start)..Max
<1>1. CASE f \in {NoCall, Threw}
  BY <1>1 DEF NoCall, Threw, Returned
<1>2. CASE f \in {Returned(b) : b \in BOOLEAN}
  BY <1>2 DEF NoCall, Threw, Returned
<1>3. CASE f \in Searching
  BY <1>3, SearchAssumption DEF NoCall, Threw, Returned, Searching
<1>4. QED BY <1>1, <1>2, <1>3 DEF Frames

LEMMA ValueFacts ==
  /\ NoCall \in Frames /\ Threw \in Frames
  /\ NoCall.at = "none" /\ Threw.at = "threw"
  /\ \A b \in BOOLEAN : /\ Returned(b) \in Frames /\ Returned(b).at = "returned"
                        /\ Returned(b).value = b
  /\ Returned(TRUE) # Returned(FALSE)
<1>1. \A b \in BOOLEAN : Returned(b).at = "returned" /\ Returned(b).value = b
  BY DEF Returned
<1>2. Returned(TRUE) # Returned(FALSE)
  <2>1. Returned(TRUE).value # Returned(FALSE).value
    BY <1>1
  <2>2. QED BY <2>1
<1>3. NoCall.at = "none" /\ Threw.at = "threw"
  BY DEF NoCall, Threw
<1>4. NoCall \in Frames /\ Threw \in Frames /\ \A b \in BOOLEAN : Returned(b) \in Frames
  BY Zenon DEF Frames
<1>5. QED BY <1>1, <1>2, <1>3, <1>4

LEMMA CallingFacts ==
  ASSUME NEW s \in 2..Max, NEW e \in s..Max
  PROVE  /\ Calling(s, e) \in Frames /\ Calling(s, e).at = "check"
         /\ Calling(s, e).start = s /\ Calling(s, e).end = e
<1>1. e \in 2..Max /\ s <= e
  BY SearchAssumption
<1>2. Calling(s, e) \in Searching
  BY <1>1 DEF Calling, Searching
<1>3. QED BY <1>2 DEF Calling, Frames

LEMMA MidFacts ==
  ASSUME NEW f \in Searching
  PROVE  Mid(f) \in 2..Max /\ f.start <= Mid(f) /\ Mid(f) <= f.end
  BY SearchAssumption DEF Searching, Mid

LEMMA MovedFacts ==
  ASSUME NEW f \in Searching, NEW l \in {"split", "join"}
  PROVE  /\ [f EXCEPT !.at = l] \in Frames /\ [f EXCEPT !.at = l] \in Searching
         /\ [f EXCEPT !.at = l].at = l
         /\ [f EXCEPT !.at = l].start = f.start /\ [f EXCEPT !.at = l].end = f.end
<1>1. [f EXCEPT !.at = l] \in Searching
  BY DEF Searching
<1>2. QED BY <1>1 DEF Searching, Frames

LEMMA CallFacts ==
  ASSUME FrameInv
  PROVE  /\ \A t \in Threads, q \in Paths : frame[t][q] \in Frames
         /\ \A c : c \in Calls <=> /\ c \in Threads \X Paths
                                   /\ frame[c[1]][c[2]] # NoCall
         /\ \A l : \A c : c \in At(l) <=> /\ c \in Threads \X Paths
                                          /\ frame[c[1]][c[2]] # NoCall
                                          /\ frame[c[1]][c[2]].at = l
<1>1. \A t \in Threads, q \in Paths : frame[t][q] \in Frames
  BY DEF FrameInv
<1>2. \A t \in Threads, q \in Paths : frame[t][q].at = "none" <=> frame[t][q] = NoCall
  BY <1>1, FrameFacts
<1>3. QED BY <1>1, <1>2, Zenon DEF Calls, At

LEMMA Onto ==
  ASSUME NEW S, IsFiniteSet(S), NEW T, NEW f \in [S -> T], \A y \in T : \E x \in S : f[x] = y
  PROVE  IsFiniteSet(T) /\ Cardinality(T) <= Cardinality(S)
<1>1. f \in Surjection(S, T)
  BY DEF Surjection
<1>2. QED BY <1>1, FS_Surjection

\* Every call is the first one of its thread or half of a split in progress.
CallsBounded == /\ IsFiniteSet(Calls)
                /\ Cardinality(Calls) <= Cardinality(Threads) + 2 * Cardinality(At("join"))

LEMMA CallsAreBounded == FrameInv /\ TreeInv /\ JoinsInv => CallsBounded
<1> SUFFICES ASSUME FrameInv, TreeInv, JoinsInv PROVE CallsBounded
  OBVIOUS
<1> DEFINE J == At("join")
           T0 == {<<t, Root>> : t \in Threads}
           L == {<<c[1], Left(c[2])>> : c \in J}
           R == {<<c[1], Right(c[2])>> : c \in J}
<1>1. IsFiniteSet(J) /\ Cardinality(J) \in Nat
  BY FS_CardinalityType DEF JoinsInv
<1>2. IsFiniteSet(Threads) /\ Cardinality(Threads) \in Nat
  BY SearchAssumption, FS_CardinalityType
<1>3. IsFiniteSet(T0) /\ Cardinality(T0) <= Cardinality(Threads)
  <2> DEFINE f == [t \in Threads |-> <<t, Root>>]
  <2>1. f \in [Threads -> T0] /\ \A y \in T0 : \E x \in Threads : f[x] = y
    OBVIOUS
  <2> HIDE DEF f, T0
  <2>2. QED BY <1>2, <2>1, Onto
<1>4. IsFiniteSet(L) /\ Cardinality(L) <= Cardinality(J)
  <2> DEFINE f == [c \in J |-> <<c[1], Left(c[2])>>]
  <2>1. f \in [J -> L] /\ \A y \in L : \E x \in J : f[x] = y
    BY Zenon
  <2> HIDE DEF f, L, J
  <2>2. QED BY <1>1, <2>1, Onto
<1>5. IsFiniteSet(R) /\ Cardinality(R) <= Cardinality(J)
  <2> DEFINE f == [c \in J |-> <<c[1], Right(c[2])>>]
  <2>1. f \in [J -> R] /\ \A y \in R : \E x \in J : f[x] = y
    BY Zenon
  <2> HIDE DEF f, R, J
  <2>2. QED BY <1>1, <2>1, Onto
<1>6. ASSUME NEW c \in Calls PROVE c \in T0 \cup L \cup R
  <2>1. PICK t \in Threads, q \in Paths : c = <<t, q>> /\ frame[t][q] # NoCall
    BY CallFacts
  <2>2. CASE q = Root
    BY <2>1, <2>2
  <2>3. CASE q # Root
    <3>1. Caller(q) \in Paths /\ q \in Halves(Caller(q)) /\ Caller(q) \in Above(q)
      BY <2>3, CallerFacts
    <3>2. frame[t][Caller(q)].at = "join"
      BY <2>1, <3>1 DEF TreeInv
    <3>3. <<t, Caller(q)>> \in J
      BY <3>1, <3>2 DEF At, Calls
    <3>4. <<t, Left(Caller(q))>> \in L /\ <<t, Right(Caller(q))>> \in R
      BY <3>3
    <3>5. QED BY <2>1, <3>1, <3>4 DEF Halves
  <2>4. QED BY <2>2, <2>3
<1> HIDE DEF J, T0, L, R
<1>7. /\ IsFiniteSet(T0 \cup L \cup R) /\ Cardinality(T0 \cup L \cup R) \in Nat
      /\ Cardinality(T0 \cup L \cup R) <= Cardinality(T0) + Cardinality(L) + Cardinality(R)
  <2>1. /\ IsFiniteSet(T0 \cup L)
        /\ Cardinality(T0 \cup L) = Cardinality(T0) + Cardinality(L) - Cardinality(T0 \cap L)
    BY <1>3, <1>4, FS_Union
  <2>2. /\ IsFiniteSet((T0 \cup L) \cup R)
        /\ Cardinality((T0 \cup L) \cup R)
             = Cardinality(T0 \cup L) + Cardinality(R) - Cardinality((T0 \cup L) \cap R)
    BY <1>5, <2>1, FS_Union
  <2>3. IsFiniteSet(T0 \cap L) /\ IsFiniteSet((T0 \cup L) \cap R)
    BY <1>3, <2>1, FS_Intersection
  <2>4. /\ Cardinality(T0) \in Nat /\ Cardinality(L) \in Nat /\ Cardinality(R) \in Nat
        /\ Cardinality(T0 \cap L) \in Nat /\ Cardinality((T0 \cup L) \cap R) \in Nat
        /\ Cardinality(T0 \cup L) \in Nat /\ Cardinality((T0 \cup L) \cup R) \in Nat
    BY <1>3, <1>4, <1>5, <2>1, <2>2, <2>3, FS_CardinalityType
  <2>5. QED BY <2>1, <2>2, <2>4
<1>8. IsFiniteSet(Calls) /\ Cardinality(Calls) <= Cardinality(T0 \cup L \cup R)
  BY <1>6, <1>7, FS_Subset
<1>9. Cardinality(Calls) \in Nat
  BY <1>8, FS_CardinalityType
<1>10. Cardinality(T0) \in Nat /\ Cardinality(L) \in Nat /\ Cardinality(R) \in Nat
  BY <1>3, <1>4, <1>5, FS_CardinalityType
<1>11. Cardinality(Calls) <= Cardinality(Threads) + 2 * Cardinality(J)
  BY <1>1, <1>2, <1>3, <1>4, <1>5, <1>7, <1>8, <1>9, <1>10
<1>12. QED BY <1>8, <1>11 DEF J, CallsBounded

\* Every caller of a call is counted.
LEMMA DepthCounted ==
  ASSUME FrameInv, TreeInv, JoinsInv, NEW t \in Threads, NEW q \in Paths, frame[t][q] # NoCall
  PROVE  Len(q) <= m_async_count
<1> DEFINE f == [p \in Above(q) |-> <<t, p>>]
<1>1. ASSUME NEW p \in Above(q) PROVE <<t, p>> \in At("join")
  <2>1. p \in Paths /\ frame[t][p].at = "join"
    BY AboveFacts DEF TreeInv
  <2>2. QED BY <2>1 DEF At, Calls
<1>2. f \in Injection(Above(q), At("join"))
  <2>1. f \in [Above(q) -> At("join")]
    BY <1>1
  <2>2. \A a, b \in Above(q) : f[a] = f[b] => a = b
    OBVIOUS
  <2>3. QED BY <2>1, <2>2 DEF Injection, IsInjective
<1>3. IsFiniteSet(At("join")) /\ m_async_count = Cardinality(At("join")) + abandoned
  BY DEF JoinsInv, CounterIsSplits
<1>4. Cardinality(Above(q)) <= Cardinality(At("join"))
  BY <1>2, <1>3, FS_Injection
<1>5. Cardinality(Above(q)) = Len(q) /\ Len(q) \in Nat
  BY AboveCardinality, PathFacts
<1>6. Cardinality(At("join")) \in Nat /\ abandoned \in Nat
  BY <1>3, FS_CardinalityType DEF FrameInv
<1>7. QED BY <1>3, <1>4, <1>5, <1>6

-----------------------------------------------------------------------------
(* What a step does to the frames.                                         *)

LEMMA OneFrame ==
  ASSUME FrameInv, NEW t \in Threads, NEW q \in Paths, NEW g \in Frames,
         frame' = [frame EXCEPT ![t][q] = g]
  PROVE  /\ frame' \in [Threads -> [Paths -> Frames]]
         /\ frame'[t][q] = g
         /\ \A u \in Threads, p \in Paths : u # t \/ p # q => frame'[u][p] = frame[u][p]
  BY DEF FrameInv

LEMMA ThreeFrames ==
  ASSUME FrameInv, NEW t \in Threads, NEW q \in Paths, Len(q) < Limit,
         NEW g \in Frames, NEW l \in Frames, NEW r \in Frames,
         frame' = [frame EXCEPT ![t][q] = g, ![t][Left(q)] = l, ![t][Right(q)] = r]
  PROVE  /\ frame' \in [Threads -> [Paths -> Frames]]
         /\ frame'[t][q] = g /\ frame'[t][Left(q)] = l /\ frame'[t][Right(q)] = r
         /\ \A u \in Threads, p \in Paths :
              u # t \/ (p # q /\ p \notin Halves(q)) => frame'[u][p] = frame[u][p]
<1>1. /\ Left(q) \in Paths /\ Right(q) \in Paths /\ Left(q) # Right(q)
      /\ Left(q) # q /\ Right(q) # q
  BY HalfFacts DEF Halves
<1>2. QED BY <1>1 DEF FrameInv, Halves

\* The number the request of t asks for, while t searches.
LEMMA SearchedNumber ==
  ASSUME FrameInv, TreeInv, RequestInv, NEW t \in Threads, NEW q \in Paths,
         frame[t][q] # NoCall
  PROVE  frame[t][Root] # NoCall /\ number[t] \in Inputs /\ number[t] \in Int
<1>1. frame[t][Root] # NoCall
  <2>1. CASE q = Root
    BY <2>1
  <2>2. CASE q # Root
    <3>1. frame[t][Root].at = "join"
      BY <2>2, RootAbove DEF TreeInv
    <3>2. QED BY <3>1, ValueFacts
  <2>3. QED BY <2>1, <2>2
<1>2. number[t] # None
  BY <1>1 DEF RequestInv
<1>3. QED BY <1>1, <1>2, SearchAssumption DEF FrameInv

\* A thread whose first call is not waiting has no other call.
LEMMA OnlyRoot ==
  ASSUME FrameInv, TreeInv, NEW t \in Threads, frame[t][Root].at # "join",
         NEW q \in Paths, q # Root
  PROVE  frame[t][q] = NoCall
  BY RootAbove DEF TreeInv

\* The halves of a call that does not wait are not running.
LEMMA NoHalves ==
  ASSUME FrameInv, TreeInv, NEW t \in Threads, NEW q \in Paths,
         Len(q) < Limit, frame[t][q].at # "join", NEW h \in Halves(q)
  PROVE  h \in Paths /\ frame[t][h] = NoCall
<1>1. h \in Paths
  BY HalfFacts
<1>2. q \in Above(h)
  BY <1>1, AboveHalf
<1>3. QED BY <1>1, <1>2 DEF TreeInv

-----------------------------------------------------------------------------
(* The loop.                                                               *)

LEMMA SmallModulo ==
  ASSUME NEW u \in Nat, NEW m \in Nat \ {0}, u < m
  PROVE  u % m = u
<1>1. u = m * (u \div m) + (u % m) /\ u \div m \in Nat /\ u % m \in Nat
  OBVIOUS
<1>2. u \div m = 0
  <2>1. ASSUME u \div m >= 1 PROVE FALSE
    <3>1. m * (u \div m) >= m
      BY <1>1, <2>1
    <3>2. QED BY <1>1, <3>1
  <2>2. QED BY <1>1, <2>1
<1>3. QED BY <1>1, <1>2

\* An int holds the numbers up to IntMax; the next ones become negative.
LEMMA ToIntFacts ==
  ASSUME NEW u \in Nat
  PROVE  /\ ToInt(u) \in Int
         /\ u <= IntMax => ToInt(u) = u
         /\ u > IntMax /\ u <= 2 * IntMax + 1 => ToInt(u) < 0
<1>1. IntMax \in Nat /\ 2 * (IntMax + 1) \in Nat \ {0}
  BY SearchAssumption
<1>2. u % (2 * (IntMax + 1)) \in Nat
  BY <1>1
<1>3. u < 2 * (IntMax + 1) => u % (2 * (IntMax + 1)) = u
  BY <1>1, SmallModulo
<1>4. QED BY <1>1, <1>2, <1>3 DEF ToInt

\* What the loop finds has its mark, and what an int can hold is not missed.
LEMMA ScanFacts ==
  ASSUME NEW n \in Int, NEW s \in 2..Max, NEW e \in s..Max, NEW b \in Scan(n, s, e)
  PROVE  /\ b \in BOOLEAN
         /\ b = TRUE => n \in Marked /\ (n < 2 => Max > 2 * IntMax + 1)
         /\ b = FALSE => (n <= IntMax => n \notin Marked \cap (s..e))
<1>1. /\ s \in Nat /\ e \in Nat /\ s >= 2 /\ s <= e /\ e <= Max
      /\ Max \in Nat /\ IntMax \in Nat
  BY SearchAssumption
<1> DEFINE i == ToInt(s)
           Hit(last) == n \in Marked \cap i..last
<1>2. /\ i \in Int
      /\ s <= IntMax => i = s
      /\ s > IntMax /\ s <= 2 * IntMax + 1 => i < 0
  BY <1>1, ToIntFacts
<1>3. b \in IF i < 0 THEN {FALSE}
            ELSE IF e <= IntMax \/ Hit(IntMax) THEN {Hit(e)}
            ELSE {FALSE, Hit(e)}
  BY DEF Scan
<1> HIDE DEF i
<1>4. b \in BOOLEAN
  <2>1. b = FALSE \/ b = Hit(e)
    BY <1>3, Zenon
  <2>2. Hit(e) \in BOOLEAN
    OBVIOUS
  <2> HIDE DEF Hit
  <2>3. QED BY <2>1, <2>2, Zenon
<1>5. ASSUME b = TRUE PROVE n \in Marked /\ (n < 2 => Max > 2 * IntMax + 1)
  <2>1. ~(i < 0) /\ Hit(e)
    BY <1>3, <1>5, Zenon
  <2>2. n \in Marked /\ i <= n /\ i >= 0
    BY <1>2, <2>1
  <2>3. ASSUME n < 2 PROVE Max > 2 * IntMax + 1
    <3>1. i < s /\ i >= 0
      BY <1>1, <1>2, <2>2, <2>3
    <3>2. s > IntMax
      BY <1>1, <1>2, <3>1
    <3>3. s > 2 * IntMax + 1
      BY <1>1, <1>2, <3>1, <3>2
    <3>4. QED BY <1>1, <3>3
  <2>4. QED BY <2>2, <2>3
<1>6. ASSUME b = FALSE, n <= IntMax, n \in Marked, n \in s..e PROVE FALSE
  <2>1. i = s /\ ~(i < 0)
    BY <1>1, <1>2, <1>6
  <2>2. Hit(e) /\ Hit(IntMax)
    BY <1>1, <1>6, <2>1
  <2>3. b = Hit(e)
    BY <1>3, <2>1, <2>2, Zenon
  <2>4. QED BY <1>6, <2>2, <2>3
<1>7. QED BY <1>4, <1>5, <1>6

-----------------------------------------------------------------------------
(* A call that ends right.                                                 *)

LEMMA CallScans ==
  ASSUME NEW f \in Frames, f.at = "check", NEW n \in Int, NEW b \in Scan(n, f.start, f.end),
         NEW s, NEW e, SearchOf(f, n, s, e)
  PROVE  b \in BOOLEAN /\ SearchOf(Returned(b), n, s, e)
<1>1. f.start = s /\ f.end = e
  BY DEF SearchOf
<1>2. f.start \in 2..Max /\ f.end \in (f.start)..Max
  BY FrameFacts
<1>3. /\ b \in BOOLEAN
      /\ b = TRUE => n \in Marked /\ (n < 2 => Max > 2 * IntMax + 1)
      /\ b = FALSE => (n <= IntMax => n \notin Marked \cap (s..e))
  BY <1>1, <1>2, ScanFacts
<1>4. /\ Returned(b) # NoCall /\ Returned(b).at = "returned"
      /\ Returned(b) = Returned(TRUE) => b = TRUE
      /\ Returned(b) = Returned(FALSE) => b = FALSE
  BY <1>3, ValueFacts
<1>5. QED BY <1>3, <1>4 DEF SearchOf

LEMMA CallMoves ==
  ASSUME NEW f \in Searching, NEW l \in {"split", "join"}, NEW n, NEW s, NEW e,
         SearchOf(f, n, s, e)
  PROVE  SearchOf([f EXCEPT !.at = l], n, s, e)
<1>1. f.at \in {"check", "split", "join"}
  BY DEF Searching
<1>2. f.start = s /\ f.end = e
  BY <1>1 DEF SearchOf
<1> DEFINE g == [f EXCEPT !.at = l]
<1>3. g.at = l /\ g.start = s /\ g.end = e
  BY <1>2, MovedFacts
<1>4. g # NoCall /\ g # Returned(TRUE) /\ g # Returned(FALSE)
  BY <1>3, ValueFacts
<1> HIDE DEF g
<1>5. SearchOf(g, n, s, e)
  BY <1>3, <1>4 DEF SearchOf
<1>6. QED BY <1>5 DEF g

LEMMA CallThrows ==
  ASSUME NEW n, NEW s, NEW e
  PROVE  SearchOf(Threw, n, s, e)
  BY ValueFacts DEF SearchOf

LEMMA CallJoins ==
  ASSUME NEW f \in Searching, NEW n \in Int, NEW s, NEW e, SearchOf(f, n, s, e),
         NEW a \in BOOLEAN, NEW b \in BOOLEAN,
         SearchOf(Returned(a), n, f.start, Mid(f)), SearchOf(Returned(b), n, Mid(f), f.end)
  PROVE  SearchOf(Returned(a \/ b), n, s, e)
<1>1. f.at \in {"check", "split", "join"}
  BY DEF Searching
<1>2. f.start = s /\ f.end = e
  BY <1>1 DEF SearchOf
<1>3. /\ f.start \in Int /\ f.end \in Int /\ Mid(f) \in Int
      /\ f.start <= Mid(f) /\ Mid(f) <= f.end
  BY MidFacts DEF Searching
<1>4. ASSUME NEW c \in BOOLEAN, c = TRUE, NEW x, NEW y, SearchOf(Returned(c), n, x, y)
      PROVE  n \in Marked /\ (n < 2 => Max > 2 * IntMax + 1)
  BY <1>4 DEF SearchOf
<1>5. CASE a = TRUE \/ b = TRUE
  <2>1. Returned(a \/ b) = Returned(TRUE)
    BY <1>5
  <2>2. n \in Marked /\ (n < 2 => Max > 2 * IntMax + 1)
    BY <1>4, <1>5
  <2>3. QED BY <2>1, <2>2, ValueFacts DEF SearchOf
<1>6. CASE a = FALSE /\ b = FALSE
  <2>1. Returned(a \/ b) = Returned(FALSE)
    BY <1>6
  <2>2. n <= IntMax => n \notin Marked \cap (f.start..Mid(f))
    BY <1>6 DEF SearchOf
  <2>3. n <= IntMax => n \notin Marked \cap (Mid(f)..f.end)
    BY <1>6 DEF SearchOf
  <2>4. n <= IntMax => n \notin Marked \cap (s..e)
    BY <1>2, <1>3, <2>2, <2>3
  <2>5. QED BY <2>1, <2>4, ValueFacts DEF SearchOf
<1>7. QED BY <1>5, <1>6

-----------------------------------------------------------------------------
(* A step that changes one call.                                           *)

LEMMA CheckEffect ==
  ASSUME FrameInv, TreeInv, RequestInv, JoinsInv, NEW t \in Threads, NEW q \in Paths,
         Check(t, q)
  PROVE  /\ frame[t][q].at = "check" /\ frame[t][q] # NoCall
         /\ \E g \in Frames :
              /\ frame' = [frame EXCEPT ![t][q] = g]
              /\ g.at \in {"returned", "split"}
              /\ g.at = "split" => Len(q) < Limit /\ m_async_count < Limit
              /\ \A s, e : SearchOf(frame[t][q], number[t], s, e)
                             => SearchOf(g, number[t], s, e)
<1> DEFINE f == frame[t][q]
<1>1. f \in Frames /\ f.at = "check" /\ f # NoCall
  BY CallFacts, ValueFacts DEF Check
<1>2. f \in Searching
  BY <1>1, FrameFacts
<1>3. number[t] \in Int
  BY <1>1, SearchedNumber
<1>4. ASSUME NEW b \in Scan(number[t], f.start, f.end), frame' = [frame EXCEPT ![t][q] = Returned(b)]
      PROVE  \E g \in Frames :
              /\ frame' = [frame EXCEPT ![t][q] = g]
              /\ g.at \in {"returned", "split"}
              /\ g.at = "split" => Len(q) < Limit /\ m_async_count < Limit
              /\ \A s, e : SearchOf(f, number[t], s, e) => SearchOf(g, number[t], s, e)
  <2>1. b \in BOOLEAN
    <3>1. f.start \in 2..Max /\ f.end \in (f.start)..Max
      BY <1>1, FrameFacts
    <3>2. QED BY <1>3, <3>1, ScanFacts
  <2>2. Returned(b) \in Frames /\ Returned(b).at = "returned"
    BY <2>1, ValueFacts
  <2>3. \A s, e : SearchOf(f, number[t], s, e) => SearchOf(Returned(b), number[t], s, e)
    BY <1>1, <1>3, CallScans
  <2>4. QED BY <1>4, <2>2, <2>3
<1>5. ASSUME m_async_count < Limit, frame' = [frame EXCEPT ![t][q].at = "split"]
      PROVE  \E g \in Frames :
              /\ frame' = [frame EXCEPT ![t][q] = g]
              /\ g.at \in {"returned", "split"}
              /\ g.at = "split" => Len(q) < Limit /\ m_async_count < Limit
              /\ \A s, e : SearchOf(f, number[t], s, e) => SearchOf(g, number[t], s, e)
  <2> DEFINE g == [f EXCEPT !.at = "split"]
  <2>1. g \in Frames /\ g.at = "split"
    BY <1>2, MovedFacts
  <2>2. frame' = [frame EXCEPT ![t][q] = g]
    BY <1>5 DEF FrameInv
  <2>3. Len(q) < Limit
    <3>1. Len(q) <= m_async_count /\ Len(q) \in Nat /\ Limit \in Nat /\ m_async_count \in Nat
      BY <1>1, DepthCounted, PathFacts DEF FrameInv
    <3>2. QED BY <1>5, <3>1
  <2>4. \A s, e : SearchOf(f, number[t], s, e) => SearchOf(g, number[t], s, e)
    BY <1>2, CallMoves
  <2> HIDE DEF g, f
  <2>5. QED BY <1>5, <2>1, <2>2, <2>3, <2>4
<1> HIDE DEF f
<1>6. QED
  <2>1. \/ \E b \in Scan(number[t], f.start, f.end) : frame' = [frame EXCEPT ![t][q] = Returned(b)]
        \/ m_async_count < Limit /\ frame' = [frame EXCEPT ![t][q].at = "split"]
    BY DEF Check, f
  <2>2. QED BY <1>1, <1>4, <1>5, <2>1 DEF f

LEMMA OneFrameTree ==
  ASSUME FrameInv, TreeInv, NEW t \in Threads, NEW q \in Paths, NEW g \in Frames,
         frame' = [frame EXCEPT ![t][q] = g],
         frame[t][q].at # "join", g.at # "join", frame[t][q] # NoCall \/ q = Root,
         g.at = "split" => Len(q) < Limit
  PROVE  /\ TreeInv'
         /\ At("join")' = At("join")
         /\ g.at # "split" => At("split")' \subseteq At("split")
<1>1. /\ frame'[t][q] = g
      /\ \A u \in Threads, p \in Paths : u # t \/ p # q => frame'[u][p] = frame[u][p]
  BY DEF FrameInv
<1>2. TreeInv'
  <2> SUFFICES ASSUME NEW u \in Threads, NEW p \in Paths
               PROVE  /\ frame'[u][p] # NoCall => \A a \in Above(p) : frame'[u][a].at = "join"
                      /\ frame'[u][p].at \in {"split", "join"} => Len(p) < Limit
    BY DEF TreeInv
  <2>1. frame'[u][p].at \in {"split", "join"} => Len(p) < Limit
    <3>1. CASE u = t /\ p = q
      BY <1>1, <3>1
    <3>2. CASE u # t \/ p # q
      BY <1>1, <3>2 DEF TreeInv
    <3>3. QED BY <3>1, <3>2
  <2>2. ASSUME frame'[u][p] # NoCall, NEW a \in Above(p) PROVE frame'[u][a].at = "join"
    <3>1. a \in Paths
      BY AboveFacts
    <3>2. frame[u][p] # NoCall
      <4>1. CASE u = t /\ p = q
        BY <2>2, <4>1, RootFacts
      <4>2. CASE u # t \/ p # q
        BY <1>1, <2>2, <4>2
      <4>3. QED BY <4>1, <4>2
    <3>3. frame[u][a].at = "join"
      BY <2>2, <3>2 DEF TreeInv
    <3>4. u # t \/ a # q
      BY <3>3
    <3>5. QED BY <1>1, <3>1, <3>3, <3>4
  <2>3. QED BY <2>1, <2>2
<1>3. ASSUME NEW l \in {"join", "split"}, g.at # l, NEW c \in Threads \X Paths,
             frame'[c[1]][c[2]].at = l
      PROVE  frame[c[1]][c[2]].at = l
  <2>1. c[1] \in Threads /\ c[2] \in Paths
    BY <1>3
  <2>2. c[1] # t \/ c[2] # q
    BY <1>1, <1>3
  <2>3. QED BY <1>1, <1>3, <2>1, <2>2
<1>4. ASSUME NEW c \in Threads \X Paths, frame[c[1]][c[2]].at = "join"
      PROVE  frame'[c[1]][c[2]].at = "join"
  <2>1. c[1] \in Threads /\ c[2] \in Paths
    BY <1>4
  <2>2. c[1] # t \/ c[2] # q
    BY <1>4
  <2>3. QED BY <1>1, <1>4, <2>1, <2>2
<1>5. At("join")' = At("join")
  BY <1>3, <1>4 DEF At, Calls
<1>6. g.at # "split" => At("split")' \subseteq At("split")
  BY <1>3 DEF At, Calls
<1>7. QED BY <1>2, <1>5, <1>6

LEMMA OneFrameCover ==
  ASSUME FrameInv, TreeInv, CoverInv, NEW t \in Threads, NEW q \in Paths, NEW g \in Frames,
         frame' = [frame EXCEPT ![t][q] = g], number' = number,
         frame[t][q].at # "join", g.at # "join", frame[t][q] # NoCall,
         \A s, e : SearchOf(frame[t][q], number[t], s, e) => SearchOf(g, number[t], s, e)
  PROVE  CoverInv'
<1>1. /\ frame'[t][q] = g
      /\ \A u \in Threads, p \in Paths : u # t \/ p # q => frame'[u][p] = frame[u][p]
  BY DEF FrameInv
<1>2. ASSUME NEW u \in Threads, NEW p \in Paths, NEW s, NEW e,
             SearchOf(frame[u][p], number[u], s, e)
      PROVE  SearchOf(frame'[u][p], number'[u], s, e)
  BY <1>1, <1>2
<1> SUFFICES ASSUME NEW u \in Threads
             PROVE  /\ frame'[u][Root] # NoCall => SearchOf(frame'[u][Root], number'[u], 2, Max)
                    /\ \A p \in Paths : frame'[u][p].at = "join" =>
                         /\ SearchOf(frame'[u][Left(p)], number'[u],
                                     frame'[u][p].start, Mid(frame'[u][p]))
                         /\ SearchOf(frame'[u][Right(p)], number'[u],
                                     Mid(frame'[u][p]), frame'[u][p].end)
  BY DEF CoverInv
<1>3. ASSUME frame'[u][Root] # NoCall PROVE SearchOf(frame'[u][Root], number'[u], 2, Max)
  <2>1. frame[u][Root] # NoCall
    BY <1>1, <1>3, RootFacts
  <2>2. SearchOf(frame[u][Root], number[u], 2, Max)
    BY <2>1 DEF CoverInv
  <2>3. QED BY <1>2, <2>2, RootFacts
<1>4. ASSUME NEW p \in Paths, frame'[u][p].at = "join"
      PROVE  /\ SearchOf(frame'[u][Left(p)], number'[u],
                         frame'[u][p].start, Mid(frame'[u][p]))
             /\ SearchOf(frame'[u][Right(p)], number'[u],
                         Mid(frame'[u][p]), frame'[u][p].end)
  <2>1. frame'[u][p] = frame[u][p] /\ frame[u][p].at = "join"
    BY <1>1, <1>4
  <2>2. Left(p) \in Paths /\ Right(p) \in Paths
    BY <2>1, HalfFacts DEF TreeInv, Halves
  <2>3. /\ SearchOf(frame[u][Left(p)], number[u], frame[u][p].start, Mid(frame[u][p]))
        /\ SearchOf(frame[u][Right(p)], number[u], Mid(frame[u][p]), frame[u][p].end)
    BY <2>1 DEF CoverInv
  <2>4. QED BY <1>2, <2>1, <2>2, <2>3
<1>5. QED BY <1>3, <1>4

-----------------------------------------------------------------------------
(* A call that splits, and one whose halves have ended.                    *)

LEMMA SplitOutline ==
  ASSUME FrameInv, TreeInv, NEW t \in Threads, NEW q \in Paths, Split(t, q)
  PROVE  /\ frame[t][q] \in Searching /\ frame[t][q].at = "split" /\ Len(q) < Limit
         /\ Left(q) \in Paths /\ Right(q) \in Paths
         /\ frame' \in [Threads -> [Paths -> Frames]]
         /\ frame'[t][q].at = "join"
         /\ frame'[t][Left(q)].at = "check" /\ frame'[t][Right(q)].at = "check"
         /\ \A u \in Threads, p \in Paths :
              u # t \/ (p # q /\ p \notin Halves(q)) => frame'[u][p] = frame[u][p]
<1> DEFINE f == frame[t][q]
<1>1. f \in Frames /\ f.at = "split"
  BY CallFacts DEF Split
<1>2. f \in Searching /\ f.start \in 2..Max /\ f.end \in (f.start)..Max
  BY <1>1, FrameFacts
<1>3. Len(q) < Limit
  BY <1>1 DEF TreeInv
<1>4. Left(q) \in Paths /\ Right(q) \in Paths
  BY <1>3, HalfFacts DEF Halves
<1>5. Mid(f) \in (f.start)..Max /\ Mid(f) \in 2..Max /\ f.end \in Mid(f)..Max
  <2>1. Mid(f) \in 2..Max /\ f.start <= Mid(f) /\ Mid(f) <= f.end
    BY <1>2, MidFacts
  <2>2. QED BY <1>2, <2>1, SearchAssumption
<1> DEFINE g == [f EXCEPT !.at = "join"]
           l == Calling(f.start, Mid(f))
           r == Calling(Mid(f), f.end)
<1>6. l \in Frames /\ r \in Frames /\ l.at = "check" /\ r.at = "check"
  BY <1>2, <1>5, CallingFacts
<1>7. g \in Frames /\ g.at = "join"
  BY <1>2, MovedFacts
<1>8. frame' = [frame EXCEPT ![t][q] = g, ![t][Left(q)] = l, ![t][Right(q)] = r]
  BY <1>4 DEF Split, FrameInv
<1> HIDE DEF g, l, r
<1>9. /\ frame' \in [Threads -> [Paths -> Frames]]
      /\ frame'[t][q] = g /\ frame'[t][Left(q)] = l /\ frame'[t][Right(q)] = r
      /\ \A u \in Threads, p \in Paths :
           u # t \/ (p # q /\ p \notin Halves(q)) => frame'[u][p] = frame[u][p]
  BY <1>3, <1>6, <1>7, <1>8, ThreeFrames
<1>10. QED BY <1>1, <1>2, <1>3, <1>4, <1>6, <1>7, <1>9, Zenon

LEMMA SplitFrames ==
  ASSUME FrameInv, TreeInv, NEW t \in Threads, NEW q \in Paths, Split(t, q)
  PROVE  /\ frame'[t][q] = [frame[t][q] EXCEPT !.at = "join"]
         /\ frame'[t][Left(q)] = Calling(frame[t][q].start, Mid(frame[t][q]))
         /\ frame'[t][Right(q)] = Calling(Mid(frame[t][q]), frame[t][q].end)
<1>1. Left(q) \in Paths /\ Right(q) \in Paths
  BY SplitOutline
<1>2. Left(q) # Right(q) /\ Left(q) # q /\ Right(q) # q
  BY HalfFacts DEF Halves
<1>3. QED BY <1>1, <1>2 DEF Split, FrameInv

LEMMA SplitTree ==
  ASSUME FrameInv, TreeInv, NEW t \in Threads, NEW q \in Paths, Split(t, q)
  PROVE  /\ TreeInv'
         /\ <<t, q>> \notin At("join") /\ At("join")' = At("join") \cup {<<t, q>>}
         /\ <<t, q>> \in At("split") /\ At("split")' = At("split") \ {<<t, q>>}
<1> DEFINE f == frame[t][q]
<1>1. /\ f \in Searching /\ f.at = "split" /\ Len(q) < Limit
      /\ Left(q) \in Paths /\ Right(q) \in Paths
      /\ frame'[t][q].at = "join"
      /\ \A h \in Halves(q) : h \in Paths /\ frame'[t][h].at = "check"
      /\ \A u \in Threads, p \in Paths :
           u # t \/ (p # q /\ p \notin Halves(q)) => frame'[u][p] = frame[u][p]
  <2>1. /\ f \in Searching /\ f.at = "split" /\ Len(q) < Limit
        /\ Left(q) \in Paths /\ Right(q) \in Paths
        /\ frame'[t][q].at = "join"
        /\ frame'[t][Left(q)].at = "check" /\ frame'[t][Right(q)].at = "check"
        /\ \A u \in Threads, p \in Paths :
             u # t \/ (p # q /\ p \notin Halves(q)) => frame'[u][p] = frame[u][p]
    BY SplitOutline
  <2>2. QED BY <2>1, Zenon DEF Halves
<1>2. \A h \in Halves(q) : frame[t][h] = NoCall /\ frame[t][h].at = "none"
  BY <1>1, NoHalves, ValueFacts
<1>3. f # NoCall
  BY <1>1, ValueFacts
<1>4. TreeInv'
  <2> SUFFICES ASSUME NEW u \in Threads, NEW p \in Paths
               PROVE  /\ frame'[u][p] # NoCall => \A a \in Above(p) : frame'[u][a].at = "join"
                      /\ frame'[u][p].at \in {"split", "join"} => Len(p) < Limit
    BY DEF TreeInv
  <2>1. frame'[u][p].at \in {"split", "join"} => Len(p) < Limit
    <3>1. CASE u = t /\ p = q
      BY <1>1, <3>1
    <3>2. CASE u = t /\ p \in Halves(q)
      BY <1>1, <3>2
    <3>3. CASE u # t \/ (p # q /\ p \notin Halves(q))
      BY <1>1, <3>3 DEF TreeInv
    <3>4. QED BY <3>1, <3>2, <3>3
  <2>2. ASSUME NEW a \in Paths, frame[u][a].at = "join" PROVE frame'[u][a].at = "join"
    BY <1>1, <1>2, <2>2
  <2>3. ASSUME frame[u][p] # NoCall, NEW a \in Above(p) PROVE frame'[u][a].at = "join"
    BY <2>2, <2>3, AboveFacts DEF TreeInv
  <2>4. ASSUME frame'[u][p] # NoCall, NEW a \in Above(p) PROVE frame'[u][a].at = "join"
    <3>1. CASE u = t /\ p \in Halves(q)
      <4>1. a \in Above(q) \/ a = q
        BY <2>4, <3>1, AboveHalf
      <4>2. CASE a = q
        BY <1>1, <3>1, <4>2
      <4>3. CASE a \in Above(q)
        <5>1. a \in Paths /\ frame[u][a].at = "join"
          BY <1>3, <3>1, <4>3, AboveFacts DEF TreeInv
        <5>2. QED BY <2>2, <5>1
      <4>4. QED BY <4>1, <4>2, <4>3
    <3>2. CASE ~(u = t /\ p \in Halves(q))
      <4>1. frame[u][p] # NoCall
        BY <1>1, <1>3, <2>4, <3>2
      <4>2. QED BY <2>3, <2>4, <4>1
    <3>3. QED BY <3>1, <3>2
  <2>5. QED BY <2>1, <2>4
<1>5. \A c \in Threads \X Paths :
        /\ frame'[c[1]][c[2]].at = "join" <=> frame[c[1]][c[2]].at = "join" \/ c = <<t, q>>
        /\ frame'[c[1]][c[2]].at = "split" <=> frame[c[1]][c[2]].at = "split" /\ c # <<t, q>>
  <2> SUFFICES ASSUME NEW u \in Threads, NEW p \in Paths
      PROVE  /\ frame'[u][p].at = "join" <=> frame[u][p].at = "join" \/ (u = t /\ p = q)
             /\ frame'[u][p].at = "split" <=> frame[u][p].at = "split" /\ ~(u = t /\ p = q)
    OBVIOUS
  <2>1. CASE u = t /\ p = q
    BY <1>1, <2>1
  <2>2. CASE u = t /\ p \in Halves(q)
    <3>1. p # q
      BY <2>2, HalfFacts
    <3>2. QED BY <1>1, <1>2, <2>2, <3>1
  <2>3. CASE u # t \/ (p # q /\ p \notin Halves(q))
    BY <1>1, <2>3
  <2>4. QED BY <2>1, <2>2, <2>3
<1>6. At("join")' = At("join") \cup {<<t, q>>} /\ At("split")' = At("split") \ {<<t, q>>}
  BY <1>5 DEF At, Calls
<1>7. <<t, q>> \notin At("join") /\ <<t, q>> \in At("split")
  BY <1>1 DEF At, Calls
<1>8. QED BY <1>4, <1>6, <1>7

LEMMA CallStarts ==
  ASSUME NEW s \in 2..Max, NEW e \in s..Max, NEW n
  PROVE  SearchOf(Calling(s, e), n, s, e)
  BY CallingFacts, ValueFacts DEF SearchOf

\* CoverInv holds again after a step that keeps what the calls other than the
\* halves of q search, if it holds for q.
LEMMA ThreeFramesCover ==
  ASSUME FrameInv, TreeInv, CoverInv, NEW t \in Threads, NEW q \in Paths, number' = number,
         frame[t][q] # NoCall,
         \A s, e : SearchOf(frame[t][q], number[t], s, e)
                     => SearchOf(frame'[t][q], number[t], s, e),
         \A u \in Threads, p \in Paths :
           u # t \/ (p # q /\ p \notin Halves(q)) => frame'[u][p] = frame[u][p],
         frame'[t][q].at = "join" =>
           /\ SearchOf(frame'[t][Left(q)], number[t],
                       frame'[t][q].start, Mid(frame'[t][q]))
           /\ SearchOf(frame'[t][Right(q)], number[t],
                       Mid(frame'[t][q]), frame'[t][q].end),
         \A h \in Halves(q) : frame'[t][h].at # "join"
  PROVE  CoverInv'
<1>1. ASSUME NEW u \in Threads, NEW p \in Paths, ~(u = t /\ p \in Halves(q)), NEW s, NEW e,
             SearchOf(frame[u][p], number[u], s, e)
      PROVE  SearchOf(frame'[u][p], number'[u], s, e)
  BY <1>1
<1> SUFFICES ASSUME NEW u \in Threads
             PROVE  /\ frame'[u][Root] # NoCall => SearchOf(frame'[u][Root], number'[u], 2, Max)
                    /\ \A p \in Paths : frame'[u][p].at = "join" =>
                         /\ SearchOf(frame'[u][Left(p)], number'[u],
                                     frame'[u][p].start, Mid(frame'[u][p]))
                         /\ SearchOf(frame'[u][Right(p)], number'[u],
                                     Mid(frame'[u][p]), frame'[u][p].end)
  BY DEF CoverInv
<1>2. ASSUME frame'[u][Root] # NoCall PROVE SearchOf(frame'[u][Root], number'[u], 2, Max)
  <2>1. Root \notin Halves(q)
    BY HalfFacts
  <2>2. frame[u][Root] # NoCall
    BY <1>2, <2>1, RootFacts
  <2>3. SearchOf(frame[u][Root], number[u], 2, Max)
    BY <2>2 DEF CoverInv
  <2>4. QED BY <1>1, <2>1, <2>3, RootFacts
<1>3. ASSUME NEW p \in Paths, frame'[u][p].at = "join"
      PROVE  /\ SearchOf(frame'[u][Left(p)], number'[u],
                         frame'[u][p].start, Mid(frame'[u][p]))
             /\ SearchOf(frame'[u][Right(p)], number'[u],
                         Mid(frame'[u][p]), frame'[u][p].end)
  <2>1. CASE u = t /\ p = q
    BY <1>3, <2>1
  <2>2. CASE u # t \/ p # q
    <3>1. frame'[u][p] = frame[u][p] /\ frame[u][p].at = "join"
      BY <1>3, <2>2
    <3>2. Left(p) \in Paths /\ Right(p) \in Paths
      BY <3>1, HalfFacts DEF TreeInv, Halves
    <3>3. u = t => Left(p) \notin Halves(q) /\ Right(p) \notin Halves(q)
      BY <2>2, HalfFacts DEF Halves
    <3>4. /\ SearchOf(frame[u][Left(p)], number[u], frame[u][p].start, Mid(frame[u][p]))
          /\ SearchOf(frame[u][Right(p)], number[u], Mid(frame[u][p]), frame[u][p].end)
      BY <3>1 DEF CoverInv
    <3>5. QED BY <1>1, <3>1, <3>2, <3>3, <3>4
  <2>3. QED BY <2>1, <2>2
<1>4. QED BY <1>2, <1>3

LEMMA SplitCover ==
  ASSUME FrameInv, TreeInv, CoverInv, NEW t \in Threads, NEW q \in Paths, Split(t, q)
  PROVE  CoverInv'
<1> DEFINE f == frame[t][q]
           g == frame'[t][q]
<1>1. /\ f \in Searching
      /\ g = [f EXCEPT !.at = "join"]
      /\ frame'[t][Left(q)] = Calling(f.start, Mid(f))
      /\ frame'[t][Right(q)] = Calling(Mid(f), f.end)
      /\ \A h \in Halves(q) : frame'[t][h].at # "join"
      /\ \A u \in Threads, p \in Paths :
           u # t \/ (p # q /\ p \notin Halves(q)) => frame'[u][p] = frame[u][p]
  BY SplitFrames, SplitOutline DEF Halves
<1>2. g.start = f.start /\ g.end = f.end
  BY <1>1, MovedFacts
<1>3. Mid(g) = Mid(f)
  BY <1>2 DEF Mid
<1>4. /\ f.start \in 2..Max /\ Mid(f) \in (f.start)..Max
      /\ Mid(f) \in 2..Max /\ f.end \in Mid(f)..Max
  <2>1. Mid(f) \in 2..Max /\ f.start <= Mid(f) /\ Mid(f) <= f.end
    BY <1>1, MidFacts
  <2>2. f.start \in 2..Max /\ f.end \in 2..Max
    BY <1>1 DEF Searching
  <2>3. QED BY <2>1, <2>2, SearchAssumption
<1>5. /\ SearchOf(frame'[t][Left(q)], number[t], g.start, Mid(g))
      /\ SearchOf(frame'[t][Right(q)], number[t], Mid(g), g.end)
  <2>1. /\ SearchOf(Calling(f.start, Mid(f)), number[t], f.start, Mid(f))
        /\ SearchOf(Calling(Mid(f), f.end), number[t], Mid(f), f.end)
    BY <1>4, CallStarts
  <2>2. QED BY <1>1, <1>2, <1>3, <2>1
<1>6. \A s, e : SearchOf(f, number[t], s, e) => SearchOf(g, number[t], s, e)
  <2>1. \A s, e : SearchOf(f, number[t], s, e)
                    => SearchOf([f EXCEPT !.at = "join"], number[t], s, e)
    BY <1>1, CallMoves
  <2> HIDE DEF f, g
  <2>2. QED BY <1>1, <2>1
<1>7. f # NoCall
  BY <1>1, ValueFacts DEF Searching
<1>8. number' = number
  BY DEF Split
<1> HIDE DEF f, g
<1>9. QED BY <1>1, <1>5, <1>6, <1>7, <1>8, ThreeFramesCover DEF f, g

LEMMA JoinFrames ==
  ASSUME FrameInv, TreeInv, RequestInv, CoverInv, NEW t \in Threads, NEW q \in Paths, Join(t, q)
  PROVE  /\ frame[t][q] \in Searching /\ frame[t][q].at = "join" /\ Len(q) < Limit
         /\ Left(q) \in Paths /\ Right(q) \in Paths
         /\ frame[t][Left(q)].at \in {"returned", "threw"}
         /\ frame[t][Right(q)].at \in {"returned", "threw"}
         /\ frame' \in [Threads -> [Paths -> Frames]]
         /\ frame'[t][q].at \in {"returned", "threw"}
         /\ frame'[t][Left(q)] = NoCall /\ frame'[t][Right(q)] = NoCall
         /\ \A u \in Threads, p \in Paths :
              u # t \/ (p # q /\ p \notin Halves(q)) => frame'[u][p] = frame[u][p]
         /\ \A s, e : SearchOf(frame[t][q], number[t], s, e)
                        => SearchOf(frame'[t][q], number[t], s, e)
<1> DEFINE f == frame[t][q]
           l == frame[t][Left(q)]
           r == frame[t][Right(q)]
<1>1. f \in Frames /\ f.at = "join" /\ f # NoCall
  BY CallFacts, ValueFacts DEF Join
<1>2. f \in Searching /\ Len(q) < Limit
  BY <1>1, FrameFacts DEF TreeInv
<1>3. Left(q) \in Paths /\ Right(q) \in Paths
  BY <1>2, HalfFacts DEF Halves
<1>4. l \in Frames /\ r \in Frames /\ l.at \in {"returned", "threw"} /\ r.at \in {"returned", "threw"}
  BY <1>3, CallFacts DEF Join, Over
<1>5. /\ SearchOf(l, number[t], f.start, Mid(f))
      /\ SearchOf(r, number[t], Mid(f), f.end)
  BY <1>1 DEF CoverInv
<1>6. number[t] \in Int
  BY <1>1, SearchedNumber
<1>7. ASSUME NEW g \in Frames, g.at \in {"returned", "threw"},
             frame' = [frame EXCEPT ![t][q] = g, ![t][Left(q)] = NoCall, ![t][Right(q)] = NoCall],
             \A s, e : SearchOf(f, number[t], s, e) => SearchOf(g, number[t], s, e)
      PROVE  /\ frame' \in [Threads -> [Paths -> Frames]]
             /\ frame'[t][q].at \in {"returned", "threw"}
             /\ frame'[t][Left(q)] = NoCall /\ frame'[t][Right(q)] = NoCall
             /\ \A u \in Threads, p \in Paths :
                  u # t \/ (p # q /\ p \notin Halves(q)) => frame'[u][p] = frame[u][p]
             /\ \A s, e : SearchOf(f, number[t], s, e)
                            => SearchOf(frame'[t][q], number[t], s, e)
  <2>1. /\ frame' \in [Threads -> [Paths -> Frames]]
        /\ frame'[t][q] = g
        /\ frame'[t][Left(q)] = NoCall /\ frame'[t][Right(q)] = NoCall
        /\ \A u \in Threads, p \in Paths :
             u # t \/ (p # q /\ p \notin Halves(q)) => frame'[u][p] = frame[u][p]
    <3>1. /\ NoCall \in Frames /\ Left(q) # Right(q) /\ Left(q) # q /\ Right(q) # q
      BY ValueFacts, HalfFacts DEF Halves
    <3>2. QED BY <1>3, <1>7, <3>1 DEF FrameInv, Halves
  <2>2. QED BY <1>7, <2>1
<1>8. \E g \in Frames :
        /\ g.at \in {"returned", "threw"}
        /\ frame' = [frame EXCEPT ![t][q] = g, ![t][Left(q)] = NoCall, ![t][Right(q)] = NoCall]
        /\ \A s, e : SearchOf(f, number[t], s, e) => SearchOf(g, number[t], s, e)
  <2>1. CASE Threw \in {l, r}
    <3>1. frame' = [frame EXCEPT ![t][q] = Threw, ![t][Left(q)] = NoCall, ![t][Right(q)] = NoCall]
      BY <2>1 DEF Join
    <3>2. QED BY <3>1, ValueFacts, CallThrows
  <2>2. CASE Threw \notin {l, r}
    <3>1. frame' = [frame EXCEPT ![t][q] = Returned(l.value \/ r.value),
                                 ![t][Left(q)] = NoCall, ![t][Right(q)] = NoCall]
      BY <2>2 DEF Join
    <3>2. \E a \in BOOLEAN : l = Returned(a) /\ l.value = a
      BY <1>4, <2>2, FrameFacts, ValueFacts
    <3>3. \E b \in BOOLEAN : r = Returned(b) /\ r.value = b
      BY <1>4, <2>2, FrameFacts, ValueFacts
    <3>4. PICK a \in BOOLEAN : l = Returned(a) /\ l.value = a
      BY <3>2
    <3>5. PICK b \in BOOLEAN : r = Returned(b) /\ r.value = b
      BY <3>3
    <3> HIDE DEF l, r
    <3>6. frame' = [frame EXCEPT ![t][q] = Returned(a \/ b),
                                 ![t][Left(q)] = NoCall, ![t][Right(q)] = NoCall]
      BY <3>1, <3>4, <3>5
    <3>7. \A s, e : SearchOf(f, number[t], s, e) => SearchOf(Returned(a \/ b), number[t], s, e)
      BY <1>2, <1>5, <1>6, <3>4, <3>5, CallJoins
    <3>8. a \/ b \in BOOLEAN
      OBVIOUS
    <3>9. Returned(a \/ b) \in Frames /\ Returned(a \/ b).at = "returned"
      BY <3>8, ValueFacts
    <3>10. QED BY <3>6, <3>7, <3>9
  <2>3. QED BY <2>1, <2>2
<1> HIDE DEF f, l, r
<1>9. /\ frame' \in [Threads -> [Paths -> Frames]]
      /\ frame'[t][q].at \in {"returned", "threw"}
      /\ frame'[t][Left(q)] = NoCall /\ frame'[t][Right(q)] = NoCall
      /\ \A u \in Threads, p \in Paths :
           u # t \/ (p # q /\ p \notin Halves(q)) => frame'[u][p] = frame[u][p]
      /\ \A s, e : SearchOf(f, number[t], s, e) => SearchOf(frame'[t][q], number[t], s, e)
  BY <1>7, <1>8, Zenon
<1>10. QED BY <1>1, <1>2, <1>3, <1>4, <1>9 DEF f, l, r

LEMMA JoinTree ==
  ASSUME FrameInv, TreeInv, RequestInv, CoverInv, NEW t \in Threads, NEW q \in Paths, Join(t, q)
  PROVE  /\ TreeInv'
         /\ <<t, q>> \in At("join") /\ At("join")' = At("join") \ {<<t, q>>}
         /\ At("split")' = At("split")
<1>1. /\ frame[t][q].at = "join" /\ Len(q) < Limit
      /\ \A h \in Halves(q) : /\ h \in Paths /\ frame[t][h].at \in {"returned", "threw"}
                              /\ frame'[t][h] = NoCall
      /\ frame'[t][q].at \in {"returned", "threw"}
      /\ \A u \in Threads, p \in Paths :
           u # t \/ (p # q /\ p \notin Halves(q)) => frame'[u][p] = frame[u][p]
  BY JoinFrames DEF Halves
<1>2. frame[t][q] # NoCall /\ NoCall.at = "none"
  BY <1>1, ValueFacts
<1>3. TreeInv'
  <2> SUFFICES ASSUME NEW u \in Threads, NEW p \in Paths
               PROVE  /\ frame'[u][p] # NoCall => \A a \in Above(p) : frame'[u][a].at = "join"
                      /\ frame'[u][p].at \in {"split", "join"} => Len(p) < Limit
    BY DEF TreeInv
  <2>1. frame'[u][p].at \in {"split", "join"} => Len(p) < Limit
    <3>1. CASE u = t /\ (p = q \/ p \in Halves(q))
      BY <1>1, <1>2, <3>1
    <3>2. CASE u # t \/ (p # q /\ p \notin Halves(q))
      BY <1>1, <3>2 DEF TreeInv
    <3>3. QED BY <3>1, <3>2
  <2>2. ASSUME frame'[u][p] # NoCall, NEW a \in Above(p) PROVE frame'[u][a].at = "join"
    <3>1. a \in Paths /\ p \notin Above(p)
      BY AboveFacts
    <3>2. frame[u][p] # NoCall /\ ~(u = t /\ p \in Halves(q))
      BY <1>1, <1>2, <2>2
    <3>3. \A b \in Above(p) : frame[u][b].at = "join"
      BY <3>2 DEF TreeInv
    <3>4. u = t => a \notin Halves(q)
      BY <1>1, <2>2, <3>3
    <3>5. u = t => a # q
      <4> SUFFICES ASSUME u = t, a = q PROVE FALSE
        OBVIOUS
      <4>1. PICK h \in Halves(q) : h = p \/ h \in Above(p)
        BY <2>2, AboveFacts
      <4>2. h \in Above(p)
        BY <3>2, <4>1
      <4>3. frame[t][h].at = "join"
        BY <3>3, <4>2
      <4>4. QED BY <1>1, <4>3
    <3>6. frame'[u][a] = frame[u][a]
      BY <1>1, <3>1, <3>4, <3>5
    <3>7. QED BY <2>2, <3>3, <3>6
  <2>3. QED BY <2>1, <2>2
<1>4. \A c \in Threads \X Paths :
        /\ frame'[c[1]][c[2]].at = "join" <=> frame[c[1]][c[2]].at = "join" /\ c # <<t, q>>
        /\ frame'[c[1]][c[2]].at = "split" <=> frame[c[1]][c[2]].at = "split"
  <2> SUFFICES ASSUME NEW u \in Threads, NEW p \in Paths
      PROVE  /\ frame'[u][p].at = "join" <=> frame[u][p].at = "join" /\ ~(u = t /\ p = q)
             /\ frame'[u][p].at = "split" <=> frame[u][p].at = "split"
    OBVIOUS
  <2>1. CASE u = t /\ p = q
    BY <1>1, <2>1
  <2>2. CASE u = t /\ p \in Halves(q)
    BY <1>1, <1>2, <2>2
  <2>3. CASE u # t \/ (p # q /\ p \notin Halves(q))
    BY <1>1, <2>3
  <2>4. QED BY <2>1, <2>2, <2>3
<1>5. At("join")' = At("join") \ {<<t, q>>} /\ At("split")' = At("split")
  BY <1>4 DEF At, Calls
<1>6. <<t, q>> \in At("join")
  BY <1>1 DEF At, Calls
<1>7. QED BY <1>3, <1>5, <1>6

LEMMA JoinCover ==
  ASSUME FrameInv, TreeInv, RequestInv, CoverInv, NEW t \in Threads, NEW q \in Paths, Join(t, q)
  PROVE  CoverInv'
<1>1. /\ frame[t][q].at = "join"
      /\ frame'[t][q].at # "join"
      /\ \A h \in Halves(q) : frame'[t][h].at # "join"
      /\ \A u \in Threads, p \in Paths :
           u # t \/ (p # q /\ p \notin Halves(q)) => frame'[u][p] = frame[u][p]
      /\ \A s, e : SearchOf(frame[t][q], number[t], s, e)
                     => SearchOf(frame'[t][q], number[t], s, e)
  <2>1. NoCall.at # "join"
    BY ValueFacts
  <2>2. QED BY <2>1, JoinFrames DEF Halves
<1>2. frame[t][q] # NoCall /\ number' = number
  BY <1>1, ValueFacts DEF Join
<1>3. QED BY <1>1, <1>2, ThreeFramesCover

-----------------------------------------------------------------------------
(* The steps of the callback.                                              *)

LEMMA ReceiveFrames ==
  ASSUME FrameInv, TreeInv, RequestInv, NEW t \in Threads, NEW n \in Inputs, Receive(t, n), n <= Max
  PROVE  /\ Calling(2, Max) \in Frames /\ Calling(2, Max).at = "check"
         /\ frame[t][Root] = NoCall
         /\ frame' = [frame EXCEPT ![t][Root] = Calling(2, Max)]
         /\ SearchOf(Calling(2, Max), n, 2, Max)
<1>1. 2 \in 2..Max /\ Max \in 2..Max
  BY SearchAssumption
<1>2. frame' = [frame EXCEPT ![t][Root] = Calling(2, Max)]
  <2>1. ~(n > Max)
    BY SearchAssumption
  <2>2. QED BY <2>1 DEF Receive
<1>3. frame[t][Root] = NoCall
  BY DEF Receive, Idle, RequestInv
<1>4. QED BY <1>1, <1>2, <1>3, CallingFacts, CallStarts

LEMMA AnswerFrames ==
  ASSUME FrameInv, TreeInv, NEW t \in Threads, Answer(t)
  PROVE  /\ frame[t][Root] \in {Returned(TRUE), Returned(FALSE), Threw}
         /\ frame[t][Root].at \in {"returned", "threw"} /\ frame[t][Root] # NoCall
         /\ frame' = [frame EXCEPT ![t][Root] = NoCall]
         /\ frame[t][Root] = Returned(TRUE) => reply' = [reply EXCEPT ![t] = "200"]
         /\ frame[t][Root] = Returned(FALSE) => reply' = [reply EXCEPT ![t] = "425"]
         /\ frame[t][Root] = Threw => reply' = [reply EXCEPT ![t] = "closed"]
<1> DEFINE f == frame[t][Root]
<1>1. f \in Frames /\ f.at \in {"returned", "threw"}
  BY CallFacts, RootFacts DEF Answer, Over
<1>2. f \in {Returned(TRUE), Returned(FALSE), Threw} /\ f # NoCall
  BY <1>1, FrameFacts, ValueFacts
<1>3. /\ Returned(TRUE) # Returned(FALSE) /\ Returned(TRUE) # Threw /\ Returned(FALSE) # Threw
  BY ValueFacts
<1>4. /\ frame' = [frame EXCEPT ![t][Root] = NoCall]
      /\ reply' = [reply EXCEPT ![t] = CASE f = Returned(TRUE)  -> "200"
                                         [] f = Returned(FALSE) -> "425"
                                         [] f = Threw           -> "closed"]
  BY DEF Answer
<1> HIDE DEF f
<1>5. /\ f = Returned(TRUE) => reply' = [reply EXCEPT ![t] = "200"]
      /\ f = Returned(FALSE) => reply' = [reply EXCEPT ![t] = "425"]
      /\ f = Threw => reply' = [reply EXCEPT ![t] = "closed"]
  BY <1>3, <1>4
<1>6. QED BY <1>1, <1>2, <1>4, <1>5 DEF f

-----------------------------------------------------------------------------
(* The steps of the calls.                                                 *)

\* The calls that are about to split have threads of their own.
SplitsBounded == /\ IsFiniteSet(At("split"))
                 /\ Cardinality(At("split")) <= Cardinality(Threads) + Cardinality(At("join"))

LEMMA SplitsAreBounded == FrameInv /\ TreeInv /\ JoinsInv => SplitsBounded
<1> SUFFICES ASSUME FrameInv, TreeInv, JoinsInv PROVE SplitsBounded
  OBVIOUS
<1> DEFINE S == At("split")
           J == At("join")
<1>1. IsFiniteSet(Calls) /\ Cardinality(Calls) <= Cardinality(Threads) + 2 * Cardinality(J)
  BY CallsAreBounded DEF CallsBounded
<1>2. S \subseteq Calls /\ J \subseteq Calls /\ S \cap J = {}
  BY DEF At
<1> HIDE DEF S, J
<1>3. IsFiniteSet(S) /\ IsFiniteSet(J)
  BY <1>1, <1>2, FS_Subset
<1>4. Cardinality(S \cup J) = Cardinality(S) + Cardinality(J) - Cardinality(S \cap J)
  BY <1>3, FS_Union
<1>5. Cardinality(S \cap J) = 0
  BY <1>2, FS_EmptySet
<1>6. IsFiniteSet(S \cup J) /\ Cardinality(S \cup J) <= Cardinality(Calls)
  BY <1>1, <1>2, FS_Subset
<1>7. /\ Cardinality(S) \in Nat /\ Cardinality(J) \in Nat /\ Cardinality(S \cup J) \in Nat
      /\ Cardinality(Calls) \in Nat /\ Cardinality(Threads) \in Nat
  BY <1>1, <1>3, <1>6, FS_CardinalityType, SearchAssumption
<1>8. Cardinality(S) <= Cardinality(Threads) + Cardinality(J)
  BY <1>1, <1>4, <1>5, <1>6, <1>7
<1>9. QED BY <1>3, <1>8 DEF S, J, SplitsBounded

LEMMA RequestKept ==
  ASSUME RequestInv, UNCHANGED <<number, reply>>,
         \A u \in Threads : frame'[u][Root] # NoCall <=> frame[u][Root] # NoCall
  PROVE  RequestInv'
  BY DEF RequestInv

LEMMA JoinsCounted ==
  ASSUME FrameInv, JoinsInv
  PROVE  /\ IsFiniteSet(At("join")) /\ Cardinality(At("join")) \in Nat
         /\ m_async_count = Cardinality(At("join")) + abandoned
         /\ m_async_count \in Nat /\ abandoned \in Nat
  BY FS_CardinalityType DEF FrameInv, JoinsInv, CounterIsSplits

LEMMA CheckStep ==
  ASSUME FrameInv, TreeInv, RequestInv, JoinsInv, CoverInv, NEW t \in Threads, NEW q \in Paths,
         Check(t, q)
  PROVE  /\ FrameInv' /\ TreeInv' /\ RequestInv' /\ JoinsInv' /\ CoverInv'
         /\ AsyncBounded => AsyncBounded'
<1>1. frame[t][q].at = "check" /\ frame[t][q] # NoCall
  BY CheckEffect
<1>2. PICK g \in Frames :
        /\ frame' = [frame EXCEPT ![t][q] = g]
        /\ g.at \in {"returned", "split"}
        /\ g.at = "split" => Len(q) < Limit /\ m_async_count < Limit
        /\ \A s, e : SearchOf(frame[t][q], number[t], s, e) => SearchOf(g, number[t], s, e)
  BY CheckEffect
<1>3. UNCHANGED <<m_async_count, number, reply, abandoned>>
  BY DEF Check
<1>4. /\ frame' \in [Threads -> [Paths -> Frames]] /\ frame'[t][q] = g
      /\ \A u \in Threads, p \in Paths : u # t \/ p # q => frame'[u][p] = frame[u][p]
  BY <1>2 DEF FrameInv
<1>5. FrameInv'
  BY <1>3, <1>4 DEF FrameInv
<1>6. /\ TreeInv'
      /\ At("join")' = At("join")
      /\ g.at # "split" => At("split")' \subseteq At("split")
  BY <1>1, <1>2, OneFrameTree
<1>7. g # NoCall
  BY <1>2, ValueFacts
<1>8. RequestInv'
  <2>1. \A u \in Threads : frame'[u][Root] # NoCall <=> frame[u][Root] # NoCall
    BY <1>1, <1>4, <1>7, RootFacts
  <2>2. QED BY <1>3, <2>1, RequestKept
<1>9. JoinsInv'
  BY <1>3, <1>6 DEF JoinsInv, CounterIsSplits
<1>10. CoverInv'
  BY <1>1, <1>2, <1>3, OneFrameCover
<1>11. ASSUME AsyncBounded PROVE AsyncBounded'
  <2> SUFFICES ASSUME Limit >= 1
               PROVE  m_async_count' + Cardinality(At("split")')
                        <= 2 * (Limit - 1) + Cardinality(Threads)
    BY DEF AsyncBounded
  <2>1. /\ IsFiniteSet(At("join")) /\ Cardinality(At("join")) \in Nat
        /\ m_async_count = Cardinality(At("join")) + abandoned
        /\ m_async_count \in Nat /\ abandoned \in Nat
    BY JoinsCounted
  <2>2. SplitsBounded /\ SplitsBounded'
    BY <1>5, <1>6, <1>9, SplitsAreBounded, PTL
  <2>3. /\ Limit \in Nat /\ Cardinality(Threads) \in Nat
        /\ Cardinality(At("split")) \in Nat /\ Cardinality(At("split")') \in Nat
    BY <2>2, SearchAssumption, FS_CardinalityType DEF SplitsBounded
  <2>4. CASE g.at = "split"
    <3>1. m_async_count <= Limit - 1
      BY <1>2, <2>1, <2>3, <2>4
    <3>2. Cardinality(At("split")') <= Cardinality(Threads) + Cardinality(At("join"))
      BY <1>6, <2>2 DEF SplitsBounded
    <3>3. QED BY <1>3, <2>1, <2>3, <3>1, <3>2
  <2>5. CASE g.at # "split"
    <3>1. Cardinality(At("split")') <= Cardinality(At("split"))
      BY <1>6, <2>2, <2>5, FS_Subset DEF SplitsBounded
    <3>2. m_async_count + Cardinality(At("split")) <= 2 * (Limit - 1) + Cardinality(Threads)
      BY <1>11 DEF AsyncBounded
    <3>3. QED BY <1>3, <2>1, <2>3, <3>1, <3>2
  <2>6. QED BY <2>4, <2>5
<1>12. QED BY <1>5, <1>6, <1>8, <1>9, <1>10, <1>11

LEMMA SplitThrowsStep ==
  ASSUME FrameInv, TreeInv, RequestInv, JoinsInv, CoverInv, NEW t \in Threads, NEW q \in Paths,
         SplitThrows(t, q)
  PROVE  /\ FrameInv' /\ TreeInv' /\ RequestInv' /\ JoinsInv' /\ CoverInv'
         /\ AsyncBounded => AsyncBounded'
<1>1. frame[t][q].at = "split" /\ frame[t][q] # NoCall
  BY ValueFacts DEF SplitThrows
<1>2. Threw \in Frames /\ Threw.at = "threw" /\ Threw # NoCall
  BY ValueFacts
<1>3. /\ frame' = [frame EXCEPT ![t][q] = Threw]
      /\ m_async_count' = m_async_count + 1 /\ abandoned' = abandoned + 1
      /\ UNCHANGED <<number, reply>>
  BY DEF SplitThrows
<1>4. /\ frame' \in [Threads -> [Paths -> Frames]] /\ frame'[t][q] = Threw
      /\ \A u \in Threads, p \in Paths : u # t \/ p # q => frame'[u][p] = frame[u][p]
  BY <1>2, <1>3 DEF FrameInv
<1>5. FrameInv'
  BY <1>3, <1>4 DEF FrameInv
<1>6. TreeInv' /\ At("join")' = At("join") /\ At("split")' \subseteq At("split")
  BY <1>1, <1>2, <1>3, OneFrameTree
<1>7. RequestInv'
  <2>1. \A u \in Threads : frame'[u][Root] # NoCall <=> frame[u][Root] # NoCall
    BY <1>1, <1>2, <1>4, RootFacts
  <2>2. QED BY <1>3, <2>1, RequestKept
<1>8. JoinsInv'
  BY <1>3, <1>6, JoinsCounted DEF JoinsInv, CounterIsSplits
<1>9. CoverInv'
  BY <1>1, <1>2, <1>3, OneFrameCover, CallThrows
<1>10. ASSUME AsyncBounded PROVE AsyncBounded'
  <2> SUFFICES ASSUME Limit >= 1
               PROVE  m_async_count' + Cardinality(At("split")')
                        <= 2 * (Limit - 1) + Cardinality(Threads)
    BY DEF AsyncBounded
  <2>1. IsFiniteSet(At("split")) /\ <<t, q>> \in At("split") /\ <<t, q>> \notin At("split")'
    BY <1>1, <1>4, <1>2, SplitsAreBounded DEF SplitsBounded, At, Calls
  <2>2. At("split")' \subseteq At("split") \ {<<t, q>>}
    BY <1>6, <2>1
  <2>3. /\ IsFiniteSet(At("split") \ {<<t, q>>})
        /\ Cardinality(At("split") \ {<<t, q>>}) = Cardinality(At("split")) - 1
    BY <2>1, FS_RemoveElement
  <2>4. /\ IsFiniteSet(At("split")')
        /\ Cardinality(At("split")') <= Cardinality(At("split") \ {<<t, q>>})
    BY <2>2, <2>3, FS_Subset
  <2>5. /\ Limit \in Nat /\ Cardinality(Threads) \in Nat /\ m_async_count \in Nat
        /\ Cardinality(At("split")) \in Nat /\ Cardinality(At("split")') \in Nat
    BY <2>1, <2>4, SearchAssumption, FS_CardinalityType DEF FrameInv
  <2>6. m_async_count + Cardinality(At("split")) <= 2 * (Limit - 1) + Cardinality(Threads)
    BY <1>10 DEF AsyncBounded
  <2>7. QED BY <1>3, <2>3, <2>4, <2>5, <2>6
<1>11. QED BY <1>5, <1>6, <1>7, <1>8, <1>9, <1>10

LEMMA SplitStep ==
  ASSUME FrameInv, TreeInv, RequestInv, JoinsInv, CoverInv, NEW t \in Threads, NEW q \in Paths,
         Split(t, q)
  PROVE  /\ FrameInv' /\ TreeInv' /\ RequestInv' /\ JoinsInv' /\ CoverInv'
         /\ AsyncBounded => AsyncBounded'
<1>1. /\ frame[t][q].at = "split" /\ frame' \in [Threads -> [Paths -> Frames]]
      /\ frame'[t][q].at = "join"
      /\ \A u \in Threads, p \in Paths :
           u # t \/ (p # q /\ p \notin Halves(q)) => frame'[u][p] = frame[u][p]
  BY SplitOutline
<1>2. m_async_count' = m_async_count + 1 /\ UNCHANGED <<number, reply, abandoned>>
  BY DEF Split
<1>3. FrameInv'
  BY <1>1, <1>2 DEF FrameInv
<1>4. /\ TreeInv'
      /\ <<t, q>> \notin At("join") /\ At("join")' = At("join") \cup {<<t, q>>}
      /\ <<t, q>> \in At("split") /\ At("split")' = At("split") \ {<<t, q>>}
  BY SplitTree
<1>5. RequestInv'
  <2>1. frame[t][q] # NoCall /\ frame'[t][q] # NoCall
    BY <1>1, ValueFacts
  <2>2. Root \notin Halves(q)
    BY HalfFacts
  <2>3. \A u \in Threads : frame'[u][Root] # NoCall <=> frame[u][Root] # NoCall
    BY <1>1, <2>1, <2>2, RootFacts
  <2>4. QED BY <1>2, <2>3, RequestKept
<1>6. JoinsInv'
  <2>1. /\ IsFiniteSet(At("join")) /\ Cardinality(At("join")) \in Nat
        /\ m_async_count = Cardinality(At("join")) + abandoned
        /\ m_async_count \in Nat /\ abandoned \in Nat
    BY JoinsCounted
  <2>2. /\ IsFiniteSet(At("join")')
        /\ Cardinality(At("join")') = Cardinality(At("join")) + 1
    BY <1>4, <2>1, FS_AddElement
  <2>3. QED BY <1>2, <2>1, <2>2 DEF JoinsInv, CounterIsSplits
<1>7. CoverInv'
  BY SplitCover
<1>8. ASSUME AsyncBounded PROVE AsyncBounded'
  <2> SUFFICES ASSUME Limit >= 1
               PROVE  m_async_count' + Cardinality(At("split")')
                        <= 2 * (Limit - 1) + Cardinality(Threads)
    BY DEF AsyncBounded
  <2>1. IsFiniteSet(At("split"))
    BY SplitsAreBounded DEF SplitsBounded
  <2>2. Cardinality(At("split")') = Cardinality(At("split")) - 1
    BY <1>4, <2>1, FS_RemoveElement
  <2>3. /\ Limit \in Nat /\ Cardinality(Threads) \in Nat /\ m_async_count \in Nat
        /\ Cardinality(At("split")) \in Nat
    BY <2>1, SearchAssumption, FS_CardinalityType DEF FrameInv
  <2>4. m_async_count + Cardinality(At("split")) <= 2 * (Limit - 1) + Cardinality(Threads)
    BY <1>8 DEF AsyncBounded
  <2>5. QED BY <1>2, <2>2, <2>3, <2>4
<1>9. QED BY <1>3, <1>4, <1>5, <1>6, <1>7, <1>8

LEMMA JoinStep ==
  ASSUME FrameInv, TreeInv, RequestInv, JoinsInv, CoverInv, NEW t \in Threads, NEW q \in Paths,
         Join(t, q)
  PROVE  /\ FrameInv' /\ TreeInv' /\ RequestInv' /\ JoinsInv' /\ CoverInv'
         /\ AsyncBounded => AsyncBounded'
<1>1. /\ frame[t][q].at = "join" /\ frame' \in [Threads -> [Paths -> Frames]]
      /\ frame'[t][q].at \in {"returned", "threw"}
      /\ \A u \in Threads, p \in Paths :
           u # t \/ (p # q /\ p \notin Halves(q)) => frame'[u][p] = frame[u][p]
  BY JoinFrames
<1>2. /\ UNCHANGED <<number, reply>>
      /\ \/ abandoned' = abandoned + 1 /\ m_async_count' = m_async_count
         \/ abandoned' = abandoned /\ m_async_count' = m_async_count - 1
  BY DEF Join
<1>3. /\ TreeInv'
      /\ <<t, q>> \in At("join") /\ At("join")' = At("join") \ {<<t, q>>}
      /\ At("split")' = At("split")
  BY JoinTree
<1>4. /\ IsFiniteSet(At("join")) /\ Cardinality(At("join")) \in Nat
      /\ m_async_count = Cardinality(At("join")) + abandoned
      /\ m_async_count \in Nat /\ abandoned \in Nat
  BY JoinsCounted
<1>5. /\ IsFiniteSet(At("join")')
      /\ Cardinality(At("join")') = Cardinality(At("join")) - 1
      /\ Cardinality(At("join")') \in Nat
  BY <1>3, <1>4, FS_RemoveElement, FS_CardinalityType
<1>6. JoinsInv'
  BY <1>2, <1>4, <1>5 DEF JoinsInv, CounterIsSplits
<1>7. m_async_count' \in Nat /\ abandoned' \in Nat /\ m_async_count' <= m_async_count
  BY <1>2, <1>4, <1>5
<1>8. FrameInv'
  BY <1>1, <1>2, <1>7 DEF FrameInv
<1>9. RequestInv'
  <2>1. frame[t][q] # NoCall /\ frame'[t][q] # NoCall
    BY <1>1, ValueFacts
  <2>2. Root \notin Halves(q)
    BY HalfFacts
  <2>3. \A u \in Threads : frame'[u][Root] # NoCall <=> frame[u][Root] # NoCall
    BY <1>1, <2>1, <2>2, RootFacts
  <2>4. QED BY <1>2, <2>3, RequestKept
<1>10. CoverInv'
  BY JoinCover
<1>11. ASSUME AsyncBounded PROVE AsyncBounded'
  <2> SUFFICES ASSUME Limit >= 1
               PROVE  m_async_count' + Cardinality(At("split")')
                        <= 2 * (Limit - 1) + Cardinality(Threads)
    BY DEF AsyncBounded
  <2>1. /\ Limit \in Nat /\ Cardinality(Threads) \in Nat /\ Cardinality(At("split")) \in Nat
    BY SplitsAreBounded, SearchAssumption, FS_CardinalityType DEF SplitsBounded
  <2>2. m_async_count + Cardinality(At("split")) <= 2 * (Limit - 1) + Cardinality(Threads)
    BY <1>11 DEF AsyncBounded
  <2>3. QED BY <1>3, <1>4, <1>7, <2>1, <2>2
<1>12. QED BY <1>3, <1>6, <1>8, <1>9, <1>10, <1>11

\* A step that leaves the calls alone, or changes the first one of a thread
\* that is not waiting: what is left to show is what it says of the request.
LEMMA RootTree ==
  ASSUME FrameInv, TreeInv, JoinsInv, NEW t \in Threads, NEW g \in Frames,
         frame[t][Root].at \notin {"split", "join"}, g.at \notin {"split", "join"},
         frame' = [frame EXCEPT ![t][Root] = g], UNCHANGED <<m_async_count, abandoned>>,
         number' \in [Threads -> Inputs \cup {None}],
         reply' \in [Threads -> {"none", "200", "400", "425", "closed"}]
  PROVE  /\ FrameInv' /\ TreeInv' /\ JoinsInv'
         /\ AsyncBounded => AsyncBounded'
<1>1. frame' \in [Threads -> [Paths -> Frames]]
  BY RootFacts, OneFrame
<1>2. TreeInv' /\ At("join")' = At("join") /\ At("split")' \subseteq At("split")
  BY RootFacts, OneFrameTree
<1>3. FrameInv'
  BY <1>1 DEF FrameInv
<1>4. JoinsInv'
  BY <1>2 DEF JoinsInv, CounterIsSplits
<1>5. ASSUME AsyncBounded PROVE AsyncBounded'
  <2> SUFFICES ASSUME Limit >= 1
               PROVE  m_async_count' + Cardinality(At("split")')
                        <= 2 * (Limit - 1) + Cardinality(Threads)
    BY DEF AsyncBounded
  <2>1. IsFiniteSet(At("split"))
    BY SplitsAreBounded DEF SplitsBounded
  <2>2. IsFiniteSet(At("split")') /\ Cardinality(At("split")') <= Cardinality(At("split"))
    BY <1>2, <2>1, FS_Subset
  <2>3. /\ Limit \in Nat /\ Cardinality(Threads) \in Nat /\ m_async_count \in Nat
        /\ Cardinality(At("split")) \in Nat /\ Cardinality(At("split")') \in Nat
    BY <2>1, <2>2, SearchAssumption, FS_CardinalityType DEF FrameInv
  <2>4. m_async_count + Cardinality(At("split")) <= 2 * (Limit - 1) + Cardinality(Threads)
    BY <1>5 DEF AsyncBounded
  <2>5. QED BY <2>2, <2>3, <2>4
<1>6. QED BY <1>2, <1>3, <1>4, <1>5

LEMMA RootCover ==
  ASSUME FrameInv, TreeInv, CoverInv, NEW t \in Threads, NEW g \in Frames,
         frame[t][Root].at # "join", g.at # "join",
         frame' = [frame EXCEPT ![t][Root] = g],
         \A u \in Threads : u # t => number'[u] = number[u],
         g # NoCall => SearchOf(g, number'[t], 2, Max)
  PROVE  CoverInv'
<1>1. /\ frame'[t][Root] = g
      /\ \A u \in Threads, p \in Paths : u # t \/ p # Root => frame'[u][p] = frame[u][p]
  BY RootFacts DEF FrameInv
<1>2. \A p \in Paths : frame'[t][p].at # "join"
  <2>1. \A p \in Paths : p # Root => frame[t][p] = NoCall
    BY OnlyRoot
  <2>2. NoCall.at # "join"
    BY ValueFacts
  <2>3. QED BY <1>1, <2>1, <2>2
<1>3. ASSUME NEW u \in Threads, u # t, NEW p \in Paths, frame'[u][p].at = "join"
      PROVE  /\ Left(p) \in Paths /\ Right(p) \in Paths
             /\ frame'[u][p] = frame[u][p]
             /\ frame'[u][Left(p)] = frame[u][Left(p)]
             /\ frame'[u][Right(p)] = frame[u][Right(p)]
  <2>1. frame'[u][p] = frame[u][p] /\ Len(p) < Limit
    BY <1>1, <1>3 DEF TreeInv
  <2>2. Left(p) \in Paths /\ Right(p) \in Paths
    BY <2>1, HalfFacts DEF Halves
  <2>3. QED BY <1>1, <1>3, <2>1, <2>2
<1> SUFFICES ASSUME NEW u \in Threads
             PROVE  /\ frame'[u][Root] # NoCall => SearchOf(frame'[u][Root], number'[u], 2, Max)
                    /\ \A p \in Paths : frame'[u][p].at = "join" =>
                         /\ SearchOf(frame'[u][Left(p)], number'[u],
                                     frame'[u][p].start, Mid(frame'[u][p]))
                         /\ SearchOf(frame'[u][Right(p)], number'[u],
                                     Mid(frame'[u][p]), frame'[u][p].end)
  BY DEF CoverInv
<1>4. CASE u = t
  BY <1>1, <1>2, <1>4
<1>5. CASE u # t
  <2>1. frame'[u][Root] # NoCall => SearchOf(frame'[u][Root], number'[u], 2, Max)
    BY <1>1, <1>5, RootFacts DEF CoverInv
  <2>2. ASSUME NEW p \in Paths, frame'[u][p].at = "join"
        PROVE  /\ SearchOf(frame'[u][Left(p)], number'[u],
                           frame'[u][p].start, Mid(frame'[u][p]))
               /\ SearchOf(frame'[u][Right(p)], number'[u],
                           Mid(frame'[u][p]), frame'[u][p].end)
    <3>1. /\ frame'[u][p] = frame[u][p]
          /\ frame'[u][Left(p)] = frame[u][Left(p)]
          /\ frame'[u][Right(p)] = frame[u][Right(p)]
          /\ number'[u] = number[u]
      BY <1>3, <1>5, <2>2
    <3>2. /\ SearchOf(frame[u][Left(p)], number[u], frame[u][p].start, Mid(frame[u][p]))
          /\ SearchOf(frame[u][Right(p)], number[u], Mid(frame[u][p]), frame[u][p].end)
      BY <2>2, <3>1 DEF CoverInv
    <3>3. QED BY <3>1, <3>2
  <2>3. QED BY <2>1, <2>2
<1>6. QED BY <1>4, <1>5

LEMMA FramesKept ==
  ASSUME FrameInv, TreeInv, JoinsInv, CoverInv,
         UNCHANGED <<frame, m_async_count, abandoned>>,
         \A u \in Threads : frame[u][Root] # NoCall => number'[u] = number[u],
         number' \in [Threads -> Inputs \cup {None}],
         reply' \in [Threads -> {"none", "200", "400", "425", "closed"}]
  PROVE  /\ FrameInv' /\ TreeInv' /\ JoinsInv' /\ CoverInv'
         /\ AsyncBounded => AsyncBounded'
<1>1. FrameInv' /\ TreeInv'
  BY DEF FrameInv, TreeInv
<1>2. At("join")' = At("join") /\ At("split")' = At("split")
  BY DEF At, Calls
<1>3. JoinsInv' /\ (AsyncBounded => AsyncBounded')
  BY <1>2 DEF JoinsInv, CounterIsSplits, AsyncBounded
<1>4. \A u \in Threads : frame[u][Root] = NoCall => \A p \in Paths : frame[u][p].at # "join"
  BY OnlyRoot, ValueFacts
<1>5. CoverInv'
  <2> SUFFICES ASSUME NEW u \in Threads
               PROVE  /\ frame[u][Root] # NoCall => SearchOf(frame[u][Root], number'[u], 2, Max)
                      /\ \A p \in Paths : frame[u][p].at = "join" =>
                           /\ SearchOf(frame[u][Left(p)], number'[u],
                                       frame[u][p].start, Mid(frame[u][p]))
                           /\ SearchOf(frame[u][Right(p)], number'[u],
                                       Mid(frame[u][p]), frame[u][p].end)
    BY DEF CoverInv
  <2>1. CASE frame[u][Root] = NoCall
    BY <1>4, <2>1
  <2>2. CASE frame[u][Root] # NoCall
    <3>1. number'[u] = number[u]
      BY <2>2
    <3>2. QED BY <2>2, <3>1 DEF CoverInv
  <2>3. QED BY <2>1, <2>2
<1>6. QED BY <1>1, <1>3, <1>5

LEMMA ReceiveStep ==
  ASSUME SearchInv, NEW t \in Threads, NEW n \in Inputs, Receive(t, n)
  PROVE  SearchInv'
<1>1. FrameInv /\ TreeInv /\ RequestInv /\ JoinsInv /\ CoverInv /\ AnswerIsTheMark /\ AsyncBounded
  BY DEF SearchInv
<1>2. /\ number[t] = None /\ reply[t] = "none" /\ frame[t][Root] = NoCall
      /\ number' = [number EXCEPT ![t] = n] /\ UNCHANGED <<m_async_count, abandoned>>
      /\ n # None /\ n \in Int /\ Max \in Nat
  BY <1>1, SearchAssumption DEF Receive, Idle, RequestInv
<1>3. /\ number' \in [Threads -> Inputs \cup {None}] /\ number'[t] = n
      /\ \A u \in Threads : u # t => number'[u] = number[u]
  BY <1>1, <1>2 DEF FrameInv
<1>4. CASE n > Max
  <2>1. reply' = [reply EXCEPT ![t] = "400"] /\ UNCHANGED frame
    BY <1>2, <1>4 DEF Receive
  <2>2. /\ reply' \in [Threads -> {"none", "200", "400", "425", "closed"}] /\ reply'[t] = "400"
        /\ \A u \in Threads : u # t => reply'[u] = reply[u]
    BY <1>1, <2>1 DEF FrameInv
  <2>3. \A u \in Threads : frame[u][Root] # NoCall => number'[u] = number[u]
    BY <1>2, <1>3
  <2>4. FrameInv' /\ TreeInv' /\ JoinsInv' /\ CoverInv' /\ AsyncBounded'
    BY <1>1, <1>2, <1>3, <2>1, <2>2, <2>3, FramesKept
  <2>5. RequestInv'
    BY <1>1, <1>2, <1>3, <2>1, <2>2 DEF RequestInv
  <2>6. AnswerIsTheMark'
    BY <1>1, <1>3, <2>2 DEF AnswerIsTheMark
  <2>7. QED BY <2>4, <2>5, <2>6 DEF SearchInv
<1>5. CASE n <= Max
  <2> DEFINE g == Calling(2, Max)
  <2>1. /\ g \in Frames /\ g.at = "check"
        /\ frame' = [frame EXCEPT ![t][Root] = g]
        /\ SearchOf(g, n, 2, Max)
    BY <1>1, <1>5, ReceiveFrames
  <2>2. UNCHANGED reply
    BY <1>2, <1>5 DEF Receive
  <2>3. g # NoCall /\ frame[t][Root].at = "none"
    BY <1>2, <2>1, ValueFacts
  <2> HIDE DEF g
  <2>4. reply' \in [Threads -> {"none", "200", "400", "425", "closed"}]
    BY <1>1, <2>2 DEF FrameInv
  <2>5. FrameInv' /\ TreeInv' /\ JoinsInv' /\ AsyncBounded'
    BY <1>1, <1>2, <1>3, <2>1, <2>3, <2>4, RootTree
  <2>6. CoverInv'
    BY <1>1, <1>3, <2>1, <2>3, RootCover
  <2>7. /\ frame'[t][Root] = g
        /\ \A u \in Threads : u # t => frame'[u][Root] = frame[u][Root]
    BY <1>1, <2>1, RootFacts DEF FrameInv
  <2>8. RequestInv'
    <3> SUFFICES ASSUME NEW u \in Threads
                 PROVE  /\ frame'[u][Root] # NoCall <=> number'[u] # None /\ reply'[u] = "none"
                        /\ frame'[u][Root] # NoCall => number'[u] <= Max
      BY DEF RequestInv
    <3>1. CASE u = t
      BY <1>2, <1>3, <1>5, <2>2, <2>3, <2>7, <3>1
    <3>2. CASE u # t
      BY <1>1, <1>3, <2>2, <2>7, <3>2 DEF RequestInv
    <3>3. QED BY <3>1, <3>2
  <2>9. AnswerIsTheMark'
    BY <1>1, <1>2, <1>3, <2>2 DEF AnswerIsTheMark
  <2>10. QED BY <2>5, <2>6, <2>8, <2>9 DEF SearchInv
<1>6. QED BY <1>2, <1>4, <1>5

LEMMA ReceiveNoNumberStep ==
  ASSUME SearchInv, NEW t \in Threads, ReceiveNoNumber(t)
  PROVE  SearchInv'
<1>1. FrameInv /\ TreeInv /\ RequestInv /\ JoinsInv /\ CoverInv /\ AnswerIsTheMark /\ AsyncBounded
  BY DEF SearchInv
<1>2. /\ number[t] = None /\ UNCHANGED <<m_async_count, number, frame, abandoned>>
      /\ reply' = [reply EXCEPT ![t] = "closed"]
  BY DEF ReceiveNoNumber, Idle
<1>3. /\ reply' \in [Threads -> {"none", "200", "400", "425", "closed"}] /\ reply'[t] = "closed"
      /\ \A u \in Threads : u # t => reply'[u] = reply[u]
  BY <1>1, <1>2 DEF FrameInv
<1>4. FrameInv' /\ TreeInv' /\ JoinsInv' /\ CoverInv' /\ AsyncBounded'
  <2>1. number' \in [Threads -> Inputs \cup {None}]
    BY <1>1, <1>2 DEF FrameInv
  <2>2. QED BY <1>1, <1>2, <1>3, <2>1, FramesKept
<1>5. RequestInv'
  BY <1>1, <1>2, <1>3 DEF RequestInv
<1>6. AnswerIsTheMark'
  BY <1>1, <1>2, <1>3 DEF AnswerIsTheMark
<1>7. QED BY <1>4, <1>5, <1>6 DEF SearchInv

LEMMA ReturnStep ==
  ASSUME SearchInv, NEW t \in Threads, Return(t)
  PROVE  SearchInv'
<1>1. FrameInv /\ TreeInv /\ RequestInv /\ JoinsInv /\ CoverInv /\ AnswerIsTheMark /\ AsyncBounded
  BY DEF SearchInv
<1>2. /\ reply[t] # "none" /\ UNCHANGED <<m_async_count, frame, abandoned>>
      /\ reply' = [reply EXCEPT ![t] = "none"] /\ number' = [number EXCEPT ![t] = None]
  BY DEF Return
<1>3. frame[t][Root] = NoCall
  BY <1>1, <1>2 DEF RequestInv
<1>4. /\ reply' \in [Threads -> {"none", "200", "400", "425", "closed"}] /\ reply'[t] = "none"
      /\ number' \in [Threads -> Inputs \cup {None}] /\ number'[t] = None
      /\ \A u \in Threads : u # t => reply'[u] = reply[u] /\ number'[u] = number[u]
  BY <1>1, <1>2 DEF FrameInv
<1>5. FrameInv' /\ TreeInv' /\ JoinsInv' /\ CoverInv' /\ AsyncBounded'
  BY <1>1, <1>2, <1>3, <1>4, FramesKept
<1>6. RequestInv'
  BY <1>1, <1>2, <1>3, <1>4 DEF RequestInv
<1>7. AnswerIsTheMark'
  BY <1>1, <1>4 DEF AnswerIsTheMark
<1>8. QED BY <1>5, <1>6, <1>7 DEF SearchInv

LEMMA AnswerStep ==
  ASSUME SearchInv, NEW t \in Threads, Answer(t)
  PROVE  SearchInv'
<1>1. FrameInv /\ TreeInv /\ RequestInv /\ JoinsInv /\ CoverInv /\ AnswerIsTheMark /\ AsyncBounded
  BY DEF SearchInv
<1> DEFINE f == frame[t][Root]
<1>2. /\ f \in {Returned(TRUE), Returned(FALSE), Threw}
      /\ f.at \in {"returned", "threw"} /\ f # NoCall
      /\ frame' = [frame EXCEPT ![t][Root] = NoCall]
      /\ f = Returned(TRUE) => reply' = [reply EXCEPT ![t] = "200"]
      /\ f = Returned(FALSE) => reply' = [reply EXCEPT ![t] = "425"]
      /\ f = Threw => reply' = [reply EXCEPT ![t] = "closed"]
      /\ UNCHANGED <<m_async_count, number, abandoned>>
  BY <1>1, AnswerFrames DEF Answer
<1>3. NoCall \in Frames /\ NoCall.at = "none"
  BY ValueFacts
<1>4. /\ SearchOf(f, number[t], 2, Max) /\ number[t] <= Max
      /\ number[t] # None /\ reply[t] = "none"
  BY <1>1, <1>2 DEF CoverInv, RequestInv
<1> HIDE DEF f
<1>5. /\ reply' \in [Threads -> {"none", "200", "400", "425", "closed"}]
      /\ reply'[t] \in {"200", "425", "closed"}
      /\ reply'[t] = "200" => f = Returned(TRUE)
      /\ reply'[t] = "425" => f = Returned(FALSE)
      /\ \A u \in Threads : u # t => reply'[u] = reply[u]
  BY <1>1, <1>2 DEF FrameInv
<1>6. number' \in [Threads -> Inputs \cup {None}]
  BY <1>1, <1>2 DEF FrameInv
<1>7. FrameInv' /\ TreeInv' /\ JoinsInv' /\ AsyncBounded'
  BY <1>1, <1>2, <1>3, <1>5, <1>6, RootTree DEF f
<1>8. CoverInv'
  BY <1>1, <1>2, <1>3, RootCover DEF f
<1>9. /\ frame'[t][Root] = NoCall
      /\ \A u \in Threads : u # t => frame'[u][Root] = frame[u][Root]
  <2>1. Root \in Paths /\ frame' = [frame EXCEPT ![t][Root] = NoCall]
    BY <1>2, RootFacts
  <2>2. frame \in [Threads -> [Paths -> Frames]]
    BY <1>1 DEF FrameInv
  <2>3. QED BY <2>1, <2>2
<1>10. RequestInv'
  <2> SUFFICES ASSUME NEW u \in Threads
               PROVE  /\ frame'[u][Root] # NoCall <=> number'[u] # None /\ reply'[u] = "none"
                      /\ frame'[u][Root] # NoCall => number'[u] <= Max
    BY DEF RequestInv
  <2>1. CASE u = t
    BY <1>5, <1>9, <2>1
  <2>2. CASE u # t
    BY <1>1, <1>2, <1>5, <1>9, <2>2 DEF RequestInv
  <2>3. QED BY <2>1, <2>2
<1>11. AnswerIsTheMark'
  <2> SUFFICES ASSUME NEW u \in Threads
               PROVE  /\ reply'[u] = "200" => /\ number'[u] \in Marked
                                              /\ number'[u] < 2 => Max > 2 * IntMax + 1
                      /\ reply'[u] = "425" =>
                           /\ number'[u] <= Max
                           /\ number'[u] <= IntMax => number'[u] \notin Marked \cap (2..Max)
    BY DEF AnswerIsTheMark
  <2>1. CASE u = t
    BY <1>2, <1>4, <1>5, <2>1 DEF SearchOf
  <2>2. CASE u # t
    BY <1>1, <1>2, <1>5, <2>2 DEF AnswerIsTheMark
  <2>3. QED BY <2>1, <2>2
<1>12. QED BY <1>7, <1>8, <1>10, <1>11 DEF SearchInv

LEMMA CallStepStep ==
  ASSUME SearchInv, NEW t \in Threads, NEW q \in Paths, CallStep(t, q)
  PROVE  SearchInv'
<1>1. FrameInv /\ TreeInv /\ RequestInv /\ JoinsInv /\ CoverInv /\ AnswerIsTheMark /\ AsyncBounded
  BY DEF SearchInv
<1>2. FrameInv' /\ TreeInv' /\ RequestInv' /\ JoinsInv' /\ CoverInv' /\ AsyncBounded'
  BY <1>1, CheckStep, SplitStep, SplitThrowsStep, JoinStep DEF CallStep
<1>3. UNCHANGED <<number, reply>>
  BY DEF CallStep, Check, Split, SplitThrows, Join
<1>4. AnswerIsTheMark'
  BY <1>1, <1>3 DEF AnswerIsTheMark
<1>5. QED BY <1>2, <1>4 DEF SearchInv

-----------------------------------------------------------------------------
(* The theorems.                                                           *)

LEMMA SearchInvariant == Spec => []SearchInv
<1>1. Init => SearchInv
  <2> SUFFICES ASSUME Init PROVE SearchInv
    OBVIOUS
  <2>1. /\ m_async_count = 0 /\ abandoned = 0
        /\ number = [t \in Threads |-> None] /\ reply = [t \in Threads |-> "none"]
        /\ \A t \in Threads, q \in Paths : frame[t][q] = NoCall
        /\ NoCall \in Frames /\ NoCall.at = "none" /\ Root \in Paths
    BY ValueFacts, RootFacts DEF Init
  <2>2. FrameInv
    BY <2>1 DEF Init, FrameInv
  <2>3. TreeInv
    BY <2>1 DEF TreeInv
  <2>4. RequestInv
    BY <2>1 DEF RequestInv
  <2>5. At("join") = {} /\ At("split") = {}
    BY <2>1 DEF At, Calls
  <2>6. JoinsInv
    <3>1. IsFiniteSet(At("join")) /\ Cardinality(At("join")) = 0
      BY <2>5, FS_EmptySet
    <3>2. QED BY <2>1, <3>1 DEF JoinsInv, CounterIsSplits
  <2>7. CoverInv
    BY <2>1 DEF CoverInv
  <2>8. AnswerIsTheMark
    BY <2>1 DEF AnswerIsTheMark
  <2>9. AsyncBounded
    <3>1. Cardinality(Threads) \in Nat /\ Limit \in Nat /\ Cardinality(At("split")) = 0
      BY <2>5, SearchAssumption, FS_EmptySet, FS_CardinalityType
    <3>2. QED BY <2>1, <3>1 DEF AsyncBounded
  <2>10. QED BY <2>2, <2>3, <2>4, <2>6, <2>7, <2>8, <2>9 DEF SearchInv
<1>2. SearchInv /\ [Next]_vars => SearchInv'
  <2> SUFFICES ASSUME SearchInv, [Next]_vars PROVE SearchInv'
    OBVIOUS
  <2>1. CASE UNCHANGED vars
    <3>1. FrameInv /\ TreeInv /\ RequestInv /\ JoinsInv /\ CoverInv /\ AnswerIsTheMark
          /\ AsyncBounded
      BY DEF SearchInv
    <3>2. UNCHANGED <<m_async_count, number, reply, frame, abandoned>>
      BY <2>1 DEF vars
    <3>3. FrameInv' /\ TreeInv' /\ JoinsInv' /\ CoverInv' /\ AsyncBounded'
      <4>1. /\ number' \in [Threads -> Inputs \cup {None}]
            /\ reply' \in [Threads -> {"none", "200", "400", "425", "closed"}]
        BY <3>1, <3>2 DEF FrameInv
      <4>2. QED BY <3>1, <3>2, <4>1, FramesKept
    <3>4. RequestInv' /\ AnswerIsTheMark'
      BY <3>1, <3>2 DEF RequestInv, AnswerIsTheMark
    <3>5. QED BY <3>3, <3>4 DEF SearchInv
  <2>2. CASE Next
    BY <2>2, ReceiveStep, ReceiveNoNumberStep, AnswerStep, ReturnStep, CallStepStep DEF Next
  <2>3. QED BY <2>1, <2>2
<1>3. QED BY <1>1, <1>2, PTL DEF Spec

\* The search is typed: every call searches a part of 2..Max and has a caller
\* that waits for it, the counter never goes below zero, and no request gets a
\* status but the callback's.
THEOREM TypeCorrect == Spec => []TypeOK
<1>1. SearchInv => TypeOK
  <2> SUFFICES ASSUME SearchInv PROVE TypeOK
    OBVIOUS
  <2>1. FrameInv /\ TreeInv
    BY DEF SearchInv
  <2>2. ASSUME NEW t \in Threads, NEW q \in Paths, frame[t][q].at # "none"
        PROVE  /\ frame[t][q].at \in {"check", "split", "join", "returned", "threw"}
               /\ frame[t][q].at \in {"check", "split", "join"} =>
                    frame[t][q].start \in 2..Max /\ frame[t][q].end \in (frame[t][q].start)..Max
               /\ q # Root => frame[t][SubSeq(q, 1, Len(q) - 1)].at = "join"
    <3>1. frame[t][q] \in Frames /\ frame[t][q] # NoCall
      BY <2>1, <2>2, CallFacts, FrameFacts
    <3>2. q # Root => SubSeq(q, 1, Len(q) - 1) \in Above(q)
      BY CallerFacts DEF Caller
    <3>3. q # Root => frame[t][SubSeq(q, 1, Len(q) - 1)].at = "join"
      BY <2>1, <3>1, <3>2 DEF TreeInv
    <3>4. QED BY <2>2, <3>1, <3>3, FrameFacts
  <2>3. \A c \in Calls : /\ c[1] \in Threads /\ c[2] \in Paths
                         /\ frame[c[1]][c[2]].at # "none"
    BY DEF Calls
  <2>4. QED BY <2>1, <2>2, <2>3 DEF FrameInv, TypeOK
<1>2. QED BY <1>1, SearchInvariant, PTL

\* For every number of threads, however the interval is cut up and whatever
\* fails: 200 is only for numbers whose mark is set, 425 never for one whose
\* mark is set and that an int can hold.
THEOREM AnswersAreTheMarks == Spec => []AnswerIsTheMark
<1>1. SearchInv => AnswerIsTheMark
  BY DEF SearchInv
<1>2. QED BY <1>1, SearchInvariant, PTL

\* The test of m_async_count and its increment are two steps, and still the
\* counter stays below twice the limit plus the number of HTTP threads.
THEOREM WorkersAreBounded == Spec => []AsyncBounded
<1>1. SearchInv => AsyncBounded
  BY DEF SearchInv
<1>2. QED BY <1>1, SearchInvariant, PTL

\* m_async_count is the number of splits in progress and of those an
\* exception has left.
THEOREM CounterCountsSplits == Spec => []CounterIsSplits
<1>1. SearchInv => CounterIsSplits
  BY DEF SearchInv, JoinsInv
<1>2. QED BY <1>1, SearchInvariant, PTL
=============================================================================
