----------------------------- MODULE PagingProofs -----------------------------
(***************************************************************************)
(* Proofs about what comes and what is shown page by page.                 *)
(*                                                                         *)
(* ApiFetch, for lists of every length, every page size and every limit:   *)
(* nothing is read twice, nothing before Offset is left out but what the   *)
(* limits cut off, the number of requests, and the contract of a provider  *)
(* for a well-behaved API.                                                 *)
(*                                                                         *)
(* ResultPages, for any number of rows and every page size: the pages show *)
(* every row once and in the order of the export, whose values are those   *)
(* of the pages.                                                           *)
(*                                                                         *)
(* Both rest on the ranks in a finite set of numbers, which come first.    *)
(***************************************************************************)
EXTENDS ApiFetch, ResultPages, FiniteSetTheorems, SequenceTheorems, WellFoundedInduction, TLAPS

\* A set of numbers has a least.
LEMMA LeastNumber ==
  ASSUME NEW T \in SUBSET Nat, T # {}
  PROVE  \E n \in T : \A m \in T : n <= m
<1>1. PICK n \in T : \A m \in T : <<m, n>> \notin OpToRel(<, Nat)
  BY NatLessThanWellFounded, WFMin
<1>2. \A m \in T : ~(m < n)
  BY <1>1 DEF OpToRel
<1> QED BY <1>2

\* A set of numbers below a bound has a greatest.
LEMMA GreatestNumber ==
  ASSUME NEW T \in SUBSET Nat, T # {}, NEW bound \in Nat, \A n \in T : n <= bound
  PROVE  \E n \in T : \A m \in T : m <= n
<1> DEFINE over == {n \in Nat : \A m \in T : m <= n}
<1>1. PICK top \in over : \A n \in over : top <= n
  <2>1. over \in SUBSET Nat /\ bound \in over
    OBVIOUS
  <2> HIDE DEF over
  <2> QED BY <2>1, LeastNumber
<1>2. top \in T
  <2> SUFFICES ASSUME top \notin T PROVE FALSE
    OBVIOUS
  <2>1. \A m \in T : m \in Nat /\ m < top
    BY <1>1
  <2>2. top - 1 \in over
    <3>1. top - 1 \in Nat
      <4>1. PICK m \in T : m \in Nat /\ m < top
        BY <2>1
      <4>2. top \in Nat
        BY <1>1
      <4> QED BY <4>1, <4>2
    <3>2. \A m \in T : m <= top - 1
      BY <1>1, <2>1
    <3> QED BY <3>1, <3>2
  <2> QED BY <1>1, <2>2
<1> QED BY <1>1, <1>2

\* The numbers of a set up to one of them.
UpTo(K, i) == {j \in K : j <= i}

\* How many numbers of a finite set are up to one of them: its rank.
LEMMA UpToFacts ==
  ASSUME NEW K \in SUBSET Nat, IsFiniteSet(K)
  PROVE  /\ \A k \in K : k \in Nat
         /\ Cardinality(K) \in Nat
         /\ \A i \in K : /\ i \in UpTo(K, i) /\ UpTo(K, i) \subseteq K
                        /\ IsFiniteSet(UpTo(K, i))
                        /\ Cardinality(UpTo(K, i)) \in 1..Cardinality(K)
         /\ \A i, k \in K : i <= k =>
              /\ UpTo(K, i) \subseteq UpTo(K, k)
              /\ Cardinality(UpTo(K, i)) <= Cardinality(UpTo(K, k))
         /\ \A i, k \in K : i < k => Cardinality(UpTo(K, i)) # Cardinality(UpTo(K, k))
<1>1. (\A k \in K : k \in Nat) /\ Cardinality(K) \in Nat
  BY FS_CardinalityType
<1>2. \A i \in K : i \in UpTo(K, i) /\ UpTo(K, i) \subseteq K
  BY <1>1 DEF UpTo
<1>3. \A i \in K : /\ IsFiniteSet(UpTo(K, i)) /\ Cardinality(UpTo(K, i)) \in Nat
                   /\ Cardinality(UpTo(K, i)) <= Cardinality(K)
  BY <1>2, FS_Subset, FS_CardinalityType
<1>4. \A i \in K : Cardinality(UpTo(K, i)) # 0
  BY <1>2, <1>3, FS_EmptySet
<1>5. \A i, k \in K : i <= k => UpTo(K, i) \subseteq UpTo(K, k)
  <2>1. \A i, j, k \in K : j <= i /\ i <= k => j <= k
    BY <1>1
  <2> QED BY <2>1 DEF UpTo
<1>6. \A i, k \in K : i <= k => Cardinality(UpTo(K, i)) <= Cardinality(UpTo(K, k))
  BY <1>3, <1>5, FS_Subset
<1>7. ASSUME NEW i \in K, NEW k \in K, i < k
      PROVE  Cardinality(UpTo(K, i)) # Cardinality(UpTo(K, k))
  <2>1. k \notin UpTo(K, i)
    BY <1>1, <1>7 DEF UpTo
  <2>2. UpTo(K, i) \subseteq UpTo(K, k)
    BY <1>1, <1>5, <1>7
  <2> QED BY <1>2, <1>3, <2>1, <2>2, FS_Subset
<1>8. \A i \in K : Cardinality(UpTo(K, i)) \in 1..Cardinality(K)
  BY <1>1, <1>3, <1>4
<1> QED
  BY <1>1, <1>2, <1>3, <1>5, <1>6, <1>7, <1>8

\* A finite set of numbers below a bound has an n-th for each n up to its size.
LEMMA NthNumber ==
  ASSUME NEW K \in SUBSET Nat, IsFiniteSet(K), NEW bound \in Nat, \A k \in K : k <= bound,
         NEW n \in 1..Cardinality(K)
  PROVE  \E i \in K : Cardinality(UpTo(K, i)) = n
<1> DEFINE enough == {i \in K : n <= Cardinality(UpTo(K, i))}
<1>1. enough # {}
  <2>1. K # {}
    BY UpToFacts, FS_EmptySet
  <2>2. PICK top \in K : \A j \in K : j <= top
    BY <2>1, GreatestNumber
  <2>3. UpTo(K, top) = K
    BY <2>2 DEF UpTo
  <2> QED BY <2>3, UpToFacts
<1>2. PICK i \in enough : \A m \in enough : i <= m
  <2>1. enough \in SUBSET Nat
    OBVIOUS
  <2> HIDE DEF enough
  <2> QED BY <1>1, <2>1, LeastNumber
<1>3. i \in K /\ n <= Cardinality(UpTo(K, i))
  BY <1>2
<1> DEFINE below == {j \in K : j < i}
<1>4. below \in SUBSET K /\ IsFiniteSet(below) /\ Cardinality(below) \in Nat
  BY FS_Subset, FS_CardinalityType
<1>5. Cardinality(UpTo(K, i)) = Cardinality(below) + 1
  <2>1. UpTo(K, i) = below \union {i} /\ i \notin below
    <3>1. \A j \in K : j <= i <=> j < i \/ j = i
      BY <1>3, UpToFacts
    <3>2. ~(i < i)
      BY <1>3, UpToFacts
    <3> QED BY <1>3, <3>1, <3>2 DEF UpTo
  <2> HIDE DEF below
  <2> QED BY <1>4, <2>1, FS_AddElement
<1>6. Cardinality(below) < n
  <2> SUFFICES ASSUME n <= Cardinality(below) PROVE FALSE
    BY <1>4
  <2>1. below # {}
    BY <1>4, FS_EmptySet
  <2>2. PICK top \in below : \A j \in below : j <= top
    BY <2>1, GreatestNumber
  <2>3. below = UpTo(K, top)
    <3>1. top \in K /\ top < i /\ top \in Nat /\ i \in Nat
      BY <1>3, <2>2
    <3>2. \A j \in K : j < i <=> j <= top
      BY <2>2, <3>1
    <3> QED BY <3>2 DEF UpTo
  <2>4. top \in enough /\ ~(i <= top)
    BY <1>3, <2>2, <2>3
  <2> QED BY <1>2, <2>4
<1>7. Cardinality(UpTo(K, i)) = n
  BY <1>3, <1>4, <1>5, <1>6
<1> QED
  BY <1>3, <1>7

\* Numbers listed by their rank: in order, each once, none left out.
Ranked(K) ==
  [n \in 1..Cardinality(K) |-> CHOOSE i \in K : Cardinality(UpTo(K, i)) = n]

\* Ranked lists a set in ascending order, each number once.
LEMMA ByRank ==
  ASSUME NEW K \in SUBSET Nat, IsFiniteSet(K), NEW bound \in Nat, \A k \in K : k <= bound
  PROVE  /\ Ranked(K) \in Seq(K) /\ Len(Ranked(K)) = Cardinality(K)
         /\ \A m, n \in DOMAIN Ranked(K) : m < n => Ranked(K)[m] < Ranked(K)[n]
         /\ Range(Ranked(K)) = K
<1> DEFINE R == Ranked(K)
<1>1. Cardinality(K) \in Nat /\ DOMAIN R = 1..Cardinality(K)
  BY UpToFacts DEF Ranked
<1>2. \A n \in DOMAIN R : R[n] \in K /\ Cardinality(UpTo(K, R[n])) = n
  BY NthNumber DEF Ranked
<1>3. R \in Seq(K) /\ Len(R) = Cardinality(K)
  BY <1>1, <1>2 DEF Ranked
<1> HIDE DEF R
<1>4. \A n \in DOMAIN R : R[n] \in K /\ R[n] \in Nat /\ n \in Nat
  <2>1. \A k \in K : k \in Nat
    OBVIOUS
  <2>2. \A n \in 1..Cardinality(K) : n \in Nat
    BY <1>1
  <2>3. \A n \in DOMAIN R : n \in Nat
    BY <1>1, <2>2
  <2> QED BY <1>2, <2>1, <2>3
<1>5. ASSUME NEW m \in DOMAIN R, NEW n \in DOMAIN R, m < n
      PROVE  R[m] < R[n]
  <2> SUFFICES ASSUME R[n] <= R[m] PROVE FALSE
    BY <1>4
  <2>1. Cardinality(UpTo(K, R[n])) <= Cardinality(UpTo(K, R[m]))
    BY <1>4, UpToFacts
  <2> QED BY <1>2, <1>4, <1>5, <2>1
<1>6. ASSUME NEW i \in K
      PROVE  \E n \in DOMAIN R : R[n] = i
  <2>1. Cardinality(UpTo(K, i)) \in DOMAIN R
    BY <1>1, UpToFacts
  <2>2. PICK k \in K : k = R[Cardinality(UpTo(K, i))]
    BY <1>4, <2>1
  <2>3. Cardinality(UpTo(K, k)) = Cardinality(UpTo(K, i))
    BY <1>2, <2>1, <2>2
  <2>4. k \in Nat /\ i \in Nat
    OBVIOUS
  <2>5. k = i
    BY <2>3, <2>4, UpToFacts
  <2> QED BY <2>1, <2>2, <2>5
<1>7. Range(R) = K
  BY <1>4, <1>6 DEF Range
<1> QED
  BY <1>3, <1>5, <1>7 DEF R

\* A finite set of numbers has a bound.
LEMMA FiniteBound ==
  ASSUME NEW K \in SUBSET Nat, IsFiniteSet(K)
  PROVE  \E bound \in Nat : \A k \in K : k <= bound
<1> DEFINE Bounded(L) == \E bound \in Nat : \A k \in L : k <= bound
           sizes == {n \in Nat : \E L \in SUBSET Nat :
                       IsFiniteSet(L) /\ Cardinality(L) = n /\ ~Bounded(L)}
<1> SUFFICES ASSUME ~Bounded(K) PROVE FALSE
  OBVIOUS
<1>1. Cardinality(K) \in sizes
  BY FS_CardinalityType
<1>2. PICK n \in sizes : \A m \in sizes : n <= m
  <2>1. sizes \in SUBSET Nat
    OBVIOUS
  <2> HIDE DEF sizes
  <2> QED BY <1>1, <2>1, LeastNumber
<1>3. PICK L \in SUBSET Nat : IsFiniteSet(L) /\ Cardinality(L) = n /\ ~Bounded(L)
  BY <1>2
<1>4. L # {}
  BY <1>3
<1>5. PICK x \in L : TRUE
  BY <1>4
<1> DEFINE M == L \ {x}
<1>6. IsFiniteSet(M) /\ Cardinality(M) = n - 1 /\ M \in SUBSET Nat
  BY <1>3, <1>5, FS_RemoveElement
<1>7. n - 1 \in Nat
  BY <1>6, FS_CardinalityType
<1>8. n - 1 \notin sizes
  BY <1>2, <1>7
<1>9. Bounded(M)
  BY <1>6, <1>7, <1>8
<1>10. PICK bound \in Nat : \A k \in M : k <= bound
  BY <1>9
<1>11. x \in Nat
  BY <1>3, <1>5
<1>12. CASE x <= bound
  <2>1. \A k \in L : k <= bound
    BY <1>10, <1>12
  <2> QED BY <1>3, <2>1
<1>13. CASE ~(x <= bound)
  <2>1. \A k \in L : k \in Nat
    OBVIOUS
  <2>2. \A k \in L : k <= x
    BY <1>10, <1>11, <1>13, <2>1
  <2> QED BY <1>3, <1>11, <2>2
<1> QED BY <1>12, <1>13

\* An injective list of a finite set's size holds each of its elements.
LEMMA ListsAll ==
  ASSUME NEW S, IsFiniteSet(S), NEW s \in SetToSeqs(S)
  PROVE  /\ Cardinality(S) \in Nat /\ s \in [1..Cardinality(S) -> S]
         /\ \A i, j \in 1..Cardinality(S) : i # j => s[i] # s[j]
         /\ \A x \in S : \E i \in 1..Cardinality(S) : s[i] = x
<1> DEFINE n == Cardinality(S)
<1>1. n \in Nat
  BY FS_CardinalityType
<1>2. s \in [1..n -> S] /\ \A i, j \in 1..n : i # j => s[i] # s[j]
  BY DEF SetToSeqs
<1>3. s \in Injection(1..n, S)
  BY <1>2 DEF Injection, IsInjective
<1>4. Cardinality(1..n) = n
  BY <1>1, FS_Interval
<1>5. s \in Surjection(1..n, S)
  BY <1>3, <1>4, FS_Injection
<1> QED BY <1>1, <1>2, <1>5 DEF Surjection

-----------------------------------------------------------------------------
\* The places of a page.
LEMMA PlacesShape ==
  ASSUME TypeOK, NEW first \in Nat, NEW size \in Nat
  PROVE  LET page_ == Places(first, size)
             last == Len(server.list)
         IN  /\ last \in Nat /\ DOMAIN server.list = 1..last
             /\ page_ \subseteq 1..last /\ IsFiniteSet(page_)
             /\ Cardinality(page_) \in Nat
             /\ Cardinality(page_) <= size
             /\ \A i \in page_ : i <= first + Cardinality(page_)
             /\ first + size <= last => Cardinality(page_) = size
             /\ first <= last /\ last <= first + size => Cardinality(page_) = last - first
<1> DEFINE last == Len(server.list)
<1>1. last \in Nat /\ DOMAIN server.list = 1..last
  BY ServersAssumption DEF TypeOK, Server
<1>2. Places(first, size) \subseteq 1..last
  BY <1>1 DEF Places
<1>3. IsFiniteSet(1..last)
  BY <1>1, FS_Interval
<1>4. IsFiniteSet(Places(first, size)) /\ Cardinality(Places(first, size)) \in Nat
  BY <1>2, <1>3, FS_Subset, FS_CardinalityType
<1>5. ASSUME first + size <= last PROVE Cardinality(Places(first, size)) = size
  <2>1. Places(first, size) = (first + 1)..(first + size)
    BY <1>1, <1>5 DEF Places
  <2>2. Cardinality((first + 1)..(first + size))
          = IF first + 1 > first + size THEN 0 ELSE first + size - (first + 1) + 1
    BY FS_Interval
  <2> QED BY <2>1, <2>2
<1>6. ASSUME first <= last, last <= first + size
      PROVE  Cardinality(Places(first, size)) = last - first
  <2>1. Places(first, size) = (first + 1)..last
    BY <1>1, <1>6 DEF Places
  <2>2. first + 1 \in Int /\ last \in Int
    BY <1>1
  <2>3. Cardinality((first + 1)..last)
          = IF first + 1 > last THEN 0 ELSE last - (first + 1) + 1
    <3> HIDE DEF last
    <3> QED BY <2>2, FS_Interval
  <2> QED BY <1>1, <1>6, <2>1, <2>3
<1>7. Cardinality(Places(first, size)) <= size
  <2>1. CASE first <= last
    BY <1>1, <1>5, <1>6, <2>1
  <2>2. CASE last < first
    <3>1. Places(first, size) = {}
      BY <1>1, <2>2 DEF Places
    <3> QED BY <3>1, FS_EmptySet
  <2> QED BY <1>1, <2>1, <2>2
<1>8. ASSUME NEW i \in Places(first, size)
      PROVE  i <= first + Cardinality(Places(first, size))
  <2>1. i \in 1..last /\ first < i /\ i <= first + size
    BY <1>2 DEF Places
  <2>2. CASE first + size <= last
    BY <1>5, <2>1, <2>2
  <2>3. CASE ~(first + size <= last)
    BY <1>1, <1>6, <2>1, <2>3
  <2> QED BY <2>2, <2>3
<1> QED
  BY <1>1, <1>2, <1>4, <1>5, <1>6, <1>7, <1>8

\* What is kept of a page: the objects, in their order.
LEMMA RecordsShape ==
  ASSUME TypeOK, NEW places \in SUBSET DOMAIN server.list
  PROVE  LET objects == {i \in places : server.list[i] # "junk"}
         IN  /\ Records(places) \in Seq(DOMAIN server.list)
             /\ Range(Records(places)) = objects
             /\ Len(Records(places)) = Cardinality(objects)
             /\ Cardinality(objects) <= Cardinality(places)
             /\ Cardinality(objects) = Cardinality(places) => objects = places
             /\ \A m, n \in DOMAIN Records(places) :
                  m < n => Records(places)[m] < Records(places)[n]
<1> DEFINE objects == {i \in places : server.list[i] # "junk"}
           last == Len(server.list)
<1>1. last \in Nat /\ DOMAIN server.list = 1..last
  BY ServersAssumption DEF TypeOK, Server
<1>2. IsFiniteSet(1..last)
  BY <1>1, FS_Interval
<1>3. /\ IsFiniteSet(places) /\ IsFiniteSet(objects)
      /\ Cardinality(objects) <= Cardinality(places)
      /\ Cardinality(objects) = Cardinality(places) => objects = places
  <2>1. IsFiniteSet(places)
    BY <1>1, <1>2, FS_Subset
  <2>2. objects \in SUBSET places
    OBVIOUS
  <2> HIDE DEF objects
  <2> QED BY <2>1, <2>2, FS_Subset
<1>4. objects \in SUBSET Nat /\ \A k \in objects : k <= last
  BY <1>1
<1>5. Records(places) = Ranked(objects)
  BY DEF Records, Ranked, UpTo
<1>6. objects \subseteq DOMAIN server.list
  OBVIOUS
<1> HIDE DEF objects, last
<1>7. /\ Records(places) \in Seq(objects)
      /\ Len(Records(places)) = Cardinality(objects)
      /\ \A m, n \in DOMAIN Records(places) : m < n => Records(places)[m] < Records(places)[n]
      /\ Range(Records(places)) = objects
  BY <1>1, <1>3, <1>4, <1>5, ByRank
<1>8. Records(places) \in Seq(DOMAIN server.list)
  BY <1>6, <1>7
<1> QED
  BY <1>3, <1>7, <1>8 DEF objects

-----------------------------------------------------------------------------
\* IInv holds at the start, and every step keeps it.
LEMMA InitStep == Init => IInv
<1> SUFFICES ASSUME Init PROVE IInv
  OBVIOUS
<1>1. server \in Servers /\ Len(server.list) \in Nat /\ server.cap \in Nat \ {0}
  BY ServersAssumption DEF Init, Server
<1>2. TypeOK
  <2>1. MaxPages * MaxRetries + 1 \in Nat
    BY LimitAssumption
  <2>2. sent \in 0..TooMany
    BY <2>1 DEF Init, TooMany
  <2> QED BY <1>1, <2>2, LimitAssumption DEF Init, TypeOK
<1>3. 0 * MaxRetries = 0 /\ 0 * PageSize = 0 /\ MaxPages * MaxRetries \in Nat \ {0}
  BY LimitAssumption
<1>4. SoFar /\ RequestsBounded
  BY <1>3, LimitAssumption DEF Init, SoFar, RequestsBounded, TooMany
<1>5. Offset = 0
  BY <1>1, LimitAssumption DEF Init, Offset, Smaller, Paging
<1>6. ReadInOrder
  BY <1>3 DEF Init, ReadInOrder
<1>7. NothingLeftOut
  <2>1. DOMAIN server.list = 1..Len(server.list)
    BY <1>1, ServersAssumption DEF Server
  <2>2. Places(0, 0) = {}
    BY <1>1, <2>1 DEF Places
  <2> QED BY <1>5, <2>2 DEF Init, NothingLeftOut
<1> QED
  BY <1>2, <1>4, <1>6, <1>7 DEF IInv

\* One more request fits into the attempts of the pages begun.
LEMMA OneMore ==
  ASSUME TypeOK, SoFar, pc \in {"request", "pause"}
  PROVE  /\ sent + 1 \in Nat /\ sent + 1 < TooMany
         /\ Smaller(sent + 1, TooMany) = sent + 1
         /\ sent + 1 <= (page + 1) * MaxRetries
         /\ sent + 1 <= page * MaxRetries + (attempt + 1)
<1> DEFINE whole == page * MaxRetries
<1>1. /\ sent \in Nat /\ attempt \in Nat /\ attempt <= MaxRetries - 1
      /\ page \in Nat /\ page < MaxPages /\ sent <= whole + attempt
      /\ MaxRetries \in Nat /\ MaxPages \in Nat
  BY LimitAssumption DEF TypeOK, SoFar, TooMany
<1>2. whole \in Nat /\ (page + 1) * MaxRetries = whole + MaxRetries
  BY <1>1
<1>3. (page + 1) * MaxRetries <= MaxPages * MaxRetries /\ MaxPages * MaxRetries \in Nat
  BY <1>1
<1> HIDE DEF whole
<1>4. sent + 1 <= whole + MaxRetries
  BY <1>1, <1>2
<1> QED
  BY <1>1, <1>2, <1>3, <1>4 DEF TooMany, Smaller, whole

\* Where a page begins, and how much of it there may be.
LEMMA PageAsked ==
  ASSUME TypeOK, ReadInOrder, pc = "request", NEW places \in Pages
  PROVE  /\ Offset \in Nat
         /\ \E size \in Nat :
              /\ places = Places(Offset, size)
              /\ paging \in {"offset_limit", "page_number"} =>
                   /\ size <= PageSize /\ size <= server.cap
                   /\ PageSize <= server.cap => size = PageSize
                   /\ Offset = page * PageSize
              /\ paging = "none" => size = server.cap
              /\ ~server.gaps => size > 0
<1>1. /\ server.cap \in Nat \ {0} /\ PageSize \in Nat \ {0} /\ page \in Nat /\ cursor \in Nat
      /\ Len(raw) \in Nat
  <2>1. server.cap \in Nat \ {0} /\ Len(server.list) \in Nat
    BY ServersAssumption DEF TypeOK, Server
  <2> QED BY <2>1, LimitAssumption DEF TypeOK
<1>2. /\ Smaller(PageSize, server.cap) \in Nat \ {0}
      /\ Smaller(PageSize, server.cap) <= PageSize /\ Smaller(PageSize, server.cap) <= server.cap
      /\ PageSize <= server.cap => Smaller(PageSize, server.cap) = PageSize
  BY <1>1 DEF Smaller
<1>3. paging \in {"offset_limit", "page_number"} => Offset = page * PageSize
  <2>1. paging = "offset_limit" => Offset = Len(raw)
    BY DEF Offset
  <2>2. paging = "page_number" => Offset = page * Smaller(PageSize, server.cap)
    BY DEF Offset
  <2>3. page = 0 => page * Smaller(PageSize, server.cap) = 0 /\ page * PageSize = 0
    BY <1>1, <1>2
  <2>4. page # 0 => PageSize <= server.cap \/ paging \notin {"offset_limit", "page_number"}
    BY <1>1 DEF ReadInOrder
  <2> QED BY <1>2, <2>1, <2>2, <2>3, <2>4 DEF ReadInOrder
<1>4. paging \notin {"offset_limit", "page_number"} =>
        Offset = IF cursor = 0 THEN 0 ELSE cursor - 1
  BY DEF Offset
<1>5. Offset \in Nat
  BY <1>1, <1>3, <1>4
<1>6. CASE paging \in {"offset_limit", "page_number"}
  <2>1. places = Places(Offset, Smaller(PageSize, server.cap))
    BY <1>6 DEF Pages
  <2> QED BY <1>2, <1>3, <1>5, <1>6, <2>1
<1>7. CASE paging = "none"
  <2>1. places = Places(Offset, server.cap)
    BY <1>7 DEF Pages
  <2> QED BY <1>1, <1>5, <1>7, <2>1
<1>8. CASE paging = "cursor"
  <2>1. PICK size \in (IF server.gaps THEN 0 ELSE 1)..server.cap : places = Places(Offset, size)
    BY <1>8 DEF Pages
  <2>2. size \in Nat /\ (~server.gaps => size > 0)
    BY <1>1, <2>1
  <2> QED BY <1>5, <1>8, <2>1, <2>2
<1> QED
  BY <1>6, <1>7, <1>8 DEF TypeOK, Paging

\* What a sequence holds that continues another.
LEMMA Continued ==
  ASSUME NEW S, NEW s \in Seq(S), NEW t \in Seq(S)
  PROVE  /\ s \o t \in Seq(S)
         /\ Len(s \o t) = Len(s) + Len(t)
         /\ Len(s) \in Nat /\ Len(t) \in Nat
         /\ DOMAIN s = 1..Len(s) /\ DOMAIN t = 1..Len(t)
         /\ DOMAIN (s \o t) = 1..(Len(s) + Len(t))
         /\ \A i \in 1..Len(s) : (s \o t)[i] = s[i]
         /\ \A i \in 1..Len(t) : (s \o t)[Len(s) + i] = t[i]
         /\ \A i \in DOMAIN (s \o t) : i \notin 1..Len(s) =>
              i - Len(s) \in 1..Len(t) /\ (s \o t)[i] = t[i - Len(s)]
  OBVIOUS

\* A turn of the loop, for a page of at most size elements behind Offset.
LEMMA TurnFacts ==
  ASSUME IInv, pc = "request", NEW places \in Pages
  PROVE  LET records == Records(places)
             all == raw \o records
         IN  /\ places \subseteq DOMAIN server.list
             /\ all \in Seq(DOMAIN server.list)
             /\ records \in Seq(DOMAIN server.list)
             /\ Len(all) = Len(raw) + Len(records)
             /\ Len(records) \in Nat /\ Len(records) <= Cardinality(places)
             /\ Len(records) = Cardinality(Range(records))
             /\ Range(records) = {i \in places : server.list[i] # "junk"}
             /\ Range(all) = Range(raw) \union Range(records)
             /\ Honest => \A i, j \in DOMAIN all : i < j => all[i] < all[j]
             /\ Honest => \A i \in DOMAIN all : all[i] <= Offset + Cardinality(places)
<1> DEFINE records == Records(places)
           all == raw \o records
<1>1. TypeOK /\ ReadInOrder
  BY DEF IInv
<1>2. Offset \in Nat
  BY <1>1, PageAsked
<1>3. PICK size \in Nat : places = Places(Offset, size)
  BY <1>1, PageAsked
<1>4. /\ Len(server.list) \in Nat /\ DOMAIN server.list = 1..Len(server.list)
      /\ places \subseteq DOMAIN server.list /\ Cardinality(places) \in Nat
      /\ \A i \in places : i <= Offset + Cardinality(places)
  BY <1>1, <1>2, <1>3, PlacesShape
<1>5. \A i \in places : Offset < i
  BY <1>3 DEF Places
<1>6. /\ records \in Seq(DOMAIN server.list)
      /\ Range(records) = {i \in places : server.list[i] # "junk"}
      /\ Len(records) <= Cardinality(places) /\ Len(records) = Cardinality(Range(records))
      /\ \A m, n \in DOMAIN records : m < n => records[m] < records[n]
  <2> DEFINE objects == {i \in places : server.list[i] # "junk"}
  <2>1. places \in SUBSET DOMAIN server.list
    BY <1>4
  <2>2. /\ records \in Seq(DOMAIN server.list)
        /\ Range(records) = objects
        /\ Len(records) = Cardinality(objects)
        /\ Cardinality(objects) <= Cardinality(places)
        /\ \A m, n \in DOMAIN records : m < n => records[m] < records[n]
    BY <1>1, <2>1, RecordsShape
  <2> QED BY <2>2
<1>7. raw \in Seq(DOMAIN server.list)
  BY <1>1 DEF TypeOK
<1> HIDE DEF records
<1>8. /\ all \in Seq(DOMAIN server.list)
      /\ Len(all) = Len(raw) + Len(records)
      /\ Len(raw) \in Nat /\ Len(records) \in Nat
      /\ DOMAIN raw = 1..Len(raw) /\ DOMAIN records = 1..Len(records)
      /\ DOMAIN all = 1..(Len(raw) + Len(records))
      /\ \A i \in 1..Len(raw) : all[i] = raw[i]
      /\ \A i \in 1..Len(records) : all[Len(raw) + i] = records[i]
      /\ \A i \in DOMAIN all : i \notin 1..Len(raw) =>
           i - Len(raw) \in 1..Len(records) /\ all[i] = records[i - Len(raw)]
  <2> DEFINE Place == DOMAIN server.list
  <2>1. raw \in Seq(Place) /\ records \in Seq(Place)
    BY <1>6, <1>7
  <2>2. all \in Seq(DOMAIN server.list)
    BY <1>6, <1>7
  <2> HIDE DEF Place
  <2> QED BY <2>1, <2>2, Continued
<1> HIDE DEF all
<1>9. Honest => \A i \in DOMAIN raw : raw[i] \in Nat /\ raw[i] <= Offset
  BY <1>1, <1>4, <1>7 DEF ReadInOrder
<1>10. \A i \in DOMAIN records :
         /\ records[i] \in Nat /\ Offset < records[i]
         /\ records[i] <= Offset + Cardinality(places)
  <2>1. \A i \in DOMAIN records : records[i] \in Range(records)
    BY DEF Range
  <2> QED BY <1>4, <1>5, <1>6, <2>1
<1>11. Range(all) = Range(raw) \union Range(records)
  <2>1. ASSUME NEW i \in DOMAIN all
        PROVE  all[i] \in Range(raw) \union Range(records)
    BY <1>8 DEF Range
  <2>2. \A i \in DOMAIN raw : i \in DOMAIN all /\ all[i] = raw[i]
    BY <1>8
  <2>3. \A i \in DOMAIN records : Len(raw) + i \in DOMAIN all /\ all[Len(raw) + i] = records[i]
    BY <1>8
  <2> QED BY <2>1, <2>2, <2>3 DEF Range
<1>12. ASSUME Honest, NEW i \in DOMAIN all, NEW j \in DOMAIN all, i < j
       PROVE  all[i] < all[j]
  <2>1. CASE j \in 1..Len(raw)
    <3>1. i \in DOMAIN raw /\ j \in DOMAIN raw
      BY <1>8, <1>12, <2>1
    <3> QED BY <1>1, <1>8, <1>12, <3>1 DEF ReadInOrder
  <2>2. CASE i \in 1..Len(raw) /\ j \notin 1..Len(raw)
    <3>1. j - Len(raw) \in DOMAIN records /\ all[j] = records[j - Len(raw)]
      BY <1>8, <2>2
    <3>2. i \in DOMAIN raw /\ all[i] = raw[i]
      BY <1>8, <2>2
    <3> QED BY <1>2, <1>9, <1>10, <1>12, <3>1, <3>2
  <2>3. CASE i \notin 1..Len(raw)
    <3>1. j \notin 1..Len(raw)
      BY <1>8, <1>12, <2>3
    <3>2. /\ i - Len(raw) \in DOMAIN records /\ all[i] = records[i - Len(raw)]
          /\ j - Len(raw) \in DOMAIN records /\ all[j] = records[j - Len(raw)]
      BY <1>8, <2>3, <3>1
    <3>3. i - Len(raw) < j - Len(raw)
      BY <1>8, <1>12
    <3> QED BY <1>6, <3>2, <3>3
  <2> QED BY <2>1, <2>2, <2>3
<1>13. ASSUME Honest, NEW i \in DOMAIN all
       PROVE  all[i] <= Offset + Cardinality(places)
  <2>1. CASE i \in 1..Len(raw)
    BY <1>2, <1>4, <1>8, <1>9, <1>13, <2>1
  <2>2. CASE i \notin 1..Len(raw)
    BY <1>8, <1>10, <2>2
  <2> QED BY <2>1, <2>2
<1> QED
  BY <1>4, <1>6, <1>8, <1>11, <1>12, <1>13 DEF all, records

\* After a full page of a numbered scheme, the next one begins where it ended.
LEMMA FullPage ==
  ASSUME IInv, pc = "request", NEW places \in Pages,
         paging \in {"offset_limit", "page_number"}, ~(Len(Records(places)) < PageSize)
  PROVE  /\ PageSize <= server.cap
         /\ Len(Records(places)) = PageSize /\ Cardinality(places) = PageSize
         /\ Len(raw \o Records(places)) = (page + 1) * PageSize
         /\ Offset + Cardinality(places) = (page + 1) * PageSize
         /\ page \in Nat /\ PageSize \in Nat \ {0} /\ (page + 1) * PageSize \in Nat
<1>1. TypeOK /\ ReadInOrder
  BY DEF IInv
<1>2. PICK size \in Nat :
        /\ places = Places(Offset, size)
        /\ size <= PageSize /\ size <= server.cap /\ Offset = page * PageSize
  BY <1>1, PageAsked
<1>3. Offset \in Nat
  BY <1>1, PageAsked
<1>4. Cardinality(places) \in Nat /\ Cardinality(places) <= size
  BY <1>1, <1>2, <1>3, PlacesShape
<1>5. /\ Len(Records(places)) \in Nat /\ Len(Records(places)) <= Cardinality(places)
      /\ Len(raw \o Records(places)) = Len(raw) + Len(Records(places))
  BY TurnFacts
<1>6. page \in Nat /\ PageSize \in Nat \ {0} /\ server.cap \in Nat
  BY <1>1, LimitAssumption, ServersAssumption DEF TypeOK, Server
<1>7. /\ PageSize <= server.cap /\ Len(Records(places)) = PageSize
      /\ Cardinality(places) = PageSize
  BY <1>2, <1>4, <1>5, <1>6
<1>8. Len(raw) = page * PageSize
  BY <1>1 DEF ReadInOrder
<1>9. (page + 1) * PageSize = page * PageSize + PageSize /\ page * PageSize \in Nat
  BY <1>6
<1> QED
  BY <1>2, <1>5, <1>6, <1>7, <1>8, <1>9

LEMMA ReceiveStep == IInv /\ ReceivePage => IInv'
<1> SUFFICES ASSUME IInv, ReceivePage PROVE IInv'
  OBVIOUS
<1>1. TypeOK /\ SoFar /\ RequestsBounded /\ ReadInOrder /\ NothingLeftOut
  BY DEF IInv
<1>2. pc = "request"
  BY DEF ReceivePage
<1> DEFINE Turn(places, next) ==
        LET records == Records(places)
            all == raw \o records
        IN  /\ raw' = all
            /\ cursor' = IF paging = "cursor" /\ records # <<>> /\ Len(all) < MaxTotalRecords
                         THEN next ELSE cursor
            /\ IF records = <<>>
                 THEN pc' = "build" /\ UNCHANGED <<page, warnings>>
                 ELSE IF EndsWith(all, records, next)
                 THEN /\ pc' = "build" /\ page' = page
                      /\ warnings' = warnings \union LimitWarnings(all, page)
                 ELSE /\ page' = page + 1
                      /\ pc' = IF page' = MaxPages THEN "build" ELSE "request"
                      /\ warnings' = warnings \union LimitWarnings(all, page')
<1>3. PICK places \in Pages : \E next \in CursorsAfter(places) : Turn(places, next)
  BY DEF ReceivePage
<1>16. PICK next \in CursorsAfter(places) : Turn(places, next)
  BY <1>3
<1> DEFINE records == Records(places)
           all == raw \o records
           last == Len(server.list)
<1>4. /\ attempt' = 0 /\ sent' = Smaller(sent + 1, TooMany)
      /\ UNCHANGED <<server, paging, accounts, error>>
  BY DEF ReceivePage, Send
<1>5. /\ raw' = all
      /\ cursor' = IF paging = "cursor" /\ records # <<>> /\ Len(all) < MaxTotalRecords
                   THEN next ELSE cursor
  BY <1>16
<1>6. \/ records = <<>> /\ pc' = "build" /\ page' = page /\ warnings' = warnings
      \/ /\ records # <<>> /\ EndsWith(all, records, next) /\ pc' = "build" /\ page' = page
         /\ warnings' = warnings \union LimitWarnings(all, page)
      \/ /\ records # <<>> /\ ~EndsWith(all, records, next) /\ page' = page + 1
         /\ pc' = IF page' = MaxPages THEN "build" ELSE "request"
         /\ warnings' = warnings \union LimitWarnings(all, page')
  BY <1>16
<1>7. /\ places \subseteq DOMAIN server.list
      /\ all \in Seq(DOMAIN server.list)
      /\ records \in Seq(DOMAIN server.list)
      /\ Len(records) \in Nat /\ Len(records) <= Cardinality(places)
      /\ Len(records) = Cardinality(Range(records))
      /\ Range(records) = {i \in places : server.list[i] # "junk"}
      /\ Range(all) = Range(raw) \union Range(records)
      /\ Honest => \A i, j \in DOMAIN all : i < j => all[i] < all[j]
      /\ Honest => \A i \in DOMAIN all : all[i] <= Offset + Cardinality(places)
  BY <1>2, TurnFacts
<1>8. /\ sent + 1 \in Nat /\ sent + 1 < TooMany /\ sent' = sent + 1
      /\ sent + 1 <= (page + 1) * MaxRetries
  BY <1>1, <1>2, <1>4, OneMore
<1>9. /\ page \in Nat /\ page < MaxPages /\ MaxPages \in Nat /\ MaxRetries \in Nat \ {0}
      /\ accounts = {} /\ error = "none" /\ last \in Nat /\ DOMAIN server.list = 1..last
  BY <1>1, <1>2, LimitAssumption, ServersAssumption DEF TypeOK, SoFar, Server
<1>10. /\ next \in 0..(last + 1)
       /\ ~server.strays =>
            /\ next # 0 => next - 1 = Offset + Cardinality(places)
            /\ next = 0 => last <= Offset + Cardinality(places)
  <2>1. Offset \in Nat
    BY <1>1, <1>2, PageAsked
  <2>2. PICK size \in Nat : places = Places(Offset, size)
    BY <1>1, <1>2, PageAsked
  <2>3. Cardinality(places) \in Nat
    BY <1>1, <2>1, <2>2, PlacesShape
  <2> DEFINE behind == Offset + Cardinality(places) + 1
  <2>4. behind \in Nat /\ behind # 0 /\ behind - 1 = Offset + Cardinality(places)
    BY <2>1, <2>3
  <2>5. next \in IF server.strays THEN 0..(last + 1)
                  ELSE IF behind <= last THEN {behind} ELSE {0}
    BY DEF CursorsAfter
  <2> HIDE DEF behind, last
  <2> QED BY <1>9, <2>4, <2>5
<1> HIDE DEF records, all, last
<1>11. TypeOK'
  <2>1. /\ pc' \in {"build", "request"} /\ page' \in 0..MaxPages
        /\ warnings' \subseteq Warning
    <3>1. page \in 0..MaxPages /\ page + 1 \in 0..MaxPages
      BY <1>9
    <3>2. \A turned : LimitWarnings(all, turned) \subseteq Warning
      BY DEF LimitWarnings, Warning
    <3>3. warnings \subseteq Warning
      BY <1>1 DEF TypeOK
    <3> QED BY <1>6, <3>1, <3>2, <3>3
  <2>2. cursor' \in 0..(Len(server.list) + 1)
    BY <1>1, <1>5, <1>10 DEF TypeOK, last
  <2>3. attempt' \in 0..(MaxRetries - 1)
    BY <1>4, <1>9
  <2>4. sent' \in 0..TooMany
    <3>1. TooMany \in Nat
      BY <1>9 DEF TooMany
    <3> QED BY <1>8, <3>1
  <2> QED BY <1>1, <1>4, <1>5, <1>7, <2>1, <2>2, <2>3, <2>4 DEF TypeOK
<1>12. SoFar' /\ RequestsBounded'
  <2>1. pc' = "request" => page' = page + 1 /\ page' < MaxPages
    BY <1>6, <1>9
  <2>2. pc' = "request" => sent' <= page' * MaxRetries + attempt'
    <3>1. (page + 1) * MaxRetries \in Nat
      BY <1>9
    <3> QED BY <1>4, <1>8, <2>1, <3>1
  <2>3. pc' \in {"build", "request"}
    BY <1>6
  <2>4. TooMany' = TooMany
    BY DEF TooMany
  <2> QED BY <1>4, <1>8, <1>9, <2>1, <2>2, <2>3, <2>4 DEF SoFar, RequestsBounded
<1>13. ASSUME pc' = "request"
       PROVE  /\ Honest => Offset' = Offset + Cardinality(places)
              /\ paging # "none"
              /\ paging \in {"offset_limit", "page_number"} =>
                   Len(raw') = page' * PageSize /\ PageSize <= server.cap
  <2>1. records # <<>> /\ ~EndsWith(all, records, next) /\ page' = page + 1
    BY <1>6, <1>13
  <2>2. CASE paging = "cursor"
    <3>1. next # 0 /\ Len(all) \in Nat /\ ~(Len(all) >= MaxTotalRecords)
      BY <1>7, <2>1, <2>2 DEF EndsWith
    <3>2. cursor' = next
      BY <1>5, <2>1, <2>2, <3>1, LimitAssumption
    <3>3. Offset' = next - 1
      BY <1>4, <2>2, <3>1, <3>2 DEF Offset
    <3> QED BY <1>10, <2>2, <3>1, <3>3 DEF Honest
  <2>3. CASE paging \in {"offset_limit", "page_number"}
    <3>1. ~(Len(records) < PageSize)
      BY <2>1, <2>3 DEF EndsWith
    <3>2. /\ PageSize <= server.cap /\ Len(all) = (page + 1) * PageSize
          /\ Offset + Cardinality(places) = (page + 1) * PageSize
          /\ page \in Nat /\ PageSize \in Nat \ {0}
      BY <1>2, <2>3, <3>1, FullPage DEF records, all
    <3>3. Smaller(PageSize, server.cap) = PageSize
      <4>1. server.cap \in Nat
        BY <1>1, ServersAssumption DEF TypeOK, Server
      <4> QED BY <3>2, <4>1 DEF Smaller
    <3>4. CASE paging = "offset_limit"
      <4>1. Offset' = Len(raw')
        BY <1>4, <3>4 DEF Offset
      <4> QED BY <1>5, <2>1, <2>3, <3>2, <3>4, <4>1
    <3>5. CASE paging = "page_number"
      <4>1. Offset' = page' * Smaller(PageSize, server.cap)
        BY <1>4, <3>5 DEF Offset, Smaller
      <4> QED BY <1>5, <2>1, <2>3, <3>2, <3>3, <3>5, <4>1
    <3> QED BY <2>3, <3>4, <3>5
  <2>4. CASE paging = "none"
    BY <2>1, <2>4 DEF EndsWith
  <2> QED BY <1>1, <2>2, <2>3, <2>4 DEF TypeOK, Paging
<1>14. ReadInOrder'
  <2>1. paging # "cursor" => cursor' = 0
    BY <1>1, <1>5 DEF ReadInOrder
  <2>2. pc' \in {"request", "build"}
    BY <1>6
  <2>3. Honest => \A i, j \in DOMAIN raw' : i < j => raw'[i] < raw'[j]
    BY <1>5, <1>7
  <2>4. Honest /\ pc' = "request" => \A i \in DOMAIN raw' : raw'[i] <= Offset'
    BY <1>5, <1>7, <1>13
  <2>5. Honest' <=> Honest
    BY <1>4 DEF Honest
  <2> QED BY <1>4, <1>13, <2>1, <2>2, <2>3, <2>4, <2>5 DEF ReadInOrder
<1>15. NothingLeftOut'
  <2> SUFFICES ASSUME WellBehaved(server, paging)
               PROVE  /\ pc' \in {"request", "pause"} => Places(0, Offset)' \subseteq Range(raw')
                      /\ pc' = "build" /\ warnings' = {} =>
                           DOMAIN server.list \subseteq Range(raw')
    BY <1>4 DEF NothingLeftOut, WellBehaved
  <2>1. PICK size \in Nat :
          /\ places = Places(Offset, size)
          /\ paging \in {"offset_limit", "page_number"} =>
               (PageSize <= server.cap => size = PageSize)
          /\ paging = "none" => size = server.cap
          /\ ~server.gaps => size > 0
    BY <1>1, <1>2, PageAsked
  <2>2. Offset \in Nat
    BY <1>1, <1>2, PageAsked
  <2>3. /\ Cardinality(places) \in Nat /\ Cardinality(places) <= size
        /\ Offset + size <= last => Cardinality(places) = size
    BY <1>1, <2>1, <2>2, PlacesShape DEF last
  <2>4. server.cap \in Nat \ {0} /\ PageSize \in Nat \ {0}
    BY <1>1, ServersAssumption, LimitAssumption DEF TypeOK, Server
  <2>5. Range(records) = places
    <3>1. \A i \in DOMAIN server.list : server.list[i] # "junk"
      BY DEF WellBehaved, Range
    <3> QED BY <1>7, <3>1
  <2>6. Places(0, Offset) \subseteq Range(raw)
    BY <1>1, <1>2 DEF NothingLeftOut
  <2>7. \A i \in DOMAIN server.list : i <= Offset + size => i \in Range(all)
    <3> SUFFICES ASSUME NEW i \in 1..last, i <= Offset + size PROVE i \in Range(all)
      BY <1>9
    <3>1. CASE i <= Offset
      <4>1. i \in Places(0, Offset)
        BY <1>9, <2>2, <3>1 DEF Places
      <4> QED BY <1>7, <2>6, <4>1
    <3>2. CASE Offset < i
      <4>1. i \in places
        BY <1>9, <2>1, <3>2 DEF Places
      <4> QED BY <1>7, <2>5, <4>1
    <3> QED BY <2>2, <3>1, <3>2
  <2>8. ASSUME pc' \in {"request", "pause"}
        PROVE  Places(0, Offset)' \subseteq Range(raw')
    <3>1. pc' = "request"
      BY <1>6, <2>8
    <3>2. Offset' = Offset + Cardinality(places)
      BY <1>13, <3>1 DEF WellBehaved, Honest
    <3>3. \A i \in Places(0, Offset)' : i \in DOMAIN server.list /\ i <= Offset + size
      BY <1>4, <1>9, <2>2, <2>3, <3>2 DEF Places
    <3> QED BY <1>5, <2>7, <3>3
  <2>9. ASSUME pc' = "build", warnings' = {}
        PROVE  DOMAIN server.list \subseteq Range(raw')
    <3>1. last <= Offset + size
      <4>1. CASE records = <<>>
        <5>1. places = {}
          BY <2>5, <4>1 DEF Range
        <5>2. size > 0
          BY <1>1, <2>1, <2>4 DEF WellBehaved, TypeOK, Paging
        <5>3. Offset + 1 \notin places
          BY <5>1
        <5> QED BY <1>9, <2>1, <2>2, <5>2, <5>3 DEF Places
      <4>2. CASE EndsWith(all, records, next) /\ records # <<>>
        <5>1. ~(Len(all) >= MaxTotalRecords)
          BY <1>6, <2>9, <4>2 DEF LimitWarnings
        <5>2. CASE paging = "none"
          BY <1>9, <2>1, <2>2, <2>4, <5>2 DEF WellBehaved, last
        <5>3. CASE paging = "cursor"
          <6>1. next = 0 /\ ~server.strays
            BY <4>2, <5>1, <5>3 DEF EndsWith, WellBehaved
          <6> QED BY <1>9, <1>10, <2>2, <2>3, <6>1
        <5>4. CASE paging \in {"offset_limit", "page_number"}
          <6>1. Len(records) < PageSize
            BY <4>2, <5>1, <5>4 DEF EndsWith
          <6>2. size = PageSize
            BY <2>1, <5>4 DEF WellBehaved
          <6>3. Len(records) = Cardinality(places)
            BY <1>7, <2>5
          <6> QED BY <1>7, <1>9, <2>2, <2>3, <6>1, <6>2, <6>3
        <5> QED BY <1>1, <5>2, <5>3, <5>4 DEF TypeOK, Paging
      <4>3. CASE ~EndsWith(all, records, next) /\ records # <<>>
        <5>1. page' = MaxPages /\ LimitWarnings(all, page') = {}
          BY <1>6, <2>9, <4>3
        <5> QED BY <5>1 DEF LimitWarnings
      <4> QED BY <4>1, <4>2, <4>3
    <3> QED BY <1>5, <1>9, <2>2, <2>7, <3>1
  <2> QED BY <2>8, <2>9
<1> QED
  BY <1>11, <1>12, <1>14, <1>15 DEF IInv

\* A step that reads nothing leaves what was read in order.
LEMMA NothingRead ==
  ASSUME ReadInOrder, NothingLeftOut, UNCHANGED <<server, paging, page, raw, cursor>>,
         pc' \in {"request", "pause"} => pc \in {"request", "pause"},
         pc' = "build" => pc = "build" /\ warnings' = warnings
  PROVE  ReadInOrder' /\ NothingLeftOut' /\ Named' = Named
<1>1. Offset' = Offset
  BY DEF Offset, Smaller
<1>2. Places(0, Offset)' = Places(0, Offset) /\ Named' = Named
  BY <1>1 DEF Places, Named, Range
<1>3. WellBehaved(server, paging)' = WellBehaved(server, paging)
  BY DEF WellBehaved, Range
<1>4. ReadInOrder'
  BY <1>1 DEF ReadInOrder, Honest
<1>5. NothingLeftOut'
  BY <1>2, <1>3 DEF NothingLeftOut, Range
<1> QED
  BY <1>2, <1>4, <1>5

LEMMA PauseStep == IInv /\ Pause => IInv'
<1> SUFFICES ASSUME IInv, Pause PROVE IInv'
  OBVIOUS
<1>1. TypeOK /\ SoFar /\ ReadInOrder /\ NothingLeftOut
  BY DEF IInv
<1>2. /\ pc = "request" /\ pc' = "pause" /\ attempt < MaxRetries - 1 /\ attempt' = attempt + 1
      /\ sent' = Smaller(sent + 1, TooMany)
      /\ UNCHANGED <<server, paging, page, raw, cursor, accounts, warnings, error>>
  BY DEF Pause, MayRetry, Counted, Send
<1>3. ReadInOrder' /\ NothingLeftOut' /\ Named' = Named
  BY <1>1, <1>2, NothingRead
<1>4. /\ sent + 1 \in Nat /\ sent + 1 < TooMany /\ sent' = sent + 1
      /\ sent' <= page * MaxRetries + (attempt + 1)
  BY <1>1, <1>2, OneMore
<1>5. attempt' \in 0..(MaxRetries - 1) /\ sent' \in 0..TooMany /\ TooMany' = TooMany
  <2>1. TooMany \in Nat /\ MaxRetries \in Nat
    BY LimitAssumption DEF TooMany
  <2>2. attempt \in Nat
    BY <1>1 DEF TypeOK
  <2>3. TooMany' = TooMany
    BY DEF TooMany
  <2> QED BY <1>2, <1>4, <2>1, <2>2, <2>3
<1>6. TypeOK'
  BY <1>1, <1>2, <1>5 DEF TypeOK
<1>7. SoFar' /\ RequestsBounded'
  BY <1>1, <1>2, <1>4, <1>5 DEF SoFar, RequestsBounded
<1> QED
  BY <1>3, <1>6, <1>7 DEF IInv

LEMMA RetryStep == IInv /\ Retry => IInv'
<1> SUFFICES ASSUME IInv, Retry PROVE IInv'
  OBVIOUS
<1>1. TypeOK /\ SoFar /\ RequestsBounded /\ ReadInOrder /\ NothingLeftOut
  BY DEF IInv
<1>2. /\ pc = "pause" /\ pc' = "request"
      /\ UNCHANGED <<server, paging, page, raw, cursor, attempt, accounts, warnings, error, sent>>
  BY DEF Retry
<1>3. ReadInOrder' /\ NothingLeftOut' /\ Named' = Named
  BY <1>1, <1>2, NothingRead
<1>4. TypeOK'
  BY <1>1, <1>2 DEF TypeOK, TooMany
<1>5. SoFar' /\ RequestsBounded'
  BY <1>1, <1>2 DEF SoFar, RequestsBounded, TooMany
<1> QED
  BY <1>3, <1>4, <1>5 DEF IInv

LEMMA GiveUpStep == \A failure \in Failure : IInv /\ GiveUp(failure) => IInv'
<1> SUFFICES ASSUME NEW failure \in Failure, IInv, GiveUp(failure) PROVE IInv'
  OBVIOUS
<1>1. TypeOK /\ SoFar /\ ReadInOrder /\ NothingLeftOut
  BY DEF IInv
<1>2. /\ pc = "request" /\ pc' = "raised" /\ error' = Raised(failure)
      /\ sent' = Smaller(sent + 1, TooMany)
      /\ UNCHANGED <<server, paging, page, raw, cursor, attempt, accounts, warnings>>
  BY DEF GiveUp, Send
<1>3. ReadInOrder' /\ NothingLeftOut' /\ Named' = Named
  BY <1>1, <1>2, NothingRead
<1>4. sent + 1 \in Nat /\ sent + 1 < TooMany /\ sent' = sent + 1
  BY <1>1, <1>2, OneMore
<1>5. Raised(failure) \in Category
  BY DEF Failure, Passing, Lasting, Raised, Category
<1>6. sent' \in 0..TooMany /\ TooMany' = TooMany
  <2>1. TooMany \in Nat
    BY LimitAssumption DEF TooMany
  <2>2. TooMany' = TooMany
    BY DEF TooMany
  <2> QED BY <1>4, <2>1, <2>2
<1>7. TypeOK'
  BY <1>1, <1>2, <1>5, <1>6 DEF TypeOK
<1>8. SoFar' /\ RequestsBounded'
  BY <1>1, <1>2, <1>4, <1>5, <1>6 DEF SoFar, RequestsBounded, Category
<1> QED
  BY <1>3, <1>7, <1>8 DEF IInv

LEMMA BuildStep == IInv /\ Build => IInv'
<1> SUFFICES ASSUME IInv, Build PROVE IInv'
  OBVIOUS
<1>1. TypeOK /\ SoFar /\ RequestsBounded /\ ReadInOrder /\ NothingLeftOut
  BY DEF IInv
<1>2. /\ pc = "build" /\ pc' = "returned" /\ accounts' = Named
      /\ warnings' = warnings \union SkipWarnings
      /\ UNCHANGED <<server, paging, page, raw, cursor, attempt, error, sent>>
  BY DEF Build
<1>3. ReadInOrder' /\ NothingLeftOut' /\ Named' = Named
  BY <1>1, <1>2, NothingRead
<1>4. Named \subseteq DOMAIN server.list
  BY <1>1 DEF Named, Range, TypeOK
<1>5. TypeOK'
  BY <1>1, <1>2, <1>4 DEF TypeOK, TooMany, SkipWarnings, Warning
<1>6. SoFar' /\ RequestsBounded'
  BY <1>1, <1>2, <1>3 DEF SoFar, RequestsBounded, TooMany
<1> QED
  BY <1>3, <1>5, <1>6 DEF IInv

LEMMA StutterStep == IInv /\ UNCHANGED vars => IInv'
<1> SUFFICES ASSUME IInv, UNCHANGED vars PROVE IInv'
  OBVIOUS
<1>1. ReadInOrder' /\ NothingLeftOut' /\ Named' = Named
  BY NothingRead DEF IInv, vars
<1>2. TypeOK' /\ SoFar' /\ RequestsBounded'
  BY <1>1 DEF IInv, vars, TypeOK, SoFar, RequestsBounded, TooMany
<1> QED
  BY <1>1, <1>2 DEF IInv

\* What is read stays in order and within the bounds, for lists of any length,
\* any page size and any limits.
THEOREM Invariance == Spec => []IInv
<1>1. IInv /\ [Next]_vars => IInv'
  BY ReceiveStep, PauseStep, RetryStep, GiveUpStep, BuildStep, StutterStep DEF Next
<1> QED
  BY InitStep, <1>1, PTL DEF Spec

\* No record is read twice, whatever the server's own page size, unless its
\* cursors lead back.
THEOREM EachOnce == Spec => []NothingTwice
<1>1. IInv => NothingTwice
  <2> SUFFICES ASSUME IInv, Honest, NEW i \in DOMAIN raw, NEW j \in DOMAIN raw, raw[i] = raw[j]
               PROVE  i = j
    BY DEF NothingTwice, IsInjective
  <2>1. raw \in Seq(DOMAIN server.list) /\ DOMAIN server.list = 1..Len(server.list)
    BY ServersAssumption DEF IInv, TypeOK, Server
  <2>2. i \in Nat /\ j \in Nat /\ raw[i] \in Nat /\ raw[j] \in Nat
    BY <2>1
  <2>3. ~(raw[i] < raw[j]) /\ ~(raw[j] < raw[i])
    BY <2>2
  <2> QED BY <2>2, <2>3 DEF IInv, ReadInOrder
<1> QED
  BY <1>1, Invariance, PTL

\* A turn of the loop that ends it while the cursor leads on met a limit, since
\* a page at the cursor is not empty.
LEMMA ToldStep == IInv /\ EndlessIsTold /\ [Next]_vars => EndlessIsTold'
<1> SUFFICES ASSUME IInv, EndlessIsTold, [Next]_vars,
                    paging' = "cursor", ~server'.gaps, "junk" \notin Range(server'.list),
                    pc' \in {"build", "returned"}, cursor' \in DOMAIN server'.list
             PROVE  warnings' \intersect {"records", "pages"} # {}
  BY DEF EndlessIsTold
<1>1. TypeOK /\ ReadInOrder
  BY DEF IInv
<1>2. UNCHANGED <<server, paging>>
  BY DEF Next, ReceivePage, Pause, Retry, Build, GiveUp, vars
<1>3. CASE ReceivePage
  <2> DEFINE Ends(places, next) ==
        LET records == Records(places)
            all == raw \o records
        IN  /\ cursor' = IF paging = "cursor" /\ records # <<>> /\ Len(all) < MaxTotalRecords
                         THEN next ELSE cursor
            /\ \/ records = <<>>
               \/ EndsWith(all, records, next) /\ warnings' = warnings \union LimitWarnings(all, page)
               \/ pc' = (IF page' = MaxPages THEN "build" ELSE "request")
                    /\ warnings' = warnings \union LimitWarnings(all, page')
  <2>1. PICK places \in Pages : \E next \in CursorsAfter(places) : Ends(places, next)
    BY <1>3 DEF ReceivePage
  <2>2. PICK next \in CursorsAfter(places) : Ends(places, next)
    BY <2>1
  <2> DEFINE records == Records(places)
             all == raw \o records
  <2>3. pc = "request"
    BY <1>3 DEF ReceivePage
  <2>4. /\ places \subseteq DOMAIN server.list /\ Len(all) \in Nat
        /\ Range(records) = {i \in places : server.list[i] # "junk"}
    <3>1. all \in Seq(DOMAIN server.list)
      BY <2>3, TurnFacts
    <3> QED BY <2>3, <3>1, TurnFacts
  <2>5. records # <<>> \/ cursor' # cursor
    <3> SUFFICES ASSUME records = <<>>, cursor' = cursor PROVE FALSE
      OBVIOUS
    <3>1. cursor \in Nat \ {0} /\ Offset = cursor - 1 /\ cursor \in DOMAIN server.list
      <4>1. DOMAIN server.list = 1..Len(server.list) /\ Len(server.list) \in Nat
        BY <1>1, ServersAssumption DEF TypeOK, Server
      <4> QED BY <1>2, <4>1 DEF Offset
    <3>2. PICK size \in Nat : places = Places(Offset, size) /\ size > 0
      BY <1>1, <1>2, <2>3, PageAsked
    <3>3. cursor \in places
      BY <3>1, <3>2 DEF Places
    <3>4. server.list[cursor] # "junk"
      BY <1>2, <3>1 DEF Range
    <3>5. cursor \in Range(records)
      BY <2>4, <3>3, <3>4
    <3> QED BY <3>5 DEF Range
  <2>6. records # <<>>
    BY <2>2, <2>5
  <2> HIDE DEF records, all
  <2>7. CASE Len(all) >= MaxTotalRecords
    BY <2>2, <2>6, <2>7 DEF LimitWarnings, records, all
  <2>8. CASE ~(Len(all) >= MaxTotalRecords)
    <3>1. cursor' = next
      BY <1>2, <2>2, <2>4, <2>6, <2>8, LimitAssumption DEF records, all
    <3>2. next # 0
      <4>1. DOMAIN server.list = 1..Len(server.list) /\ Len(server.list) \in Nat
        BY <1>1, ServersAssumption DEF TypeOK, Server
      <4> QED BY <1>2, <3>1, <4>1
    <3>3. ~EndsWith(all, records, next)
      BY <1>2, <2>8, <3>2 DEF EndsWith
    <3>4. page' = MaxPages /\ warnings' = warnings \union LimitWarnings(all, page')
      BY <2>2, <2>6, <3>3 DEF records, all
    <3> QED BY <2>8, <3>4 DEF LimitWarnings
  <2> QED BY <2>7, <2>8
<1>4. CASE Build
  <2>1. pc = "build" /\ cursor' = cursor /\ warnings' = warnings \union SkipWarnings
    BY <1>4 DEF Build
  <2> QED BY <1>2, <2>1 DEF EndlessIsTold
<1>5. CASE Pause \/ Retry \/ \E failure \in Failure : GiveUp(failure)
  BY <1>5 DEF Pause, Retry, GiveUp
<1>6. CASE UNCHANGED vars
  BY <1>6 DEF vars, EndlessIsTold
<1> QED BY <1>3, <1>4, <1>5, <1>6 DEF Next

\* A list read along a cursor that still led on bears the warning of a limit,
\* whatever the cursors of the API are, for lists and limits of every size.
THEOREM EndlessTold == Spec => []EndlessIsTold
<1>1. Init => EndlessIsTold
  BY DEF Init, EndlessIsTold
<1> QED BY <1>1, ToldStep, Invariance, PTL DEF Spec

\* Every step of the fetch from a well-behaved API keeps the provider contract.
THEOREM KeepsContract == Spec => ListingSteps
<1>1. IInv /\ [Next]_vars =>
        [WellBehaved(server, paging) => Listing!Next]_(Listing!listingVars)
  <2> SUFFICES ASSUME IInv, [Next]_vars, WellBehaved(server, paging)
               PROVE  Listing!Next \/ UNCHANGED Listing!listingVars
    OBVIOUS
  <2>1. Expected' = Expected /\ server' = server
    BY DEF Next, ReceivePage, Pause, Retry, Build, GiveUp, vars, Expected
  <2>2. CASE ReceivePage \/ Pause \/ Retry
    <3>1. /\ pc \notin {"returned", "raised"} /\ pc' \notin {"returned", "raised"}
          /\ accounts' = accounts
      BY <2>2 DEF ReceivePage, Pause, Retry
    <3> QED BY <2>1, <3>1 DEF Listing!listingVars
  <2>3. CASE Build
    <3>1. /\ pc = "build" /\ pc' = "returned" /\ accounts' = Named
          /\ warnings' = warnings \union SkipWarnings /\ accounts = {}
      BY <2>3 DEF Build, IInv, SoFar
    <3>2. Named \subseteq Expected
      BY DEF Named, Range, Expected, IInv, TypeOK
    <3>3. warnings' = {} => Named = Expected
      BY <3>1, <3>2 DEF IInv, NothingLeftOut, Named, Expected
    <3> QED BY <2>1, <3>1, <3>2, <3>3 DEF Listing!Next, Listing!Return
  <2>4. CASE \E failure \in Failure : GiveUp(failure)
    <3>1. /\ pc = "request" /\ pc' = "raised" /\ accounts' = accounts
      BY <2>4 DEF GiveUp
    <3> QED BY <2>1, <3>1 DEF Listing!Next, Listing!Raise
  <2>5. CASE UNCHANGED vars
    BY <2>1, <2>5 DEF vars, Listing!listingVars
  <2> QED BY <2>2, <2>3, <2>4, <2>5 DEF Next
<1> QED
  BY <1>1, Invariance, PTL DEF Spec, ListingSteps

-----------------------------------------------------------------------------
(* The stored rows, what is written on them, and the export: ResultPages.  *)

\* A value is saved on a stored row and on a field, and rows stay stored: the
\* inductive invariant of ResultPages.
LEMMA PagesStart == PagesInit => PagesInv
<1> SUFFICES ASSUME PagesInit PROVE PagesInv
  OBVIOUS
<1>1. PagesTypeOK
  BY DEF PagesInit, PagesTypeOK
<1>2. ValuesHaveRows
  BY DEF PagesInit, ValuesHaveRows
<1> QED BY <1>1, <1>2 DEF PagesInv

LEMMA PagesStep == PagesInv /\ [PagesNext]_pageVars => PagesInv'
<1> SUFFICES ASSUME PagesInv, [PagesNext]_pageVars PROVE PagesInv'
  OBVIOUS
<1>1. PagesTypeOK /\ ValuesHaveRows
  BY DEF PagesInv
<1>2. ASSUME NEW keys \in SUBSET AccountKey, NEW risks \in [keys -> RiskLevel],
             StoreComparison(keys, risks)
      PROVE  PagesInv'
  <2> DEFINE stored == [k \in keys |-> risks[k]]
  <2>1. /\ comparisons' = Append(comparisons, stored)
        /\ UNCHANGED <<annotations, is_active>>
    BY <1>2 DEF StoreComparison
  <2>2. stored \in Rows
    <3>1. stored \in [keys -> RiskLevel]
      OBVIOUS
    <3> QED BY <3>1 DEF Rows
  <2> HIDE DEF stored
  <2>3. comparisons \in Seq(Rows)
    BY <1>1 DEF PagesTypeOK
  <2>4. /\ comparisons' \in Seq(Rows)
        /\ \A c \in DOMAIN comparisons :
             c \in DOMAIN comparisons' /\ comparisons'[c] = comparisons[c]
    BY <2>1, <2>2, <2>3
  <2>5. PagesTypeOK'
    BY <1>1, <2>1, <2>4 DEF PagesTypeOK
  <2>6. \A c \in DOMAIN comparisons : c \in DOMAIN comparisons' /\ RowsOf(c)' = RowsOf(c)
    BY <2>4 DEF RowsOf
  <2>7. ValuesHaveRows'
    BY <1>1, <2>1, <2>6 DEF ValuesHaveRows
  <2> QED BY <2>5, <2>7 DEF PagesInv
<1>3. ASSUME NEW f \in Field, SwitchField(f) PROVE PagesInv'
  BY <1>1, <1>3 DEF SwitchField, PagesInv, PagesTypeOK, ValuesHaveRows, RowsOf
<1>4. ASSUME NEW c \in DOMAIN comparisons, NEW k \in RowsOf(c), NEW f \in Field,
             NEW value \in Value, SaveAnnotation(c, k, f, value)
      PROVE  PagesInv'
  <2> DEFINE cell == <<[comparison |-> c, account_key |-> k], f>>
  <2>1. /\ annotations' = [x \in DOMAIN annotations \union {cell} |->
                             IF x = cell THEN value ELSE annotations[x]]
        /\ UNCHANGED <<comparisons, is_active>>
    BY <1>4 DEF SaveAnnotation
  <2>2. DOMAIN annotations' = DOMAIN annotations \union {cell}
    BY <2>1
  <2>3. annotations' \in [DOMAIN annotations' -> Value]
    BY <1>1, <2>1, <2>2 DEF PagesTypeOK
  <2>4. PagesTypeOK'
    BY <1>1, <2>1, <2>3 DEF PagesTypeOK
  <2>5. ValuesHaveRows'
    BY <1>1, <2>1, <2>2 DEF ValuesHaveRows, RowsOf
  <2> QED BY <2>4, <2>5 DEF PagesInv
<1>5. CASE UNCHANGED pageVars
  BY <1>1, <1>5 DEF pageVars, PagesInv, PagesTypeOK, ValuesHaveRows, RowsOf
<1> QED
  BY <1>2, <1>3, <1>4, <1>5 DEF PagesNext

\* What the export joins to a row is written on that row.
LEMMA CellsOfRow ==
  ASSUME ValuesHaveRows, NEW c, NEW k, NEW cell \in Joined(c, k)
  PROVE  cell = <<[comparison |-> c, account_key |-> k], cell[2]>>
<1>1. /\ cell \in DOMAIN annotations
      /\ cell[1].comparison = c /\ cell[1].account_key = k
  BY DEF Joined
<1>2. PICK d \in DOMAIN comparisons, f \in Field : \E l \in RowsOf(d) :
        cell = <<[comparison |-> d, account_key |-> l], f>>
  BY <1>1 DEF ValuesHaveRows
<1>3. PICK l \in RowsOf(d) : cell = <<[comparison |-> d, account_key |-> l], f>>
  BY <1>2
<1>4. cell[2] = f /\ cell[1] = [comparison |-> d, account_key |-> l]
  BY <1>3
<1>5. d = c /\ l = k
  BY <1>1, <1>4
<1> QED BY <1>3, <1>4, <1>5

\* A function on 1..n is a sequence of length n.
LEMMA ListLength ==
  ASSUME NEW n \in Nat, NEW list, DOMAIN list = 1..n, list = [i \in 1..n |-> list[i]]
  PROVE  Len(list) = n
BY SMT

\* No number lies between one and zero.
LEMMA NoneUpToZero == 0 \in Nat /\ 1..0 = {}
OBVIOUS

\* What the lengths below need of arithmetic and of sequences.
LEMMA NothingListed == DOMAIN <<>> = {} /\ Len(<<>>) = 0
OBVIOUS

LEMMA LessOrSame == \A n \in Nat : \A l : l = n => l <= n
OBVIOUS

LEMMA NoLess == \A n \in Nat : \A l : l = 0 => l <= n
OBVIOUS

\* The columns of an export are listed one by one.
LEMMA ColumnsListed ==
  ASSUME ResultPagesAssumption, PagesInv, NEW columns \in Columns
  PROVE  DOMAIN columns = 1..Len(columns) /\ Len(columns) \in Nat
<1> DEFINE n == Cardinality(is_active)
<1>1. IsFiniteSet(is_active)
  BY FS_Subset DEF PagesInv, PagesTypeOK, ResultPagesAssumption
<1>2. n \in Nat
  BY <1>1, FS_CardinalityType
<1>3. columns \in [1..n -> is_active]
  BY DEF Columns, SetToSeqs
<1> HIDE DEF n
<1>4. DOMAIN columns = 1..n /\ columns = [i \in 1..n |-> columns[i]]
  BY <1>3
<1>5. Len(columns) = n
  BY <1>2, <1>4, ListLength
<1> QED BY <1>2, <1>4, <1>5

\* The values that the export finds for a row, by field.
Found(c, k) ==
  [f \in {cell[2] : cell \in Joined(c, k)} |->
     annotations[CHOOSE cell \in Joined(c, k) : cell[2] = f]]

\* The export finds by account_key what the page finds by row.
LEMMA FoundAsShown ==
  ASSUME PagesInv, NEW c, NEW k, NEW f
  PROVE  PageValue(c, k, f) = IF f \in DOMAIN Found(c, k) THEN Found(c, k)[f] ELSE ""
<1> DEFINE place == <<[comparison |-> c, account_key |-> k], f>>
           joined == Joined(c, k)
<1>1. \A cell \in joined : cell[2] = f => cell = place
  BY CellsOfRow DEF PagesInv
<1>2. place \in joined <=> place \in DOMAIN annotations
  BY DEF Joined
<1>3. place[2] = f
  OBVIOUS
<1>4. PageValue(c, k, f) = IF place \in DOMAIN annotations THEN annotations[place] ELSE ""
  BY DEF PageValue
<1>5. DOMAIN Found(c, k) = {cell[2] : cell \in joined}
  BY DEF Found
<1> HIDE DEF joined, place
<1>6. f \in DOMAIN Found(c, k) <=> place \in joined
  BY <1>1, <1>3, <1>5
<1>7. ASSUME place \in joined PROVE Found(c, k)[f] = annotations[place]
  <2>1. (CHOOSE cell \in joined : cell[2] = f) = place
    BY <1>1, <1>3, <1>7
  <2>2. Found(c, k)[f] = annotations[CHOOSE cell \in joined : cell[2] = f]
    BY <1>5, <1>6, <1>7 DEF Found, joined
  <2> QED BY <2>1, <2>2
<1> QED
  BY <1>2, <1>4, <1>6, <1>7

\* The values joined to a row are those that its page shows, under the columns.
LEMMA ValuesAsShown ==
  ASSUME ResultPagesAssumption, PagesInv, NEW c, NEW k, NEW columns \in Columns
  PROVE  LET values == ExportValues(c, k, columns)
             n == Len(values)
         IN  /\ n \in Nat /\ n <= Len(columns)
             /\ DOMAIN values = 1..n
             /\ \A i \in DOMAIN columns :
                  PageValue(c, k, columns[i]) = IF i \in DOMAIN values THEN values[i] ELSE ""
<1> DEFINE values == ExportValues(c, k, columns)
           n == Len(columns)
<1>1. DOMAIN columns = 1..n /\ n \in Nat
  BY ColumnsListed
<1>2. values = IF Joined(c, k) = {} THEN <<>> ELSE InColumns(columns, Found(c, k))
  BY Zenon DEF ExportValues, Found
<1>3. CASE Joined(c, k) = {}
  <2>1. DOMAIN Found(c, k) = {}
    BY <1>3 DEF Found
  <2>2. \A i \in DOMAIN columns : PageValue(c, k, columns[i]) = ""
    BY <2>1, FoundAsShown
  <2>3. values = <<>>
    BY <1>2, <1>3
  <2> HIDE DEF values, n
  <2>4. DOMAIN values = {} /\ Len(values) = 0
    BY <2>3, NothingListed, Zenon
  <2>5. Len(values) <= n
    BY <1>1, <2>4, NoLess, Zenon
  <2>6. Len(values) \in Nat /\ DOMAIN values = 1..Len(values)
    BY <2>4, NoneUpToZero, Zenon
  <2> QED BY <2>2, <2>4, <2>5, <2>6, Zenon DEF values, n
<1>4. CASE Joined(c, k) # {}
  <2>1. values = [i \in DOMAIN columns |->
                    IF columns[i] \in DOMAIN Found(c, k) THEN Found(c, k)[columns[i]] ELSE ""]
    BY <1>2, <1>4 DEF InColumns
  <2> HIDE DEF values, n
  <2>2. \A i \in DOMAIN columns : PageValue(c, k, columns[i]) = values[i]
    BY <2>1, FoundAsShown
  <2>3. DOMAIN values = 1..n /\ values = [i \in 1..n |-> values[i]]
    BY <1>1, <2>1
  <2>4. Len(values) = n
    BY <1>1, <2>3, ListLength
  <2>5. Len(values) <= n
    BY <1>1, <2>4, LessOrSame, Zenon
  <2>6. Len(values) \in Nat /\ DOMAIN values = 1..Len(values) /\ DOMAIN values = DOMAIN columns
    BY <1>1, <2>3, <2>4, Zenon
  <2> QED BY <2>2, <2>5, <2>6, Zenon DEF values, n
<1> QED BY <1>3, <1>4

\* Quoting a value leaves no formula, and a blank as it is.
LEMMA NoFormula ==
  ASSUME ResultPagesAssumption
  PROVE  SanitizeForExport("") = "" /\ \A v : SanitizeForExport(v) \notin Formula
BY DEF SanitizeForExport, ResultPagesAssumption

\* A row of the export reads as its page does, under every heading, but for the
\* quotation mark before a value that a spreadsheet would compute.
THEOREM ValuesUnderTheirHeadings ==
  ASSUME ResultPagesAssumption
  PROVE  PagesSpec => []ExportMatchesPage
<1>1. PagesInv => ExportMatchesPage
  <2> SUFFICES ASSUME PagesInv PROVE ExportMatchesPage
    OBVIOUS
  <2>1. ASSUME NEW c \in DOMAIN comparisons, NEW columns \in Columns, NEW k \in RowsOf(c)
        PROVE  LET cells == ExportCells(c, k, columns)
               IN  /\ Len(cells) <= Len(columns)
                   /\ \A i \in DOMAIN columns :
                        SanitizeForExport(PageValue(c, k, columns[i]))
                          = IF i \in DOMAIN cells THEN cells[i] ELSE ""
                   /\ \A i \in DOMAIN cells : cells[i] \notin Formula
    <3> DEFINE values == ExportValues(c, k, columns)
               cells == ExportCells(c, k, columns)
               n == Len(values)
    <3>1. /\ n \in Nat /\ n <= Len(columns)
          /\ DOMAIN values = 1..n
          /\ \A i \in DOMAIN columns :
               PageValue(c, k, columns[i]) = IF i \in DOMAIN values THEN values[i] ELSE ""
      BY ValuesAsShown
    <3>2. cells = [i \in DOMAIN values |-> SanitizeForExport(values[i])]
      BY DEF ExportCells
    <3> HIDE DEF values, cells, n
    <3>3. DOMAIN cells = 1..n /\ cells = [i \in 1..n |-> cells[i]]
      BY <3>1, <3>2
    <3>4. Len(cells) = n
      BY <3>1, <3>3, ListLength
    <3>5. \A i \in DOMAIN columns :
            SanitizeForExport(PageValue(c, k, columns[i]))
              = IF i \in DOMAIN cells THEN cells[i] ELSE ""
      BY <3>1, <3>2, NoFormula, Zenon
    <3>6. \A i \in DOMAIN cells : cells[i] \notin Formula
      BY <3>2, NoFormula, Zenon
    <3> QED BY <3>1, <3>4, <3>5, <3>6 DEF cells
  <2> QED BY <2>1, Zenon DEF ExportMatchesPage
<1>2. PagesSpec => []PagesInv
  BY PagesStart, PagesStep, PTL DEF PagesSpec
<1> QED
  BY <1>1, <1>2, PTL

-----------------------------------------------------------------------------
(* The order of the rows and their pages.                                  *)

\* A function on 1..n is a sequence.
LEMMA ListIsSeq ==
  ASSUME NEW n \in Nat, NEW S, NEW list \in [1..n -> S]
  PROVE  list \in Seq(S) /\ Len(list) = n /\ DOMAIN list = 1..n
OBVIOUS

\* What sorting needs of the rows of a comparison.
LEMMA RowFacts ==
  ASSUME PagesInv, NEW c \in DOMAIN comparisons, NEW keys \in SUBSET RowsOf(c)
  PROVE  /\ keys \in SUBSET Nat /\ IsFiniteSet(keys)
         /\ \A k \in keys : SortOrder[comparisons[c][k]] \in 0..3
<1>1. comparisons[c] \in Rows
  BY DEF PagesInv, PagesTypeOK
<1>2. PICK K \in SUBSET AccountKey : comparisons[c] \in [K -> RiskLevel]
  BY <1>1 DEF Rows
<1>3. keys \in SUBSET K
  BY <1>2 DEF RowsOf
<1>4. keys \in SUBSET Nat /\ IsFiniteSet(keys)
  BY <1>3, ResultPagesAssumption, FS_Subset DEF ResultPagesAssumption
<1>5. \A r \in RiskLevel : SortOrder[r] \in 0..3
  BY DEF SortOrder, RiskLevel
<1>6. \A k \in keys : SortOrder[comparisons[c][k]] \in 0..3
  BY <1>2, <1>3, <1>5
<1> QED BY <1>4, <1>6

\* A finite set can be sorted by a rank of four levels and, within, by number.
LEMMA Sortable ==
  ASSUME NEW K \in SUBSET Nat, IsFiniteSet(K), NEW level \in [K -> 0..3]
  PROVE  \E s \in SetToSeqs(K) : \A i, j \in DOMAIN s : i < j =>
           level[s[i]] < level[s[j]] \/ (level[s[i]] = level[s[j]] /\ s[i] < s[j])
<1>1. PICK bound \in Nat : \A k \in K : k <= bound
  BY FiniteBound
<1> DEFINE n == Cardinality(K)
           B == bound + 1
           code == [k \in K |-> k + (IF level[k] = 0 THEN 0 ELSE
                                     IF level[k] = 1 THEN B ELSE
                                     IF level[k] = 2 THEN B + B ELSE B + B + B)]
           codes == {code[k] : k \in K}
<1>2. n \in Nat
  BY FS_CardinalityType
<1>3. \A k \in K : k \in Nat /\ k <= bound /\ level[k] \in 0..3
  BY <1>1
<1>4. \A k \in K : code[k] \in Nat /\ code[k] <= B + B + B + B
  BY <1>1, <1>3
<1>5. \A k, l \in K : code[k] < code[l] =>
        level[k] < level[l] \/ (level[k] = level[l] /\ k < l)
  BY <1>1, <1>3
<1>6. \A k, l \in K : code[k] = code[l] => k = l
  BY <1>1, <1>3
<1>7. DOMAIN code = K /\ code = [k \in K |-> code[k]]
  OBVIOUS
<1> HIDE DEF code
<1>8. codes \in SUBSET Nat /\ \A x \in codes : x <= B + B + B + B
  BY <1>4
<1>9. IsFiniteSet(codes) /\ Cardinality(codes) = n
  <2>1. code \in [K -> codes]
    BY <1>7
  <2>2. code \in Injection(K, codes)
    BY <1>6, <1>7, <2>1 DEF Injection, IsInjective
  <2>3. code \in Surjection(K, codes)
    BY <2>1 DEF Surjection
  <2>4. code \in Bijection(K, codes)
    BY <2>2, <2>3 DEF Bijection
  <2>5. ExistsBijection(K, codes)
    BY <2>4 DEF ExistsBijection
  <2> QED BY <2>5, FS_Bijection
<1> DEFINE ranked == Ranked(codes)
<1>10. B + B + B + B \in Nat
  BY <1>1
<1>11. /\ ranked \in Seq(codes) /\ Len(ranked) = n
       /\ \A i, j \in DOMAIN ranked : i < j => ranked[i] < ranked[j]
  BY <1>8, <1>9, <1>10, ByRank
<1> HIDE DEF ranked, codes
<1>12. DOMAIN ranked = 1..n /\ \A i \in 1..n : ranked[i] \in codes
  BY <1>11, <1>2
<1> DEFINE s == [i \in 1..n |-> CHOOSE k \in K : code[k] = ranked[i]]
<1>13. \A i \in 1..n : s[i] \in K /\ code[s[i]] = ranked[i]
  BY <1>12 DEF codes
<1>14. DOMAIN s = 1..n /\ s \in [1..n -> K]
  BY <1>13
<1> HIDE DEF s
<1>15. \A i, j \in 1..n : i < j => code[s[i]] < code[s[j]]
  BY <1>11, <1>12, <1>13
<1>16. \A i, j \in 1..n : i # j => s[i] # s[j]
  <2>1. \A i, j \in 1..n : i # j => i < j \/ j < i
    BY <1>2
  <2>2. \A i \in 1..n : code[s[i]] \in Nat
    BY <1>4, <1>13
  <2>3. \A x \in Nat : ~(x < x)
    OBVIOUS
  <2> QED BY <1>15, <2>1, <2>2, <2>3
<1>17. s \in SetToSeqs(K)
  BY <1>14, <1>16 DEF SetToSeqs
<1>18. \A i, j \in DOMAIN s : i < j =>
         level[s[i]] < level[s[j]] \/ (level[s[i]] = level[s[j]] /\ s[i] < s[j])
  BY <1>5, <1>13, <1>14, <1>15
<1> QED BY <1>17, <1>18

\* So the rows of a comparison come sorted, each once.
LEMMA SortedRows ==
  ASSUME PagesInv, NEW c \in DOMAIN comparisons, NEW keys \in SUBSET RowsOf(c)
  PROVE  /\ Sorted(c, keys, SortOrder) \in SetToSeqs(keys)
         /\ \A i, j \in DOMAIN Sorted(c, keys, SortOrder) : i < j =>
              Before(c, SortOrder, Sorted(c, keys, SortOrder)[i], Sorted(c, keys, SortOrder)[j])
<1> DEFINE level == [k \in keys |-> SortOrder[comparisons[c][k]]]
           InOrder(s) == \A i, j \in DOMAIN s : i < j => Before(c, SortOrder, s[i], s[j])
<1>1. level \in [keys -> 0..3]
  BY RowFacts
<1>2. PICK s \in SetToSeqs(keys) : \A i, j \in DOMAIN s : i < j =>
        level[s[i]] < level[s[j]] \/ (level[s[i]] = level[s[j]] /\ s[i] < s[j])
  <2> HIDE DEF level
  <2> QED BY <1>1, RowFacts, Sortable
<1>3. \A i \in DOMAIN s : s[i] \in keys
  BY RowFacts, ListsAll
<1>4. InOrder(s)
  BY <1>2, <1>3 DEF Before
<1>5. Sorted(c, keys, SortOrder) = CHOOSE t \in SetToSeqs(keys) : InOrder(t)
  BY DEF Sorted
<1> HIDE DEF InOrder
<1>6. /\ Sorted(c, keys, SortOrder) \in SetToSeqs(keys)
      /\ InOrder(Sorted(c, keys, SortOrder))
  BY <1>4, <1>5
<1> QED BY <1>6 DEF InOrder

\* Multiples of the size of a page are in the order of the pages.
LEMMA Multiples ==
  ASSUME NEW P \in Nat, NEW a \in Nat, NEW b \in Nat
  PROVE  /\ a * P \in Nat /\ (a + 1) * P = a * P + P
         /\ a <= b => a * P <= b * P
<1>1. a * P \in Nat /\ (a + 1) * P = a * P + P
  OBVIOUS
<1>2. ASSUME a <= b PROVE a * P <= b * P
  <2>1. PICK d \in Nat : b = a + d
    <3>1. b - a \in Nat /\ b = a + (b - a)
      BY <1>2
    <3> QED BY <3>1
  <2>2. b * P = a * P + d * P /\ d * P \in Nat
    BY <2>1
  <2> QED BY <1>1, <2>2
<1> QED BY <1>1, <1>2

\* The lines of a page are those of the whole behind its start.
LEMMA PageLines ==
  ASSUME NEW S, NEW rows \in Seq(S), NEW P \in Nat \ {0}, NEW start \in Nat, NEW last,
         last = IF start + P < Len(rows) THEN start + P ELSE Len(rows)
  PROVE  /\ DOMAIN SubSeq(rows, start + 1, last) = {line \in 1..P : start + line <= Len(rows)}
         /\ \A line \in DOMAIN SubSeq(rows, start + 1, last) :
              SubSeq(rows, start + 1, last)[line] = rows[start + line]
<1> DEFINE part == SubSeq(rows, start + 1, last)
<1>1. Len(rows) \in Nat /\ \A i \in 1..Len(rows) : rows[i] \in S
  BY LenProperties, ElementOfSeq
<1>2. last \in Nat /\ last <= Len(rows)
  BY <1>1
<1> HIDE DEF part
<1>3. \A i \in start + 1..last : rows[i] \in S
  BY <1>1, <1>2
<1>4. /\ part \in Seq(S)
      /\ Len(part) = IF start + 1 <= last THEN last - (start + 1) + 1 ELSE 0
      /\ \A i \in 1..last - (start + 1) + 1 : part[i] = rows[start + 1 + i - 1]
  <2>1. part = SubSeq(rows, start + 1, last) /\ start + 1 \in Int /\ last \in Int
    BY <1>2 DEF part
  <2> QED BY <1>3, <2>1, SubSeqProperties
<1>5. Len(part) = IF start < last THEN last - start ELSE 0
  BY <1>2, <1>4
<1>6. DOMAIN part = 1..Len(part)
  BY <1>4, LenProperties
<1>7. DOMAIN part = {line \in 1..P : start + line <= Len(rows)}
  BY <1>1, <1>2, <1>5, <1>6
<1>8. ASSUME NEW line \in DOMAIN part PROVE part[line] = rows[start + line]
  <2>1. line \in Int /\ start + 1 + line - 1 = start + line /\ line \in 1..last - (start + 1) + 1
    BY <1>2, <1>5, <1>6, <1>8
  <2> QED BY <1>4, <2>1
<1> QED BY <1>7, <1>8 DEF part

\* Division into pages leaves less than a page.
LEMMA Quotient ==
  ASSUME NEW n \in Nat, NEW P \in Nat \ {0}
  PROVE  n \div P \in Nat /\ (n \div P) * P <= n /\ n < (n \div P) * P + P
<1>1. n \div P \in Nat
  OBVIOUS
<1>2. P * (n \div P) <= n /\ n < P * (n \div P) + P
  BY SMT
<1>3. P * (n \div P) = (n \div P) * P
  BY <1>1
<1> QED BY <1>1, <1>2, <1>3

\* Each of n rows has a page and a line, on pages of P lines.
LEMMA PageAndLine ==
  ASSUME NEW P \in Nat \ {0}, NEW n \in Nat, NEW i \in Nat, 1 <= i, i <= n
  PROVE  \E number \in 1..(n + P - 1) \div P, line \in 1..P : i = (number - 1) * P + line
<1>1. i - 1 \in Nat /\ n + P - 1 \in Nat
  OBVIOUS
<1>2. PICK q \in Nat : q * P <= i - 1 /\ i - 1 < q * P + P
  BY <1>1, Quotient
<1>3. PICK total \in Nat : total = (n + P - 1) \div P /\ n + P - 1 < total * P + P
  BY <1>1, Quotient
<1>4. q * P \in Nat /\ total * P \in Nat
  BY Multiples
<1>5. q * P < total * P
  BY <1>2, <1>3, <1>4
<1>6. q < total
  <2>1. total <= q => total * P <= q * P
    BY Multiples
  <2> QED BY <1>4, <1>5, <2>1
<1>7. q + 1 \in 1..total /\ (q + 1) - 1 = q
  BY <1>6
<1>8. i - q * P \in 1..P /\ i = q * P + (i - q * P)
  BY <1>2, <1>4
<1>9. i = ((q + 1) - 1) * P + (i - q * P)
  BY <1>7, <1>8
<1> QED BY <1>3, <1>7, <1>8, <1>9

\* Places in their order are lines of the whole in their order.
LEMMA PlacesInOrder ==
  ASSUME NEW P \in Nat, NEW p \in Nat \ {0}, NEW q \in Nat \ {0},
         NEW i \in 1..P, NEW j \in 1..P, p < q \/ (p = q /\ i < j)
  PROVE  (p - 1) * P + i < (q - 1) * P + j
<1>1. (p - 1) * P \in Nat /\ (q - 1) * P \in Nat
  BY Multiples
<1>2. CASE p < q
  <2>1. ((p - 1) + 1) * P = (p - 1) * P + P
    BY Multiples
  <2>2. ((p - 1) + 1) * P <= (q - 1) * P
    BY <1>2, Multiples
  <2> QED BY <1>1, <2>1, <2>2
<1>3. CASE p = q /\ i < j
  BY <1>1, <1>3
<1> QED BY <1>2, <1>3

\* The line of the whole that stands at a place.
LineOf(p) == (p[1] - 1) * PAGE_SIZE + p[2]

\* The rows that pass a filter, sorted.
FilteredRows(c, wanted) == Sorted(c, RowsOf(c) \intersect wanted, SortOrder)

\* The lines of the pages of a comparison are its rows, sorted, from the first
\* to the last.
LEMMA PagesInOrder ==
  ASSUME PagesInv, NEW c \in DOMAIN comparisons, NEW wanted \in SUBSET AccountKey
  PROVE  /\ \A p \in PlacesShown(c, wanted) :
              /\ p[1] \in Nat \ {0} /\ p[2] \in 1..PAGE_SIZE
              /\ LineOf(p) \in 1..Len(FilteredRows(c, wanted))
              /\ RowAt(c, wanted, p) = FilteredRows(c, wanted)[LineOf(p)]
         /\ \A i \in 1..Len(FilteredRows(c, wanted)) : \E p \in PlacesShown(c, wanted) :
              RowAt(c, wanted, p) = FilteredRows(c, wanted)[i]
<1> DEFINE rows == FilteredRows(c, wanted)
           keys == RowsOf(c) \intersect wanted
           n == Cardinality(keys)
<1>1. PAGE_SIZE \in Nat \ {0}
  BY ResultPagesAssumption DEF ResultPagesAssumption
<1>2. keys \in SUBSET RowsOf(c)
  OBVIOUS
<1>3. IsFiniteSet(keys) /\ rows \in SetToSeqs(keys)
  BY <1>2, RowFacts, SortedRows DEF FilteredRows
<1>0. rows = Sorted(c, keys, SortOrder)
  BY DEF FilteredRows
<1> HIDE DEF keys, rows
<1>4. n \in Nat /\ rows \in [1..n -> keys]
  BY <1>3, ListsAll
<1>5. rows \in Seq(keys) /\ Len(rows) = n
  BY <1>4, ListIsSeq
<1>6. PageRank = SortOrder
  BY DEF PageRank, SortOrder
<1>7. ASSUME NEW number \in Nat \ {0}
      PROVE  LET start == (number - 1) * PAGE_SIZE
                 part == PageRows(c, wanted, number)
             IN  /\ start \in Nat
                 /\ DOMAIN part = {line \in 1..PAGE_SIZE : start + line <= n}
                 /\ \A line \in DOMAIN part : part[line] = rows[start + line]
  <2> DEFINE start == (number - 1) * PAGE_SIZE
             last == IF start + PAGE_SIZE < Len(rows) THEN start + PAGE_SIZE ELSE Len(rows)
  <2>1. start \in Nat
    BY <1>1, Multiples
  <2>2. PageRows(c, wanted, number) = SubSeq(rows, start + 1, last)
    BY <1>0, <1>6 DEF PageRows, keys
  <2>3. /\ DOMAIN SubSeq(rows, start + 1, last)
             = {line \in 1..PAGE_SIZE : start + line <= Len(rows)}
        /\ \A line \in DOMAIN SubSeq(rows, start + 1, last) :
             SubSeq(rows, start + 1, last)[line] = rows[start + line]
    <3> HIDE DEF start
    <3> QED BY <1>1, <1>5, <2>1, PageLines
  <2> HIDE DEF last
  <2> QED BY <1>5, <2>1, <2>2, <2>3
<1>8. TotalPages(n) = IF n = 0 THEN 1 ELSE (n + PAGE_SIZE - 1) \div PAGE_SIZE
  BY DEF TotalPages
<1>9. PlacesShown(c, wanted) =
        UNION {{number} \X DOMAIN PageRows(c, wanted, number) : number \in 1..TotalPages(n)}
  BY DEF PlacesShown, keys
<1>10. TotalPages(n) \in Nat
  <2>1. n # 0 => (n + PAGE_SIZE - 1) \div PAGE_SIZE \in Nat
    BY <1>1, <1>4, Quotient
  <2> QED BY <1>8, <2>1
<1>11. \A number \in 1..TotalPages(n) : number \in Nat \ {0}
  BY <1>10
<1> HIDE DEF n
<1>12. ASSUME NEW p \in PlacesShown(c, wanted)
       PROVE  /\ p[1] \in Nat \ {0} /\ p[2] \in 1..PAGE_SIZE
              /\ LineOf(p) \in 1..Len(rows)
              /\ RowAt(c, wanted, p) = rows[LineOf(p)]
  <2>0. PICK number \in 1..TotalPages(n) : p \in {number} \X DOMAIN PageRows(c, wanted, number)
    BY <1>9
  <2>1. PICK line \in DOMAIN PageRows(c, wanted, number) : p = <<number, line>>
    BY <2>0
  <2>2. number \in Nat \ {0}
    BY <1>11
  <2>3. /\ line \in 1..PAGE_SIZE /\ (number - 1) * PAGE_SIZE \in Nat
        /\ (number - 1) * PAGE_SIZE + line <= n
        /\ PageRows(c, wanted, number)[line] = rows[(number - 1) * PAGE_SIZE + line]
    BY <1>7, <2>1, <2>2
  <2>4. (number - 1) * PAGE_SIZE + line \in 1..n
    BY <1>4, <2>3
  <2>5. p[1] = number /\ p[2] = line
    BY <2>1
  <2> QED BY <1>5, <2>2, <2>3, <2>4, <2>5 DEF RowAt, LineOf
<1>13. ASSUME NEW i \in 1..Len(rows)
       PROVE  \E p \in PlacesShown(c, wanted) : RowAt(c, wanted, p) = rows[i]
  <2>1. i \in Nat /\ 1 <= i /\ i <= n /\ n # 0
    BY <1>4, <1>5
  <2>2. PICK number \in 1..TotalPages(n), line \in 1..PAGE_SIZE :
          i = (number - 1) * PAGE_SIZE + line
    <3>1. TotalPages(n) = (n + PAGE_SIZE - 1) \div PAGE_SIZE
      BY <1>8, <2>1
    <3>2. \E number \in 1..(n + PAGE_SIZE - 1) \div PAGE_SIZE, line \in 1..PAGE_SIZE :
            i = (number - 1) * PAGE_SIZE + line
      BY <1>1, <1>4, <2>1, PageAndLine, Zenon
    <3> QED BY <3>1, <3>2, Zenon
  <2>3. number \in Nat \ {0}
    BY <1>11
  <2>4. /\ line \in DOMAIN PageRows(c, wanted, number)
        /\ PageRows(c, wanted, number)[line] = rows[i]
    BY <1>7, <2>1, <2>2, <2>3
  <2>5. <<number, line>> \in PlacesShown(c, wanted)
    BY <1>9, <2>2, <2>4
  <2>6. RowAt(c, wanted, <<number, line>>) = rows[i]
    BY <2>4 DEF RowAt
  <2> QED BY <2>5, <2>6
<1> QED BY <1>12, <1>13 DEF rows

\* Paging through a comparison shows the rows that pass a filter, each once and
\* in the order of the export, for every number of rows and every page size.
THEOREM EveryRowOnOnePage == PagesSpec => []PagesHoldEveryRow
<1>1. PagesInv => PagesHoldEveryRow
  <2> SUFFICES ASSUME PagesInv, NEW c \in DOMAIN comparisons, NEW wanted \in SUBSET AccountKey
               PROVE  /\ {RowAt(c, wanted, p) : p \in PlacesShown(c, wanted)}
                           = RowsOf(c) \intersect wanted
                      /\ \A p, q \in PlacesShown(c, wanted) : Earlier(p, q) =>
                           \E i, j \in DOMAIN ExportRows(c) :
                             /\ i < j
                             /\ ExportRows(c)[i] = RowAt(c, wanted, p)
                             /\ ExportRows(c)[j] = RowAt(c, wanted, q)
    BY DEF PagesHoldEveryRow
  <2> DEFINE keys == RowsOf(c) \intersect wanted
             rows == FilteredRows(c, wanted)
             n == Cardinality(keys)
             total == Cardinality(RowsOf(c))
             export == ExportRows(c)
  <2>1. keys \in SUBSET RowsOf(c) /\ RowsOf(c) \in SUBSET RowsOf(c)
    OBVIOUS
  <2>2. /\ keys \in SUBSET Nat /\ IsFiniteSet(keys)
        /\ IsFiniteSet(RowsOf(c)) /\ RowsOf(c) \in SUBSET Nat
        /\ \A k \in RowsOf(c) : SortOrder[comparisons[c][k]] \in 0..3
    BY <2>1, RowFacts
  <2>3. /\ rows \in SetToSeqs(keys)
        /\ \A i, j \in DOMAIN rows : i < j => Before(c, SortOrder, rows[i], rows[j])
    BY <2>1, SortedRows DEF FilteredRows
  <2>4. export = Sorted(c, RowsOf(c), SortOrder)
    BY DEF ExportRows
  <2>5. /\ export \in SetToSeqs(RowsOf(c))
        /\ \A i, j \in DOMAIN export : i < j => Before(c, SortOrder, export[i], export[j])
    BY <2>1, <2>4, SortedRows
  <2>6. /\ \A p \in PlacesShown(c, wanted) :
             /\ p[1] \in Nat \ {0} /\ p[2] \in 1..PAGE_SIZE
             /\ LineOf(p) \in 1..Len(rows)
             /\ RowAt(c, wanted, p) = rows[LineOf(p)]
        /\ \A i \in 1..Len(rows) : \E p \in PlacesShown(c, wanted) :
             RowAt(c, wanted, p) = rows[i]
    BY PagesInOrder, Zenon
  <2>7. PAGE_SIZE \in Nat
    BY ResultPagesAssumption DEF ResultPagesAssumption
  <2>8. \A p, q \in PlacesShown(c, wanted) : Earlier(p, q) => LineOf(p) < LineOf(q)
    BY <2>6, <2>7, PlacesInOrder DEF Earlier, LineOf
  <2> HIDE DEF keys, rows, export
  <2>9. /\ n \in Nat /\ rows \in [1..n -> keys]
        /\ \A k \in keys : \E i \in 1..n : rows[i] = k
    BY <2>2, <2>3, ListsAll
  <2>10. Len(rows) = n /\ DOMAIN rows = 1..n
    BY <2>9, ListIsSeq
  <2>11. /\ total \in Nat /\ export \in [1..total -> RowsOf(c)]
         /\ \A k \in RowsOf(c) : \E i \in 1..total : export[i] = k
    BY <2>2, <2>5, ListsAll
  <2>12. {RowAt(c, wanted, p) : p \in PlacesShown(c, wanted)} = keys
    BY <2>6, <2>9, <2>10
  <2>13. ASSUME NEW p \in PlacesShown(c, wanted), NEW q \in PlacesShown(c, wanted), Earlier(p, q)
         PROVE  \E i, j \in DOMAIN export :
                  i < j /\ export[i] = RowAt(c, wanted, p) /\ export[j] = RowAt(c, wanted, q)
    <3>1. PICK k \in keys, l \in keys :
            k = RowAt(c, wanted, p) /\ l = RowAt(c, wanted, q) /\ Before(c, SortOrder, k, l)
      BY <2>3, <2>6, <2>8, <2>9, <2>10, <2>13
    <3>2. k \in RowsOf(c) /\ l \in RowsOf(c)
      BY DEF keys
    <3>3. PICK i \in 1..total, j \in 1..total : export[i] = k /\ export[j] = l
      BY <2>11, <3>2
    <3>4. DOMAIN export = 1..total
      BY <2>11
    <3>5. k # l /\ ~Before(c, SortOrder, l, k)
      BY <2>2, <3>1, <3>2 DEF Before
    <3>6. i # j /\ ~(j < i)
      BY <2>5, <3>3, <3>4, <3>5
    <3>7. i < j
      BY <2>11, <3>6
    <3> QED BY <3>1, <3>3, <3>4, <3>7
  <2> QED BY <2>12, <2>13 DEF keys, export
<1>2. PagesSpec => []PagesInv
  BY PagesStart, PagesStep, PTL DEF PagesSpec
<1> QED BY <1>1, <1>2, PTL
=============================================================================
