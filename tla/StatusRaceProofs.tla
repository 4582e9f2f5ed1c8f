-------------------------- MODULE StatusRaceProofs --------------------------
(***************************************************************************)
(* insertRecord never counts too much, for any number of threads: the      *)
(* unlocked increments can only be lost.                                   *)
(***************************************************************************)
EXTENDS StatusRace, FiniteSetTheorems, WellFoundedInduction, TLAPS

\* The keys of the three counters of a record exist.
LEMMA IncrementsType ==
  ASSUME NEW uri \in Uris, NEW code
  PROVE  /\ Increments(uri, code) \in Seq(Counters)
         /\ Increments(uri, code) # <<>>
<1>1. <<"uri_visit_count", VisitKey(uri, code)>> \in Counters
  BY DEF VisitKey, VisitKeys, Counters, UriCounters
<1>2. <<"status_code_count", responseToString(code)>> \in Counters
  BY DEF responseToString, StatusCodes, Counters, CodeCounters
<1>3. TotalVisit \in Counters
  BY DEF Counters
<1>4. \A a, b, c \in Counters : <<a, b, c>> \in Seq(Counters) /\ <<a, b, c>> # <<>>
  OBVIOUS
<1> QED
  BY <1>1, <1>2, <1>3, <1>4 DEF Increments

\* The thread's current counter is a counter.
LEMMA CounterType ==
  ASSUME TypeOK, NEW t \in Threads, pc[t] \in {"find", "insert", "load", "store"}
  PROVE  /\ Counter(t) \in Counters
         /\ todo[t] \in Seq(Counters) /\ todo[t] # <<>>
         /\ Tail(todo[t]) \in Seq(Counters)
<1>1. todo[t] \in Seq(Counters) /\ todo[t] # <<>>
  BY DEF TypeOK
<1> QED BY <1>1 DEF Counter

\* A page under composition shows counters as they are or as they were.
LEMMA ReadCountersInv ==
  ASSUME IndInv, NEW t \in Threads, NEW S, NEW from, 
         NEW to \in {"page_uris", "page_codes", "idle"},
         ReadCounters(t, S, from, to)
  PROVE  IndInv'
<1>1. /\ page' = [page EXCEPT ![t] = [c \in Counters |-> IF c \in S THEN count[c] ELSE @[c]]]
      /\ pc' = [pc EXCEPT ![t] = to]
      /\ overlapped' = (overlapped \/ (from = "idle" /\ Busy))
      /\ UNCHANGED <<count, present, todo, reg, crashed, begun, recorded>>
  BY DEF ReadCounters
<1>2. page' \in [Threads -> [Counters -> Nat]]
  BY <1>1 DEF IndInv, TypeOK
<1>o. overlapped' \in BOOLEAN
  BY <1>1, Zenon DEF IndInv, TypeOK
<1>3. TypeOK'
  BY <1>1, <1>2, <1>o DEF IndInv, TypeOK
<1>4. \A u \in Threads, c \in Counters :
        page'[u][c] = page[u][c] \/ page'[u][c] = count[c]
  BY <1>1 DEF IndInv, TypeOK
<1>5. LoadedRecorded'
  BY <1>1 DEF IndInv, TypeOK, LoadedRecorded, Counter
<1>6. NeverOvercounts'
  BY <1>1, <1>4 DEF IndInv, NeverOvercounts
<1> QED BY <1>3, <1>5, <1>6 DEF IndInv

\* Every step of every thread keeps the invariant.
LEMMA NextInv == IndInv /\ [Next]_vars => IndInv'
<1> SUFFICES ASSUME IndInv, [Next]_vars PROVE IndInv'
  OBVIOUS
<1> USE DEF threadVars, Busy
<1>1. CASE UNCHANGED vars
  BY <1>1 DEF vars, IndInv, TypeOK, LoadedRecorded, NeverOvercounts, Counter
<1>2. ASSUME NEW t \in Threads, BeginRecord(t) PROVE IndInv'
  <2>1. PICK uri \in Uris, code \in Codes :
          todo' = [todo EXCEPT ![t] = Increments(uri, code)]
    BY <1>2 DEF BeginRecord
  <2>2. Increments(uri, code) \in Seq(Counters) /\ Increments(uri, code) # <<>>
    BY IncrementsType
  <2>3. /\ pc' = [pc EXCEPT ![t] = "find"] /\ begun' = begun + 1
        /\ UNCHANGED <<count, present, reg, page, crashed, recorded>>
    BY <1>2 DEF BeginRecord
  <2>o. overlapped' \in BOOLEAN
    <3>1. overlapped \in BOOLEAN /\ overlapped' = (overlapped \/ Busy)
      BY <1>2 DEF BeginRecord, IndInv, TypeOK
    <3> QED BY <3>1, Zenon
  <2>4. TypeOK'
    BY <2>1, <2>2, <2>3, <2>o DEF IndInv, TypeOK
  <2>5. LoadedRecorded'
    BY <2>1, <2>3 DEF IndInv, TypeOK, LoadedRecorded, Counter
  <2> QED BY <2>3, <2>4, <2>5 DEF IndInv, NeverOvercounts
<1>3. ASSUME NEW t \in Threads, FindEntry(t) PROVE IndInv'
  <2>1. TypeOK'
    BY <1>3 DEF FindEntry, IndInv, TypeOK
  <2>2. LoadedRecorded'
    BY <1>3 DEF FindEntry, IndInv, TypeOK, LoadedRecorded, Counter
  <2> QED BY <1>3, <2>1, <2>2 DEF FindEntry, IndInv, NeverOvercounts
<1>4. ASSUME NEW t \in Threads, InsertEntry(t) PROVE IndInv'
  <2>1. Counter(t) \in Counters
    BY <1>4, CounterType DEF InsertEntry, IndInv
  <2>2. TypeOK'
    BY <1>4, <2>1 DEF InsertEntry, IndInv, TypeOK
  <2>3. LoadedRecorded'
    BY <1>4 DEF InsertEntry, IndInv, TypeOK, LoadedRecorded, Counter
  <2>4. \A c \in Counters : count'[c] <= count[c]
    BY <1>4, <2>1 DEF InsertEntry, IndInv, TypeOK
  <2>5. NeverOvercounts'
    <3>1. \A c \in Counters : count[c] <= recorded[c] /\ recorded'[c] = recorded[c]
      BY <1>4 DEF InsertEntry, IndInv, NeverOvercounts
    <3>2. \A c \in Counters : count[c] \in Nat /\ count'[c] \in Nat /\ recorded[c] \in Nat
      BY <2>2 DEF IndInv, TypeOK
    <3>3. \A c \in Counters : count'[c] <= recorded'[c]
      BY <2>4, <3>1, <3>2
    <3>4. \A u \in Threads, c \in Counters : page'[u][c] <= recorded'[c]
      BY <1>4 DEF InsertEntry, IndInv, NeverOvercounts
    <3> QED BY <3>3, <3>4 DEF NeverOvercounts
  <2> QED BY <2>2, <2>3, <2>5 DEF IndInv
<1>5. ASSUME NEW t \in Threads, Load(t) PROVE IndInv'
  <2>1. Counter(t) \in Counters
    BY <1>5, CounterType DEF Load, IndInv
  <2>2. TypeOK'
    BY <1>5, <2>1 DEF Load, IndInv, TypeOK
  <2>3. count[Counter(t)] <= recorded[Counter(t)]
    BY <2>1 DEF IndInv, NeverOvercounts
  <2>4. LoadedRecorded'
    BY <1>5, <2>3 DEF Load, IndInv, TypeOK, LoadedRecorded, Counter
  <2> QED BY <1>5, <2>2, <2>4 DEF Load, IndInv, NeverOvercounts
<1>6. ASSUME NEW t \in Threads, Store(t) PROVE IndInv'
  <2>1. /\ Counter(t) \in Counters
        /\ todo[t] \in Seq(Counters) /\ todo[t] # <<>>
        /\ Tail(todo[t]) \in Seq(Counters)
    BY <1>6, CounterType DEF Store, IndInv
  <2>2. /\ pc[t] = "store"
        /\ count' = [count EXCEPT ![Counter(t)] = reg[t] + 1]
        /\ recorded' = [recorded EXCEPT ![Counter(t)] = @ + 1]
        /\ todo' = [todo EXCEPT ![t] = Tail(@)]
        /\ pc' = [pc EXCEPT ![t] = IF Len(todo[t]) = 1 THEN "idle" ELSE "find"]
        /\ UNCHANGED <<present, reg, page, crashed, overlapped, begun>>
    BY <1>6 DEF Store
  <2>3. Len(todo[t]) # 1 => Tail(todo[t]) # <<>>
    <3>1. Len(todo[t]) \in Nat /\ Len(Tail(todo[t])) = Len(todo[t]) - 1
      BY <2>1
    <3>2. Len(<<>>) = 0
      OBVIOUS
    <3>3. Len(todo[t]) # 0
      BY <2>1
    <3> SUFFICES ASSUME Len(todo[t]) # 1, Tail(todo[t]) = <<>> PROVE FALSE
      OBVIOUS
    <3>4. Len(Tail(todo[t])) = 0
      BY <3>2
    <3> QED BY <3>1, <3>3, <3>4
  <2>4. /\ count' \in [Counters -> Nat] /\ recorded' \in [Counters -> Nat]
        /\ todo' \in [Threads -> Seq(Counters)]
    BY <2>1, <2>2 DEF IndInv, TypeOK
  <2>5. TypeOK'
    BY <2>2, <2>3, <2>4 DEF IndInv, TypeOK
  <2>6. reg[t] <= recorded[Counter(t)]
    BY <2>2 DEF IndInv, LoadedRecorded
  <2>7. \A c \in Counters :
          count'[c] <= recorded'[c] /\ recorded[c] <= recorded'[c]
    BY <2>1, <2>2, <2>6 DEF IndInv, TypeOK, NeverOvercounts
  <2>8. LoadedRecorded'
    <3> SUFFICES ASSUME NEW u \in Threads, pc'[u] = "store"
                 PROVE  reg'[u] <= recorded'[Counter(u)']
      BY DEF LoadedRecorded
    <3>1. u # t /\ pc[u] = "store" /\ todo'[u] = todo[u]
      BY <2>2 DEF IndInv, TypeOK
    <3>2. Counter(u) \in Counters /\ Counter(u)' = Counter(u)
      BY <3>1, CounterType DEF IndInv, Counter
    <3>3. reg[u] <= recorded[Counter(u)]
      BY <3>1 DEF IndInv, LoadedRecorded
    <3> QED
      BY <2>2, <2>4, <2>7, <3>2, <3>3 DEF IndInv, TypeOK
  <2>9. NeverOvercounts'
    <3>1. \A u \in Threads, c \in Counters :
            page'[u][c] = page[u][c] /\ page[u][c] <= recorded[c]
      BY <2>2 DEF IndInv, NeverOvercounts
    <3>2. \A u \in Threads, c \in Counters :
            page[u][c] \in Nat /\ recorded[c] \in Nat /\ recorded'[c] \in Nat
      BY <2>4 DEF IndInv, TypeOK
    <3>3. \A u \in Threads, c \in Counters : page'[u][c] <= recorded'[c]
      BY <2>7, <3>1, <3>2
    <3> QED BY <2>7, <3>3 DEF NeverOvercounts
  <2> QED BY <2>5, <2>8, <2>9 DEF IndInv
<1>7. ASSUME NEW t \in Threads, ReadTotal(t) \/ ReadUris(t) \/ ReadCodes(t)
      PROVE IndInv'
  BY <1>7, ReadCountersInv DEF ReadTotal, ReadUris, ReadCodes
<1>8. ASSUME NEW t \in Threads, Crash(t) PROVE IndInv'
  BY <1>8 DEF Crash, IndInv, TypeOK, LoadedRecorded, NeverOvercounts, Counter
<1> QED
  BY <1>1, <1>2, <1>3, <1>4, <1>5, <1>6, <1>7, <1>8 DEF Next, Step

\* Before the first record.
LEMMA InitInv == Init => IndInv
<1> SUFFICES ASSUME Init PROVE IndInv
  OBVIOUS
<1>1. TotalVisit \in Counters /\ Zero \in [Counters -> Nat]
  BY DEF Counters, Zero
<1>2. TypeOK
  <2>1. crashed \in BOOLEAN /\ overlapped \in BOOLEAN
    BY DEF Init
  <2>2. \A t \in Threads : pc[t] = "idle" /\ todo[t] = <<>>
    BY DEF Init
  <2>3. /\ pc \in [Threads -> {"idle", "find", "insert", "load", "store",
                               "page_uris", "page_codes"}]
        /\ todo \in [Threads -> Seq(Counters)]
        /\ reg \in [Threads -> Nat]
        /\ page \in [Threads -> [Counters -> Nat]]
    BY <1>1 DEF Init
  <2> QED BY <1>1, <2>1, <2>2, <2>3 DEF Init, TypeOK
<1>3. LoadedRecorded /\ NeverOvercounts
  BY <1>1 DEF Init, LoadedRecorded, NeverOvercounts, Zero
<1> QED BY <1>2, <1>3 DEF IndInv

-----------------------------------------------------------------------------
\* The inductive invariant holds in every reachable state.
THEOREM Invariance == Spec => []IndInv
<1>1. Init => IndInv
  BY InitInv
<1>2. IndInv /\ [Next]_vars => IndInv'
  BY NextInv
<1> QED
  BY <1>1, <1>2, PTL DEF Spec

\* Type correctness of the counters and the threads.
THEOREM TypeCorrect == Spec => []TypeOK
<1>1. IndInv => TypeOK
  BY DEF IndInv
<1> QED
  BY <1>1, Invariance, PTL

\* However many threads run insertRecord and getStatusString, no counter and
\* no page shows more than was recorded.
THEOREM CountsBounded == Spec => []NeverOvercounts
<1>1. IndInv => NeverOvercounts
  BY DEF IndInv
<1> QED
  BY <1>1, Invariance, PTL

-----------------------------------------------------------------------------
(***************************************************************************)
(* Sums.  SumFunctionOnSet adds up the values of a function in the order   *)
(* in which CHOOSE takes the elements out of the set.                      *)
(***************************************************************************)
Pick(s) == CHOOSE x \in s : TRUE

\* What the recursive function behind SumFunctionOnSet(f, S) is chosen to
\* satisfy; s ranges over what is left of S.
IsSum(g, f, S) ==
  g = [s \in SUBSET S |-> IF s = {} THEN 0 ELSE f[Pick(s)] + g[s \ {Pick(s)}]]

\* Induction over what is left: a set P that has {} and, with every set that is
\* left after a step, the set before it, has every subset of a finite S.
LEMMA SubsetInduction ==
  ASSUME NEW S, IsFiniteSet(S), NEW P, {} \in P,
         \A s \in SUBSET S : s # {} /\ s \ {Pick(s)} \in P => s \in P
  PROVE  \A s \in SUBSET S : s \in P
<1> SUFFICES ASSUME NEW s0 \in SUBSET S, s0 \notin P PROVE FALSE
  OBVIOUS
<1> DEFINE T == (SUBSET S) \ P
<1>1. IsWellFoundedOn(StrictSubsetOrdering(S), SUBSET S)
  <2>1. IsWellFoundedOn(StrictSubsetOrdering(S), FiniteSubsetsOf(S))
    BY FS_StrictSubsetOrderingWellFounded
  <2>2. FiniteSubsetsOf(S) = SUBSET S
    BY FS_FiniteSubsetsOfFinite
  <2> QED BY <2>1, <2>2
<1>2. T \subseteq SUBSET S /\ T # {}
  OBVIOUS
<1> HIDE DEF T
<1>3. PICK s \in T : \A y \in T : ~(<<y, s>> \in StrictSubsetOrdering(S))
  BY <1>1, <1>2, WFMin
<1> USE DEF T
<1>4. s # {} /\ Pick(s) \in s
  BY <1>3 DEF Pick
<1> DEFINE y == s \ {Pick(s)}
<1>5. y \in SUBSET S /\ y \subseteq s /\ y # s
  BY <1>3, <1>4
<1>6. <<y, s>> \in StrictSubsetOrdering(S)
  BY <1>3, <1>5 DEF StrictSubsetOrdering
<1>7. y \notin T
  BY <1>3, <1>6
<1> QED
  BY <1>3, <1>4, <1>5, <1>7

\* There is such a function.
LEMMA SumExists ==
  ASSUME NEW S, IsFiniteSet(S), NEW f
  PROVE  \E g : IsSum(g, f, S)
<1> DEFINE Upto(n) == {s \in SUBSET S : Cardinality(s) <= n}
           Part(g, n) == 
             g = [s \in Upto(n) |-> IF s = {} THEN 0 ELSE f[Pick(s)] + g[s \ {Pick(s)}]]
           T == {n \in Nat : ~\E g : Part(g, n)}
<1>1. \A s \in SUBSET S : IsFiniteSet(s) /\ Cardinality(s) \in Nat
  BY FS_Subset, FS_CardinalityType
<1>2. \A s \in SUBSET S : s # {} =>
         /\ Pick(s) \in s /\ s \ {Pick(s)} \in SUBSET S
         /\ Cardinality(s \ {Pick(s)}) = Cardinality(s) - 1
         /\ Cardinality(s) # 0
  <2> SUFFICES ASSUME NEW s \in SUBSET S, s # {}
               PROVE  /\ Pick(s) \in s /\ s \ {Pick(s)} \in SUBSET S
                      /\ Cardinality(s \ {Pick(s)}) = Cardinality(s) - 1
                      /\ Cardinality(s) # 0
    OBVIOUS
  <2>1. Pick(s) \in s
    BY DEF Pick
  <2> QED BY <1>1, <2>1, FS_RemoveElement, FS_EmptySet
<1>3. T = {}
  <2> SUFFICES ASSUME T # {} PROVE FALSE
    OBVIOUS
  <2>1. PICK n \in T : \A m \in T : ~(<<m, n>> \in OpToRel(<, Nat))
    <3>1. T \subseteq Nat
      OBVIOUS
    <3> HIDE DEF T
    <3> QED BY <3>1, NatLessThanWellFounded, WFMin
  <2>2. n \in Nat /\ \A m \in Nat : m < n => m \notin T
    BY <2>1 DEF OpToRel
  <2>3. CASE n = 0
    <3> DEFINE g == [s \in Upto(0) |-> 0]
    <3>1. \A s \in Upto(0) : s = {}
      <4> SUFFICES ASSUME NEW s \in SUBSET S, Cardinality(s) <= 0 PROVE s = {}
        OBVIOUS
      <4>1. Cardinality(s) = 0
        BY <1>1
      <4> QED BY <1>2, <4>1
    <3>2. Part(g, 0)
      BY <3>1
    <3> QED BY <2>3, <3>2
  <2>4. CASE n # 0
    <3>1. n - 1 \in Nat /\ n - 1 \notin T
      <4> HIDE DEF T
      <4> QED BY <2>2, <2>4
    <3>2. PICK g0 : Part(g0, n - 1)
      BY <3>1
    <3> DEFINE g == [s \in Upto(n) |->
                       IF s = {} THEN 0 ELSE f[Pick(s)] + g0[s \ {Pick(s)}]]
    <3>3. \A s \in Upto(n) : s # {} => s \ {Pick(s)} \in Upto(n - 1)
      BY <1>1, <1>2, <2>2
    <3>4. \A s \in Upto(n - 1) : g[s] = g0[s]
      <4> SUFFICES ASSUME NEW s \in Upto(n - 1) PROVE g[s] = g0[s]
        OBVIOUS
      <4>1. s \in Upto(n)
        BY <1>1, <2>2
      <4>2. g[s] = IF s = {} THEN 0 ELSE f[Pick(s)] + g0[s \ {Pick(s)}]
        BY <4>1
      <4>3. g0[s] = IF s = {} THEN 0 ELSE f[Pick(s)] + g0[s \ {Pick(s)}]
        BY <3>2
      <4> QED BY <4>2, <4>3
    <3>5. \A s \in Upto(n) :
            g[s] = IF s = {} THEN 0 ELSE f[Pick(s)] + g[s \ {Pick(s)}]
      BY <3>3, <3>4
    <3>6. Part(g, n)
      <4>1. g = [s \in Upto(n) |-> g[s]]
        OBVIOUS
      <4> HIDE DEF g, Upto
      <4> QED BY <3>5, <4>1
    <3> QED BY <3>6
  <2> QED BY <2>3, <2>4
<1>4. Cardinality(S) \in Nat /\ Upto(Cardinality(S)) = SUBSET S
  BY FS_Subset, FS_CardinalityType
<1>5. PICK g : Part(g, Cardinality(S))
  BY <1>3, <1>4
<1>6. IsSum(g, f, S)
  BY <1>4, <1>5 DEF IsSum
<1> QED BY <1>6

\* SumFunctionOnSet is the value of such a function at S.
LEMMA SumIsSum ==
  ASSUME NEW S, IsFiniteSet(S), NEW f
  PROVE  \E g : IsSum(g, f, S) /\ SumFunctionOnSet(f, S) = g[S]
<1> DEFINE g == CHOOSE g : IsSum(g, f, S)
<1>1. IsSum(g, f, S)
  BY SumExists
<1>2. SumFunctionOnSet(f, S) = g[S]
  BY DEF SumFunctionOnSet, FoldFunctionOnSet, MapThenFoldSet, IsSum, Pick
<1> QED BY <1>1, <1>2

\* Its value when nothing is left.
LEMMA SumEmpty ==
  ASSUME NEW S, NEW f, NEW g, IsSum(g, f, S)
  PROVE  g[{}] = 0
<1>1. {} \in SUBSET S
  OBVIOUS
<1> QED BY <1>1 DEF IsSum

\* The equation of such a function.
LEMMA SumStep ==
  ASSUME NEW S, NEW f, NEW g, IsSum(g, f, S), NEW s \in SUBSET S, s # {}
  PROVE  /\ Pick(s) \in s
         /\ s \ {Pick(s)} \in SUBSET S
         /\ g[s] = f[Pick(s)] + g[s \ {Pick(s)}]
<1>1. g[s] = f[Pick(s)] + g[s \ {Pick(s)}]
  BY DEF IsSum
<1>2. Pick(s) \in s
  BY DEF Pick
<1> QED BY <1>1, <1>2

\* A sum of naturals is a natural.
LEMMA SumType ==
  ASSUME NEW S, IsFiniteSet(S), NEW f, \A x \in S : f[x] \in Nat
  PROVE  SumFunctionOnSet(f, S) \in Nat
<1>1. PICK g : IsSum(g, f, S) /\ SumFunctionOnSet(f, S) = g[S]
  BY SumIsSum
<1> DEFINE P == {s \in SUBSET S : g[s] \in Nat}
<1>2. {} \in P
  <2>1. g[{}] = 0
    BY <1>1, SumEmpty
  <2> QED BY <2>1
<1>3. ASSUME NEW s \in SUBSET S, s # {}, s \ {Pick(s)} \in P PROVE s \in P
  BY <1>1, <1>3, SumStep
<1>4. \A s \in SUBSET S : s \in P
  <2> HIDE DEF P
  <2> QED BY <1>2, <1>3, SubsetInduction
<1> QED BY <1>1, <1>4

\* A sum of zeros is zero.
LEMMA SumZero ==
  ASSUME NEW S, IsFiniteSet(S), NEW f, \A x \in S : f[x] = 0
  PROVE  SumFunctionOnSet(f, S) = 0
<1>1. PICK g : IsSum(g, f, S) /\ SumFunctionOnSet(f, S) = g[S]
  BY SumIsSum
<1> DEFINE P == {s \in SUBSET S : g[s] = 0}
<1>2. {} \in P
  <2>1. g[{}] = 0
    BY <1>1, SumEmpty
  <2> QED BY <2>1
<1>3. ASSUME NEW s \in SUBSET S, s # {}, s \ {Pick(s)} \in P PROVE s \in P
  BY <1>1, <1>3, SumStep
<1>4. \A s \in SUBSET S : s \in P
  <2> HIDE DEF P
  <2> QED BY <1>2, <1>3, SubsetInduction
<1> QED BY <1>1, <1>4

\* A sum depends on the values in the set only.
LEMMA SumSame ==
  ASSUME NEW S, IsFiniteSet(S), NEW f, NEW h, \A x \in S : f[x] = h[x]
  PROVE  SumFunctionOnSet(f, S) = SumFunctionOnSet(h, S)
<1>1. PICK g : IsSum(g, f, S) /\ SumFunctionOnSet(f, S) = g[S]
  BY SumIsSum
<1>2. PICK k : IsSum(k, h, S) /\ SumFunctionOnSet(h, S) = k[S]
  BY SumIsSum
<1> DEFINE P == {s \in SUBSET S : g[s] = k[s]}
<1>3. {} \in P
  <2>1. g[{}] = 0 /\ k[{}] = 0
    BY <1>1, <1>2, SumEmpty
  <2> QED BY <2>1
<1>4. ASSUME NEW s \in SUBSET S, s # {}, s \ {Pick(s)} \in P PROVE s \in P
  <2>1. Pick(s) \in S
    BY <1>1, <1>4, SumStep
  <2> QED BY <1>1, <1>2, <1>4, <2>1, SumStep
<1>5. \A s \in SUBSET S : s \in P
  <2> HIDE DEF P
  <2> QED BY <1>3, <1>4, SubsetInduction
<1> QED BY <1>1, <1>2, <1>5

\* One value more by one is a sum more by one.
LEMMA SumIncrement ==
  ASSUME NEW S, IsFiniteSet(S), NEW f, \A x \in S : f[x] \in Nat,
         NEW c \in S, NEW h, h[c] = f[c] + 1, \A x \in S \ {c} : h[x] = f[x]
  PROVE  SumFunctionOnSet(h, S) = SumFunctionOnSet(f, S) + 1
<1>1. PICK g : IsSum(g, f, S) /\ SumFunctionOnSet(f, S) = g[S]
  BY SumIsSum
<1>2. PICK k : IsSum(k, h, S) /\ SumFunctionOnSet(h, S) = k[S]
  BY SumIsSum
<1> DEFINE P == {s \in SUBSET S : g[s] \in Nat
                                  /\ k[s] = IF c \in s THEN g[s] + 1 ELSE g[s]}
<1>3. {} \in P
  <2>1. g[{}] = 0 /\ k[{}] = 0
    BY <1>1, <1>2, SumEmpty
  <2> QED BY <2>1
<1>4. ASSUME NEW s \in SUBSET S, s # {}, s \ {Pick(s)} \in P PROVE s \in P
  <2> DEFINE x == Pick(s)
             r == s \ {x}
  <2>1. /\ x \in s /\ x \in S /\ r \in SUBSET S
        /\ g[s] = f[x] + g[r] /\ k[s] = h[x] + k[r]
    BY <1>1, <1>2, <1>4, SumStep
  <2>2. g[r] \in Nat /\ k[r] = IF c \in r THEN g[r] + 1 ELSE g[r]
    BY <1>4
  <2>3. f[x] \in Nat /\ f[c] \in Nat
    BY <2>1
  <2>4. CASE x = c
    <3>1. c \in s /\ c \notin r
      BY <2>1, <2>4
    <3> HIDE DEF x, r
    <3>2. k[s] = g[s] + 1 /\ g[s] \in Nat
      BY <2>1, <2>2, <2>3, <2>4, <3>1
    <3> QED BY <3>1, <3>2
  <2>5. CASE x # c
    <3>1. h[x] = f[x] /\ (c \in r <=> c \in s)
      BY <2>1, <2>5
    <3> HIDE DEF x, r
    <3>2. g[s] \in Nat /\ k[s] = IF c \in s THEN g[s] + 1 ELSE g[s]
      BY <2>1, <2>2, <2>3, <3>1
    <3> QED BY <3>2
  <2> QED BY <2>4, <2>5
<1>5. \A s \in SUBSET S : s \in P
  <2> HIDE DEF P
  <2> QED BY <1>3, <1>4, SubsetInduction
<1> QED BY <1>1, <1>2, <1>5

-----------------------------------------------------------------------------
(***************************************************************************)
(* Calls that do not overlap.  Until two calls have overlapped at most one *)
(* thread is inside insertRecord or getStatusString; the counters are then *)
(* exact up to what that thread still has to do.                           *)
(***************************************************************************)
UriSum(f) == SumFunctionOnSet(f, UriCounters)
CodeSum(f) == SumFunctionOnSet(f, CodeCounters)

Recording(t) == pc[t] \in {"find", "insert", "load", "store"}

Alone == \A t, u \in Threads : pc[t] # "idle" /\ pc[u] # "idle" => t = u

\* No increment is lost, and none is under way but the thread's own.
Exact ==
  /\ count = recorded
  /\ \A c \in Counters \ present : count[c] = 0
  /\ \A t \in Threads : /\ pc[t] = "insert" => Counter(t) \notin present
                        /\ pc[t] \in {"load", "store"} => Counter(t) \in present
                        /\ pc[t] = "store" => reg[t] = count[Counter(t)]

Sums(u, c, n) == UriSum(count) = u /\ CodeSum(count) = c /\ count[TotalVisit] = n

\* The sums, by what the thread that records still has to increment.
Progress ==
  /\ (\A t \in Threads : ~Recording(t)) => Sums(begun, begun, begun)
  /\ \A t \in Threads : Recording(t) =>
       \/ \E u \in UriCounters, c \in CodeCounters :
            todo[t] = <<u, c, TotalVisit>> /\ Sums(begun - 1, begun - 1, begun - 1)
       \/ \E c \in CodeCounters :
            todo[t] = <<c, TotalVisit>> /\ Sums(begun, begun - 1, begun - 1)
       \/ todo[t] = <<TotalVisit>> /\ Sums(begun, begun, begun - 1)

\* A page under composition, by what has been read into it.
Pages ==
  \A t \in Threads :
    /\ pc[t] \in {"page_uris", "page_codes"} => page[t][TotalVisit] = count[TotalVisit]
    /\ pc[t] = "page_codes" => UriSum(page[t]) = page[t][TotalVisit]

\* What PageConsistent says of one page.
Agrees(p) == UriSum(p) = p[TotalVisit] /\ CodeSum(p) = p[TotalVisit]

Finished ==
  \A t \in Threads : pc[t] \notin {"page_uris", "page_codes"} => Agrees(page[t])

QuietInv == ~overlapped => Alone /\ Exact /\ Progress /\ Pages /\ Finished

SeqInv == IndInv /\ QuietInv

\* The three kinds of counters are different.
LEMMA CounterKinds ==
  /\ UriCounters \subseteq Counters /\ CodeCounters \subseteq Counters
  /\ TotalVisit \in Counters
  /\ UriCounters \cap CodeCounters = {}
  /\ TotalVisit \notin UriCounters /\ TotalVisit \notin CodeCounters
<1>1. \A c \in UriCounters : c[1] = "uri_visit_count"
  BY DEF UriCounters
<1>2. \A c \in CodeCounters : c[1] = "status_code_count"
  BY DEF CodeCounters
<1>3. TotalVisit[1] = "total_visit"
  BY DEF TotalVisit
<1> QED
  BY <1>1, <1>2, <1>3 DEF Counters

\* There are finitely many of each.
LEMMA CountersFinite ==
  ASSUME IsFiniteSet(Uris)
  PROVE  IsFiniteSet(UriCounters) /\ IsFiniteSet(CodeCounters)
<1>1. IsFiniteSet(VisitKeys)
  BY FS_AddElement DEF VisitKeys
<1>2. IsFiniteSet({"uri_visit_count"}) /\ IsFiniteSet({"status_code_count"})
  BY FS_Singleton
<1>3. IsFiniteSet(StatusCodes)
  <2>1. StatusCodes = ((({} \cup {"200"}) \cup {"400"}) \cup {"404"}) \cup {"500"}
    BY DEF StatusCodes
  <2> QED BY <2>1, FS_EmptySet, FS_AddElement
<1> QED
  BY <1>1, <1>2, <1>3, FS_Product DEF UriCounters, CodeCounters

\* One increment of one counter.
LEMMA Bump ==
  ASSUME IsFiniteSet(Uris), NEW f \in [Counters -> Nat], NEW k \in Counters,
         NEW h, h[k] = f[k] + 1, \A c \in Counters \ {k} : h[c] = f[c]
  PROVE  /\ UriSum(h) = IF k \in UriCounters THEN UriSum(f) + 1 ELSE UriSum(f)
         /\ CodeSum(h) = IF k \in CodeCounters THEN CodeSum(f) + 1 ELSE CodeSum(f)
         /\ h[TotalVisit] = IF k = TotalVisit THEN f[TotalVisit] + 1 ELSE f[TotalVisit]
<1>1. \A c \in Counters : h[c] = IF c = k THEN f[c] + 1 ELSE f[c]
  OBVIOUS
<1>2. ASSUME NEW S \in SUBSET Counters, IsFiniteSet(S)
      PROVE  SumFunctionOnSet(h, S) = IF k \in S THEN SumFunctionOnSet(f, S) + 1
                                                 ELSE SumFunctionOnSet(f, S)
  <2>1. CASE k \in S
    <3>1. h[k] = f[k] + 1 /\ \A x \in S \ {k} : h[x] = f[x]
      BY <1>1
    <3>2. \A x \in S : f[x] \in Nat
      OBVIOUS
    <3>3. SumFunctionOnSet(h, S) = SumFunctionOnSet(f, S) + 1
      BY <1>2, <2>1, <3>1, <3>2, SumIncrement
    <3> QED BY <2>1, <3>3
  <2>2. CASE k \notin S
    <3>1. \A x \in S : h[x] = f[x]
      BY <1>1, <2>2
    <3>2. SumFunctionOnSet(h, S) = SumFunctionOnSet(f, S)
      BY <1>2, <3>1, SumSame
    <3> QED BY <2>2, <3>2
  <2> QED BY <2>1, <2>2
<1> QED
  BY <1>1, <1>2, CounterKinds, CountersFinite DEF UriSum, CodeSum

\* Under way one thread; the others are idle.
LEMMA OthersIdle ==
  ASSUME Alone, NEW t \in Threads, pc[t] # "idle"
  PROVE  \A u \in Threads \ {t} : pc[u] = "idle"
BY DEF Alone

\* A call of insertRecord begins.
LEMMA BeginRecordQuiet ==
  ASSUME SeqInv, IndInv', ~overlapped', NEW t \in Threads, BeginRecord(t)
  PROVE  Alone' /\ Exact' /\ Progress' /\ Pages' /\ Finished'
<1>1. PICK uri \in Uris, code \in Codes :
        todo' = [todo EXCEPT ![t] = Increments(uri, code)]
  BY DEF BeginRecord
<1>2. /\ pc' = [pc EXCEPT ![t] = "find"] /\ begun' = begun + 1
      /\ UNCHANGED <<count, present, reg, page, recorded>>
      /\ pc \in [Threads -> {"idle", "find", "insert", "load", "store",
                             "page_uris", "page_codes"}]
      /\ todo \in [Threads -> Seq(Counters)] /\ begun \in Nat
  BY DEF BeginRecord, SeqInv, IndInv, TypeOK
<1>3. ~overlapped /\ ~Busy
  BY Zenon DEF BeginRecord
<1>4. \A u \in Threads : pc[u] = "idle"
  BY <1>3 DEF Busy
<1>5. Alone /\ Exact /\ Progress /\ Pages /\ Finished
  BY <1>3 DEF SeqInv, QuietInv
<1>6. \A u \in Threads : pc'[u] = IF u = t THEN "find" ELSE "idle"
  BY <1>2, <1>4
<1>7. Alone' /\ Pages' /\ Finished'
  BY <1>2, <1>4, <1>5, <1>6 DEF Alone, Pages, Finished
<1>8. Exact'
  BY <1>2, <1>5, <1>6 DEF Exact
<1>9. Sums(begun, begun, begun)
  BY <1>4, <1>5 DEF Progress, Recording
<1>10. Sums(begun - 1, begun - 1, begun - 1)'
  BY <1>2, <1>9 DEF Sums
<1>11. \E u \in UriCounters, c \in CodeCounters : todo'[t] = <<u, c, TotalVisit>>
  <2>1. <<"uri_visit_count", VisitKey(uri, code)>> \in UriCounters
    BY DEF VisitKey, VisitKeys, UriCounters
  <2>2. <<"status_code_count", responseToString(code)>> \in CodeCounters
    BY DEF responseToString, StatusCodes, CodeCounters
  <2>3. todo'[t] = Increments(uri, code)
    BY <1>1, <1>2
  <2> QED BY <2>1, <2>2, <2>3 DEF Increments
<1>12. Progress'
  BY <1>6, <1>10, <1>11 DEF Progress, Recording
<1> QED BY <1>7, <1>8, <1>12

\* A step of insertRecord that finds, inserts or loads.
LEMMA WithinRecordQuiet ==
  ASSUME SeqInv, IndInv', ~overlapped', NEW t \in Threads,
         FindEntry(t) \/ InsertEntry(t) \/ Load(t)
  PROVE  Alone' /\ Exact' /\ Progress' /\ Pages' /\ Finished'
<1>1. /\ UNCHANGED <<todo, page, begun, recorded>>
      /\ overlapped' = overlapped
      /\ pc[t] \in {"find", "insert", "load"}
      /\ \E s \in {"insert", "load", "store"} : pc' = [pc EXCEPT ![t] = s]
      /\ pc \in [Threads -> {"idle", "find", "insert", "load", "store",
                             "page_uris", "page_codes"}]
      /\ reg \in [Threads -> Nat] /\ count \in [Counters -> Nat]
  BY DEF FindEntry, InsertEntry, Load, SeqInv, IndInv, TypeOK
<1>2. Alone /\ Exact /\ Progress /\ Pages /\ Finished
  BY <1>1 DEF SeqInv, QuietInv
<1>3. \A u \in Threads \ {t} : pc[u] = "idle" /\ pc'[u] = "idle"
  BY <1>1, <1>2, OthersIdle
<1>4. pc'[t] \in {"insert", "load", "store"}
  BY <1>1
<1>5. Counter(t) \in Counters /\ Counter(t)' = Counter(t)
  BY <1>1, CounterType DEF SeqInv, IndInv, Counter
<1>6. count' = count
  <2>1. CASE InsertEntry(t)
    <3>1. count' = [count EXCEPT ![Counter(t)] = 0] /\ pc[t] = "insert"
      BY <2>1 DEF InsertEntry
    <3>2. count[Counter(t)] = 0
      BY <1>2, <1>5, <3>1 DEF Exact
    <3> QED BY <1>1, <1>5, <3>1, <3>2
  <2>2. CASE FindEntry(t) \/ Load(t)
    BY <2>2 DEF FindEntry, Load
  <2> QED BY <2>1, <2>2
<1>7. Exact'
  <2>1. count' = recorded'
    BY <1>1, <1>2, <1>6 DEF Exact
  <2>2. present \subseteq present'
    BY DEF FindEntry, InsertEntry, Load
  <2>3. \A c \in Counters \ present' : count'[c] = 0
    BY <1>2, <1>6, <2>2 DEF Exact
  <2>4. /\ pc'[t] = "insert" => Counter(t) \notin present'
        /\ pc'[t] \in {"load", "store"} => Counter(t) \in present'
        /\ pc'[t] = "store" => reg'[t] = count'[Counter(t)]
    <3>1. CASE FindEntry(t)
      BY <1>1, <3>1 DEF FindEntry
    <3>2. CASE InsertEntry(t)
      BY <1>1, <3>2 DEF InsertEntry
    <3>3. CASE Load(t)
      <4>1. Counter(t) \in present
        BY <1>2, <3>3 DEF Load, Exact
      <4> QED BY <1>1, <3>3, <4>1 DEF Load
    <3> QED BY <3>1, <3>2, <3>3
  <2> QED BY <1>3, <1>5, <2>1, <2>3, <2>4 DEF Exact
<1>8. Alone' /\ Pages' /\ Finished'
  BY <1>1, <1>2, <1>3, <1>4, <1>6 DEF Alone, Pages, Finished
<1>9. \A u \in Threads : Recording(u)' <=> Recording(u)
  BY <1>1, <1>3, <1>4 DEF Recording
<1>10. Progress'
  <2>1. \A u, c, n : Sums(u, c, n)' <=> Sums(u, c, n)
    BY <1>6 DEF Sums
  <2> QED BY <1>1, <1>2, <1>9, <2>1 DEF Progress
<1> QED BY <1>7, <1>8, <1>10

\* A step of insertRecord that stores an incremented counter.
LEMMA StoreQuiet ==
  ASSUME IsFiniteSet(Uris), SeqInv, IndInv', ~overlapped', NEW t \in Threads, Store(t)
  PROVE  Alone' /\ Exact' /\ Progress' /\ Pages' /\ Finished'
<1> DEFINE k == Counter(t)
<1>1. /\ pc[t] = "store"
      /\ count' = [count EXCEPT ![k] = reg[t] + 1]
      /\ recorded' = [recorded EXCEPT ![k] = @ + 1]
      /\ todo' = [todo EXCEPT ![t] = Tail(@)]
      /\ pc' = [pc EXCEPT ![t] = IF Len(todo[t]) = 1 THEN "idle" ELSE "find"]
      /\ UNCHANGED <<present, page, begun>> /\ overlapped' = overlapped
  BY DEF Store
<1>2. /\ pc \in [Threads -> {"idle", "find", "insert", "load", "store",
                             "page_uris", "page_codes"}]
      /\ todo \in [Threads -> Seq(Counters)] /\ begun \in Nat
      /\ reg \in [Threads -> Nat] /\ count \in [Counters -> Nat]
      /\ recorded \in [Counters -> Nat]
  BY DEF SeqInv, IndInv, TypeOK
<1>3. Alone /\ Exact /\ Progress /\ Pages /\ Finished
  BY <1>1 DEF SeqInv, QuietInv
<1>4. \A u \in Threads \ {t} : pc[u] = "idle" /\ pc'[u] = "idle"
  BY <1>1, <1>2, <1>3, OthersIdle
<1>5. k \in Counters /\ k \in present /\ reg[t] = count[k] /\ count = recorded
  <2>1. k \in Counters
    BY <1>1, CounterType DEF SeqInv, IndInv
  <2> QED BY <1>1, <1>3, <2>1 DEF Exact
<1>6. count' = [count EXCEPT ![k] = count[k] + 1]
  BY <1>1, <1>5
<1>7. Exact'
  <2>1. count' = recorded'
    BY <1>1, <1>5
  <2>2. \A c \in Counters \ present' : count'[c] = 0
    BY <1>1, <1>2, <1>3, <1>5, <1>6 DEF Exact
  <2>3. pc'[t] \in {"idle", "find"}
    BY <1>1, <1>2
  <2> QED BY <1>4, <2>1, <2>2, <2>3 DEF Exact
<1> HIDE DEF k
<1>8. /\ UriSum(count') = IF k \in UriCounters THEN UriSum(count) + 1 ELSE UriSum(count)
      /\ CodeSum(count') = IF k \in CodeCounters THEN CodeSum(count) + 1 ELSE CodeSum(count)
      /\ count'[TotalVisit]
           = IF k = TotalVisit THEN count[TotalVisit] + 1 ELSE count[TotalVisit]
  <2>1. count'[k] = count[k] + 1 /\ \A c \in Counters \ {k} : count'[c] = count[c]
    BY <1>2, <1>5, <1>6
  <2>2. count \in [Counters -> Nat] /\ k \in Counters
    BY <1>2, <1>5
  <2> QED BY <2>1, <2>2, Bump, Zenon
<1>9. \A u, c, n : Sums(u, c, n)' <=> /\ UriSum(count') = u /\ CodeSum(count') = c
                                      /\ count'[TotalVisit] = n
  BY DEF Sums, UriSum, CodeSum
<1>10. \/ \E u \in UriCounters, c \in CodeCounters :
             todo[t] = <<u, c, TotalVisit>> /\ Sums(begun - 1, begun - 1, begun - 1)
       \/ \E c \in CodeCounters :
             todo[t] = <<c, TotalVisit>> /\ Sums(begun, begun - 1, begun - 1)
       \/ todo[t] = <<TotalVisit>> /\ Sums(begun, begun, begun - 1)
  BY <1>1, <1>3 DEF Progress, Recording
<1>11. \/ /\ pc'[t] = "find"
          /\ \E c \in CodeCounters : todo'[t] = <<c, TotalVisit>>
          /\ Sums(begun, begun - 1, begun - 1)'
       \/ /\ pc'[t] = "find"
          /\ todo'[t] = <<TotalVisit>>
          /\ Sums(begun, begun, begun - 1)'
       \/ pc'[t] = "idle" /\ Sums(begun, begun, begun)'
  <2>1. CASE \E u \in UriCounters, c \in CodeCounters :
               todo[t] = <<u, c, TotalVisit>> /\ Sums(begun - 1, begun - 1, begun - 1)
    <3>1. PICK u \in UriCounters, c \in CodeCounters :
            todo[t] = <<u, c, TotalVisit>> /\ Sums(begun - 1, begun - 1, begun - 1)
      BY <2>1
    <3>2. /\ Head(todo[t]) = u /\ Tail(todo[t]) = <<c, TotalVisit>>
          /\ Len(todo[t]) = 3
      BY <3>1
    <3>3. pc'[t] = "find" /\ todo'[t] = <<c, TotalVisit>> /\ k = u
      BY <1>1, <1>2, <3>2 DEF k, Counter
    <3>4. Sums(begun, begun - 1, begun - 1)'
      BY <1>1, <1>2, <1>8, <1>9, <3>1, <3>3, CounterKinds DEF Sums
    <3> QED BY <3>3, <3>4
  <2>2. CASE \E c \in CodeCounters :
               todo[t] = <<c, TotalVisit>> /\ Sums(begun, begun - 1, begun - 1)
    <3>1. PICK c \in CodeCounters :
            todo[t] = <<c, TotalVisit>> /\ Sums(begun, begun - 1, begun - 1)
      BY <2>2
    <3>2. /\ Head(todo[t]) = c /\ Tail(todo[t]) = <<TotalVisit>>
          /\ Len(todo[t]) = 2
      BY <3>1
    <3>3. pc'[t] = "find" /\ todo'[t] = <<TotalVisit>> /\ k = c
      BY <1>1, <1>2, <3>2 DEF k, Counter
    <3>4. Sums(begun, begun, begun - 1)'
      BY <1>1, <1>2, <1>8, <1>9, <3>1, <3>3, CounterKinds DEF Sums
    <3> QED BY <3>3, <3>4
  <2>3. CASE todo[t] = <<TotalVisit>> /\ Sums(begun, begun, begun - 1)
    <3>1. Head(todo[t]) = TotalVisit /\ Len(todo[t]) = 1
      BY <2>3
    <3>2. pc'[t] = "idle" /\ k = TotalVisit
      BY <1>1, <1>2, <3>1 DEF k, Counter
    <3>3. Sums(begun, begun, begun)'
      BY <1>1, <1>2, <1>8, <1>9, <2>3, <3>2, CounterKinds DEF Sums
    <3> QED BY <3>2, <3>3
  <2> QED BY <1>10, <2>1, <2>2, <2>3
<1>12. Progress'
  BY <1>1, <1>4, <1>11 DEF Progress, Recording
<1>13. Alone' /\ Pages'
  BY <1>4, <1>11 DEF Alone, Pages
<1>14. Finished'
  <2>1. \A u \in Threads : Agrees(page[u])
    BY <1>1, <1>3, <1>4 DEF Finished
  <2> QED BY <1>1, <2>1 DEF Finished
<1> QED BY <1>7, <1>12, <1>13, <1>14

\* getStatusString reads counters that nothing changes meanwhile.
LEMMA ReadCountersQuiet ==
  ASSUME IsFiniteSet(Uris), SeqInv, IndInv', ~overlapped', NEW t \in Threads,
         ReadTotal(t) \/ ReadUris(t) \/ ReadCodes(t)
  PROVE  Alone' /\ Exact' /\ Progress' /\ Pages' /\ Finished'
<1>1. /\ pc[t] \in {"idle", "page_uris", "page_codes"}
      /\ UNCHANGED <<count, present, todo, reg, begun, recorded>>
      /\ \E s \in {"idle", "page_uris", "page_codes"} : pc' = [pc EXCEPT ![t] = s]
      /\ ~overlapped /\ (pc[t] = "idle" => ~Busy)
  BY DEF ReadTotal, ReadUris, ReadCodes, ReadCounters
<1>2. /\ pc \in [Threads -> {"idle", "find", "insert", "load", "store",
                             "page_uris", "page_codes"}]
      /\ page \in [Threads -> [Counters -> Nat]] /\ count \in [Counters -> Nat]
  BY DEF SeqInv, IndInv, TypeOK
<1>3. Alone /\ Exact /\ Progress /\ Pages /\ Finished
  BY <1>1 DEF SeqInv, QuietInv
<1>4. \A u \in Threads \ {t} : pc[u] = "idle" /\ pc'[u] = "idle"
  <2>1. \A u \in Threads \ {t} : pc[u] = "idle"
    BY <1>1, <1>3, OthersIdle DEF Busy
  <2> QED BY <1>1, <1>2, <2>1
<1>5. pc'[t] \in {"idle", "page_uris", "page_codes"}
  BY <1>1, <1>2
<1>6. Alone' /\ Exact'
  BY <1>1, <1>3, <1>4, <1>5 DEF Alone, Exact
<1>7. UriSum(count) = begun /\ CodeSum(count) = begun /\ count[TotalVisit] = begun
  BY <1>1, <1>3, <1>4 DEF Progress, Recording, Sums
<1>8. Progress'
  BY <1>1, <1>4, <1>5, <1>7 DEF Progress, Recording, Sums, UriSum, CodeSum
<1>9. \A u \in Threads \ {t} : page'[u] = page[u]
  BY <1>2 DEF ReadTotal, ReadUris, ReadCodes, ReadCounters
<1>10. ASSUME NEW S, ReadCounters(t, S, pc[t], pc'[t])
       PROVE  \A c \in Counters : page'[t][c] = IF c \in S THEN count[c] ELSE page[t][c]
  BY <1>2, <1>10 DEF ReadCounters
<1>11. \/ pc'[t] = "page_uris" /\ page'[t][TotalVisit] = count[TotalVisit]
       \/ /\ pc'[t] = "page_codes"
          /\ page'[t][TotalVisit] = count[TotalVisit]
          /\ UriSum(page'[t]) = page'[t][TotalVisit]
       \/ pc'[t] = "idle" /\ Agrees(page'[t])
  <2>1. CASE ReadTotal(t)
    <3>1. pc[t] = "idle" /\ pc'[t] = "page_uris"
      BY <1>2, <2>1 DEF ReadTotal, ReadCounters
    <3>2. ReadCounters(t, {TotalVisit}, pc[t], pc'[t])
      BY <2>1, <3>1 DEF ReadTotal
    <3> QED BY <1>10, <3>1, <3>2, CounterKinds
  <2>2. CASE ReadUris(t)
    <3>1. pc[t] = "page_uris" /\ pc'[t] = "page_codes"
      BY <1>2, <2>2 DEF ReadUris, ReadCounters
    <3>2. ReadCounters(t, UriCounters, pc[t], pc'[t])
      BY <2>2, <3>1 DEF ReadUris
    <3>3. /\ \A c \in UriCounters : page'[t][c] = count[c]
          /\ page'[t][TotalVisit] = page[t][TotalVisit]
      BY <1>10, <3>2, CounterKinds
    <3>4. UriSum(page'[t]) = UriSum(count)
      BY <3>3, SumSame, CountersFinite DEF UriSum
    <3>5. page[t][TotalVisit] = count[TotalVisit]
      BY <1>3, <3>1 DEF Pages
    <3> QED BY <1>7, <3>1, <3>3, <3>4, <3>5
  <2>3. CASE ReadCodes(t)
    <3>1. pc[t] = "page_codes" /\ pc'[t] = "idle"
      BY <1>2, <2>3 DEF ReadCodes, ReadCounters
    <3>2. ReadCounters(t, CodeCounters, pc[t], pc'[t])
      BY <2>3, <3>1 DEF ReadCodes
    <3>3. /\ \A c \in CodeCounters : page'[t][c] = count[c]
          /\ \A c \in UriCounters : page'[t][c] = page[t][c]
          /\ page'[t][TotalVisit] = page[t][TotalVisit]
      BY <1>10, <3>2, CounterKinds
    <3>4. CodeSum(page'[t]) = CodeSum(count)
      BY <3>3, SumSame, CountersFinite DEF CodeSum
    <3>5. UriSum(page'[t]) = UriSum(page[t])
      BY <3>3, SumSame, CountersFinite DEF UriSum
    <3>6. /\ page[t][TotalVisit] = count[TotalVisit]
          /\ UriSum(page[t]) = page[t][TotalVisit]
      BY <1>3, <3>1 DEF Pages
    <3> QED BY <1>7, <3>1, <3>3, <3>4, <3>5, <3>6 DEF Agrees
  <2> QED BY <2>1, <2>2, <2>3
<1>12. Pages'
  BY <1>1, <1>4, <1>11 DEF Pages, UriSum
<1>13. Finished'
  <2>1. \A u \in Threads \ {t} : Agrees(page'[u])
    BY <1>3, <1>4, <1>9 DEF Finished
  <2>2. pc'[t] \notin {"page_uris", "page_codes"} => Agrees(page'[t])
    BY <1>11
  <2> QED BY <2>1, <2>2 DEF Finished, Agrees, UriSum, CodeSum
<1> QED BY <1>6, <1>8, <1>12, <1>13

\* Every step keeps the invariant, as long as no two calls overlap.
LEMMA QuietNext ==
  ASSUME IsFiniteSet(Uris), SeqInv, IndInv', [Next]_vars
  PROVE  QuietInv'
<1> SUFFICES ASSUME ~overlapped' PROVE Alone' /\ Exact' /\ Progress' /\ Pages' /\ Finished'
  BY DEF QuietInv
<1>1. ASSUME UNCHANGED <<count, present, pc, todo, reg, page, overlapped, begun, recorded>>
      PROVE  Alone' /\ Exact' /\ Progress' /\ Pages' /\ Finished'
  <2>1. Alone /\ Exact /\ Progress /\ Pages /\ Finished
    BY <1>1 DEF SeqInv, QuietInv
  <2> QED
    BY <1>1, <2>1 DEF Alone, Exact, Counter, Progress, Recording, Sums, Pages,
                      Finished, Agrees, UriSum, CodeSum
<1>2. CASE UNCHANGED vars
  BY <1>1, <1>2 DEF vars
<1>3. ASSUME NEW t \in Threads, Crash(t)
      PROVE  Alone' /\ Exact' /\ Progress' /\ Pages' /\ Finished'
  BY <1>1, <1>3 DEF Crash, threadVars
<1> QED
  BY <1>2, <1>3, BeginRecordQuiet, WithinRecordQuiet, StoreQuiet, ReadCountersQuiet
     DEF Next, Step

\* At the start nothing is counted and the pages are blank.
LEMMA QuietInit ==
  ASSUME IsFiniteSet(Uris), Init
  PROVE  QuietInv
<1>1. /\ count = Zero /\ recorded = Zero /\ begun = 0
      /\ \A t \in Threads : pc[t] = "idle" /\ page[t] = Zero
  BY DEF Init
<1>2. UriSum(Zero) = 0 /\ CodeSum(Zero) = 0 /\ Zero[TotalVisit] = 0
  <2>1. /\ \A c \in UriCounters : Zero[c] = 0
        /\ \A c \in CodeCounters : Zero[c] = 0
        /\ Zero[TotalVisit] = 0
    BY CounterKinds DEF Zero
  <2> QED BY <2>1, SumZero, CountersFinite DEF UriSum, CodeSum
<1>3. Exact
  BY <1>1 DEF Exact, Zero
<1>4. Progress
  BY <1>1, <1>2 DEF Progress, Recording, Sums
<1> QED
  BY <1>1, <1>2, <1>3, <1>4 DEF QuietInv, Alone, Pages, Finished, Agrees

\* The invariant of calls that do not overlap.
THEOREM QuietInvariance ==
  ASSUME IsFiniteSet(Uris)
  PROVE  Spec => []SeqInv
<1>1. Init => SeqInv
  BY InitInv, QuietInit DEF SeqInv
<1>2. SeqInv /\ [Next]_vars => SeqInv'
  BY NextInv, QuietNext DEF SeqInv
<1> QED
  BY <1>1, <1>2, PTL DEF Spec

\* As long as no two calls have overlapped, and whenever none is in progress,
\* every counter is the number of insertRecord calls under its key, and the
\* URIs and the codes both add up to the total: on any number of threads and
\* for any finite set of URIs.
THEOREM SequentialCounts ==
  ASSUME IsFiniteSet(Uris)
  PROVE  Spec => []SequentialCountsExact
<1>1. SeqInv => SequentialCountsExact
  <2> SUFFICES ASSUME SeqInv, ~overlapped, ~Busy PROVE
        /\ count = recorded
        /\ count[TotalVisit] = begun
        /\ SumFunctionOnSet(count, UriCounters) = begun
        /\ SumFunctionOnSet(count, CodeCounters) = begun
    BY Zenon DEF SequentialCountsExact, CountsExact
  <2>1. Exact /\ Progress
    BY DEF SeqInv, QuietInv
  <2>2. \A t \in Threads : ~Recording(t)
    BY DEF Busy, Recording
  <2> QED BY <2>1, <2>2 DEF Exact, Progress, Sums, UriSum, CodeSum
<1> QED
  BY <1>1, QuietInvariance, PTL

\* As long as no two calls have overlapped, the URIs and the codes that a
\* finished status page lists both add up to the total it shows.
THEOREM ConsistentPages ==
  ASSUME IsFiniteSet(Uris)
  PROVE  Spec => []PageConsistent
<1>1. SeqInv => PageConsistent
  BY DEF SeqInv, QuietInv, Finished, Agrees, UriSum, CodeSum, PageConsistent
<1> QED
  BY <1>1, QuietInvariance, PTL
=============================================================================
