----------------------------- MODULE CommonLemmas -----------------------------
(***************************************************************************)
(* Facts about lists, sets of numbers, sums and unsigned arithmetic that   *)
(* the proofs rest on.  They mention no state of any component.            *)
(***************************************************************************)
EXTENDS Integers, Sequences, FiniteSets, Functions, SequencesExt,
        SequenceTheorems, FiniteSetTheorems, WellFoundedInduction, TLAPS

-----------------------------------------------------------------------------
(* Lists of order ids.                                                     *)

\* The ids of a list grow from its front to its back.
Increasing(list) ==
  \A i, j \in DOMAIN list : i < j => list[i] < list[j]

\* What std::list::erase leaves: the elements in front of position k, then
\* those behind it.
LEMMA RemoveAtProperties ==
  ASSUME NEW S, NEW list \in Seq(S), NEW k \in DOMAIN list
  PROVE  /\ RemoveAt(list, k) \in Seq(S)
         /\ Len(RemoveAt(list, k)) = Len(list) - 1
         /\ \A i \in 1 .. Len(list) - 1 :
              RemoveAt(list, k)[i] = IF i < k THEN list[i] ELSE list[i + 1]
<1> DEFINE before == SubSeq(list, 1, k - 1)
           after  == SubSeq(list, k + 1, Len(list))
<1>0. k \in 1 .. Len(list) /\ Len(list) \in Nat
  BY LenProperties
<1>e. \A i \in 1 .. Len(list) : list[i] \in S
  BY ElementOfSeq
<1>1. before \in Seq(S) /\ Len(before) = k - 1
      /\ \A i \in 1 .. k - 1 : before[i] = list[i]
  <2>1. \A i \in 1 .. k - 1 : list[i] \in S
    BY <1>0, <1>e
  <2>2. k - 1 \in Int /\ (k - 1) - 1 + 1 = k - 1
        /\ (IF 1 <= k - 1 THEN (k - 1) - 1 + 1 ELSE 0) = k - 1
        /\ \A i \in Int : 1 + i - 1 = i
    BY <1>0
  <2>3. /\ before \in Seq(S)
        /\ Len(before) = IF 1 <= k - 1 THEN (k - 1) - 1 + 1 ELSE 0
        /\ \A i \in 1 .. (k - 1) - 1 + 1 : before[i] = list[1 + i - 1]
    BY <2>1, <2>2, SubSeqProperties
  <2> HIDE DEF before
  <2>4. ASSUME NEW i \in 1 .. k - 1
        PROVE  before[i] = list[i]
    <3>1. before[i] = list[1 + i - 1]
      BY ONLY <2>2, <2>3, <2>4
    <3>2. i \in Int /\ 1 + i - 1 = i
      BY <1>0, <2>2
    <3> QED BY ONLY <3>1, <3>2
  <2> QED BY <2>2, <2>3, <2>4
<1>2. after \in Seq(S) /\ Len(after) = Len(list) - k
      /\ \A i \in 1 .. Len(list) - k : after[i] = list[k + i]
  <2>1. \A i \in k + 1 .. Len(list) : list[i] \in S
    BY <1>0, <1>e
  <2>2. k + 1 \in Int /\ Len(list) \in Int /\ Len(list) - (k + 1) + 1 = Len(list) - k
        /\ (IF k + 1 <= Len(list) THEN Len(list) - (k + 1) + 1 ELSE 0) = Len(list) - k
        /\ \A i \in Int : k + 1 + i - 1 = k + i
    BY <1>0
  <2>3. /\ after \in Seq(S)
        /\ Len(after) = IF k + 1 <= Len(list) THEN Len(list) - (k + 1) + 1 ELSE 0
        /\ \A i \in 1 .. Len(list) - (k + 1) + 1 : after[i] = list[k + 1 + i - 1]
    <3> DEFINE m == k + 1
               n == Len(list)
    <3>1. m \in Int /\ n \in Int /\ \A i \in m .. n : list[i] \in S
      BY <2>1, <2>2
    <3> HIDE DEF m, n
    <3>2. /\ SubSeq(list, m, n) \in Seq(S)
          /\ Len(SubSeq(list, m, n)) = IF m <= n THEN n - m + 1 ELSE 0
          /\ \A i \in 1 .. n - m + 1 : SubSeq(list, m, n)[i] = list[m + i - 1]
      BY <3>1, SubSeqProperties
    <3> QED BY <3>2 DEF m, n
  <2> HIDE DEF after
  <2>4. ASSUME NEW i \in 1 .. Len(list) - k
        PROVE  after[i] = list[k + i]
    <3>1. after[i] = list[k + 1 + i - 1]
      BY ONLY <2>2, <2>3, <2>4
    <3>2. i \in Int /\ k + 1 + i - 1 = k + i
      BY <1>0, <2>2
    <3> QED BY ONLY <3>1, <3>2
  <2> QED BY <2>2, <2>3, <2>4
<1>3. RemoveAt(list, k) = before \o after
  BY DEF RemoveAt
<1> HIDE DEF before, after
<1>4. /\ before \o after \in Seq(S)
      /\ Len(before \o after) = Len(before) + Len(after)
      /\ \A i \in 1 .. Len(before) + Len(after) : (before \o after)[i] =
           IF i <= Len(before) THEN before[i] ELSE after[i - Len(before)]
  BY <1>1, <1>2, ConcatProperties
<1> DEFINE n == Len(list)
<1>5. n \in Nat /\ k \in Int /\ 1 <= k /\ k <= n
      /\ Len(before) = k - 1 /\ Len(after) = n - k
      /\ Len(before) + Len(after) = n - 1
  BY <1>0, <1>1, <1>2
<1>6. ASSUME NEW i \in 1 .. Len(list) - 1
      PROVE  RemoveAt(list, k)[i] = IF i < k THEN list[i] ELSE list[i + 1]
  <2>0. i \in Int /\ 1 <= i /\ i <= n - 1
    BY <1>5
  <2>1. (before \o after)[i] =
          IF i <= Len(before) THEN before[i] ELSE after[i - Len(before)]
    BY <1>4, <1>5
  <2>2. CASE i < k
    <3>1. i <= Len(before) /\ i \in 1 .. k - 1
      BY <1>5, <2>0, <2>2
    <3> QED BY <1>1, <1>3, <2>1, <2>2, <3>1
  <2>3. CASE ~(i < k)
    <3> HIDE DEF n
    <3>1. /\ ~(i <= k - 1)
          /\ i - (k - 1) \in Int /\ 1 <= i - (k - 1) /\ i - (k - 1) <= n - k
          /\ k + (i - (k - 1)) = i + 1
      <4>1. \A a, b, c \in Int : ~(a < b) /\ a <= c - 1 =>
              /\ ~(a <= b - 1)
              /\ a - (b - 1) \in Int /\ 1 <= a - (b - 1) /\ a - (b - 1) <= c - b
              /\ b + (a - (b - 1)) = a + 1
        OBVIOUS
      <4>2. i \in Int /\ k \in Int /\ n \in Int /\ ~(i < k) /\ i <= n - 1
        BY <1>5, <2>0, <2>3
      <4> QED BY ONLY <4>1, <4>2
    <3>2. i - (k - 1) \in 1 .. n - k
      BY <1>5, <3>1
    <3> USE DEF n
    <3>3. after[i - (k - 1)] = list[k + (i - (k - 1))]
      BY <1>2, <3>2
    <3> QED BY <1>3, <1>5, <2>1, <2>3, <3>1, <3>3
  <2> QED BY <2>2, <2>3
<1> QED
  BY <1>3, <1>4, <1>5, <1>6

\* Erasing one element of an increasing list leaves an increasing list of the
\* other elements.
LEMMA RemoveFromIncreasing ==
  ASSUME NEW list \in Seq(Nat), Increasing(list), NEW k \in DOMAIN list
  PROVE  LET rest == RemoveAt(list, k)
         IN  /\ rest \in Seq(Nat)
             /\ Increasing(rest)
             /\ \A i \in DOMAIN rest :
                  rest[i] # list[k] /\ \E j \in DOMAIN list : rest[i] = list[j]
             /\ \A j \in DOMAIN list :
                  list[j] # list[k] => \E i \in DOMAIN rest : rest[i] = list[j]
<1> DEFINE rest == RemoveAt(list, k)
<1>1. /\ DOMAIN list = 1 .. Len(list) /\ Len(list) \in Nat
      /\ \A i \in 1 .. Len(list) : list[i] \in Nat
  BY LenProperties, ElementOfSeq
<1>2. /\ rest \in Seq(Nat)
      /\ Len(rest) = Len(list) - 1
      /\ \A i \in 1 .. Len(list) - 1 :
           rest[i] = IF i < k THEN list[i] ELSE list[i + 1]
  BY RemoveAtProperties
<1>3. DOMAIN rest = 1 .. Len(list) - 1
  BY <1>2, LenProperties
<1> HIDE DEF rest
<1> DEFINE n == Len(list)
<1>n. n \in Nat /\ DOMAIN list = 1 .. n /\ DOMAIN rest = 1 .. n - 1
  BY <1>1, <1>3
<1>r. \A i \in DOMAIN rest : rest[i] = IF i < k THEN list[i] ELSE list[i + 1]
  BY <1>2, <1>3
<1>l. \A j \in DOMAIN list : list[j] \in Nat
  BY <1>1
<1> HIDE DEF n
<1>d. /\ k \in Int
      /\ \A i \in DOMAIN rest : i \in Int /\ i \in DOMAIN list /\ i + 1 \in DOMAIN list
      /\ \A j \in DOMAIN list : j \in Int
  BY <1>n
<1>4. Increasing(rest)
  <2> SUFFICES ASSUME NEW i \in DOMAIN rest, NEW j \in DOMAIN rest, i < j
               PROVE  rest[i] < rest[j]
    BY DEF Increasing
  <2>1. CASE j < k
    <3>1. i < k /\ rest[i] = list[i] /\ rest[j] = list[j]
      BY <1>d, <1>r, <1>l, <2>1
    <3> QED BY <1>d, <1>r, <1>l, <3>1 DEF Increasing
  <2>2. CASE ~(j < k) /\ i < k
    <3>1. i < j + 1 /\ rest[i] = list[i] /\ rest[j] = list[j + 1]
      BY <1>d, <1>r, <1>l, <2>2
    <3> QED BY <1>d, <1>r, <1>l, <3>1 DEF Increasing
  <2>3. CASE ~(j < k) /\ ~(i < k)
    <3>1. i + 1 < j + 1 /\ rest[i] = list[i + 1] /\ rest[j] = list[j + 1]
      BY <1>d, <1>r, <1>l, <2>3
    <3> QED BY <1>d, <1>r, <1>l, <3>1 DEF Increasing
  <2> QED BY <2>1, <2>2, <2>3
<1>5. ASSUME NEW i \in DOMAIN rest
      PROVE  rest[i] # list[k] /\ \E j \in DOMAIN list : rest[i] = list[j]
  <2>1. CASE i < k
    <3>1. i \in DOMAIN list /\ rest[i] = list[i] /\ list[i] < list[k]
      BY <1>d, <1>r, <1>l, <2>1 DEF Increasing
    <3> QED BY <1>d, <1>r, <1>l, <3>1
  <2>2. CASE ~(i < k)
    <3>1. i + 1 \in DOMAIN list /\ k < i + 1 /\ rest[i] = list[i + 1]
      BY <1>d, <1>r, <1>l, <2>2
    <3>2. list[k] < list[i + 1]
      BY <3>1 DEF Increasing
    <3> QED BY <1>d, <1>r, <1>l, <3>1, <3>2
  <2> QED BY <2>1, <2>2
<1>6. ASSUME NEW j \in DOMAIN list, list[j] # list[k]
      PROVE  \E i \in DOMAIN rest : rest[i] = list[j]
  <2>0. j \in Int /\ j # k /\ 1 <= j /\ j <= n
    BY <1>n, <1>6
  <2>1. CASE j < k
    <3>1. j \in DOMAIN rest
      BY <1>d, <1>r, <1>l, <1>n, <2>0, <2>1
    <3> QED BY <1>d, <1>r, <1>l, <2>1, <3>1
  <2>2. CASE j > k
    <3>1. j - 1 \in DOMAIN rest /\ ~(j - 1 < k) /\ (j - 1) + 1 = j
      BY <1>d, <1>r, <1>l, <1>n, <2>0, <2>2
    <3>2. rest[j - 1] = list[j]
      BY <1>d, <1>r, <1>l, <3>1
    <3> QED BY <3>1, <3>2
  <2> QED BY <1>d, <1>r, <1>l, <2>0, <2>1, <2>2
<1> QED BY <1>2, <1>4, <1>5, <1>6 DEF rest

\* Appending an id greater than all others keeps a list increasing.
LEMMA AppendToIncreasing ==
  ASSUME NEW list \in Seq(Nat), Increasing(list), NEW e \in Nat,
         \A i \in DOMAIN list : list[i] < e
  PROVE  LET longer == Append(list, e)
         IN  /\ longer \in Seq(Nat) /\ longer # <<>>
             /\ Increasing(longer)
             /\ \A i \in DOMAIN longer :
                  longer[i] = e \/ \E j \in DOMAIN list : longer[i] = list[j]
             /\ \A j \in DOMAIN list : \E i \in DOMAIN longer : longer[i] = list[j]
             /\ \E i \in DOMAIN longer : longer[i] = e
<1> DEFINE longer == Append(list, e)
<1>1. /\ DOMAIN list = 1 .. Len(list) /\ Len(list) \in Nat
      /\ \A i \in 1 .. Len(list) : list[i] \in Nat
  BY LenProperties, ElementOfSeq
<1>2. /\ longer \in Seq(Nat) /\ longer # <<>>
      /\ Len(longer) = Len(list) + 1
      /\ \A i \in 1 .. Len(list) : longer[i] = list[i]
      /\ longer[Len(list) + 1] = e
  BY AppendProperties
<1>3. DOMAIN longer = 1 .. Len(list) + 1
  BY <1>2, LenProperties
<1> HIDE DEF longer
<1>4. Increasing(longer)
  <2> SUFFICES ASSUME NEW i \in DOMAIN longer, NEW j \in DOMAIN longer, i < j
               PROVE  longer[i] < longer[j]
    BY DEF Increasing
  <2>1. i \in DOMAIN list /\ longer[i] = list[i]
    BY <1>1, <1>2, <1>3
  <2>2. CASE j = Len(list) + 1
    BY <1>2, <2>1, <2>2
  <2>3. CASE j # Len(list) + 1
    <3>1. j \in DOMAIN list /\ longer[j] = list[j]
      BY <1>1, <1>2, <1>3, <2>3
    <3> QED BY <2>1, <3>1 DEF Increasing
  <2> QED BY <2>2, <2>3
<1>5. \A i \in DOMAIN longer : i \in DOMAIN list \/ i = Len(list) + 1
  BY <1>1, <1>3
<1>6. DOMAIN list \subseteq DOMAIN longer /\ Len(list) + 1 \in DOMAIN longer
  BY <1>1, <1>3
<1> QED BY <1>1, <1>2, <1>4, <1>5, <1>6 DEF longer

-----------------------------------------------------------------------------
(* Sequences of consecutive numbers, as the queues hold them: the items   *)
(* between the last one delivered, d, and the last one accepted.            *)

\* A sequence that counts goes on counting.
LEMMA AppendCounts ==
  ASSUME NEW S, NEW s \in Seq(S), NEW d \in Int,
         \A i \in DOMAIN s : s[i] = d + i
  PROVE  \A i \in DOMAIN Append(s, d + Len(s) + 1) :
           Append(s, d + Len(s) + 1)[i] = d + i
<1> DEFINE t == Append(s, d + Len(s) + 1)
<1>1. DOMAIN t = 1 .. Len(s) + 1 /\ DOMAIN s = 1 .. Len(s) /\ Len(s) \in Nat
  OBVIOUS
<1>2. t[Len(s) + 1] = d + Len(s) + 1 /\ \A i \in 1 .. Len(s) : t[i] = s[i]
  OBVIOUS
<1> HIDE DEF t
<1>3. \A i \in DOMAIN t : t[i] = d + i
  <2> SUFFICES ASSUME NEW i \in 1 .. Len(s) + 1 PROVE t[i] = d + i
    BY <1>1
  <2>1. CASE i = Len(s) + 1
    BY <1>1, <1>2, <2>1
  <2>2. CASE i \in 1 .. Len(s)
    BY <1>1, <1>2, <2>2
  <2> QED BY <1>1, <2>1, <2>2
<1> QED BY <1>3 DEF t

\* Without its head, too: it counts from one more.
LEMMA TailCounts ==
  ASSUME NEW S, NEW s \in Seq(S), s # <<>>, NEW d \in Int,
         \A i \in DOMAIN s : s[i] = d + i
  PROVE  /\ Head(s) = d + 1 /\ Head(s) \in S
         /\ Tail(s) \in Seq(S) /\ Len(Tail(s)) = Len(s) - 1
         /\ \A i \in DOMAIN Tail(s) : Tail(s)[i] = (d + 1) + i
<1>1. DOMAIN s = 1 .. Len(s) /\ Len(s) \in Nat \ {0}
  OBVIOUS
<1>2. Head(s) = s[1] /\ 1 \in DOMAIN s
  BY <1>1
<1>3. /\ Tail(s) \in Seq(S) /\ Len(Tail(s)) = Len(s) - 1
      /\ DOMAIN Tail(s) = 1 .. Len(s) - 1
      /\ \A i \in 1 .. Len(s) - 1 : Tail(s)[i] = s[i + 1]
  OBVIOUS
<1>4. \A i \in DOMAIN Tail(s) : Tail(s)[i] = (d + 1) + i
  <2> SUFFICES ASSUME NEW i \in 1 .. Len(s) - 1 PROVE Tail(s)[i] = (d + 1) + i
    BY <1>3
  <2>1. s[i + 1] = d + (i + 1)
    BY <1>1
  <2> QED BY <1>1, <1>3, <2>1
<1> QED BY <1>1, <1>2, <1>3, <1>4

-----------------------------------------------------------------------------
(* Least and greatest elements.                                            *)

\* A non-empty set of naturals has a least element.
LEMMA NatMinimum ==
  ASSUME NEW T \in SUBSET Nat, T # {}
  PROVE  \E x \in T : \A y \in T : x <= y
<1>1. \E x \in T : \A y \in T : <<y, x>> \notin OpToRel(<, Nat)
  BY NatLessThanWellFounded, WFMin
<1>2. PICK x \in T : \A y \in T : <<y, x>> \notin OpToRel(<, Nat)
  BY <1>1
<1>3. \A y \in T : ~(y < x)
  BY <1>2 DEF OpToRel
<1> QED BY <1>3

\* A non-empty set of prices within bounds has a greatest and a least one:
\* what begin() of the bids and of the asks refers to.
LEMMA IntMaximum ==
  ASSUME NEW lo \in Int, NEW hi \in Int, NEW S \in SUBSET (lo .. hi), S # {}
  PROVE  \E x \in S : \A y \in S : y <= x
<1> DEFINE T == {n \in Nat : hi - n \in S}
<1>1. \A y \in S : hi - y \in T /\ hi - (hi - y) = y
  OBVIOUS
<1>2. T \in SUBSET Nat /\ T # {}
  BY <1>1
<1>3. PICK n \in T : \A m \in T : n <= m
  BY <1>2, NatMinimum
<1> QED BY <1>1, <1>3

LEMMA IntMinimum ==
  ASSUME NEW lo \in Int, NEW hi \in Int, NEW S \in SUBSET (lo .. hi), S # {}
  PROVE  \E x \in S : \A y \in S : x <= y
<1> DEFINE T == {n \in Nat : lo + n \in S}
<1>1. \A y \in S : y - lo \in T /\ lo + (y - lo) = y
  OBVIOUS
<1>2. T \in SUBSET Nat /\ T # {}
  BY <1>1
<1>3. PICK n \in T : \A m \in T : n <= m
  BY <1>2, NatMinimum
<1> QED BY <1>1, <1>3

-----------------------------------------------------------------------------
(* Sums over finite sets.                                                  *)

\* Among subsets of a finite set there is a smallest one: a statement that
\* fails for one of them fails for one, and holds for all smaller ones.
LEMMA SmallestSubset ==
  ASSUME NEW S, IsFiniteSet(S), NEW Bad \in SUBSET (SUBSET S), Bad # {}
  PROVE  \E T \in Bad : \A U \in SUBSET T : U # T => U \notin Bad
<1> DEFINE sizes == {Cardinality(T) : T \in Bad}
<1>1. \A T \in Bad : IsFiniteSet(T) /\ Cardinality(T) \in Nat
  BY FS_Subset, FS_CardinalityType
<1>2. sizes \in SUBSET Nat /\ sizes # {}
  BY <1>1
<1> HIDE DEF sizes
<1>3. PICK n \in sizes : \A m \in sizes : n <= m
  BY <1>2, NatMinimum
<1>4. PICK T \in Bad : n = Cardinality(T)
  BY <1>3 DEF sizes
<1>5. ASSUME NEW U \in SUBSET T, U # T, U \in Bad
      PROVE  FALSE
  <2>1. Cardinality(U) <= Cardinality(T) /\ Cardinality(U) # Cardinality(T)
    BY <1>1, <1>5, FS_Subset
  <2>2. Cardinality(T) <= Cardinality(U)
    BY <1>3, <1>4, <1>5 DEF sizes
  <2> QED BY <1>1, <1>5, <2>1, <2>2
<1> QED BY <1>5

\* SumFunctionOnSet as the library defines it: the function that recurs on
\* the subsets of T.
Recurs(g, f, T) ==
  g = [s \in SUBSET T |->
         IF s = {} THEN 0
         ELSE f[CHOOSE x \in s : TRUE] + g[s \ {CHOOSE x \in s : TRUE}]]
Iterate(f, T) == CHOOSE g : Recurs(g, f, T)

\* It is what SumFunctionOnSet stands for.
LEMMA SumDef ==
  ASSUME NEW f, NEW T
  PROVE  SumFunctionOnSet(f, T) = Iterate(f, T)[T]
BY DEF SumFunctionOnSet, FoldFunctionOnSet, MapThenFoldSet, Iterate, Recurs

\* The recursion is well defined on a finite set: one element, and the sum of
\* the rest.
LEMMA SumUnfold ==
  ASSUME NEW f, NEW S, IsFiniteSet(S)
  PROVE  SumFunctionOnSet(f, S) = IF S = {} THEN 0
                       ELSE f[CHOOSE x \in S : TRUE]
                              + SumFunctionOnSet(f, S \ {CHOOSE x \in S : TRUE})
<1> DEFINE first(s)   == CHOOSE x \in s : TRUE
           step(g, s) == IF s = {} THEN 0 ELSE f[first(s)] + g[s \ {first(s)}]
           \* on the subsets of T the recursion is well defined, and agrees
           \* with that on each of them
           Good(T)    == /\ Recurs(Iterate(f, T), f, T)
                         /\ \A s \in SUBSET T : Iterate(f, T)[s] = SumFunctionOnSet(f, s)
           Bad        == {T \in SUBSET S : ~Good(T)}
<1>0. \A T : SumFunctionOnSet(f, T) = Iterate(f, T)[T]
  BY SumDef
<1>1. ASSUME NEW T \in SUBSET S, \A U \in SUBSET T : U # T => Good(U)
      PROVE  Good(T)
  <2> DEFINE h == [s \in SUBSET T |->
                     IF s = {} THEN 0 ELSE f[first(s)] + SumFunctionOnSet(f, s \ {first(s)})]
  <2>1. ASSUME NEW U \in SUBSET T, U # T
        PROVE  SumFunctionOnSet(f, U) = h[U]
    <3>1. Good(U)
      BY <1>1, <2>1
    <3>2. Iterate(f, U)[U] = step(Iterate(f, U), U)
      <4>1. U \in SUBSET U
        OBVIOUS
      <4> QED BY <3>1, <4>1 DEF Recurs
    <3>3. U # {} => U \ {first(U)} \in SUBSET U
      OBVIOUS
    <3>4. U # {} => Iterate(f, U)[U \ {first(U)}] = SumFunctionOnSet(f, U \ {first(U)})
      BY <3>1, <3>3
    <3>5. h[U] = IF U = {} THEN 0 ELSE f[first(U)] + SumFunctionOnSet(f, U \ {first(U)})
      OBVIOUS
    <3> HIDE DEF h, Good
    <3> QED BY <1>0, <3>2, <3>4, <3>5
  <2>2. \A s \in SUBSET T : s # {} =>
          s \ {first(s)} \in SUBSET T /\ s \ {first(s)} # T /\ s \ {first(s)} # s
    OBVIOUS
  <2>3. Recurs(h, f, T)
    <3>1. \A s \in SUBSET T : h[s] = step(h, s)
      <4> SUFFICES ASSUME NEW s \in SUBSET T
                   PROVE  h[s] = step(h, s)
        OBVIOUS
      <4>1. h[s] = IF s = {} THEN 0 ELSE f[first(s)] + SumFunctionOnSet(f, s \ {first(s)})
        OBVIOUS
      <4> HIDE DEF h, Good
      <4> QED BY <2>1, <2>2, <4>1
    <3>2. h = [s \in SUBSET T |-> h[s]]
      OBVIOUS
    <3> HIDE DEF h, Good
    <3>3. h = [s \in SUBSET T |-> step(h, s)]
      BY <3>1, <3>2
    <3> QED BY <3>3 DEF Recurs
  <2> DEFINE g == Iterate(f, T)
  <2>4. Recurs(g, f, T)
    BY <2>3 DEF Iterate
  <2> HIDE DEF g
  <2>5. \A s \in SUBSET T : g[s] = step(g, s)
    BY <2>4 DEF Recurs
  <2>h. \A s \in SUBSET T : h[s] = step(h, s)
    BY <2>3 DEF Recurs
  <2> HIDE DEF h, Good
  <2> DEFINE Differ == {s \in SUBSET T : g[s] # h[s]}
  <2>6. Differ = {}
    <3> SUFFICES ASSUME Differ # {} PROVE FALSE
      OBVIOUS
    <3>1. IsFiniteSet(T) /\ Differ \in SUBSET (SUBSET T)
      BY FS_Subset
    <3> HIDE DEF Differ
    <3>2. PICK s \in Differ : \A u \in SUBSET s : u # s => u \notin Differ
      BY <3>1, SmallestSubset
    <3>3. s \in SUBSET T /\ g[s] # h[s]
      BY <3>2 DEF Differ
    <3>4. s # {}
      BY <2>5, <2>h, <3>3
    <3>5. g[s \ {first(s)}] = h[s \ {first(s)}]
      BY <2>2, <3>2, <3>3, <3>4 DEF Differ
    <3> QED BY <2>5, <2>h, <3>3, <3>4, <3>5
  <2>7. \A s \in SUBSET T : g[s] = SumFunctionOnSet(f, s)
    <3>1. g[T] = SumFunctionOnSet(f, T)
      BY <1>0 DEF g
    <3> QED BY <2>1, <2>6, <3>1
  <2> QED BY <2>4, <2>7 DEF g, Good
<1>2. Bad = {}
  <2> HIDE DEF Good
  <2> SUFFICES ASSUME Bad # {} PROVE FALSE
    OBVIOUS
  <2>1. Bad \in SUBSET (SUBSET S)
    OBVIOUS
  <2> HIDE DEF Bad
  <2>2. PICK T \in Bad : \A U \in SUBSET T : U # T => U \notin Bad
    BY <2>1, SmallestSubset
  <2> QED BY <1>1, <2>1, <2>2 DEF Bad
<1>3. Good(S)
  BY <1>2
<1>4. Iterate(f, S)[S] = step(Iterate(f, S), S)
  <2>1. S \in SUBSET S
    OBVIOUS
  <2> QED BY <1>3, <2>1 DEF Recurs
<1>5. S # {} => Iterate(f, S)[S \ {first(S)}] = SumFunctionOnSet(f, S \ {first(S)})
  <2>1. S \ {first(S)} \in SUBSET S
    OBVIOUS
  <2> QED BY <1>3, <2>1
<1> HIDE DEF Good
<1> QED BY <1>0, <1>4, <1>5

\* Nothing adds up to nothing.
LEMMA SumEmpty ==
  ASSUME NEW f
  PROVE  SumFunctionOnSet(f, {}) = 0
  BY SumUnfold, FS_EmptySet

\* Any element may be taken out first.
LEMMA SumElement ==
  ASSUME NEW S, IsFiniteSet(S), NEW f, \A y \in S : f[y] \in Int
  PROVE  /\ SumFunctionOnSet(f, S) \in Int
         /\ \A x \in S : SumFunctionOnSet(f, S) = f[x] + SumFunctionOnSet(f, S \ {x})
<1> DEFINE sum      == [T \in SUBSET S |-> SumFunctionOnSet(f, T)]
           first    == [T \in SUBSET S |-> CHOOSE x \in T : TRUE]
           Good(T)  == sum[T] \in Int /\ \A x \in T : sum[T] = f[x] + sum[T \ {x}]
           Bad      == {T \in SUBSET S : ~Good(T)}
<1>1. \A T \in SUBSET S : IsFiniteSet(T)
  BY FS_Subset
<1>2. \A T \in SUBSET S :
        sum[T] = IF T = {} THEN 0 ELSE f[first[T]] + sum[T \ {first[T]}]
  <2> SUFFICES ASSUME NEW T \in SUBSET S
               PROVE  sum[T] = IF T = {} THEN 0 ELSE f[first[T]] + sum[T \ {first[T]}]
    OBVIOUS
  <2>1. SumFunctionOnSet(f, T) = IF T = {} THEN 0 ELSE
             f[CHOOSE x \in T : TRUE] + SumFunctionOnSet(f, T \ {CHOOSE x \in T : TRUE})
    BY <1>1, SumUnfold
  <2> QED BY <2>1
<1>s. sum[S] = SumFunctionOnSet(f, S)
      /\ \A x \in S : sum[S \ {x}] = SumFunctionOnSet(f, S \ {x})
  OBVIOUS
<1>f. \A T \in SUBSET S : T # {} => first[T] \in T
  OBVIOUS
<1> HIDE DEF sum, first
<1>3. ASSUME NEW T \in SUBSET S, \A U \in SUBSET T : U # T => Good(U)
      PROVE  Good(T)
  <2>1. CASE T = {}
    <3>1. sum[T] = 0
      BY <1>2, <2>1
    <3> QED BY <2>1, <3>1
  <2>2. CASE T # {}
    <3> DEFINE c == first[T]
    <3>1. c \in T
      BY <1>f, <2>2
    <3>2. sum[T] = f[c] + sum[T \ {c}]
      BY <1>2, <2>2
    <3> HIDE DEF c
    <3>3. sum[T \ {c}] \in Int
      BY <1>3, <3>1
    <3>4. ASSUME NEW x \in T, x # c
          PROVE  sum[T] = f[x] + sum[T \ {x}]
      <4>1. sum[T \ {c}] = f[x] + sum[(T \ {c}) \ {x}]
        BY <1>3, <3>1, <3>4
      <4>2. sum[T \ {x}] = f[c] + sum[(T \ {x}) \ {c}]
        BY <1>3, <3>1, <3>4
      <4>3. (T \ {c}) \ {x} = (T \ {x}) \ {c}
        OBVIOUS
      <4>4. sum[(T \ {c}) \ {x}] \in Int /\ f[x] \in Int /\ f[c] \in Int
        BY <1>3, <3>1, <3>4
      <4>5. sum[T \ {x}] = f[c] + sum[(T \ {c}) \ {x}]
        BY ONLY <4>2, <4>3
      <4> HIDE DEF Good
      <4>6. \A a, b, d \in Int : a + (b + d) = b + (a + d)
        OBVIOUS
      <4> QED BY ONLY <3>2, <4>1, <4>4, <4>5, <4>6
    <3>5. sum[T] \in Int
      <4>1. f[c] \in Int
        BY <3>1
      <4> QED BY ONLY <3>2, <3>3, <4>1
    <3> QED BY <3>2, <3>4, <3>5
  <2> QED BY <2>1, <2>2
<1>4. Bad = {}
  <2> HIDE DEF Good
  <2> SUFFICES ASSUME Bad # {} PROVE FALSE
    OBVIOUS
  <2>1. Bad \in SUBSET (SUBSET S)
    OBVIOUS
  <2> HIDE DEF Bad
  <2>2. PICK T \in Bad : \A U \in SUBSET T : U # T => U \notin Bad
    BY <2>1, SmallestSubset
  <2> QED BY <1>3, <2>1, <2>2 DEF Bad
<1>5. Good(S)
  BY <1>4
<1> QED BY <1>5, <1>s

\* So it is for every part of the set.
LEMMA SumParts ==
  ASSUME NEW S, IsFiniteSet(S), NEW f, \A y \in S : f[y] \in Int
  PROVE  \A T \in SUBSET S :
           /\ SumFunctionOnSet(f, T) \in Int
           /\ \A x \in T : SumFunctionOnSet(f, T) = f[x] + SumFunctionOnSet(f, T \ {x})
<1> SUFFICES ASSUME NEW T \in SUBSET S
             PROVE  /\ SumFunctionOnSet(f, T) \in Int
                    /\ \A x \in T : SumFunctionOnSet(f, T)
                                      = f[x] + SumFunctionOnSet(f, T \ {x})
  OBVIOUS
<1>1. IsFiniteSet(T) /\ \A y \in T : f[y] \in Int
  BY FS_Subset
<1> QED BY <1>1, SumElement

\* The sum depends on no value of f but those on the set.
LEMMA SumSame ==
  ASSUME NEW S, IsFiniteSet(S), NEW f, NEW g, \A y \in S : f[y] = g[y]
  PROVE  SumFunctionOnSet(f, S) = SumFunctionOnSet(g, S)
<1> DEFINE first(T) == CHOOSE x \in T : TRUE
           Bad == {T \in SUBSET S : SumFunctionOnSet(f, T) # SumFunctionOnSet(g, T)}
<1>1. Bad = {}
  <2> SUFFICES ASSUME Bad # {} PROVE FALSE
    OBVIOUS
  <2>1. Bad \in SUBSET (SUBSET S)
    OBVIOUS
  <2> HIDE DEF Bad
  <2>2. PICK T \in Bad : \A U \in SUBSET T : U # T => U \notin Bad
    BY <2>1, SmallestSubset
  <2>3. T \in SUBSET S /\ IsFiniteSet(T)
    BY <2>1, FS_Subset
  <2>4. /\ SumFunctionOnSet(f, T) = IF T = {} THEN 0 ELSE
             f[first(T)] + SumFunctionOnSet(f, T \ {first(T)})
        /\ SumFunctionOnSet(g, T) = IF T = {} THEN 0 ELSE
             g[first(T)] + SumFunctionOnSet(g, T \ {first(T)})
    BY <2>3, SumUnfold
  <2>5. T # {} => first(T) \in T
    OBVIOUS
  <2>6. SumFunctionOnSet(f, T) # SumFunctionOnSet(g, T)
    BY DEF Bad
  <2>7. T # {} => SumFunctionOnSet(f, T \ {first(T)}) = SumFunctionOnSet(g, T \ {first(T)})
    BY <2>2, <2>3, <2>5 DEF Bad
  <2> HIDE DEF first
  <2> QED BY <2>3, <2>4, <2>5, <2>6, <2>7
<1> QED BY <1>1

\* One element more.
LEMMA SumWith ==
  ASSUME NEW S, IsFiniteSet(S), NEW x, x \notin S, NEW f,
         \A y \in S \cup {x} : f[y] \in Int
  PROVE  SumFunctionOnSet(f, S \cup {x}) = SumFunctionOnSet(f, S) + f[x]
<1>1. IsFiniteSet(S \cup {x})
  BY FS_AddElement
<1>2. (S \cup {x}) \ {x} = S
  OBVIOUS
<1>3. SumFunctionOnSet(f, S \cup {x}) = f[x] + SumFunctionOnSet(f, S)
  BY <1>1, <1>2, SumElement
<1>4. SumFunctionOnSet(f, S) \in Int
  BY SumElement
<1> QED BY <1>3, <1>4

\* One value changed.
LEMMA SumChanged ==
  ASSUME NEW S, IsFiniteSet(S), NEW x \in S, NEW f, NEW g,
         \A y \in S : f[y] \in Int /\ g[y] \in Int,
         \A y \in S \ {x} : f[y] = g[y]
  PROVE  SumFunctionOnSet(g, S) = SumFunctionOnSet(f, S) - f[x] + g[x]
<1>1. IsFiniteSet(S \ {x})
  BY FS_RemoveElement
<1>2. SumFunctionOnSet(f, S \ {x}) = SumFunctionOnSet(g, S \ {x})
  BY <1>1, SumSame
<1>3. /\ SumFunctionOnSet(f, S) = f[x] + SumFunctionOnSet(f, S \ {x})
      /\ SumFunctionOnSet(g, S) = g[x] + SumFunctionOnSet(g, S \ {x})
  BY SumElement
<1>4. SumFunctionOnSet(f, S \ {x}) \in Int
  BY <1>1, SumElement
<1> QED BY <1>2, <1>3, <1>4

\* Values that are not negative add up to one that is not, and to no less
\* than those of a part of the set.
LEMMA SumOfNaturals ==
  ASSUME NEW S, IsFiniteSet(S), NEW f, \A y \in S : f[y] \in Nat
  PROVE  /\ SumFunctionOnSet(f, S) \in Nat
         /\ \A T \in SUBSET S : SumFunctionOnSet(f, T) <= SumFunctionOnSet(f, S)
<1> DEFINE sum == [U \in SUBSET S |-> SumFunctionOnSet(f, U)]
           Good(U) == sum[U] \in Nat /\ \A T \in SUBSET U : sum[T] <= sum[U]
           Bad == {U \in SUBSET S : ~Good(U)}
<1>1. \A U \in SUBSET S : sum[U] \in Int /\ \A x \in U : sum[U] = f[x] + sum[U \ {x}]
  BY SumParts
<1>2. sum[{}] = 0
  BY SumEmpty
<1>s. \A U \in SUBSET S : sum[U] = SumFunctionOnSet(f, U)
  OBVIOUS
<1> HIDE DEF sum
<1>3. ASSUME NEW V \in SUBSET S, \A U \in SUBSET V : U # V => Good(U)
      PROVE  Good(V)
  <2>1. CASE V = {}
    BY <1>2, <2>1
  <2>2. CASE V # {}
    <3>1. PICK x \in V : TRUE
      BY <2>2
    <3>2. Good(V \ {x}) /\ f[x] \in Nat /\ sum[V] = f[x] + sum[V \ {x}]
      BY <1>1, <1>3, <3>1
    <3>3. ASSUME NEW T \in SUBSET V
          PROVE  sum[T] <= sum[V]
      <4>1. CASE T = V
        BY <1>1, <4>1
      <4>2. CASE T # V
        <5>1. PICK z \in V : z \notin T
          BY <4>2
        <5>2. Good(V \ {z}) /\ f[z] \in Nat /\ sum[V] = f[z] + sum[V \ {z}]
          BY <1>1, <1>3, <5>1
        <5>3. T \in SUBSET (V \ {z}) /\ sum[T] \in Int
          BY <1>1, <5>1
        <5>4. sum[T] <= sum[V \ {z}] /\ sum[V \ {z}] \in Nat
          BY <5>2, <5>3
        <5>5. sum[V] = f[z] + sum[V \ {z}] /\ f[z] \in Nat
          BY <5>2
        <5> HIDE DEF Good
        <5> QED BY ONLY <5>3, <5>4, <5>5
      <4> QED BY <4>1, <4>2
    <3>4. sum[V \ {x}] \in Nat /\ f[x] \in Nat /\ sum[V] = f[x] + sum[V \ {x}]
      BY <3>2
    <3>5. sum[V] \in Nat
      BY ONLY <3>4
    <3> QED BY <3>3, <3>5
  <2> QED BY <2>1, <2>2
<1>4. Bad = {}
  <2> HIDE DEF Good
  <2> SUFFICES ASSUME Bad # {} PROVE FALSE
    OBVIOUS
  <2>1. Bad \in SUBSET (SUBSET S)
    OBVIOUS
  <2> HIDE DEF Bad
  <2>2. PICK T \in Bad : \A U \in SUBSET T : U # T => U \notin Bad
    BY <2>1, SmallestSubset
  <2> QED BY <1>3, <2>1, <2>2 DEF Bad
<1>5. Good(S)
  BY <1>4
<1> QED BY <1>5, <1>s

\* A set put together from two that have nothing in common.
LEMMA SumDisjoint ==
  ASSUME NEW S, IsFiniteSet(S), NEW T, IsFiniteSet(T), S \cap T = {}, NEW f,
         \A y \in S \cup T : f[y] \in Int
  PROVE  SumFunctionOnSet(f, S \cup T) = SumFunctionOnSet(f, S) + SumFunctionOnSet(f, T)
<1> DEFINE sum == [U \in SUBSET (S \cup T) |-> SumFunctionOnSet(f, U)]
           Bad == {U \in SUBSET T : sum[S \cup U] # sum[S] + sum[U]}
<1>1. IsFiniteSet(S \cup T)
  BY FS_Union
<1>2. \A U \in SUBSET (S \cup T) :
        sum[U] \in Int /\ \A x \in U : sum[U] = f[x] + sum[U \ {x}]
  BY <1>1, SumParts
<1>3. sum[{}] = 0
  BY SumEmpty
<1>s. \A U \in SUBSET (S \cup T) : sum[U] = SumFunctionOnSet(f, U)
  OBVIOUS
<1> HIDE DEF sum
<1>4. Bad = {}
  <2> SUFFICES ASSUME Bad # {} PROVE FALSE
    OBVIOUS
  <2>1. Bad \in SUBSET (SUBSET T)
    OBVIOUS
  <2> HIDE DEF Bad
  <2>2. PICK U \in Bad : \A V \in SUBSET U : V # U => V \notin Bad
    BY <2>1, SmallestSubset
  <2>3. U \in SUBSET T /\ sum[S \cup U] # sum[S] + sum[U]
    BY DEF Bad
  <2>4. U # {}
    <3> SUFFICES ASSUME U = {} PROVE FALSE
      OBVIOUS
    <3>1. S \cup U = S /\ sum[S] \in Int /\ sum[U] = 0
      BY <1>2, <1>3
    <3> QED BY <2>3, <3>1
  <2>5. PICK x \in U : TRUE
    BY <2>4
  <2>6. (S \cup U) \ {x} = S \cup (U \ {x})
    BY <2>3, <2>5
  <2>7. sum[S \cup (U \ {x})] = sum[S] + sum[U \ {x}]
    BY <2>2, <2>3, <2>5 DEF Bad
  <2>8. sum[S \cup U] = f[x] + sum[S \cup (U \ {x})] /\ sum[U] = f[x] + sum[U \ {x}]
    BY <1>2, <2>3, <2>5, <2>6
  <2>9. f[x] \in Int /\ sum[S] \in Int /\ sum[U \ {x}] \in Int
    BY <1>2, <2>3, <2>5
  <2> QED BY <2>3, <2>7, <2>8, <2>9
<1>5. sum[S \cup T] = sum[S] + sum[T]
  BY <1>4
<1> QED BY <1>5, <1>s

\* What bounds every part of a set bounds the set: g[p] is at most what the
\* elements with key p add up to.
LEMMA SumOverParts ==
  ASSUME NEW P, IsFiniteSet(P), NEW S, IsFiniteSet(S), NEW f, NEW g, NEW key,
         \A x \in S : f[x] \in Nat, \A p \in P : g[p] \in Nat,
         \A p \in P : g[p] <= SumFunctionOnSet(f, {x \in S : key[x] = p})
  PROVE  SumFunctionOnSet(g, P) <= SumFunctionOnSet(f, {x \in S : key[x] \in P})
<1> DEFINE sum     == [U \in SUBSET S |-> SumFunctionOnSet(f, U)]
           part(Q) == {x \in S : key[x] \in Q}
           Bad == {Q \in SUBSET P : ~(SumFunctionOnSet(g, Q) <= sum[part(Q)])}
<1>1. \A Q \in SUBSET P : /\ SumFunctionOnSet(g, Q) \in Int
                          /\ \A p \in Q : SumFunctionOnSet(g, Q) =
                               g[p] + SumFunctionOnSet(g, Q \ {p})
  BY SumParts
<1>2. \A U \in SUBSET S : IsFiniteSet(U) /\ sum[U] \in Int
  BY FS_Subset, SumParts
<1>3. SumFunctionOnSet(g, {}) = 0 /\ sum[{}] = 0
  BY SumEmpty
<1>s. \A U \in SUBSET S : sum[U] = SumFunctionOnSet(f, U)
  OBVIOUS
<1>p. \A p \in P : g[p] <= sum[{x \in S : key[x] = p}]
  BY <1>s
<1> HIDE DEF sum
<1>4. Bad = {}
  <2> SUFFICES ASSUME Bad # {} PROVE FALSE
    OBVIOUS
  <2>1. Bad \in SUBSET (SUBSET P)
    OBVIOUS
  <2> HIDE DEF Bad
  <2>2. PICK Q \in Bad : \A U \in SUBSET Q : U # Q => U \notin Bad
    BY <2>1, SmallestSubset
  <2>3. Q \in SUBSET P /\ ~(SumFunctionOnSet(g, Q) <= sum[part(Q)])
    BY DEF Bad
  <2>4. Q # {}
    <3> SUFFICES ASSUME Q = {} PROVE FALSE
      OBVIOUS
    <3>1. part(Q) = {}
      OBVIOUS
    <3>2. sum[part(Q)] = 0 /\ SumFunctionOnSet(g, Q) = 0
      BY <1>3, <3>1
    <3> QED BY <2>3, <3>2
  <2>5. PICK p \in Q : TRUE
    BY <2>4
  <2> DEFINE rest == part(Q \ {p})
             here == {x \in S : key[x] = p}
  <2>6. part(Q) = rest \cup here /\ rest \cap here = {}
    BY <2>5
  <2>7. SumFunctionOnSet(g, Q \ {p}) <= sum[rest]
    BY <2>2, <2>3, <2>5 DEF Bad
  <2>8. sum[rest \cup here] = sum[rest] + sum[here]
    <3>1. rest \in SUBSET S /\ here \in SUBSET S
      OBVIOUS
    <3>2. \A y \in rest \cup here : f[y] \in Int
      OBVIOUS
    <3> HIDE DEF rest, here
    <3>3. IsFiniteSet(rest) /\ IsFiniteSet(here) /\ rest \cup here \in SUBSET S
      BY <1>2, <3>1
    <3>4. SumFunctionOnSet(f, rest \cup here)
            = SumFunctionOnSet(f, rest) + SumFunctionOnSet(f, here)
      BY <2>6, <3>2, <3>3, SumDisjoint
    <3> QED BY <1>s, <3>1, <3>3, <3>4
  <2>9. sum[rest] \in Int /\ sum[here] \in Int
    BY <1>2
  <2>10. g[p] <= sum[here] /\ g[p] \in Int
    BY <1>p, <2>3, <2>5
  <2>11. SumFunctionOnSet(g, Q \ {p}) \in Int
         /\ SumFunctionOnSet(g, Q) = g[p] + SumFunctionOnSet(g, Q \ {p})
    BY <1>1, <2>3, <2>5
  <2> HIDE DEF part, rest, here
  <2> QED BY <2>3, <2>6, <2>7, <2>8, <2>9, <2>10, <2>11
<1>5. SumFunctionOnSet(g, P) <= sum[part(P)]
  BY <1>4
<1> QED BY <1>5, <1>s

-----------------------------------------------------------------------------
(* Unsigned arithmetic.                                                    *)

\* Quotient and remainder.
LEMMA ModRange ==
  ASSUME NEW m \in Nat \ {0}, NEW a \in Int
  PROVE  /\ a % m \in 0 .. m - 1
         /\ a \div m \in Int /\ a = m * (a \div m) + (a % m)
  OBVIOUS

\* There is only one remainder.
LEMMA ModUnique ==
  ASSUME NEW m \in Nat \ {0}, NEW k \in Int, NEW r \in 0 .. m - 1
  PROVE  (m * k + r) % m = r
  OBVIOUS

\* Multiples of the modulus do not count.
LEMMA ModShift ==
  ASSUME NEW m \in Nat \ {0}, NEW k \in Int, NEW r \in Int
  PROVE  (m * k + r) % m = r % m
<1> DEFINE q == r \div m
           s == r % m
<1>1. s \in 0 .. m - 1 /\ q \in Int /\ r = m * q + s
  BY ModRange
<1> HIDE DEF q, s
<1>2. m * k + r = m * (k + q) + s
  BY <1>1
<1>3. (m * (k + q) + s) % m = s
  <2>1. k + q \in Int
    BY <1>1
  <2> DEFINE n == k + q
  <2> HIDE DEF n
  <2>2. (m * n + s) % m = s
    BY <1>1, <2>1, ModUnique DEF n
  <2> QED BY <2>2 DEF n
<1> QED BY <1>2, <1>3 DEF s

\* Reducing a term before adding, or subtracting, to it changes nothing: a
\* counter that wrapped around comes back.
LEMMA ModAdd ==
  ASSUME NEW m \in Nat \ {0}, NEW a \in Int, NEW b \in Int
  PROVE  ((a % m) + b) % m = (a + b) % m
<1> DEFINE q == a \div m
           s == a % m
<1>1. s \in Int /\ q \in Int /\ a = m * q + s
  BY ModRange
<1> HIDE DEF q, s
<1>2. a + b = m * q + (s + b) /\ s + b \in Int
  BY <1>1
<1>3. (m * q + (s + b)) % m = (s + b) % m
  BY <1>1, <1>2, ModShift
<1> QED BY <1>2, <1>3 DEF s

\* A number is not below its remainder.
LEMMA ModLe ==
  ASSUME NEW m \in Nat \ {0}, NEW a \in Nat
  PROVE  a % m <= a
  OBVIOUS

=============================================================================
