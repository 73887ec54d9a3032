----------------------------- MODULE DataProofs -----------------------------
(***************************************************************************)
(* Proofs about the primitives of Data.tla, for every situation: what the  *)
(* loops over pairs return, what they copy, that they write to no object   *)
(* of the program, what arithmetic and the chains of comparisons answer.   *)
(***************************************************************************)
EXTENDS Data, SequenceFacts, FiniteSetTheorems

HIDE BitsAssumption
HIDE DepthAssumption
HIDE SituationsAssumption

-----------------------------------------------------------------------------
(* Chains of pairs in a store. *)

\* A reference is to an object of the store.
Link(s, v) == v.k = "ref" => v = Ref(v.a) /\ v.a \in DOMAIN s

\* A store as far as its chains go: behind each pair is something it has.
Linked(s) ==
  /\ Len(s) \in Nat /\ DOMAIN s = 1..Len(s)
  /\ \A n \in DOMAIN s : s[n].k = "pair" => Link(s, s[n].e[2])

Behind(s, x) == IF Is(s, x, "pair") THEN s[x.a].e[2] ELSE x

\* Function f tells what lies any number of cdrs behind v.
Trail(s, v, f) ==
  /\ f = [n \in Nat |-> f[n]]
  /\ f[0] = v /\ \A n \in Nat : f[n + 1] = Behind(s, f[n])

\* Two such functions are the same.
LEMMA ChainUnique ==
  ASSUME NEW s, NEW v, NEW f, NEW g, Trail(s, v, f), Trail(s, v, g)
  PROVE  f = g
<1> DEFINE A == {n \in Nat : f[n] = g[n]}
<1>1. 0 \in A
  BY DEF Trail
<1>2. ASSUME NEW n \in Nat, n \in A PROVE n + 1 \in A
  <2>1. f[n + 1] = Behind(s, f[n])
    BY DEF Trail
  <2>2. g[n + 1] = Behind(s, g[n])
    BY DEF Trail
  <2> QED
    BY <1>2, <2>1, <2>2
<1> HIDE DEF A
<1>3. Nat \subseteq A
  BY <1>1, <1>2, SetInduction
<1>4. \A n \in Nat : f[n] = g[n]
  BY <1>3 DEF A
<1>5. f = [n \in Nat |-> f[n]] /\ g = [n \in Nat |-> g[n]]
  BY DEF Trail
<1> QED
  BY <1>4, <1>5

\* What satisfies the recursion of After is a chain, and a chain satisfies it.
LEMMA ChainRecursion ==
  ASSUME NEW s, NEW v, NEW f
  PROVE  Trail(s, v, f) <=>
           f = [n \in Nat |-> IF n = 0 THEN v
                              ELSE LET x == f[n - 1] IN IF Is(s, x, "pair") THEN s[x.a].e[2] ELSE x]
<1> DEFINE step(n) == IF n = 0 THEN v ELSE Behind(s, f[n - 1])
<1>1. f = [n \in Nat |-> step(n)] => Trail(s, v, f)
  <2> SUFFICES ASSUME f = [n \in Nat |-> step(n)] PROVE Trail(s, v, f)
    OBVIOUS
  <2>1. \A n \in Nat : f[n] = step(n)
    OBVIOUS
  <2>2. f[0] = v
    BY <2>1
  <2>3. ASSUME NEW n \in Nat PROVE f[n + 1] = Behind(s, f[n])
    <3>1. n + 1 \in Nat /\ n + 1 # 0 /\ (n + 1) - 1 = n
      OBVIOUS
    <3> QED
      BY <2>1, <3>1
  <2>4. f = [n \in Nat |-> f[n]]
    OBVIOUS
  <2> QED
    BY <2>2, <2>3, <2>4 DEF Trail
<1>2. Trail(s, v, f) => f = [n \in Nat |-> step(n)]
  <2> SUFFICES ASSUME Trail(s, v, f) PROVE f = [n \in Nat |-> step(n)]
    OBVIOUS
  <2>1. ASSUME NEW n \in Nat PROVE f[n] = step(n)
    <3>1. n = 0 \/ (n - 1 \in Nat /\ (n - 1) + 1 = n)
      OBVIOUS
    <3> QED
      BY <3>1 DEF Trail
  <2>2. f = [n \in Nat |-> f[n]]
    BY DEF Trail
  <2> QED
    BY <2>1, <2>2
<1> QED
  BY <1>1, <1>2 DEF Behind

\* If there is such a function, After is it.
LEMMA AfterIs ==
  ASSUME NEW s, NEW v, NEW f, Trail(s, v, f)
  PROVE  After(s, v) = f
<1> DEFINE Rec(h) == h = [n \in Nat |-> IF n = 0 THEN v
                              ELSE LET x == h[n - 1] IN IF Is(s, x, "pair") THEN s[x.a].e[2] ELSE x]
<1>1. Rec(f)
  BY ChainRecursion
<1>2. After(s, v) = CHOOSE h : Rec(h)
  BY DEF After
<1>3. Rec(After(s, v))
  <2> HIDE DEF Rec
  <2> QED
    BY <1>1, <1>2
<1>4. Trail(s, v, After(s, v))
  BY <1>3, ChainRecursion
<1> QED
  BY <1>4, ChainUnique

\* In a store there is one for each value.
LEMMA AfterFacts ==
  ASSUME NEW s, NEW v, Linked(s), Link(s, v)
  PROVE  Trail(s, v, After(s, v)) /\ \A n \in Nat : Link(s, After(s, v)[n])
<1> DEFINE S == {v} \cup {s[n].e[2] : n \in {n \in DOMAIN s : s[n].k = "pair"}}
           F == [nx \in Nat \X S |-> Behind(s, nx[2])]
<1>1. \A x \in S : Link(s, x)
  BY DEF Linked
<1>2. ASSUME NEW x \in S PROVE Behind(s, x) \in S
  BY <1>1 DEF Behind, Is, Link
<1>3. F \in [Nat \X S -> S] /\ v \in S
  BY <1>2
<1>4. PICK g : DefinedOnNat(S, v, F, g)
  <2> HIDE DEF S, F
  <2> QED
    BY <1>3, NatRecursion
<1>5. ASSUME NEW n \in Nat PROVE g[n + 1] = Behind(s, g[n])
  <2> HIDE DEF S
  <2>1. n + 1 \in Nat /\ n + 1 # 0 /\ (n + 1) - 1 = n
    OBVIOUS
  <2>2. g[n + 1] = F[<<n + 1, g[n]>>]
    BY <1>4, <2>1 DEF DefinedOnNat
  <2>3. <<n + 1, g[n]>> \in Nat \X S
    BY <1>4, <2>1 DEF DefinedOnNat
  <2> QED
    BY <2>2, <2>3
<1> HIDE DEF S, F
<1>6. g = [n \in Nat |-> g[n]] /\ g[0] = v
  BY <1>4 DEF DefinedOnNat
<1>7. Trail(s, v, g)
  BY <1>5, <1>6 DEF Trail
<1>8. After(s, v) = g
  BY <1>7, AfterIs
<1>9. \A n \in Nat : Link(s, g[n])
  BY <1>1, <1>4 DEF DefinedOnNat
<1> QED
  BY <1>7, <1>8, <1>9

\* A chain stays as it is when the store grows.
LEMMA AfterSame ==
  ASSUME NEW s, NEW t, NEW v, Linked(s), Link(s, v), \A n \in DOMAIN s : t[n] = s[n]
  PROVE  After(t, v) = After(s, v) /\ Trail(t, v, After(s, v))
<1> DEFINE f == After(s, v)
<1>1. Trail(s, v, f) /\ \A n \in Nat : Link(s, f[n])
  BY AfterFacts
<1> HIDE DEF f
<1>2. ASSUME NEW n \in Nat PROVE Behind(t, f[n]) = Behind(s, f[n])
  <2>1. Link(s, f[n])
    BY <1>1
  <2>2. f[n].k = "ref" => t[f[n].a] = s[f[n].a]
    BY <2>1 DEF Link
  <2> QED
    BY <2>2 DEF Behind, Is
<1>3. Trail(t, v, f)
  BY <1>1, <1>2 DEF Trail
<1> QED
  BY <1>3, AfterIs DEF f

-----------------------------------------------------------------------------
(* Lists in a store. *)

\* Behind v are n pairs and then nil.
ListOfLength(s, v, n) ==
  n \in Nat /\ After(s, v)[n] = nil /\ \A j \in 0..(n - 1) : After(s, v)[j] # nil

\* Behind what is no pair there is nothing else.
LEMMA ChainStays ==
  ASSUME NEW s, NEW v, NEW f, Trail(s, v, f), NEW n \in Nat, ~Is(s, f[n], "pair")
  PROVE  \A m \in Nat : f[n + m] = f[n]
<1> DEFINE A == {m \in Nat : f[n + m] = f[n]}
<1>1. 0 \in A
  OBVIOUS
<1>2. ASSUME NEW m \in Nat, m \in A PROVE m + 1 \in A
  <2>1. n + m \in Nat /\ n + (m + 1) = (n + m) + 1
    OBVIOUS
  <2>2. f[(n + m) + 1] = Behind(s, f[n + m])
    BY <2>1 DEF Trail
  <2>3. f[n + m] = f[n]
    BY <1>2
  <2> QED
    BY <2>1, <2>2, <2>3 DEF Behind
<1> HIDE DEF A
<1>3. Nat \subseteq A
  BY <1>1, <1>2, SetInduction
<1> QED
  BY <1>3 DEF A

\* From two equal values on a chain is the same.
LEMMA ChainRepeats ==
  ASSUME NEW s, NEW v, NEW f, Trail(s, v, f), NEW i \in Nat, NEW j \in Nat, f[i] = f[j]
  PROVE  \A m \in Nat : f[i + m] = f[j + m]
<1> DEFINE A == {m \in Nat : f[i + m] = f[j + m]}
<1>1. 0 \in A
  OBVIOUS
<1>2. ASSUME NEW m \in Nat, m \in A PROVE m + 1 \in A
  <2>1. /\ i + m \in Nat /\ i + (m + 1) = (i + m) + 1
        /\ j + m \in Nat /\ j + (m + 1) = (j + m) + 1
    OBVIOUS
  <2>2. f[(i + m) + 1] = Behind(s, f[i + m]) /\ f[(j + m) + 1] = Behind(s, f[j + m])
    BY <2>1 DEF Trail
  <2>3. f[i + m] = f[j + m]
    BY <1>2
  <2> QED
    BY <2>1, <2>2, <2>3
<1> HIDE DEF A
<1>3. Nat \subseteq A
  BY <1>1, <1>2, SetInduction
<1> QED
  BY <1>3 DEF A

\* On a list everything before its end is a pair, and no pair comes twice.
LEMMA ListPairs ==
  ASSUME NEW s, NEW v, NEW n, ListOfLength(s, v, n), Trail(s, v, After(s, v))
  PROVE  /\ \A j \in 0..(n - 1) : Is(s, After(s, v)[j], "pair")
         /\ \A i \in 0..(n - 1), j \in 0..(n - 1) : i < j => After(s, v)[i] # After(s, v)[j]
         /\ \A m \in Nat : m >= n => After(s, v)[m] = nil
<1> DEFINE f == After(s, v)
<1>0. n \in Nat /\ f[n] = nil /\ Trail(s, v, f) /\ \A j \in 0..(n - 1) : f[j] # nil
  BY DEF ListOfLength
<1> HIDE DEF f
<1>1. ASSUME NEW j \in 0..(n - 1) PROVE Is(s, f[j], "pair")
  <2> SUFFICES ASSUME ~Is(s, f[j], "pair") PROVE FALSE
    OBVIOUS
  <2>1. j \in Nat /\ n - j \in Nat /\ j + (n - j) = n
    BY <1>0
  <2>2. f[j + (n - j)] = f[j]
    BY <1>0, <2>1, ChainStays
  <2> QED
    BY <1>0, <2>1, <2>2
<1>2. ASSUME NEW i \in 0..(n - 1), NEW j \in 0..(n - 1), i < j, f[i] = f[j] PROVE FALSE
  <2>1. i \in Nat /\ j \in Nat /\ n - j \in Nat /\ j + (n - j) = n /\ i + (n - j) \in 0..(n - 1)
    BY <1>0, <1>2
  <2>2. f[i + (n - j)] = f[j + (n - j)]
    BY <1>0, <1>2, <2>1, ChainRepeats
  <2> QED
    BY <1>0, <2>1, <2>2
<1>3. ASSUME NEW m \in Nat, m >= n PROVE f[m] = nil
  <2>1. ~Is(s, f[n], "pair")
    BY <1>0 DEF Is, nil
  <2>2. m - n \in Nat /\ n + (m - n) = m
    BY <1>0, <1>3
  <2>3. f[n + (m - n)] = f[n]
    BY <1>0, <2>1, <2>2, ChainStays
  <2> QED
    BY <1>0, <2>2, <2>3
<1> QED
  BY <1>1, <1>2, <1>3 DEF f

\* How many numbers n are.
LEMMA CountFrom ==
  ASSUME NEW n \in Nat
  PROVE  Cardinality(0..(n - 1)) = n /\ Cardinality(1..n) = n
<1>1. Cardinality(0..(n - 1)) = IF 0 > n - 1 THEN 0 ELSE (n - 1) - 0 + 1
  BY FS_Interval
<1>2. Cardinality(1..n) = IF 1 > n THEN 0 ELSE n - 1 + 1
  BY FS_Interval
<1> QED
  BY <1>1, <1>2

\* So a list is no longer than the store has objects.
LEMMA ListLength ==
  ASSUME NEW s, NEW v, NEW n, Linked(s), Link(s, v), ListOfLength(s, v, n)
  PROVE  n <= Len(s)
<1> DEFINE f == After(s, v)
<1>0. n \in Nat /\ Len(s) \in Nat /\ DOMAIN s = 1..Len(s)
  BY DEF ListOfLength, Linked
<1>1. Trail(s, v, f) /\ \A m \in Nat : Link(s, f[m])
  BY AfterFacts
<1>2. /\ \A j \in 0..(n - 1) : Is(s, f[j], "pair")
      /\ \A i \in 0..(n - 1), j \in 0..(n - 1) : i < j => f[i] # f[j]
  BY <1>1, ListPairs
<1> HIDE DEF f
<1>3. ASSUME NEW j \in 0..(n - 1) PROVE f[j] = Ref(f[j].a) /\ f[j].a \in 1..Len(s)
  BY <1>0, <1>1, <1>2 DEF Is, Link
<1> SUFFICES ASSUME Len(s) < n PROVE FALSE
  BY <1>0
<1> DEFINE h == [j \in 0..(n - 1) |-> f[j].a]
<1>4. h \in [0..(n - 1) -> 1..Len(s)]
  BY <1>3
<1>5. IsFiniteSet(0..(n - 1)) /\ IsFiniteSet(1..Len(s))
  BY <1>0, FS_Interval
<1>6. Cardinality(0..(n - 1)) > Cardinality(1..Len(s))
  <2>1. Cardinality(0..(n - 1)) = n
    BY <1>0, CountFrom
  <2>2. Cardinality(1..Len(s)) = Len(s)
    BY <1>0, CountFrom
  <2> QED
    BY <1>0, <2>1, <2>2
<1> HIDE DEF h
<1>7. \E x, y \in 0..(n - 1) : x # y /\ h[x] = h[y]
  BY <1>4, <1>5, <1>6, FS_PigeonHole
<1>8. PICK x \in 0..(n - 1), y \in 0..(n - 1) : x # y /\ h[x] = h[y]
  BY <1>7
<1>9. f[x] = f[y]
  BY <1>3, <1>8 DEF h
<1>10. x < y \/ y < x
  BY <1>0, <1>8
<1> QED
  BY <1>2, <1>9, <1>10

\* Proper looks no further than the store is long, and need not.
LEMMA ProperMeans ==
  ASSUME NEW s, NEW v, Linked(s), Link(s, v)
  PROVE  \A m \in Nat : After(s, v)[m] = nil => \E n \in 0..Len(s) : n <= m /\ ListOfLength(s, v, n)
<1> DEFINE f == After(s, v)
           A == {j \in Nat : f[j] = nil}
<1> SUFFICES ASSUME NEW m \in Nat, f[m] = nil
             PROVE  \E n \in 0..Len(s) : n <= m /\ ListOfLength(s, v, n)
  OBVIOUS
<1>1. m \in A
  OBVIOUS
<1> HIDE DEF A
<1>2. PICK n \in Nat : n \in A /\ n <= m /\ \A j \in 0..(n - 1) : j \notin A
  BY <1>1, Smallest
<1>3. ListOfLength(s, v, n)
  BY <1>2 DEF ListOfLength, A
<1>4. n <= Len(s) /\ Len(s) \in Nat
  BY <1>3, ListLength DEF Linked
<1> QED
  BY <1>2, <1>3, <1>4

\* And a list of any length is one by Proper's measure, in every longer store.
LEMMA ListIsProper ==
  ASSUME NEW s, NEW v, NEW n, Linked(s), Link(s, v), ListOfLength(s, v, n),
         NEW m \in Nat, Len(s) <= m
  PROVE  After(s, v)[m] = nil
<1>1. n \in Nat /\ n <= Len(s) /\ Len(s) \in Nat
  BY ListLength DEF ListOfLength, Linked
<1>2. Trail(s, v, After(s, v))
  BY AfterFacts
<1>3. m >= n
  BY <1>1
<1> QED
  BY <1>2, <1>3, ListPairs

\* The elements of a list are those of its pairs.
LEMMA ListedIs ==
  ASSUME NEW s, NEW v, NEW n, ListOfLength(s, v, n), n <= Len(s), Len(s) \in Nat
  PROVE  Listed(s, v) = [j \in 1..n |-> s[After(s, v)[j - 1].a].e[1]]
<1> DEFINE f == After(s, v)
           P(k) == f[k] = nil /\ \A j \in 0..(k - 1) : f[j] # nil
<1>1. n \in 0..Len(s) /\ P(n)
  BY DEF ListOfLength
<1>2. ASSUME NEW k \in 0..Len(s), P(k) PROVE k = n
  <2>1. ~(k < n) /\ ~(n < k)
    BY <1>1, <1>2
  <2> QED
    BY <1>1, <2>1
<1>3. (CHOOSE k \in 0..Len(s) : P(k)) = n
  <2> HIDE DEF P
  <2> QED
    BY <1>1, <1>2
<1> QED
  BY <1>3 DEF Listed

-----------------------------------------------------------------------------
(* What is alike: the relation Alike takes is a fixed point. *)

\* The situation's store, as SituationsAssumption has it.
Sound == Linked(given.store) /\ \A n \in DOMAIN given.store : Object(given.store, given.store[n])

\* A step of the unfolding, on relations.
Refined(R) == {xy \in R : Agree(xy[1], xy[2], R)}

\* The unfolding starts with all pairs of references and refines them.
LEMMA UnfoldedFacts ==
  /\ Unfolded[0] = Refs \X Refs
  /\ \A n \in Nat : Unfolded[n + 1] = Refined(Unfolded[n]) /\ Unfolded[n] \subseteq Refs \X Refs
<1> DEFINE All == Refs \X Refs
           S == SUBSET All
           F == [nR \in Nat \X S |-> Refined(nR[2])]
           Rec(h) == h = [n \in Nat |-> IF n = 0 THEN Refs \X Refs
                                        ELSE LET R == h[n - 1] IN {xy \in R : Agree(xy[1], xy[2], R)}]
<1>1. F \in [Nat \X S -> S] /\ All \in S
  BY DEF Refined
<1>2. PICK g : DefinedOnNat(S, All, F, g)
  <2> HIDE DEF All, S, F
  <2> QED
    BY <1>1, NatRecursion
<1>3. ASSUME NEW n \in Nat PROVE n # 0 => g[n] = Refined(g[n - 1])
  <2> SUFFICES ASSUME n # 0 PROVE g[n] = Refined(g[n - 1])
    OBVIOUS
  <2> HIDE DEF S
  <2>0. n - 1 \in Nat
    OBVIOUS
  <2> HIDE DEF F
  <2>1. g[n] = F[<<n, g[n - 1]>>] /\ g[n - 1] \in S
    BY <1>2, <2>0 DEF DefinedOnNat
  <2> USE DEF F
  <2>2. <<n, g[n - 1]>> \in Nat \X S
    BY <2>1
  <2> QED
    BY <2>0, <2>1, <2>2
<1>4. g \in [Nat -> S] /\ g[0] = All
  BY <1>2 DEF DefinedOnNat
<1>5. g = [n \in Nat |-> IF n = 0 THEN All ELSE Refined(g[n - 1])]
  BY <1>3, <1>4
<1>6. Rec(g)
  BY <1>5 DEF Refined
<1>7. Rec(Unfolded)
  <2>1. Unfolded = CHOOSE h : Rec(h)
    BY DEF Unfolded
  <2> HIDE DEF Rec
  <2> QED
    BY <1>6, <2>1
<1>8. Unfolded = [n \in Nat |-> IF n = 0 THEN All ELSE Refined(Unfolded[n - 1])]
  BY <1>7 DEF Refined
<1> HIDE DEF Rec, S, F
<1>9. Unfolded[0] = All
  BY <1>8
<1>10. ASSUME NEW n \in Nat PROVE Unfolded[n + 1] = Refined(Unfolded[n])
  <2>1. n + 1 \in Nat /\ n + 1 # 0 /\ (n + 1) - 1 = n
    OBVIOUS
  <2> QED
    BY <1>8, <2>1
<1> DEFINE A == {n \in Nat : Unfolded[n] \subseteq All}
<1>11. 0 \in A
  BY <1>9
<1>12. ASSUME NEW n \in Nat, n \in A PROVE n + 1 \in A
  BY <1>10, <1>12 DEF Refined
<1> HIDE DEF A
<1>13. Nat \subseteq A
  BY <1>11, <1>12, SetInduction
<1> QED
  BY <1>9, <1>10, <1>13 DEF A

\* References are as many as objects.
LEMMA RefsFinite ==
  ASSUME Sound
  PROVE  IsFiniteSet(Refs \X Refs) /\ Cardinality(Refs \X Refs) \in Nat
<1> DEFINE f == [r \in Refs |-> r.a]
<1>1. Len(given.store) \in Nat /\ DOMAIN given.store = 1..Len(given.store)
  BY DEF Sound, Linked
<1>2. \A r \in Refs : r.a \in 1..Len(given.store) /\ r = Ref(r.a)
  BY <1>1 DEF Refs, Ref
<1>3. f \in Injection(Refs, 1..Len(given.store))
  BY <1>2 DEF Injection, IsInjective
<1>4. IsFiniteSet(1..Len(given.store))
  BY <1>1, FS_Interval
<1> HIDE DEF f
<1>5. IsFiniteSet(Refs)
  BY <1>3, <1>4, FS_Injection
<1>6. IsFiniteSet(Refs \X Refs)
  BY <1>5, FS_Product
<1> QED
  BY <1>6, FS_CardinalityType

AlikeRefs == Unfolded[Cardinality(Refs \X Refs)]

\* Refining a finite relation comes to an end, and as soon as Alike looks.
LEMMA UnfoldedEnds ==
  ASSUME Sound
  PROVE  AlikeRefs = Refined(AlikeRefs)
<1> DEFINE N == Cardinality(Refs \X Refs)
           R == Unfolded
           A == {n \in Nat : R[n + 1] = R[n] \/ Cardinality(R[n]) <= N - n}
<1>0. IsFiniteSet(Refs \X Refs) /\ N \in Nat
  BY RefsFinite
<1>1. /\ R[0] = Refs \X Refs
      /\ \A n \in Nat : R[n + 1] = Refined(R[n]) /\ R[n] \subseteq Refs \X Refs
  BY UnfoldedFacts
<1> HIDE DEF R
<1>2. ASSUME NEW n \in Nat PROVE IsFiniteSet(R[n]) /\ Cardinality(R[n]) \in Nat
  <2>1. R[n] \in SUBSET (Refs \X Refs)
    BY <1>1
  <2>2. IsFiniteSet(R[n])
    BY <1>0, <2>1, FS_Subset
  <2> QED
    BY <2>2, FS_CardinalityType
<1>3. 0 \in A
  BY <1>0, <1>1
<1>4. ASSUME NEW n \in Nat, n \in A PROVE n + 1 \in A
  <2>0. n + 1 \in Nat
    OBVIOUS
  <2>1. CASE R[n + 1] = R[n]
    <3>1. R[(n + 1) + 1] = Refined(R[n + 1]) /\ R[n + 1] = Refined(R[n])
      BY <1>1, <2>0
    <3> QED
      BY <2>0, <2>1, <3>1
  <2>2. CASE R[n + 1] # R[n]
    <3>1. R[n + 1] \in SUBSET R[n]
      BY <1>1 DEF Refined
    <3>2. IsFiniteSet(R[n]) /\ Cardinality(R[n]) \in Nat /\ Cardinality(R[n + 1]) \in Nat
      BY <1>2, <2>0
    <3>3. Cardinality(R[n + 1]) <= Cardinality(R[n]) /\ Cardinality(R[n]) # Cardinality(R[n + 1])
      BY <2>2, <3>1, <3>2, FS_Subset
    <3>4. Cardinality(R[n]) <= N - n
      BY <1>4, <2>2
    <3>5. Cardinality(R[n + 1]) <= N - (n + 1)
      BY <1>0, <3>2, <3>3, <3>4
    <3> QED
      BY <2>0, <3>5
  <2> QED
    BY <2>1, <2>2
<1> HIDE DEF A
<1>5. Nat \subseteq A
  BY <1>3, <1>4, SetInduction
<1>6. R[N + 1] = R[N] \/ Cardinality(R[N]) <= 0
  <2> HIDE DEF N
  <2>1. N \in A /\ N - N = 0
    BY <1>0, <1>5
  <2> QED
    BY <2>1 DEF A
<1>7. R[N + 1] = Refined(R[N])
  BY <1>0, <1>1
<1>8. CASE Cardinality(R[N]) <= 0
  <2>1. Cardinality(R[N]) = 0 /\ IsFiniteSet(R[N])
    BY <1>0, <1>2, <1>8
  <2>2. R[N] = {}
    BY <2>1, FS_EmptySet
  <2> QED
    BY <1>7, <2>2 DEF Refined, AlikeRefs, R
<1> QED
  BY <1>6, <1>7, <1>8 DEF AlikeRefs, R

\* Each refinement keeps part of what there was before it.
LEMMA UnfoldedShrinks ==
  ASSUME NEW n \in Nat
  PROVE  \A m \in Nat : Unfolded[n + m] \subseteq Unfolded[n]
<1> DEFINE A == {m \in Nat : Unfolded[n + m] \subseteq Unfolded[n]}
<1>1. 0 \in A
  OBVIOUS
<1>2. ASSUME NEW m \in Nat, m \in A PROVE m + 1 \in A
  <2>1. n + m \in Nat /\ n + (m + 1) = (n + m) + 1
    OBVIOUS
  <2>2. Unfolded[(n + m) + 1] = Refined(Unfolded[n + m])
    BY <2>1, UnfoldedFacts
  <2> QED
    BY <1>2, <2>1, <2>2 DEF Refined
<1> HIDE DEF A
<1>3. Nat \subseteq A
  BY <1>1, <1>2, SetInduction
<1> QED
  BY <1>3 DEF A

\* Alike relates what agrees by it, and all that does.
LEMMA AlikeFixpoint ==
  ASSUME Sound, NEW x, NEW y
  PROVE  <<x, y>> \in AlikeRefs <=> x \in Refs /\ y \in Refs /\ Agree(x, y, AlikeRefs)
<1>1. AlikeRefs = Refined(AlikeRefs)
  BY UnfoldedEnds
<1>2. AlikeRefs \subseteq Refs \X Refs
  BY RefsFinite, UnfoldedFacts DEF AlikeRefs
<1>3. <<x, y>> \in AlikeRefs => x \in Refs /\ y \in Refs /\ Agree(x, y, AlikeRefs)
  BY <1>1, <1>2 DEF Refined
<1> DEFINE N == Cardinality(Refs \X Refs)
           A == {n \in Nat : n <= N => <<x, y>> \in Unfolded[n]}
<1>4. N \in Nat
  BY RefsFinite
<1> HIDE DEF N
<1>5. ASSUME x \in Refs, y \in Refs, Agree(x, y, AlikeRefs)
      PROVE  <<x, y>> \in AlikeRefs
  <2>1. 0 \in A
    BY <1>5, UnfoldedFacts
  <2>2. ASSUME NEW n \in Nat, n \in A PROVE n + 1 \in A
    <3> SUFFICES ASSUME n + 1 <= N PROVE <<x, y>> \in Unfolded[n + 1]
      OBVIOUS
    <3>1. N - n \in Nat /\ n + (N - n) = N /\ n <= N
      BY <1>4
    <3>2. Unfolded[N] \subseteq Unfolded[n]
      BY <3>1, UnfoldedShrinks
    <3>3. AlikeRefs = Unfolded[N]
      BY DEF AlikeRefs, N
    <3>4. Agree(x, y, Unfolded[n])
      BY <1>5, <3>2, <3>3 DEF Agree
    <3>5. <<x, y>> \in Unfolded[n] /\ Unfolded[n + 1] = Refined(Unfolded[n])
      BY <2>2, <3>1, UnfoldedFacts
    <3> QED
      BY <3>4, <3>5 DEF Refined
  <2> HIDE DEF A
  <2>3. Nat \subseteq A
    BY <2>1, <2>2, SetInduction
  <2>4. <<x, y>> \in Unfolded[N]
    BY <1>4, <2>3 DEF A
  <2> QED
    BY <2>4 DEF AlikeRefs, N
<1> QED
  BY <1>3, <1>5

\* Two objects with parts are alike if they have as many, and these are.
LEMMA AlikeParts ==
  ASSUME Sound, NEW v, NEW w, NEW kind \in {"pair", "vector"},
         Value(given.store, v), Value(given.store, w),
         Is(given.store, v, kind), Is(given.store, w, kind)
  PROVE  LET x == given.store[v.a].e
             y == given.store[w.a].e
         IN  Alike(v, w) <=> Len(x) = Len(y) /\ \A j \in 1..Len(x) : Alike(x[j], y[j])
<1> DEFINE x == given.store[v.a].e
           y == given.store[w.a].e
<1>1. /\ v \in Refs /\ v.a \in DOMAIN given.store /\ given.store[v.a].k = kind
      /\ w \in Refs /\ w.a \in DOMAIN given.store /\ given.store[w.a].k = kind
  BY DEF Value, Is, Refs
<1>2. DOMAIN x = 1..Len(x) /\ DOMAIN y = 1..Len(y)
  BY <1>1 DEF Sound, Object
<1>3. Agree(v, w, AlikeRefs) <=>
        Len(x) = Len(y) /\ \A j \in DOMAIN x : x[j] = y[j] \/ <<x[j], y[j]>> \in AlikeRefs
  BY <1>1 DEF Agree
<1>4. \A p, q : Alike(p, q) <=> p = q \/ <<p, q>> \in AlikeRefs
  BY DEF Alike, AlikeRefs
<1>5. <<v, w>> \in AlikeRefs <=> Agree(v, w, AlikeRefs)
  BY <1>1, AlikeFixpoint
<1> HIDE DEF x, y
<1>6. Agree(v, w, AlikeRefs) <=> Len(x) = Len(y) /\ \A j \in 1..Len(x) : Alike(x[j], y[j])
  BY <1>2, <1>3, <1>4
<1>7. v = w => Len(x) = Len(y) /\ \A j \in 1..Len(x) : Alike(x[j], y[j])
  BY <1>4 DEF x, y
<1>8. Alike(v, w) <=> Len(x) = Len(y) /\ \A j \in 1..Len(x) : Alike(x[j], y[j])
  BY <1>4, <1>5, <1>6, <1>7
<1> QED
  BY <1>8 DEF x, y

\* Other things are alike if they are the same, or texts that read the same.
LEMMA AlikeAtoms ==
  ASSUME Sound, NEW v, NEW w, Value(given.store, v), Value(given.store, w),
         \A kind \in {"pair", "vector"} : ~(Is(given.store, v, kind) /\ Is(given.store, w, kind))
  PROVE  Alike(v, w) <=>
           \/ v = w
           \/ /\ Is(given.store, v, "string") /\ Is(given.store, w, "string")
              /\ given.store[v.a].e = given.store[w.a].e
<1>1. Alike(v, w) <=> v = w \/ <<v, w>> \in AlikeRefs
  BY DEF Alike, AlikeRefs
<1>2. <<v, w>> \in AlikeRefs <=> v \in Refs /\ w \in Refs /\ Agree(v, w, AlikeRefs)
  BY AlikeFixpoint
<1>3. (v \in Refs <=> v.k = "ref") /\ (w \in Refs <=> w.k = "ref")
  BY DEF Value, Refs, Ref
<1>4. ASSUME v \in Refs, w \in Refs
      PROVE  Agree(v, w, AlikeRefs) <=>
               /\ Is(given.store, v, "string") /\ Is(given.store, w, "string")
               /\ given.store[v.a].e = given.store[w.a].e
  <2>1. given.store[v.a].k \in {"pair", "vector", "string"} /\ v.k = "ref" /\ w.k = "ref"
    BY <1>3, <1>4 DEF Sound, Object, Value
  <2> QED
    BY <2>1 DEF Agree, Is
<1> QED
  BY <1>1, <1>2, <1>3, <1>4 DEF Is

-----------------------------------------------------------------------------
(* The calls of is_equal that are under way. *)

IsFrame(f) ==
  /\ f = [x |-> f.x, y |-> f.y, i |-> f.i] /\ f.i \in Nat \ {0}
  /\ Value(given.store, f.x) /\ Value(given.store, f.y)

\* The two things of a frame have parts, as many as each other, and those
\* before the n-th are alike.
PartsAlike(f, n) ==
  LET x == given.store[f.x.a].e
      y == given.store[f.y.a].e
  IN  /\ \E kind \in {"pair", "vector"} : Is(given.store, f.x, kind) /\ Is(given.store, f.y, kind)
      /\ Len(x) = Len(y) /\ n <= Len(x) + 1
      /\ \A j \in 1..(n - 1) : Alike(x[j], y[j])

\* Frame f waits for the frame g, which compares the parts before its next.
Waits(f, g) ==
  /\ f.i > 1 /\ f.i <= Len(given.store[f.x.a].e) + 1 /\ PartsAlike(f, f.i - 1)
  /\ g.x = given.store[f.x.a].e[f.i - 1] /\ g.y = given.store[f.y.a].e[f.i - 1]

\* Frames for the question whether v and w are alike.
Frames(F, v, w) ==
  /\ Sequential(F) /\ F # << >> /\ Len(F) \in Nat
  /\ F[Len(F)].x = v /\ F[Len(F)].y = w
  /\ \A t \in 1..Len(F) : IsFrame(F[t])
  /\ \A t \in 1..(Len(F) - 1) : Waits(F[t + 1], F[t])
  /\ F[1].i > 1 => PartsAlike(F[1], F[1].i)

\* What an object holds is a sequence.
LEMMA ObjectParts ==
  ASSUME NEW s, NEW o, Object(s, o)
  PROVE  Len(o.e) \in Nat /\ DOMAIN o.e = 1..Len(o.e) /\ o.e \in Seq(Range(o.e))
BY DEF Object

\* A part of an object is a value.
LEMMA PartIsValue ==
  ASSUME Sound, NEW v, Value(given.store, v), v.k = "ref", given.store[v.a].k # "string",
         NEW j \in 1..Len(given.store[v.a].e)
  PROVE  Value(given.store, given.store[v.a].e[j])
<1> DEFINE o == given.store[v.a]
<1>1. Object(given.store, o)
  BY DEF Sound, Value
<1>2. DOMAIN o.e = 1..Len(o.e) /\ \A p \in Range(o.e) : Value(given.store, p)
  BY <1>1 DEF Object
<1>3. o.e[j] \in Range(o.e)
  BY <1>2 DEF Range
<1> QED
  BY <1>2, <1>3

\* The first frame asks the question itself.
LEMMA FirstFrame ==
  ASSUME NEW v, NEW w, Value(given.store, v), Value(given.store, w)
  PROVE  Frames(<<Frame(v, w)>>, v, w)
<1> DEFINE F == <<Frame(v, w)>>
<1>1. Sequential(F) /\ F # << >> /\ Len(F) = 1 /\ F[1] = Frame(v, w)
  <2>1. F \in Seq({Frame(v, w)})
    OBVIOUS
  <2> QED
    BY <2>1 DEF Sequential
<1> HIDE DEF F
<1>2. IsFrame(Frame(v, w)) /\ Frame(v, w).x = v /\ Frame(v, w).y = w /\ ~(Frame(v, w).i > 1)
  BY DEF IsFrame, Frame
<1> QED
  BY <1>1, <1>2 DEF Frames, F

\* If one frame's things are unlike, so are those of the frame that waits.
LEMMA UnlikeBelow ==
  ASSUME Sound, NEW f, NEW g, IsFrame(f), IsFrame(g), Waits(f, g), ~Alike(g.x, g.y)
  PROVE  ~Alike(f.x, f.y)
<1> DEFINE x == given.store[f.x.a].e
           y == given.store[f.y.a].e
<1>1. PICK kind \in {"pair", "vector"} : Is(given.store, f.x, kind) /\ Is(given.store, f.y, kind)
  BY DEF Waits, PartsAlike
<1>2. Value(given.store, f.x) /\ Value(given.store, f.y) /\ f.i \in Nat /\ Len(x) \in Nat
  <2>1. Object(given.store, given.store[f.x.a])
    BY <1>1 DEF Sound, Value, IsFrame, Is
  <2> QED
    BY <2>1 DEF IsFrame, Object
<1>3. Alike(f.x, f.y) => \A j \in 1..Len(x) : Alike(x[j], y[j])
  BY <1>1, <1>2, AlikeParts
<1>4. f.i - 1 \in 1..Len(x) /\ g.x = x[f.i - 1] /\ g.y = y[f.i - 1]
  BY <1>2 DEF Waits
<1> QED
  BY <1>3, <1>4

\* So the answer of the top frame, if it is no, is the answer.
LEMMA UnlikeAtBottom ==
  ASSUME Sound, NEW F, NEW v, NEW w, Frames(F, v, w), ~Alike(F[1].x, F[1].y)
  PROVE  ~Alike(v, w)
<1> DEFINE A == {t \in 1..Len(F) : ~Alike(F[t].x, F[t].y)}
<1>1. Len(F) \in Nat /\ Len(F) > 0
  BY Popped DEF Frames
<1>2. 1 \in A
  BY <1>1
<1>3. ASSUME NEW t \in 1..(Len(F) - 1), t \in A PROVE t + 1 \in A
  <2>1. t \in 1..Len(F) /\ t + 1 \in 1..Len(F)
    BY <1>1
  <2>2. IsFrame(F[t]) /\ IsFrame(F[t + 1]) /\ Waits(F[t + 1], F[t])
    BY <2>1 DEF Frames
  <2>3. ~Alike(F[t + 1].x, F[t + 1].y)
    BY <1>3, <2>2, UnlikeBelow
  <2> QED
    BY <2>1, <2>3
<1> HIDE DEF A
<1>4. 1..Len(F) \subseteq A
  BY <1>1, <1>2, <1>3, IndexInduction
<1>5. Len(F) \in A
  BY <1>1, <1>4
<1> QED
  BY <1>5 DEF A, Frames

\* If the answer of the top frame is yes, the frame under it goes on.
LEMMA AlikePops ==
  ASSUME NEW F, NEW v, NEW w, Frames(F, v, w), Len(F) > 1, Alike(F[1].x, F[1].y)
  PROVE  Frames(Tail(F), v, w)
<1> DEFINE G == Tail(F)
<1>1. Sequential(F) /\ F # << >> /\ Len(F) \in Nat
  BY DEF Frames
<1>2. /\ Sequential(G) /\ Len(G) = Len(F) - 1 /\ (G = << >> <=> Len(F) = 1)
      /\ \A t \in 1..(Len(F) - 1) : G[t] = F[t + 1]
  BY <1>1, Popped
<1> HIDE DEF G
<1>3. Len(G) \in Nat /\ G # << >> /\ G[Len(G)] = F[Len(F)] /\ G[1] = F[2]
  <2>1. Len(G) \in 1..(Len(F) - 1) /\ Len(G) + 1 = Len(F) /\ 1 \in 1..(Len(F) - 1) /\ 1 + 1 = 2
    BY <1>1, <1>2
  <2> QED
    BY <1>2, <2>1
<1>4. \A t \in 1..Len(G) : IsFrame(G[t])
  <2> TAKE t \in 1..Len(G)
  <2>1. t \in 1..(Len(F) - 1) /\ t + 1 \in 1..Len(F)
    BY <1>1, <1>2
  <2> QED
    BY <1>2, <2>1 DEF Frames
<1>5. \A t \in 1..(Len(G) - 1) : Waits(G[t + 1], G[t])
  <2> TAKE t \in 1..(Len(G) - 1)
  <2>1. t \in 1..(Len(F) - 1) /\ t + 1 \in 1..(Len(F) - 1)
    BY <1>1, <1>2
  <2> QED
    BY <1>2, <2>1 DEF Frames
<1>6. PartsAlike(G[1], G[1].i)
  <2>1. 1 \in 1..(Len(F) - 1) /\ 1 + 1 = 2 /\ 2 \in 1..Len(F)
    BY <1>1
  <2>2. Waits(F[2], F[1]) /\ IsFrame(F[2])
    BY <2>1 DEF Frames
  <2> DEFINE n == F[2].i
             x == given.store[F[2].x.a].e
             y == given.store[F[2].y.a].e
  <2>3. /\ PartsAlike(F[2], n - 1) /\ n \in Nat /\ n > 1 /\ n <= Len(x) + 1
        /\ F[1].x = x[n - 1] /\ F[1].y = y[n - 1]
    BY <2>2 DEF Waits, IsFrame
  <2>9. n \in Nat
    BY <2>3
  <2> HIDE DEF n
  <2>4. ASSUME NEW j \in 1..(n - 1) PROVE Alike(x[j], y[j])
    <3>1. j = n - 1 \/ j \in 1..((n - 1) - 1)
      BY <2>9
    <3> QED
      BY <2>3, <3>1 DEF PartsAlike
  <2>5. PartsAlike(F[2], n)
    BY <2>3, <2>4 DEF PartsAlike
  <2> QED
    BY <1>3, <2>5 DEF n
<1> QED
  BY <1>2, <1>3, <1>4, <1>5, <1>6 DEF Frames, G

\* A frame that has called for its next parts waits for them.
LEMMA FrameWaits ==
  ASSUME NEW f, NEW x, x = given.store[f.x.a].e, NEW y, y = given.store[f.y.a].e,
         f.i \in 1..Len(x), Len(x) \in Nat, Len(x) = Len(y),
         NEW kind \in {"pair", "vector"},
         Is(given.store, f.x, kind), Is(given.store, f.y, kind),
         f.i > 1 => PartsAlike(f, f.i),
         NEW a, a.x = x[f.i], a.y = y[f.i],
         NEW b, b.x = f.x, b.y = f.y, b.i = f.i + 1
  PROVE  Waits(b, a)
<1> DEFINE n == f.i
           k == b.i
<1>1. n \in 1..Len(x) /\ k = n + 1 /\ n + 1 > 1 /\ n + 1 <= Len(x) + 1 /\ (n + 1) - 1 = n
  <2>1. \A l \in Nat : \A m \in 1..l : m + 1 > 1 /\ m + 1 <= l + 1 /\ (m + 1) - 1 = m
    OBVIOUS
  <2>2. n \in 1..Len(x) /\ k = n + 1
    OBVIOUS
  <2> HIDE DEF n, k
  <2> QED
    BY ONLY <2>1, <2>2, Len(x) \in Nat
<1>2. ASSUME NEW j \in 1..(n - 1) PROVE Alike(x[j], y[j])
  <2>1. f.i > 1
    BY ONLY <1>1, <1>2 DEF n
  <2>2. PartsAlike(f, n)
    BY ONLY <2>1, f.i > 1 => PartsAlike(f, f.i) DEF n
  <2> QED
    BY ONLY <2>2, x = given.store[f.x.a].e, y = given.store[f.y.a].e, j \in 1..(n - 1) DEF PartsAlike
<1> HIDE DEF n, k
<1>3. PartsAlike(b, n)
  <2>1. n <= Len(x) + 1
    BY ONLY <1>1, Len(x) \in Nat
  <2>2. \E c \in {"pair", "vector"} : Is(given.store, f.x, c) /\ Is(given.store, f.y, c)
    OBVIOUS
  <2> QED
    BY ONLY <1>2, <2>1, <2>2, x = given.store[f.x.a].e, y = given.store[f.y.a].e, b.x = f.x,
            b.y = f.y, Len(x) = Len(y) DEF PartsAlike
<1> QED
  <2>1. b.i > 1 /\ b.i <= Len(x) + 1 /\ b.i - 1 = n
    BY ONLY <1>1 DEF k
  <2>2. a.x = x[n] /\ a.y = y[n]
    BY DEF n
  <2> QED
    BY ONLY <1>3, <2>1, <2>2, x = given.store[f.x.a].e, y = given.store[f.y.a].e, b.x = f.x,
            b.y = f.y DEF Waits

\* A frame calls for its next parts and waits.
LEMMA FramePushes ==
  ASSUME Sound, NEW F, NEW v, NEW w, Frames(F, v, w),
         NEW kind \in {"pair", "vector"},
         Is(given.store, F[1].x, kind), Is(given.store, F[1].y, kind),
         Len(given.store[F[1].x.a].e) = Len(given.store[F[1].y.a].e),
         F[1].i <= Len(given.store[F[1].x.a].e)
  PROVE  LET x == given.store[F[1].x.a].e
             y == given.store[F[1].y.a].e
         IN  Frames(<<Frame(x[F[1].i], y[F[1].i]), [F[1] EXCEPT !.i = @ + 1]>> \o Tail(F), v, w)
<1> DEFINE f == F[1]
           x == given.store[f.x.a].e
           y == given.store[f.y.a].e
           a == Frame(x[f.i], y[f.i])
           b == [f EXCEPT !.i = @ + 1]
           T == Tail(F)
           G == <<a, b>> \o T
<1>1. Sequential(F) /\ F # << >> /\ Len(F) \in Nat \ {0}
  BY Popped DEF Frames
<1>2. /\ Sequential(T) /\ Len(T) = Len(F) - 1
      /\ \A t \in 1..(Len(F) - 1) : T[t] = F[t + 1]
  BY <1>1, Popped
<1>3. IsFrame(f) /\ f.i \in Nat \ {0} /\ Value(given.store, f.x) /\ Value(given.store, f.y)
  BY <1>1 DEF Frames, IsFrame
<1> HIDE DEF T
<1>4. /\ Sequential(G) /\ G # << >> /\ Len(G) = Len(F) + 1 /\ G[1] = a /\ G[2] = b
      /\ \A t \in 1..(Len(F) - 1) : G[t + 2] = F[t + 1]
  <2> HIDE DEF a, b, f
  <2> DEFINE ab == <<a, b>>
  <2>1. Sequential(ab) /\ Len(ab) = 2 /\ ab[1] = a /\ ab[2] = b
    <3>1. ab \in Seq({a, b})
      OBVIOUS
    <3> QED
      BY <3>1 DEF Sequential
  <2>3. G = ab \o T
    OBVIOUS
  <2> HIDE DEF ab
  <2>2. /\ Sequential(ab \o T) /\ Len(ab \o T) = Len(ab) + Len(T)
        /\ \A i \in 1..Len(ab) : (ab \o T)[i] = ab[i]
        /\ \A i \in 1..Len(T) : (ab \o T)[Len(ab) + i] = T[i]
    <3>1. Sequential(T)
      BY <1>2
    <3>2. Sequential(ab)
      BY <2>1
    <3> QED
      BY ONLY <3>1, <3>2, Concatenated
  <2> HIDE DEF G
  <2>4. Sequential(G) /\ Len(G) = Len(F) + 1 /\ G[1] = a /\ G[2] = b
    BY <1>1, <1>2, <2>1, <2>2, <2>3
  <2>5. ASSUME NEW t \in 1..(Len(F) - 1) PROVE G[t + 2] = F[t + 1]
    BY <1>1, <1>2, <2>1, <2>2, <2>3
  <2>6. G # << >>
    BY <1>1, <2>4
  <2> QED
    BY <2>4, <2>5, <2>6
<1>5. given.store[f.x.a].k # "string" /\ given.store[f.y.a].k # "string" /\ f.x.k = "ref" /\ f.y.k = "ref"
  BY DEF Is
<1>6. f.i \in 1..Len(x) /\ f.i \in 1..Len(y) /\ Len(x) \in Nat
  <2>1. Object(given.store, given.store[f.x.a])
    BY <1>3, <1>5 DEF Sound, Value
  <2>2. Len(x) \in Nat
    BY <2>1, ObjectParts
  <2> QED
    BY <1>3, <2>2
<1>7. Value(given.store, x[f.i]) /\ Value(given.store, y[f.i])
  BY <1>3, <1>5, <1>6, PartIsValue
<1>8. b = [x |-> f.x, y |-> f.y, i |-> f.i + 1]
  BY <1>3 DEF IsFrame
<1>9. IsFrame(a) /\ IsFrame(b) /\ a.i = 1
  <2>1. b.i = f.i + 1 /\ b.x = f.x /\ b.y = f.y
    BY ONLY <1>8
  <2>2. IsFrame(b)
    BY <1>3, <1>8, <2>1 DEF IsFrame
  <2>3. a = [x |-> x[f.i], y |-> y[f.i], i |-> 1]
    BY DEF Frame
  <2>4. a.x = x[f.i] /\ a.y = y[f.i] /\ a.i = 1
    BY <2>3
  <2> HIDE DEF a, b, f, x, y
  <2>5. IsFrame(a)
    BY <1>7, <2>3, <2>4 DEF IsFrame
  <2> QED
    BY <2>2, <2>4, <2>5
<1>10. Waits(b, a)
  <2>1. b.x = f.x /\ b.y = f.y /\ b.i = f.i + 1 /\ a.x = x[f.i] /\ a.y = y[f.i] /\ f.i \in Nat
    BY <1>6, <1>8 DEF Frame
  <2>2. f.i > 1 => PartsAlike(f, f.i)
    BY DEF Frames
  <2>3. f.i \in 1..Len(x) /\ Len(x) \in Nat /\ Len(x) = Len(y)
    BY <1>6
  <2>4. Is(given.store, f.x, kind) /\ Is(given.store, f.y, kind)
    BY ONLY Is(given.store, F[1].x, kind), Is(given.store, F[1].y, kind)
  <2>5. x = given.store[f.x.a].e /\ y = given.store[f.y.a].e
    OBVIOUS
  <2> HIDE DEF a, b, f, x, y
  <2> QED
    BY ONLY <2>1, <2>2, <2>3, <2>4, <2>5, kind \in {"pair", "vector"}, FrameWaits
<1> HIDE DEF a, b, G
<1>11. \A t \in 1..(Len(F) - 1) : Waits(F[t + 1], F[t])
  BY DEF Frames
<1>12. ASSUME Len(F) > 1 PROVE Waits(F[2], b)
  <2>1. 1 \in 1..(Len(F) - 1) /\ 1 + 1 = 2
    BY <1>1, <1>12
  <2>2. Waits(F[2], f)
    BY <1>11, <2>1
  <2> QED
    BY <1>8, <2>2 DEF Waits
<1>13. \A t \in 1..Len(G) : IsFrame(G[t])
  <2> TAKE t \in 1..Len(G)
  <2>1. t = 1 \/ t = 2 \/ (t - 2 \in 1..(Len(F) - 1) /\ (t - 2) + 2 = t /\ (t - 2) + 1 \in 1..Len(F))
    BY <1>1, <1>4
  <2> QED
    BY <1>4, <1>9, <2>1 DEF Frames
<1>14. \A t \in 1..(Len(G) - 1) : Waits(G[t + 1], G[t])
  <2> TAKE t \in 1..(Len(G) - 1)
  <2>1. CASE t = 1
    BY <1>4, <1>10, <2>1
  <2>2. CASE t = 2
    <3>1. 1 \in 1..(Len(F) - 1) /\ 1 + 2 = 3 /\ 1 + 1 = 2 /\ Len(F) > 1
      BY <1>1, <1>4, <2>2
    <3>2. G[3] = F[2]
      BY <1>4, <3>1
    <3> QED
      BY <1>4, <1>12, <2>2, <3>1, <3>2
  <2>3. CASE t > 2
    <3>1. /\ t - 2 \in 1..(Len(F) - 1) /\ t - 1 \in 1..(Len(F) - 1)
          /\ (t - 2) + 2 = t /\ (t - 1) + 2 = t + 1 /\ (t - 2) + 1 = t - 1 /\ (t - 1) + 1 = t
      BY <1>1, <1>4, <2>3
    <3>2. G[t] = F[t - 1] /\ G[t + 1] = F[t]
      BY <1>4, <3>1
    <3> QED
      BY <1>11, <3>1, <3>2
  <2> QED
    BY <2>1, <2>2, <2>3
<1>15. G[Len(G)].x = v /\ G[Len(G)].y = w
  <2>1. CASE Len(F) = 1
    <3>1. f.x = v /\ f.y = w
      BY <2>1 DEF Frames
    <3>2. G[Len(G)] = b
      BY <1>4, <2>1
    <3>3. b.x = f.x /\ b.y = f.y
      BY <1>8
    <3> QED
      BY <3>1, <3>2, <3>3
  <2>2. CASE Len(F) # 1
    <3>0. \A n \in Nat \ {0} : n # 1 => n - 1 \in 1..(n - 1) /\ (n - 1) + 2 = n + 1 /\ (n - 1) + 1 = n
      OBVIOUS
    <3>1. Len(F) - 1 \in 1..(Len(F) - 1) /\ (Len(F) - 1) + 2 = Len(F) + 1 /\ (Len(F) - 1) + 1 = Len(F)
      BY <1>1, <2>2, <3>0
    <3>2. G[Len(G)] = F[Len(F)]
      BY <1>4, <3>1
    <3> QED
      BY <3>2 DEF Frames
  <2> QED
    BY <2>1, <2>2
<1>16. Frames(G, v, w)
  BY <1>1, <1>4, <1>9, <1>13, <1>14, <1>15 DEF Frames
<1> QED
  BY <1>16 DEF G, a, b, T

-----------------------------------------------------------------------------
(* Lists that are made. *)

\* Nothing is behind nil.
LEMMA NilChain ==
  ASSUME NEW s
  PROVE  Trail(s, nil, [n \in Nat |-> nil])
BY DEF Trail, Behind, Is, nil

\* The values of p are m pairs of t in a row, and last is behind the last one.
Row(t, p, m, last) ==
  \A j \in 0..(m - 1) : Is(t, p[j], "pair") /\ t[p[j].a].e[2] = IF j = m - 1 THEN last ELSE p[j + 1]

\* The chain from a row on is the row and what is behind it.
LEMMA RowChain ==
  ASSUME NEW t, NEW p, NEW m \in Nat \ {0}, NEW last, NEW f, Trail(t, last, f), Row(t, p, m, last)
  PROVE  /\ \A j \in 0..(m - 1) : After(t, p[0])[j] = p[j]
         /\ After(t, p[0])[m] = last
         /\ Trail(t, p[0], After(t, p[0]))
<1> DEFINE g == [n \in Nat |-> IF n < m THEN p[n] ELSE f[n - m]]
<1>1. f[0] = last /\ \A n \in Nat : f[n + 1] = Behind(t, f[n])
  BY DEF Trail
<1>2. \A j \in 0..(m - 1) : g[j] = p[j]
  OBVIOUS
<1>3. g[m] = last
  BY <1>1
<1>4. ASSUME NEW n \in Nat PROVE g[n + 1] = Behind(t, g[n])
  <2>1. CASE n < m
    <3>1. n \in 0..(m - 1) /\ g[n] = p[n]
      BY <2>1
    <3>2. Behind(t, p[n]) = IF n = m - 1 THEN last ELSE p[n + 1]
      BY <3>1 DEF Row, Behind
    <3>3. CASE n = m - 1
      <4>1. n + 1 = m
        BY <3>3
      <4> HIDE DEF g
      <4> QED
        BY <1>3, <3>1, <3>2, <3>3, <4>1
    <3>4. CASE n # m - 1
      <4>1. n + 1 \in 0..(m - 1)
        BY <2>1, <3>4
      <4> HIDE DEF g
      <4> QED
        BY <1>2, <3>1, <3>2, <3>4, <4>1
    <3> QED
      BY <3>3, <3>4
  <2>2. CASE ~(n < m)
    <3>1. n - m \in Nat /\ n + 1 \in Nat /\ ~(n + 1 < m) /\ (n + 1) - m = (n - m) + 1
      BY <2>2
    <3>2. g[n] = f[n - m] /\ g[n + 1] = f[(n - m) + 1]
      BY <2>2, <3>1
    <3> HIDE DEF g
    <3> QED
      BY <1>1, <3>1, <3>2
  <2> QED
    BY <2>1, <2>2
<1>5. g = [n \in Nat |-> g[n]] /\ 0 \in 0..(m - 1)
  OBVIOUS
<1> HIDE DEF g
<1>6. Trail(t, p[0], g)
  BY <1>2, <1>4, <1>5 DEF Trail
<1>7. After(t, p[0]) = g
  BY <1>6, AfterIs
<1> QED
  BY <1>2, <1>3, <1>6, <1>7

\* Store t is the situation's and maybe more.
Grown(t) ==
  /\ Sequential(t) /\ Len(t) \in Nat /\ DOMAIN t = 1..Len(t) /\ Len(given.store) <= Len(t)
  /\ \A n \in 1..Len(given.store) : t[n] = given.store[n]

\* And m pairs more: they hold the first elements of c, in order, and each
\* has the next behind it, and nil is behind the last.
Copies(t, c, m) ==
  /\ Grown(t) /\ m \in Nat /\ Len(t) = Len(given.store) + m
  /\ \A j \in 1..m :
       t[Len(given.store) + j] = Pair(c[j], IF j = m THEN nil ELSE Ref(Len(given.store) + j + 1))

\* The same in the other direction.
Reversed(t, c, m) ==
  /\ Grown(t) /\ m \in Nat /\ Len(t) = Len(given.store) + m
  /\ \A j \in 1..m :
       t[Len(given.store) + j] = Pair(c[j], IF j = 1 THEN nil ELSE Ref(Len(given.store) + j - 1))

\* What a pair holds.
LEMMA PairParts ==
  ASSUME NEW x, NEW y
  PROVE  Pair(x, y).k = "pair" /\ Pair(x, y).e[1] = x /\ Pair(x, y).e[2] = y
BY DEF Pair

\* What set-cdr! does to a pair.
LEMMA PutCdr ==
  ASSUME NEW t, Sequential(t), NEW n \in 1..Len(t), NEW x, NEW y, t[n] = Pair(x, y), NEW z
  PROVE  /\ Sequential(Put(t, Ref(n), 2, z)) /\ Len(Put(t, Ref(n), 2, z)) = Len(t)
         /\ Put(t, Ref(n), 2, z)[n] = Pair(x, z)
         /\ \A i \in 1..Len(t) : i # n => Put(t, Ref(n), 2, z)[i] = t[i]
<1>1. [t[n] EXCEPT !.e[2] = z] = Pair(x, z)
  BY DEF Pair
<1>2. Put(t, Ref(n), 2, z) = [t EXCEPT ![n] = [t[n] EXCEPT !.e[2] = z]]
  BY DEF Put, Ref
<1>3. Put(t, Ref(n), 2, z) = [t EXCEPT ![n] = Pair(x, z)]
  BY <1>1, <1>2
<1> DEFINE pair == Pair(x, z)
<1> HIDE DEF pair
<1>4. /\ Sequential([t EXCEPT ![n] = pair]) /\ Len([t EXCEPT ![n] = pair]) = Len(t)
      /\ [t EXCEPT ![n] = pair][n] = pair
      /\ \A i \in 1..Len(t) : i # n => [t EXCEPT ![n] = pair][i] = t[i]
  BY Replaced
<1> QED
  BY <1>3, <1>4 DEF pair

\* A sequence and its domain.
LEMMA Domain ==
  ASSUME NEW s, Sequential(s)
  PROVE  Len(s) \in Nat /\ DOMAIN s = 1..Len(s)
BY DEF Sequential

\* What a longer store does not touch is as it was.
LEMMA GrownAppends ==
  ASSUME NEW t, Grown(t), Sound, NEW x
  PROVE  /\ Grown(Append(t, x)) /\ Len(Append(t, x)) = Len(t) + 1
         /\ Append(t, x)[Len(t) + 1] = x
         /\ \A i \in 1..Len(t) : Append(t, x)[i] = t[i]
<1> DEFINE u == Append(t, x)
           L == Len(given.store)
<1>0. Sequential(t) /\ Len(t) \in Nat /\ L \in Nat /\ L <= Len(t) /\ \A n \in 1..L : t[n] = given.store[n]
  BY DEF Grown, Sound, Linked
<1>1. /\ Sequential(u) /\ Len(u) = Len(t) + 1 /\ u[Len(t) + 1] = x
      /\ \A i \in 1..Len(t) : u[i] = t[i]
  BY <1>0, Appended
<1> HIDE DEF u
<1>2. DOMAIN u = 1..Len(u) /\ Len(u) \in Nat
  BY <1>1, Domain
<1> HIDE DEF L
<1>3. \A n \in 1..L : n \in 1..Len(t)
  BY <1>0
<1>4. L <= Len(u)
  BY <1>0, <1>1
<1>5. Grown(u)
  BY <1>0, <1>1, <1>2, <1>3, <1>4 DEF Grown, L
<1> QED
  BY <1>1, <1>5 DEF u

\* Nor what set-cdr! does to a new pair.
LEMMA GrownPut ==
  ASSUME NEW t, Grown(t), Sound, NEW n \in 1..Len(t), n > Len(given.store),
         NEW x, NEW y, t[n] = Pair(x, y), NEW z
  PROVE  /\ Grown(Put(t, Ref(n), 2, z)) /\ Len(Put(t, Ref(n), 2, z)) = Len(t)
         /\ Put(t, Ref(n), 2, z)[n] = Pair(x, z)
         /\ \A i \in 1..Len(t) : i # n => Put(t, Ref(n), 2, z)[i] = t[i]
<1> DEFINE u == Put(t, Ref(n), 2, z)
           L == Len(given.store)
<1>0. Sequential(t) /\ Len(t) \in Nat /\ L \in Nat /\ L <= Len(t) /\ \A i \in 1..L : t[i] = given.store[i]
  BY DEF Grown, Sound, Linked
<1>1. /\ Sequential(u) /\ Len(u) = Len(t) /\ u[n] = Pair(x, z)
      /\ \A i \in 1..Len(t) : i # n => u[i] = t[i]
  BY <1>0, PutCdr
<1> HIDE DEF u
<1>2. DOMAIN u = 1..Len(u) /\ Len(u) \in Nat
  BY <1>1, Domain
<1>3. n > L
  OBVIOUS
<1> HIDE DEF L
<1>4. \A i \in 1..L : i \in 1..Len(t) /\ i # n
  BY <1>0, <1>3
<1>5. Grown(u)
  BY <1>0, <1>1, <1>2, <1>4 DEF Grown, L
<1> QED
  BY <1>1, <1>5 DEF u

\* The situation's own store is one.
LEMMA GivenGrown ==
  ASSUME Sound, Sequential(given.store)
  PROVE  \A c : Copies(given.store, c, 0) /\ Reversed(given.store, c, 0)
<1>1. Len(given.store) \in Nat /\ DOMAIN given.store = 1..Len(given.store)
  BY DEF Sound, Linked
<1> QED
  BY <1>1 DEF Copies, Reversed, Grown

\* A turn of append.
LEMMA CopyGrows ==
  ASSUME Sound, NEW t, NEW c, NEW m, Copies(t, c, m)
  PROVE  LET longer == Append(t, Pair(c[m + 1], nil))
             new    == Ref(Len(t) + 1)
         IN  /\ m = 0 => Copies(longer, c, 1)
             /\ m > 0 => Copies(Put(longer, Ref(Len(given.store) + m), 2, new), c, m + 1)
<1> DEFINE L == Len(given.store)
           u == Append(t, Pair(c[m + 1], nil))
           new == Ref(Len(t) + 1)
<1>0. /\ L \in Nat /\ m \in Nat /\ Len(t) = L + m /\ Grown(t)
      /\ \A j \in 1..m : t[L + j] = Pair(c[j], IF j = m THEN nil ELSE Ref(L + j + 1))
  BY DEF Copies, Sound, Linked
<1>1. /\ Grown(u) /\ Len(u) = L + m + 1 /\ u[L + m + 1] = Pair(c[m + 1], nil)
      /\ \A i \in 1..(L + m) : u[i] = t[i]
  <2> DEFINE x == Pair(c[m + 1], nil)
  <2> HIDE DEF x
  <2>1. /\ Grown(Append(t, x)) /\ Len(Append(t, x)) = Len(t) + 1
        /\ Append(t, x)[Len(t) + 1] = x
        /\ \A i \in 1..Len(t) : Append(t, x)[i] = t[i]
    BY <1>0, GrownAppends
  <2> QED
    BY <1>0, <2>1 DEF x
<1> HIDE DEF u, L
<1>2. ASSUME m = 0 PROVE Copies(u, c, 1)
  <2>1. Len(u) = L + 1 /\ \A j \in 1..1 : u[L + j] = Pair(c[j], IF j = 1 THEN nil ELSE Ref(L + j + 1))
    BY <1>0, <1>1, <1>2
  <2> QED
    BY <1>1, <2>1 DEF Copies, L
<1>3. ASSUME m > 0 PROVE Copies(Put(u, Ref(L + m), 2, new), c, m + 1)
  <2> DEFINE w == Put(u, Ref(L + m), 2, new)
  <2>1. L + m \in 1..Len(u) /\ L + m > L /\ L + m \in 1..(L + m) /\ m \in 1..m
    BY <1>0, <1>1, <1>3
  <2>2. u[L + m] = Pair(c[m], nil)
    BY <1>0, <1>1, <2>1
  <2>3. /\ Grown(w) /\ Len(w) = Len(u) /\ w[L + m] = Pair(c[m], new)
        /\ \A i \in 1..Len(u) : i # L + m => w[i] = u[i]
    <3> DEFINE n == L + m
               x == c[m]
    <3>1. n \in 1..Len(u) /\ n > Len(given.store)
      BY <2>1 DEF L
    <3>2. u[n] = Pair(x, nil) /\ Grown(u)
      BY <1>1, <2>2
    <3> HIDE DEF n, x, new
    <3>3. /\ Grown(Put(u, Ref(n), 2, new)) /\ Len(Put(u, Ref(n), 2, new)) = Len(u)
          /\ Put(u, Ref(n), 2, new)[n] = Pair(x, new)
          /\ \A i \in 1..Len(u) : i # n => Put(u, Ref(n), 2, new)[i] = u[i]
      BY <3>1, <3>2, GrownPut
    <3> QED
      BY <3>3 DEF n, x
  <2>4. new = Ref(L + m + 1)
    BY <1>0
  <2> HIDE DEF w, new
  <2>5. ASSUME NEW j \in 1..(m + 1)
        PROVE  w[L + j] = Pair(c[j], IF j = m + 1 THEN nil ELSE Ref(L + j + 1))
    <3>1. CASE j = m + 1
      <4>1. L + j = L + m + 1 /\ L + j \in 1..Len(u) /\ L + j # L + m
        BY <1>0, <1>1, <3>1
      <4> QED
        BY <1>1, <2>3, <3>1, <4>1
    <3>2. CASE j = m
      <4>1. j # m + 1 /\ L + j + 1 = L + m + 1
        BY <1>0, <3>2
      <4> QED
        BY <2>3, <2>4, <3>2, <4>1
    <3>3. CASE j \in 1..(m - 1)
      <4>1. /\ j # m + 1 /\ j # m /\ j \in 1..m
            /\ L + j \in 1..(L + m) /\ L + j \in 1..Len(u) /\ L + j # L + m
        BY <1>0, <1>1, <3>3
      <4> QED
        BY <1>0, <1>1, <2>3, <4>1
    <3>4. j = m + 1 \/ j = m \/ j \in 1..(m - 1)
      BY <1>0
    <3> QED
      BY <3>1, <3>2, <3>3, <3>4
  <2>6. m + 1 \in Nat /\ Len(w) = L + (m + 1)
    BY <1>0, <1>1, <2>3
  <2> QED
    BY <2>3, <2>5, <2>6 DEF Copies, L, w
<1> QED
  BY <1>2, <1>3 DEF u, L

\* A turn of reverse.
LEMMA ReverseGrows ==
  ASSUME Sound, NEW t, NEW c, NEW m, Reversed(t, c, m)
  PROVE  Reversed(Append(t, Pair(c[m + 1], IF m = 0 THEN nil ELSE Ref(Len(given.store) + m))), c, m + 1)
<1> DEFINE L == Len(given.store)
           x == Pair(c[m + 1], IF m = 0 THEN nil ELSE Ref(L + m))
           u == Append(t, x)
<1>0. /\ L \in Nat /\ m \in Nat /\ Len(t) = L + m /\ Grown(t)
      /\ \A j \in 1..m : t[L + j] = Pair(c[j], IF j = 1 THEN nil ELSE Ref(L + j - 1))
  BY DEF Reversed, Sound, Linked
<1> HIDE DEF x
<1>1. /\ Grown(u) /\ Len(u) = Len(t) + 1 /\ u[Len(t) + 1] = x
      /\ \A i \in 1..Len(t) : u[i] = t[i]
  <2>1. Grown(t)
    BY <1>0
  <2> QED
    BY ONLY <2>1, Sound, GrownAppends
<1> HIDE DEF u, L
<1>2. ASSUME NEW j \in 1..(m + 1) PROVE u[L + j] = Pair(c[j], IF j = 1 THEN nil ELSE Ref(L + j - 1))
  <2>1. CASE j = m + 1
    <3>1. L + j = Len(t) + 1 /\ (j = 1 <=> m = 0) /\ L + j - 1 = L + m
      BY <1>0, <2>1
    <3>2. x = Pair(c[j], IF j = 1 THEN nil ELSE Ref(L + j - 1))
      BY <2>1, <3>1 DEF x
    <3> QED
      BY <1>1, <3>1, <3>2
  <2>2. CASE j \in 1..m
    <3>1. L + j \in 1..Len(t)
      BY <1>0, <2>2
    <3> QED
      BY <1>0, <1>1, <2>2, <3>1
  <2> QED
    BY <1>0, <2>1, <2>2
<1>3. m + 1 \in Nat /\ Len(u) = L + (m + 1)
  BY <1>0, <1>1
<1>4. Reversed(u, c, m + 1)
  BY <1>1, <1>2, <1>3 DEF Reversed, L
<1> QED
  BY <1>4 DEF u, x, L

\* The pairs of append, once last is behind them.
LEMMA CopiedList ==
  ASSUME Sound, NEW t, NEW c, NEW m, Copies(t, c, m), m > 0, NEW last, Link(given.store, last)
  PROVE  LET u == Put(t, Ref(Len(given.store) + m), 2, last)
             v == Ref(Len(given.store) + 1)
         IN  /\ Grown(u) /\ After(u, v)[m] = last
             /\ \A j \in 1..m : /\ After(u, v)[j - 1] = Ref(Len(given.store) + j)
                                /\ u[Len(given.store) + j].e[1] = c[j]
<1> DEFINE L == Len(given.store)
           u == Put(t, Ref(L + m), 2, last)
           p == [j \in 0..(m - 1) |-> Ref(L + j + 1)]
<1>0. /\ L \in Nat /\ m \in Nat \ {0} /\ Len(t) = L + m /\ Grown(t)
      /\ \A j \in 1..m : t[L + j] = Pair(c[j], IF j = m THEN nil ELSE Ref(L + j + 1))
  BY DEF Copies, Sound, Linked
<1>1. L + m \in 1..Len(t) /\ L + m > L /\ m \in 1..m
  BY <1>0
<1>2. t[L + m] = Pair(c[m], nil)
  BY <1>0, <1>1
<1>3. /\ Grown(u) /\ Len(u) = Len(t) /\ u[L + m] = Pair(c[m], last)
      /\ \A i \in 1..Len(t) : i # L + m => u[i] = t[i]
  <2> DEFINE n == L + m
             x == c[m]
  <2>1. n \in 1..Len(t) /\ n > Len(given.store)
    BY <1>1
  <2>2. t[n] = Pair(x, nil) /\ Grown(t)
    BY <1>0, <1>2
  <2> HIDE DEF n, x
  <2>3. /\ Grown(Put(t, Ref(n), 2, last)) /\ Len(Put(t, Ref(n), 2, last)) = Len(t)
        /\ Put(t, Ref(n), 2, last)[n] = Pair(x, last)
        /\ \A i \in 1..Len(t) : i # n => Put(t, Ref(n), 2, last)[i] = t[i]
    BY <2>1, <2>2, GrownPut
  <2> QED
    BY <2>3 DEF n, x
<1> HIDE DEF u
<1>4. Trail(u, last, After(given.store, last))
  <2>1. \A n \in DOMAIN given.store : u[n] = given.store[n]
    BY <1>3 DEF Grown, Sound, Linked
  <2> QED
    BY <2>1, AfterSame DEF Sound
<1> HIDE DEF L
<1>5. ASSUME NEW j \in 1..m PROVE u[L + j] = Pair(c[j], IF j = m THEN last ELSE Ref(L + j + 1))
  <2>1. CASE j = m
    BY <1>3, <2>1
  <2>2. CASE j # m
    <3>1. L + j \in 1..Len(t) /\ L + j # L + m
      BY <1>0, <2>2
    <3> QED
      BY <1>0, <1>3, <2>2, <3>1
  <2> QED
    BY <2>1, <2>2
<1>6. Row(u, p, m, last)
  <2> SUFFICES ASSUME NEW j \in 0..(m - 1)
               PROVE  Is(u, p[j], "pair") /\ u[p[j].a].e[2] = IF j = m - 1 THEN last ELSE p[j + 1]
    BY DEF Row
  <2>1. /\ j + 1 \in 1..m /\ (j + 1 = m <=> j = m - 1) /\ L + (j + 1) = L + j + 1
        /\ (j # m - 1 => j + 1 \in 0..(m - 1)) /\ L + (j + 1) + 1 = L + (j + 1) + 1
    BY <1>0
  <2>2. u[L + j + 1] = Pair(c[j + 1], IF j = m - 1 THEN last ELSE Ref(L + (j + 1) + 1))
    BY <1>5, <2>1
  <2>3. p[j].k = "ref" /\ p[j].a = L + j + 1 /\ (j # m - 1 => p[j + 1] = Ref(L + (j + 1) + 1))
    BY <2>1 DEF Ref
  <2> QED
    BY <2>2, <2>3 DEF Is, Pair
<1>7. \A j \in 0..(m - 1) : p[j] = Ref(L + j + 1)
  OBVIOUS
<1> HIDE DEF p
<1>8. /\ \A j \in 0..(m - 1) : After(u, p[0])[j] = p[j]
      /\ After(u, p[0])[m] = last
  <2>1. m \in Nat \ {0}
    BY <1>0
  <2>2. PICK s, f, q : s = u /\ q = p /\ Trail(s, last, f) /\ Row(s, q, m, last)
    BY <1>4, <1>6
  <2>3. /\ \A j \in 0..(m - 1) : After(s, q[0])[j] = q[j]
        /\ After(s, q[0])[m] = last
    <3>1. Trail(s, last, f) /\ Row(s, q, m, last)
      BY ONLY <2>2
    <3> QED
      BY ONLY <2>1, <3>1, RowChain
  <2> QED
    BY ONLY <2>2, <2>3
<1>9. p[0] = Ref(L + 1)
  <2>1. 0 \in 0..(m - 1) /\ L + 0 + 1 = L + 1
    BY <1>0
  <2> QED
    BY <1>7, <2>1
<1>10. ASSUME NEW j \in 1..m PROVE After(u, Ref(L + 1))[j - 1] = Ref(L + j) /\ u[L + j].e[1] = c[j]
  <2>1. j - 1 \in 0..(m - 1) /\ L + (j - 1) + 1 = L + j
    BY <1>0
  <2>2. After(u, Ref(L + 1))[j - 1] = Ref(L + j)
    BY <1>7, <1>8, <1>9, <2>1
  <2>3. u[L + j].e[1] = c[j]
    BY <1>5, PairParts
  <2> QED
    BY <2>2, <2>3
<1> QED
  BY <1>3, <1>8, <1>9, <1>10 DEF L, u

\* A row with nothing behind it is a list.
LEMMA RowList ==
  ASSUME NEW t, Len(t) \in Nat, NEW p, NEW m \in Nat \ {0}, m <= Len(t), Row(t, p, m, nil)
  PROVE  /\ ListOfLength(t, p[0], m) /\ Trail(t, p[0], After(t, p[0]))
         /\ \A j \in 0..(m - 1) : After(t, p[0])[j] = p[j]
         /\ Listed(t, p[0]) = [j \in 1..m |-> t[p[j - 1].a].e[1]]
<1>1. Trail(t, nil, [n \in Nat |-> nil])
  BY NilChain
<1> DEFINE f == [n \in Nat |-> nil]
<1> HIDE DEF f
<1>2. /\ \A j \in 0..(m - 1) : After(t, p[0])[j] = p[j]
      /\ After(t, p[0])[m] = nil /\ Trail(t, p[0], After(t, p[0]))
  <2>1. Trail(t, nil, f)
    BY <1>1 DEF f
  <2> QED
    BY <2>1, RowChain
<1>3. \A j \in 0..(m - 1) : p[j] # nil
  BY DEF Row, Is, nil
<1>4. ListOfLength(t, p[0], m)
  BY <1>2, <1>3 DEF ListOfLength
<1>5. Listed(t, p[0]) = [j \in 1..m |-> t[After(t, p[0])[j - 1].a].e[1]]
  <2> DEFINE v == p[0]
  <2>1. ListOfLength(t, v, m) /\ m <= Len(t) /\ Len(t) \in Nat
    BY <1>4
  <2> HIDE DEF v
  <2>2. Listed(t, v) = [j \in 1..m |-> t[After(t, v)[j - 1].a].e[1]]
    BY <2>1, ListedIs
  <2> QED
    BY <2>2 DEF v
<1>6. \A j \in 1..m : After(t, p[0])[j - 1] = p[j - 1]
  BY <1>2
<1> QED
  BY <1>2, <1>4, <1>5, <1>6

\* The pairs of reverse, from the last one on.
LEMMA ReversedList ==
  ASSUME Sound, NEW t, NEW c, NEW m, Reversed(t, c, m), m > 0
  PROVE  LET v == Ref(Len(given.store) + m) IN
         /\ ListOfLength(t, v, m) /\ Trail(t, v, After(t, v))
         /\ Listed(t, v) = [j \in 1..m |-> c[m - j + 1]]
         /\ \A j \in 0..(m - 1) : After(t, v)[j] = Ref(Len(given.store) + (m - j))
<1> DEFINE L == Len(given.store)
           p == [j \in 0..(m - 1) |-> Ref(L + (m - j))]
<1>0. /\ L \in Nat /\ m \in Nat \ {0} /\ Len(t) = L + m
      /\ \A j \in 1..m : t[L + j] = Pair(c[j], IF j = 1 THEN nil ELSE Ref(L + j - 1))
  BY DEF Reversed, Sound, Linked
<1> HIDE DEF L
<1>1. ASSUME NEW j \in 0..(m - 1)
      PROVE  /\ p[j].k = "ref" /\ t[p[j].a].k = "pair" /\ t[p[j].a].e[1] = c[m - j]
             /\ t[p[j].a].e[2] = IF j = m - 1 THEN nil ELSE p[j + 1]
  <2>1. /\ m - j \in 1..m /\ (m - j = 1 <=> j = m - 1)
        /\ (j # m - 1 => j + 1 \in 0..(m - 1)) /\ L + (m - j) - 1 = L + (m - (j + 1))
    BY <1>0
  <2>2. p[j].k = "ref" /\ p[j].a = L + (m - j) /\ (j # m - 1 => p[j + 1] = Ref(L + (m - (j + 1))))
    BY <2>1 DEF Ref
  <2>3. t[L + (m - j)] = Pair(c[m - j], IF j = m - 1 THEN nil ELSE Ref(L + (m - (j + 1))))
    BY <1>0, <2>1
  <2> HIDE DEF p
  <2>4. t[p[j].a] = Pair(c[m - j], IF j = m - 1 THEN nil ELSE p[j + 1])
    BY <2>2, <2>3
  <2> QED
    BY <2>2, <2>4, PairParts
<1>2. \A j \in 0..(m - 1) : p[j] = Ref(L + (m - j))
  OBVIOUS
<1> HIDE DEF p
<1>3. Row(t, p, m, nil)
  BY <1>1 DEF Row, Is
<1>4. Len(t) \in Nat /\ m \in Nat \ {0} /\ m <= Len(t)
  BY <1>0
<1>5. /\ ListOfLength(t, p[0], m) /\ Trail(t, p[0], After(t, p[0]))
      /\ \A j \in 0..(m - 1) : After(t, p[0])[j] = p[j]
      /\ Listed(t, p[0]) = [j \in 1..m |-> t[p[j - 1].a].e[1]]
  BY ONLY <1>3, <1>4, RowList
<1>6. \A j \in 1..m : t[p[j - 1].a].e[1] = c[m - j + 1]
  <2> TAKE j \in 1..m
  <2>1. j - 1 \in 0..(m - 1) /\ m - (j - 1) = m - j + 1
    BY <1>0
  <2> QED
    BY <1>1, <2>1
<1>7. p[0] = Ref(L + m)
  <2>1. 0 \in 0..(m - 1) /\ L + (m - 0) = L + m
    BY <1>0
  <2> QED
    BY <1>2, <2>1
<1> QED
  BY <1>2, <1>5, <1>6, <1>7 DEF L

\* The pairs of a list made at once.
LEMMA NewListed ==
  ASSUME Sound, NEW t, NEW c, NEW m, Copies(t, c, m), m > 0
  PROVE  Listed(t, Ref(Len(given.store) + 1)) = [j \in 1..m |-> c[j]]
<1> DEFINE L == Len(given.store)
           p == [j \in 0..(m - 1) |-> Ref(L + j + 1)]
<1>0. /\ L \in Nat /\ m \in Nat \ {0} /\ Len(t) = L + m
      /\ \A j \in 1..m : t[L + j] = Pair(c[j], IF j = m THEN nil ELSE Ref(L + j + 1))
  BY DEF Copies, Sound, Linked
<1> HIDE DEF L
<1>1. ASSUME NEW j \in 0..(m - 1)
      PROVE  /\ p[j].k = "ref" /\ t[p[j].a].k = "pair" /\ t[p[j].a].e[1] = c[j + 1]
             /\ t[p[j].a].e[2] = IF j = m - 1 THEN nil ELSE p[j + 1]
  <2>1. /\ j + 1 \in 1..m /\ (j + 1 = m <=> j = m - 1)
        /\ (j # m - 1 => j + 1 \in 0..(m - 1)) /\ L + (j + 1) = L + j + 1
    BY <1>0
  <2>2. p[j].k = "ref" /\ p[j].a = L + (j + 1) /\ (j # m - 1 => p[j + 1] = Ref(L + (j + 1) + 1))
    BY <2>1 DEF Ref
  <2>3. t[L + (j + 1)] = Pair(c[j + 1], IF j = m - 1 THEN nil ELSE Ref(L + (j + 1) + 1))
    BY <1>0, <2>1
  <2> HIDE DEF p
  <2>4. t[p[j].a] = Pair(c[j + 1], IF j = m - 1 THEN nil ELSE p[j + 1])
    BY <2>2, <2>3
  <2> QED
    BY <2>2, <2>4, PairParts
<1>2. p[0] = Ref(L + 1)
  <2>1. 0 \in 0..(m - 1) /\ L + 0 + 1 = L + 1
    BY <1>0
  <2> QED
    BY <2>1
<1> HIDE DEF p
<1>3. Row(t, p, m, nil)
  BY <1>1 DEF Row, Is
<1>4. Len(t) \in Nat /\ m \in Nat \ {0} /\ m <= Len(t)
  BY <1>0
<1>5. Listed(t, p[0]) = [j \in 1..m |-> t[p[j - 1].a].e[1]]
  BY ONLY <1>3, <1>4, RowList
<1>6. \A j \in 1..m : t[p[j - 1].a].e[1] = c[j]
  <2> TAKE j \in 1..m
  <2>1. j - 1 \in 0..(m - 1) /\ (j - 1) + 1 = j
    BY <1>0
  <2> QED
    BY <1>1, <2>1
<1> QED
  BY <1>2, <1>5, <1>6 DEF L

-----------------------------------------------------------------------------
(* The tortoise and the rabbit. *)

\* Where a chain ends says whether it is a list.
LEMMA EndTells ==
  ASSUME NEW s, NEW v, Linked(s), Link(s, v), NEW n \in Nat, ~Is(s, After(s, v)[n], "pair")
  PROVE  Proper(s, v) <=> After(s, v)[n] = nil
<1> DEFINE f == After(s, v)
           N == Len(s)
<1>1. Trail(s, v, f) /\ N \in Nat
  BY AfterFacts DEF Linked
<1>2. \A k \in Nat : f[k] = nil => ~Is(s, f[k], "pair")
  BY DEF Is, nil
<1>3. ASSUME f[n] = nil PROVE f[N] = nil
  <2>1. PICK k \in 0..N : ListOfLength(s, v, k)
    BY <1>1, <1>3, ProperMeans
  <2> QED
    BY <1>1, <2>1, ListIsProper
<1>4. ASSUME f[N] = nil PROVE f[n] = nil
  <2> HIDE DEF f, N
  <2>1. CASE n <= N
    <3>1. N - n \in Nat /\ n + (N - n) = N
      BY <1>1, <2>1
    <3>2. f[n + (N - n)] = f[n]
      <4>1. ~Is(s, f[n], "pair")
        BY DEF f
      <4> QED
        BY <1>1, <3>1, <4>1, ChainStays
    <3> QED
      BY <1>4, <3>1, <3>2
  <2>2. CASE N <= n
    <3>1. n - N \in Nat /\ N + (n - N) = n
      BY <1>1, <2>2
    <3>2. f[N + (n - N)] = f[N]
      BY <1>1, <1>2, <1>4, <3>1, ChainStays
    <3> QED
      BY <1>4, <3>1, <3>2
  <2> QED
    BY <1>1, <2>1, <2>2
<1> QED
  BY <1>3, <1>4 DEF Proper

\* A chain that meets itself is none.
LEMMA MeetingTells ==
  ASSUME NEW s, NEW v, Linked(s), Link(s, v), NEW i \in Nat, NEW j \in Nat, i < j,
         After(s, v)[i] = After(s, v)[j], \A k \in 0..(j - 1) : Is(s, After(s, v)[k], "pair")
  PROVE  ~Proper(s, v)
<1> DEFINE f == After(s, v)
<1>1. Trail(s, v, f)
  BY AfterFacts
<1> SUFFICES ASSUME Proper(s, v) PROVE FALSE
  OBVIOUS
<1>2. PICK n \in 0..Len(s) : ListOfLength(s, v, n)
  BY ProperMeans DEF Proper, Linked
<1>3. n \in Nat /\ f[n] = nil /\ \A k \in 0..(n - 1) : f[k] # nil
  BY <1>2 DEF ListOfLength
<1>4. \A k \in 0..(j - 1) : f[k] # nil
  BY DEF Is, nil
<1>5. j <= n
  BY <1>3, <1>4
<1>6. \A p \in 0..(n - 1), q \in 0..(n - 1) : p < q => f[p] # f[q]
  BY <1>1, <1>2, ListPairs
<1>7. i \in 0..(n - 1)
  BY <1>3, <1>5
<1>8. CASE j = n
  BY <1>3, <1>7, <1>8
<1>9. CASE j # n
  <2>1. j \in 0..(n - 1)
    BY <1>3, <1>5, <1>9
  <2> QED
    BY <1>6, <1>7, <2>1
<1> QED
  BY <1>8, <1>9

\* The tortoise has come k pairs far, the rabbit twice as far.
Running(s, v, k, o, rabbit) ==
  /\ k \in Nat /\ o = After(s, v)[k] /\ rabbit = After(s, v)[2 * k]
  /\ \A j \in 0..(2 * k - 1) : Is(s, After(s, v)[j], "pair")

\* They start at the same place.
LEMMA RaceStarts ==
  ASSUME NEW s, NEW v, Linked(s), Link(s, v)
  PROVE  Running(s, v, 0, v, v)
<1>1. After(s, v)[0] = v
  BY AfterFacts DEF Trail
<1>2. 2 * 0 = 0 /\ 0..(0 - 1) = {}
  OBVIOUS
<1> QED
  BY <1>1, <1>2 DEF Running

\* And each turn either goes on or tells whether it is a list.
LEMMA RaceGoes ==
  ASSUME NEW s, NEW v, Linked(s), Link(s, v), NEW k, NEW o, NEW rabbit, Running(s, v, k, o, rabbit)
  PROVE  /\ Link(s, o) /\ Link(s, rabbit)
         /\ ~Is(s, rabbit, "pair") => (Proper(s, v) <=> rabbit = nil)
         /\ Is(s, rabbit, "pair") =>
              LET once  == s[rabbit.a].e[2]
                  twice == s[once.a].e[2]
                  next  == s[o.a].e[2]
              IN  /\ Link(s, once) /\ Is(s, o, "pair")
                  /\ ~Is(s, once, "pair") => (Proper(s, v) <=> once = nil)
                  /\ Is(s, once, "pair") /\ twice = next => ~Proper(s, v)
                  /\ Is(s, once, "pair") => Running(s, v, k + 1, next, twice)
<1> DEFINE f == After(s, v)
<1>0. k \in Nat /\ o = f[k] /\ rabbit = f[2 * k] /\ \A j \in 0..(2 * k - 1) : Is(s, f[j], "pair")
  BY DEF Running
<1>1. Trail(s, v, f) /\ \A n \in Nat : Link(s, f[n])
  BY AfterFacts
<1>2. /\ 2 * k \in Nat /\ 2 * k + 1 \in Nat /\ k + 1 \in Nat /\ 2 * (k + 1) \in Nat
      /\ 2 * (k + 1) = (2 * k + 1) + 1 /\ k + 1 < 2 * (k + 1)
  BY <1>0
<1>3. ASSUME ~Is(s, rabbit, "pair") PROVE Proper(s, v) <=> rabbit = nil
  BY <1>0, <1>2, <1>3, EndTells
<1>4. ASSUME Is(s, rabbit, "pair")
      PROVE  LET once  == s[rabbit.a].e[2]
                  twice == s[once.a].e[2]
                  next  == s[o.a].e[2]
             IN  /\ Link(s, once) /\ Is(s, o, "pair")
                 /\ ~Is(s, once, "pair") => (Proper(s, v) <=> once = nil)
                 /\ Is(s, once, "pair") /\ twice = next => ~Proper(s, v)
                 /\ Is(s, once, "pair") => Running(s, v, k + 1, next, twice)
  <2> DEFINE once  == s[rabbit.a].e[2]
             twice == s[once.a].e[2]
             next  == s[o.a].e[2]
  <2> HIDE DEF f
  <2>1. once = f[2 * k + 1]
    BY <1>0, <1>1, <1>2, <1>4 DEF Trail, Behind
  <2>2. Is(s, o, "pair")
    <3>1. k = 0 \/ k \in 0..(2 * k - 1)
      BY <1>0
    <3> QED
      BY <1>0, <1>4, <3>1
  <2>3. next = f[k + 1]
    BY <1>0, <1>1, <1>2, <2>2 DEF Trail, Behind
  <2> HIDE DEF once, next
  <2>4. ~Is(s, once, "pair") => (Proper(s, v) <=> once = nil)
    BY <1>2, <2>1, EndTells DEF f
  <2>5. ASSUME Is(s, once, "pair")
        PROVE  Running(s, v, k + 1, next, twice) /\ (twice = next => ~Proper(s, v))
    <3>1. twice = f[2 * (k + 1)]
      BY <1>1, <1>2, <2>1, <2>5 DEF Trail, Behind
    <3>2. \A j \in 0..(2 * (k + 1) - 1) : Is(s, f[j], "pair")
      <4> TAKE j \in 0..(2 * (k + 1) - 1)
      <4>1. j \in 0..(2 * k - 1) \/ j = 2 * k \/ j = 2 * k + 1
        BY <1>0
      <4> QED
        BY <1>0, <1>4, <2>1, <2>5, <4>1
    <3> HIDE DEF twice
    <3>3. Running(s, v, k + 1, next, twice)
      BY <1>2, <2>3, <3>1, <3>2 DEF Running, f
    <3>4. ASSUME twice = next PROVE ~Proper(s, v)
      <4> DEFINE i == k + 1
                 j == 2 * (k + 1)
      <4>1. i \in Nat /\ j \in Nat /\ i < j
        BY <1>2
      <4>2. f[i] = f[j] /\ \A n \in 0..(j - 1) : Is(s, f[n], "pair")
        BY <2>3, <3>1, <3>2, <3>4
      <4> HIDE DEF i, j
      <4> QED
        BY <4>1, <4>2, MeetingTells DEF f
    <3> QED
      BY <3>3, <3>4
  <2>6. Link(s, once)
    BY <1>1, <1>2, <2>1
  <2> QED
    BY <2>2, <2>4, <2>5, <2>6 DEF once, next
<1> QED
  BY <1>0, <1>1, <1>2, <1>3, <1>4

-----------------------------------------------------------------------------
(* The inductive invariant: what is known of each loop.                    *)

\* The situation, of which nothing changes.
GivenOK ==
  /\ Sound /\ Sequential(given.store) /\ Len(given.store) \in Fixnums
  /\ Sequential(args) /\ \A i \in 1..Len(args) : Value(given.store, args[i])

\* The i-th argument may be walked.
Turn(i) ==
  /\ primitive \in Walkers
  /\ IF primitive = "append" THEN Len(args) > 1 /\ i \in 1..(Len(args) - 1)
     ELSE Len(args) = Arguments[primitive] /\ i = ListArgument[primitive]

\* Function g tells the elements of the first arguments together, up to the n-th.
Joins(g, n) ==
  /\ g = [m \in 0..n |-> g[m]]
  /\ \A m \in 0..n : Sequential(g[m]) /\ g[m] = IF m = 0 THEN << >> ELSE g[m - 1] \o ItemsGiven(m)

\* The first and the last of m new pairs.
HeadOf(m) == IF m = 0 THEN nil ELSE Ref(Len(given.store) + 1)
TailOf(m) == IF m = 0 THEN nil ELSE Ref(Len(given.store) + m)

\* What there is before the argument behind the n-th is walked: append has
\* copied n lists.
Built(n, head, tail) ==
  IF primitive = "append"
  THEN /\ \A j \in 1..n : ListGiven(j)
       /\ \E g : /\ Joins(g, n) /\ Copies(store, g[n], Len(g[n]))
                 /\ head = HeadOf(Len(g[n])) /\ tail = TailOf(Len(g[n]))
  ELSE store = given.store

\* A loop has come n pairs far along the i-th argument.
At(lst, i, n) ==
  /\ n \in Nat /\ lst = After(given.store, args[i])[n]
  /\ \A j \in 0..(n - 1) : After(given.store, args[i])[j] # nil

LoopShape(w) ==
  w = [m |-> w.m, i |-> w.i, lst |-> w.lst, head |-> w.head, tail |-> w.tail, n |-> w.n, frames |-> w.frames]

InFinite ==
  walk.m = "finite" =>
    /\ walk = [m |-> "finite", i |-> walk.i, o |-> walk.o, rabbit |-> walk.rabbit,
               head |-> walk.head, tail |-> walk.tail]
    /\ Turn(walk.i) /\ Built(walk.i - 1, walk.head, walk.tail)
    /\ \E k : Running(given.store, args[walk.i], k, walk.o, walk.rabbit)

InChecked ==
  walk.m = "checked" =>
    /\ Turn(walk.i) /\ Built(walk.i - 1, walk.head, walk.tail)
    /\ walk.list \in BOOLEAN /\ (walk.list <=> ListGiven(walk.i))

InCount ==
  walk.m \in {"length", "list-tail", "list-ref"} =>
    /\ LoopShape(walk) /\ primitive = walk.m /\ Turn(1) /\ ListGiven(1) /\ store = given.store
    /\ At(walk.lst, 1, walk.n)
    /\ walk.m # "length" => is_fixnum(args[2]) /\ args[2].i \in Int /\ walk.n <= args[2].i

InAppend ==
  walk.m = "append" =>
    /\ LoopShape(walk) /\ primitive = "append" /\ Turn(walk.i) /\ \A j \in 1..walk.i : ListGiven(j)
    /\ \E g, k : /\ Joins(g, walk.i) /\ At(walk.lst, walk.i, k)
                 /\ Copies(store, g[walk.i], Len(g[walk.i - 1]) + k)
                 /\ walk.head = HeadOf(Len(g[walk.i - 1]) + k)
                 /\ walk.tail = TailOf(Len(g[walk.i - 1]) + k)

InReverse ==
  walk.m = "reverse" =>
    /\ walk = [m |-> "reverse", lst |-> walk.lst, tail |-> walk.tail]
    /\ primitive = "reverse" /\ Turn(1) /\ ListGiven(1) /\ walk.lst # nil
    /\ \E k : At(walk.lst, 1, k) /\ Reversed(store, ItemsGiven(1), k) /\ walk.tail = TailOf(k)

InFind ==
  walk.m \in {"memq", "member", "assq", "assoc"} =>
    /\ LoopShape(walk) /\ primitive = walk.m /\ Turn(2) /\ ListGiven(2) /\ store = given.store
    /\ \E n : /\ At(walk.lst, 2, n) /\ \A j \in 0..(n - 1) : ~Fits(j)
              /\ \/ walk.frames = << >>
                 \/ /\ primitive \in {"member", "assoc"} /\ walk.lst # nil /\ ~NoEntry(n)
                    /\ Frames(walk.frames, args[1], Key(n))

InEqual ==
  walk.m = "equal?" =>
    /\ walk = [m |-> "equal?", lst |-> nil, frames |-> walk.frames]
    /\ primitive = "equal?" /\ Len(args) = 2 /\ store = given.store
    /\ Frames(walk.frames, args[1], args[2])

InRest ==
  /\ walk.m = "start" => store = given.store
  /\ walk.m = "done" => ListsMean /\ CopiesMean /\ EqualMeans

IInv ==
  /\ GivenOK /\ OnlyNamedChanges
  /\ InFinite /\ InChecked /\ InCount /\ InAppend /\ InReverse /\ InFind /\ InEqual /\ InRest

-----------------------------------------------------------------------------
(* A step changes one loop's state only. *)

\* The situation stays as it is.
LEMMA GivenStays ==
  ASSUME GivenOK, given' = given
  PROVE  GivenOK'
BY DEF GivenOK, Sound, args

\* A store that only grew has no object changed.
LEMMA GrownKeeps ==
  ASSUME GivenOK, given' = given, Grown(store')
  PROVE  OnlyNamedChanges'
<1>1. DOMAIN given.store = 1..Len(given.store)
  BY DEF GivenOK, Sound, Linked
<1> QED
  BY <1>1 DEF OnlyNamedChanges, Grown

\* Nor has one that is the same.
LEMMA SameKeeps ==
  ASSUME GivenOK, given' = given, store' = given.store
  PROVE  OnlyNamedChanges'
BY DEF OnlyNamedChanges

\* What has to be shown of a step, by what walk is after it.
LEMMA ToFinite ==
  ASSUME GivenOK, given' = given, OnlyNamedChanges', walk'.m = "finite", InFinite'
  PROVE  IInv'
BY GivenStays DEF IInv, InChecked, InCount, InAppend, InReverse, InFind, InEqual, InRest

\* The same for a list that has been looked at.
LEMMA ToChecked ==
  ASSUME GivenOK, given' = given, OnlyNamedChanges', walk'.m = "checked", InChecked'
  PROVE  IInv'
BY GivenStays DEF IInv, InFinite, InCount, InAppend, InReverse, InFind, InEqual, InRest

\* The same for counting.
LEMMA ToCount ==
  ASSUME GivenOK, given' = given, OnlyNamedChanges', walk'.m \in {"length", "list-tail", "list-ref"}, InCount'
  PROVE  IInv'
BY GivenStays DEF IInv, InFinite, InChecked, InAppend, InReverse, InFind, InEqual, InRest

\* The same for copying.
LEMMA ToAppend ==
  ASSUME GivenOK, given' = given, OnlyNamedChanges', walk'.m = "append", InAppend'
  PROVE  IInv'
BY GivenStays DEF IInv, InFinite, InChecked, InCount, InReverse, InFind, InEqual, InRest

\* The same for reversing.
LEMMA ToReverse ==
  ASSUME GivenOK, given' = given, OnlyNamedChanges', walk'.m = "reverse", InReverse'
  PROVE  IInv'
BY GivenStays DEF IInv, InFinite, InChecked, InCount, InAppend, InFind, InEqual, InRest

\* The same for searching.
LEMMA ToFind ==
  ASSUME GivenOK, given' = given, OnlyNamedChanges', walk'.m \in {"memq", "member", "assq", "assoc"}, InFind'
  PROVE  IInv'
BY GivenStays DEF IInv, InFinite, InChecked, InCount, InAppend, InReverse, InEqual, InRest

\* The same for comparing.
LEMMA ToEqual ==
  ASSUME GivenOK, given' = given, OnlyNamedChanges', walk'.m = "equal?", InEqual'
  PROVE  IInv'
BY GivenStays DEF IInv, InFinite, InChecked, InCount, InAppend, InReverse, InFind, InRest

\* The same for the end of the stack.
LEMMA ToOverflow ==
  ASSUME GivenOK, given' = given, OnlyNamedChanges', walk'.m = "overflow"
  PROVE  IInv'
BY GivenStays DEF IInv, InFinite, InChecked, InCount, InAppend, InReverse, InFind, InEqual, InRest

\* The same for an answer.
LEMMA ToDone ==
  ASSUME GivenOK, given' = given, OnlyNamedChanges', walk'.m = "done", ListsMean', CopiesMean', EqualMeans'
  PROVE  IInv'
BY GivenStays DEF IInv, InFinite, InChecked, InCount, InAppend, InReverse, InFind, InEqual, InRest

-----------------------------------------------------------------------------
(* Every situation is sound, and a step at a time keeps what is known.     *)

\* A value's reference is to an object of the store.
LEMMA ValueLink ==
  ASSUME NEW s, NEW v, Value(s, v)
  PROVE  Link(s, v)
BY DEF Value, Link

\* A store of objects is linked.
LEMMA ObjectsLinked ==
  ASSUME NEW s, s \in Seq(Range(s)), \A n \in DOMAIN s : Object(s, s[n])
  PROVE  Linked(s) /\ Sequential(s)
<1>1. Len(s) \in Nat /\ DOMAIN s = 1..Len(s) /\ Sequential(s)
  BY DEF Sequential
<1>2. ASSUME NEW n \in DOMAIN s, s[n].k = "pair" PROVE Link(s, s[n].e[2])
  <2>1. Object(s, s[n])
    OBVIOUS
  <2>2. DOMAIN s[n].e = 1..2
    BY <1>2, <2>1, ObjectParts DEF Object
  <2>3. s[n].e[2] \in Range(s[n].e)
    BY <2>2 DEF Range
  <2>4. Value(s, s[n].e[2])
    BY <1>2, <2>1, <2>3 DEF Object
  <2> QED
    BY <2>4, ValueLink
<1> QED
  BY <1>1, <1>2 DEF Linked

\* The invariant holds when a primitive is called.
LEMMA InitInv ==
  ASSUME Init
  PROVE  IInv
<1>1. PICK i \in DOMAIN Situations : \E s \in Situations[i].stores, c \in Situations[i].calls :
        given = [store |-> s, call |-> c]
  BY DEF Init
<1>2. PICK s \in Situations[i].stores, c \in Situations[i].calls : given = [store |-> s, call |-> c]
  BY <1>1
<1>3. /\ s \in Seq(Range(s)) /\ \A n \in DOMAIN s : Object(s, s[n])
      /\ Len(s) \in Fixnums
      /\ c.args \in Seq(Range(c.args)) /\ \A v \in Range(c.args) : Value(s, v)
  BY SituationsAssumption
<1>4. given.store = s /\ args = c.args
  BY <1>2 DEF args
<1>5. Linked(s) /\ Sequential(s)
  BY <1>3, ObjectsLinked
<1>6. ASSUME NEW j \in 1..Len(c.args) PROVE Value(s, c.args[j])
  <2>1. DOMAIN c.args = 1..Len(c.args)
    BY <1>3
  <2>2. c.args[j] \in Range(c.args)
    BY <2>1 DEF Range
  <2> QED
    BY <1>3, <2>2
<1>7. Sequential(c.args)
  BY <1>3 DEF Sequential
<1>8. GivenOK
  BY <1>3, <1>4, <1>5, <1>6, <1>7 DEF GivenOK, Sound
<1>9. store = given.store /\ walk.m = "start"
  BY DEF Init, Idle
<1> QED
  BY <1>8, <1>9 DEF IInv, OnlyNamedChanges, InFinite, InChecked, InCount, InAppend, InReverse, InFind, InEqual, InRest

\* What is known of the arguments.
LEMMA ArgumentFacts ==
  ASSUME GivenOK
  PROVE  /\ Len(args) \in Nat /\ DOMAIN args = 1..Len(args) /\ (args = << >> <=> Len(args) = 0)
         /\ Sound /\ Linked(given.store) /\ Len(given.store) \in Nat
         /\ \A i \in 1..Len(args) : Value(given.store, args[i]) /\ Link(given.store, args[i])
<1>1. Len(args) \in Nat /\ DOMAIN args = 1..Len(args)
  BY Domain DEF GivenOK
<1>2. args = << >> <=> Len(args) = 0
  <2>1. PICK S : args \in Seq(S)
    BY DEF GivenOK, Sequential
  <2> QED
    BY <2>1
<1>3. Sound /\ Linked(given.store) /\ Len(given.store) \in Nat
  BY DEF GivenOK, Sound, Linked
<1> QED
  BY <1>1, <1>2, <1>3, ValueLink DEF GivenOK

\* A walk is along an argument.
LEMMA TurnFacts ==
  ASSUME GivenOK, NEW i, Turn(i)
  PROVE  /\ i \in 1..Len(args) /\ Value(given.store, args[i]) /\ Link(given.store, args[i])
         /\ primitive \in Walkers
         /\ primitive # "append" => Len(args) = Arguments[primitive] /\ i = ListArgument[primitive]
<1>1. Len(args) \in Nat
  BY ArgumentFacts
<1>2. CASE primitive = "append"
  <2>1. i \in 1..Len(args)
    BY <1>1, <1>2 DEF Turn
  <2> QED
    BY <1>2, <2>1, ArgumentFacts DEF Turn
<1>3. CASE primitive # "append"
  <2>1. Len(args) = Arguments[primitive] /\ i = ListArgument[primitive] /\ primitive \in Walkers \ {"append"}
    BY <1>3 DEF Turn
  <2>2. i \in 1..Len(args)
    BY <2>1 DEF Arguments, ListArgument, Walkers
  <2> QED
    BY <1>3, <2>1, <2>2, ArgumentFacts
<1> QED
  BY <1>2, <1>3

-----------------------------------------------------------------------------
(* What the answer of each primitive has to be.                            *)

\* What ListsMean says of an answer.
ListsAre(v) ==
  /\ primitive = "list?" => v = IF Len(args) = 1 THEN Boolean(ListGiven(1)) ELSE Error
  /\ primitive = "length" => v = IF Len(args) = 1 /\ ListGiven(1) THEN Fixnum(Len(ItemsGiven(1))) ELSE Error
  /\ primitive \in {"list-tail", "list-ref"} =>
       LET last == Len(ItemsGiven(1)) - (IF primitive = "list-ref" THEN 1 ELSE 0) IN
       IF Len(args) = 2 /\ ListGiven(1) /\ is_fixnum(args[2]) /\ args[2].i \in 0..last
       THEN v = IF primitive = "list-tail" THEN After(given.store, args[1])[args[2].i]
                ELSE ItemsGiven(1)[args[2].i + 1]
       ELSE v = Error
  /\ primitive \in {"memq", "member", "assq", "assoc"} =>
       IF Len(args) = 2 /\ ListGiven(2) THEN v \in Found ELSE v = Error

\* What CopiesMean says of an answer and of the store with it.
AppendIs(t, v) ==
  IF \A j \in 1..(Len(args) - 1) : ListGiven(j)
  THEN LET joined == Joined[Len(args) - 1] IN
       /\ After(t, v)[Len(joined)] = Last(args)
       /\ \A j \in DOMAIN joined : t[After(t, v)[j - 1].a].e[1] = joined[j] /\ Fresh(After(t, v)[j - 1])
  ELSE v = Error
ReverseIs(t, v) ==
  IF Len(args) = 1 /\ ListGiven(1)
  THEN /\ Proper(t, v) /\ Listed(t, v) = Reverse(ItemsGiven(1))
       /\ \A j \in 0..(Len(Listed(t, v)) - 1) : Fresh(After(t, v)[j])
  ELSE v = Error
Makers == {"vector->list", "list->vector", "string-copy", "substring", "string-append",
           "string->list", "list->string"}
CopiesAre(t, v) ==
  /\ primitive = "append" /\ args # << >> => AppendIs(t, v)
  /\ primitive = "reverse" => ReverseIs(t, v)
  /\ primitive \in Makers => Fresh(v)
  /\ primitive = "vector->list" /\ v # Error => Listed(t, v) = given.store[args[1].a].e
  /\ primitive = "string->list" /\ v # Error => CodesOf(Listed(t, v)) = given.store[args[1].a].e

\* Given is what was given: these say the same after the step.
LEMMA AlikeStays ==
  ASSUME given' = given
  PROVE  \A v, w : Alike(v, w)' <=> Alike(v, w)
BY DEF Alike, Unfolded, Agree, Refs

\* So do these about what is searched for.
LEMMA FoundStays ==
  ASSUME given' = given
  PROVE  Found' = Found
<1>1. /\ args' = args /\ primitive' = primitive /\ ItemsGiven(2)' = ItemsGiven(2)
      /\ \A j : Place(j)' = Place(j)
  BY DEF Place, ItemsGiven, args, primitive
<1>2. \A j : Item(j)' = Item(j)
  BY <1>1 DEF Item
<1>3. \A j : (Key(j)' = Key(j)) /\ (NoEntry(j)' <=> NoEntry(j))
  BY <1>1, <1>2 DEF Key, NoEntry
<1>4. \A j : Fits(j)' <=> Fits(j)
  BY <1>1, <1>3, AlikeStays DEF Fits
<1> QED
  BY <1>1, <1>2, <1>3, <1>4 DEF Found

\* And the lists put together.
LEMMA JoinedStays ==
  ASSUME given' = given
  PROVE  Joined' = Joined
BY DEF Joined, ItemsGiven, args

\* So a step that answers has to show this of its answer.
LEMMA ListsAnswer ==
  ASSUME given' = given, ListsAre(result')
  PROVE  ListsMean'
BY FoundStays DEF ListsMean, ListsAre, Answers, Sent, ListGiven, ItemsGiven, args, primitive

\* And an answer of what copies.
LEMMA CopiesAnswer ==
  ASSUME given' = given, CopiesAre(store', result')
  PROVE  CopiesMean'
<1> DEFINE A == AppendIs(store', result')
<1>1. (primitive = "append" /\ args # << >> => AppendIs(store', result')) =>
        (Answers({"append"}) /\ args # << >> =>
           IF \A j \in 1..(Len(args) - 1) : ListGiven(j)
           THEN LET joined == Joined[Len(args) - 1] IN
                /\ Cdrs(result, Len(joined)) = Last(args)
                /\ \A j \in DOMAIN joined :
                     car(Cdrs(result, j - 1)) = joined[j] /\ Fresh(Cdrs(result, j - 1))
           ELSE result = Error)'
  BY JoinedStays DEF AppendIs, Answers, Cdrs, car, Fresh, ListGiven, args, primitive
<1>2. (primitive = "reverse" => ReverseIs(store', result')) =>
        (Answers({"reverse"}) =>
           IF Sent(1) /\ ListGiven(1)
           THEN /\ Proper(store, result) /\ ListElements(result) = Reverse(ItemsGiven(1))
                /\ \A j \in 0..(Len(ListElements(result)) - 1) : Fresh(Cdrs(result, j))
           ELSE result = Error)'
  BY DEF ReverseIs, Answers, Cdrs, Fresh, ListGiven, ItemsGiven, ListElements, Sent, args, primitive
<1> QED
  BY <1>1, <1>2 DEF CopiesAre, CopiesMean, Answers, Fresh, Makers, ListElements, args, primitive

\* What EqualMeans says of an answer.
EqualIs(v) == primitive = "equal?" /\ Len(args) = 2 => v = Boolean(Alike(args[1], args[2]))

\* And an answer of equal?.
LEMMA EqualAnswer ==
  ASSUME given' = given, EqualIs(result')
  PROVE  EqualMeans'
<1>1. args' = args /\ primitive' = primitive
  BY DEF args, primitive
<1>2. Alike(args[1], args[2])' <=> Alike(args[1], args[2])
  BY <1>1, AlikeStays
<1>3. Boolean(Alike(args[1], args[2]))' = Boolean(Alike(args[1], args[2]))
  <2>1. CASE Alike(args[1], args[2])
    <3>1. Alike(args[1], args[2])'
      BY <1>2, <2>1
    <3> QED
      BY <2>1, <3>1 DEF Boolean, Alike
  <2>2. CASE ~Alike(args[1], args[2])
    <3>1. ~Alike(args[1], args[2])'
      BY <1>2, <2>2
    <3> QED
      BY <2>2, <3>1 DEF Boolean, Alike
  <2> QED
    BY <2>1, <2>2
<1> QED
  BY <1>1, <1>3 DEF EqualMeans, EqualIs, Answers, Sent

\* So much for a step that answers.
LEMMA Answered ==
  ASSUME GivenOK, NEW v, Return(v), OnlyNamedChanges',
         ListsAre(v), CopiesAre(store, v), EqualIs(v)
  PROVE  IInv'
<1>1. given' = given /\ store' = store /\ result' = v /\ walk'.m = "done"
  BY DEF Return, Done
<1>2. ListsMean' /\ EqualMeans'
  BY <1>1, ListsAnswer, EqualAnswer
<1>3. CopiesMean'
  BY <1>1, CopiesAnswer
<1> QED
  BY <1>1, <1>2, <1>3, ToDone

\* Or that answers with a store it has changed.
LEMMA Made ==
  ASSUME GivenOK, NEW t, NEW v, Make(t, v), OnlyNamedChanges',
         ListsAre(v), CopiesAre(t, v), EqualIs(v)
  PROVE  IInv'
<1>1. given' = given /\ store' = t /\ result' = v /\ walk'.m = "done"
  BY DEF Make, Done
<1>2. ListsMean' /\ EqualMeans'
  BY <1>1, ListsAnswer, EqualAnswer
<1>3. CopiesMean'
  BY <1>1, CopiesAnswer
<1> QED
  BY <1>1, <1>2, <1>3, ToDone

\* An answer of a primitive none of the properties is about.
LEMMA OtherAnswer ==
  ASSUME primitive \notin Walkers \cup Makers \cup {"equal?"}, NEW t, NEW v
  PROVE  ListsAre(v) /\ CopiesAre(t, v) /\ EqualIs(v)
BY DEF ListsAre, CopiesAre, EqualIs, Walkers, Makers

\* An error of one they are about says that the arguments were wrong.
LEMMA RefusalAnswer ==
  ASSUME primitive \in Walkers \cup Makers \cup {"equal?"}, NEW t,
         primitive \in {"list?", "length", "reverse"} => Len(args) # 1 \/ (primitive # "list?" /\ ~ListGiven(1)),
         primitive \in {"memq", "member", "assq", "assoc"} => Len(args) # 2 \/ ~ListGiven(2),
         primitive = "append" => ~\A j \in 1..(Len(args) - 1) : ListGiven(j),
         primitive \in {"list-tail", "list-ref"} => Len(args) # 2 \/ ~ListGiven(1),
         primitive = "equal?" => Len(args) # 2
  PROVE  ListsAre(Error) /\ CopiesAre(t, Error) /\ EqualIs(Error)
<1>1. ListsAre(Error)
  BY DEF ListsAre
<1>2. Fresh(Error)
  BY DEF Fresh, Error
<1>3. CopiesAre(t, Error)
  BY <1>2 DEF CopiesAre, AppendIs, ReverseIs
<1> QED
  BY <1>1, <1>3 DEF EqualIs

\* The elements of no argument are none.
LEMMA JoinedNone ==
  ASSUME Len(args) = 1
  PROVE  Joined[0] = << >>
<1> DEFINE Rec(h) == h = [n \in 0..(Len(args) - 1) |-> IF n = 0 THEN << >> ELSE h[n - 1] \o ItemsGiven(n)]
           g == [n \in 0..0 |-> << >>]
<1>1. Rec(g)
  OBVIOUS
<1>2. Joined = CHOOSE h : Rec(h)
  BY DEF Joined
<1>3. Rec(Joined)
  <2> HIDE DEF Rec, g
  <2> QED
    BY <1>1, <1>2
<1> QED
  BY <1>3

\* StartWalk: the arguments are counted, and the first walk starts.
LEMMA StartWalkInv ==
  ASSUME IInv, StartWalk
  PROVE  IInv'
<1>0. GivenOK /\ walk.m = "start" /\ store = given.store /\ primitive \in Walkers
  BY DEF IInv, InRest, StartWalk
<1>1. /\ Len(args) \in Nat /\ (args = << >> <=> Len(args) = 0) /\ Sound
      /\ \A i \in 1..Len(args) : Value(given.store, args[i]) /\ Link(given.store, args[i])
  BY <1>0, ArgumentFacts
<1>2. CASE primitive = "append" /\ args = << >>
  <2>1. Return(nil)
    BY <1>2 DEF StartWalk
  <2>2. ListsAre(nil) /\ CopiesAre(store, nil) /\ EqualIs(nil)
    BY <1>2 DEF ListsAre, CopiesAre, EqualIs, Makers
  <2>3. OnlyNamedChanges'
    BY <1>0, <2>1, SameKeeps DEF Return
  <2> QED
    BY <1>0, <2>1, <2>2, <2>3, Answered
<1>3. CASE primitive = "append" /\ Len(args) = 1
  <2>1. Return(args[1])
    BY <1>1, <1>3 DEF StartWalk
  <2>2. Joined[Len(args) - 1] = << >> /\ Last(args) = args[1]
    BY <1>3, JoinedNone DEF Last
  <2>3. After(store, args[1])[0] = args[1]
    BY <1>0, <1>1, <1>3, AfterFacts DEF Trail, Sound
  <2>4. AppendIs(store, args[1])
    BY <1>3, <2>2, <2>3 DEF AppendIs
  <2>5. ListsAre(args[1]) /\ CopiesAre(store, args[1]) /\ EqualIs(args[1])
    BY <1>3, <2>4 DEF ListsAre, CopiesAre, EqualIs, Makers
  <2>6. OnlyNamedChanges'
    BY <1>0, <2>1, SameKeeps DEF Return
  <2> QED
    BY <1>0, <2>1, <2>5, <2>6, Answered
<1>4. CASE primitive # "append" /\ Len(args) # Arguments[primitive]
  <2>1. Return(Error)
    BY <1>4 DEF StartWalk, Fail
  <2>2. /\ primitive \in {"list?", "length", "reverse"} => Len(args) # 1
        /\ primitive \in {"memq", "member", "assq", "assoc", "list-tail", "list-ref"} => Len(args) # 2
    BY <1>4 DEF Arguments, Walkers
  <2>3. ListsAre(Error) /\ CopiesAre(store, Error) /\ EqualIs(Error)
    <3>1. primitive # "equal?"
      BY <1>0 DEF Walkers
    <3> QED
      BY <1>0, <1>4, <2>2, <3>1, RefusalAnswer
  <2>4. OnlyNamedChanges'
    BY <1>0, <2>1, SameKeeps DEF Return
  <2> QED
    BY <1>0, <2>1, <2>3, <2>4, Answered
<1>5. ASSUME NEW i, Turn(i), Loop(Look(i, nil, nil)), i = 1 \/ primitive # "append" PROVE IInv'
  <2>1. /\ given' = given /\ store' = given.store
        /\ walk' = [m |-> "finite", i |-> i, o |-> args[i], rabbit |-> args[i], head |-> nil, tail |-> nil]
    BY <1>0, <1>5 DEF Loop, Look
  <2>2. Link(given.store, args[i])
    BY <1>0, <1>5, TurnFacts
  <2>3. Running(given.store, args[i], 0, args[i], args[i])
    BY <1>1, <2>2, RaceStarts DEF Sound
  <2>4. Built(i - 1, nil, nil)
    <3>1. CASE primitive # "append"
      BY <1>0, <3>1 DEF Built
    <3>2. CASE primitive = "append"
      <4> DEFINE g == [m \in 0..0 |-> << >>]
      <4>1. i - 1 = 0
        BY <1>5, <3>2
      <4>2. Joins(g, 0)
        <5>1. << >> \in Seq({})
          OBVIOUS
        <5> QED
          BY <5>1 DEF Joins, Sequential
      <4>3. g[0] = << >> /\ Len(g[0]) = 0
        OBVIOUS
      <4> HIDE DEF g
      <4>4. Copies(store, g[0], Len(g[0]))
        BY <1>0, <1>1, <4>3, GivenGrown DEF GivenOK
      <4>5. HeadOf(Len(g[0])) = nil /\ TailOf(Len(g[0])) = nil
        BY <4>3 DEF HeadOf, TailOf
      <4> QED
        BY <3>2, <4>1, <4>2, <4>4, <4>5 DEF Built
    <3> QED
      BY <3>1, <3>2
  <2>5. InFinite'
    BY <1>0, <1>5, <2>1, <2>3, <2>4
       DEF InFinite, Turn, Built, Joins, Copies, Grown, ListGiven, ItemsGiven, HeadOf, TailOf, args, primitive
  <2>6. OnlyNamedChanges'
    BY <1>0, <2>1, SameKeeps
  <2> QED
    BY <1>0, <2>1, <2>5, <2>6, ToFinite
<1>6. CASE primitive = "append" /\ Len(args) > 1
  <2>1. Loop(Look(1, nil, nil))
    BY <1>1, <1>6 DEF StartWalk
  <2>2. Turn(1)
    BY <1>0, <1>1, <1>6 DEF Turn
  <2> QED
    BY <1>5, <2>1, <2>2
<1>7. CASE primitive # "append" /\ Len(args) = Arguments[primitive]
  <2>1. Loop(Look(ListArgument[primitive], nil, nil))
    BY <1>7 DEF StartWalk
  <2>2. Turn(ListArgument[primitive])
    BY <1>0, <1>7 DEF Turn
  <2> QED
    BY <1>5, <1>7, <2>1, <2>2
<1>8. primitive = "append" => args = << >> \/ Len(args) = 1 \/ Len(args) > 1
  <2>1. \A n \in Nat : n = 0 \/ n = 1 \/ n > 1
    OBVIOUS
  <2> QED
    BY <1>1, <2>1
<1> QED
  BY <1>2, <1>3, <1>4, <1>6, <1>7, <1>8
-----------------------------------------------------------------------------
(* The steps: the two that race along a list.                              *)

\* What is told from the situation alone stays as it is.
LEMMA TellsStay ==
  ASSUME given' = given
  PROVE  /\ args' = args /\ primitive' = primitive
         /\ \A i : (Turn(i)' <=> Turn(i)) /\ (ListGiven(i)' <=> ListGiven(i)) /\ ItemsGiven(i)' = ItemsGiven(i)
         /\ \A n : HeadOf(n)' = HeadOf(n) /\ TailOf(n)' = TailOf(n)
         /\ \A lst, i, n : At(lst, i, n)' <=> At(lst, i, n)
BY DEF Turn, ListGiven, ItemsGiven, HeadOf, TailOf, At, args, primitive

\* The same of the lists put together.
LEMMA JoinsStays ==
  ASSUME given' = given
  PROVE  \A g, n : Joins(g, n)' <=> Joins(g, n)
BY DEF Joins, ItemsGiven, args

\* The same of a store with copies.
LEMMA StoreStays ==
  ASSUME given' = given
  PROVE  \A t, c, m : (Grown(t)' <=> Grown(t)) /\ (Copies(t, c, m)' <=> Copies(t, c, m))
                      /\ (Reversed(t, c, m)' <=> Reversed(t, c, m))
BY DEF Grown, Copies, Reversed

\* What is built stays while the store does.
LEMMA BuiltStays ==
  ASSUME given' = given, store' = store
  PROVE  \A n, head, tail : Built(n, head, tail)' <=> Built(n, head, tail)
BY DEF Built, Joins, Copies, Grown, ListGiven, ItemsGiven, HeadOf, TailOf, args, primitive

\* Only new pairs have been built.
LEMMA BuiltGrown ==
  ASSUME GivenOK, NEW n, NEW head, NEW tail, Built(n, head, tail)
  PROVE  Grown(store)
<1>1. CASE primitive = "append"
  BY <1>1 DEF Built, Copies
<1>2. CASE primitive # "append"
  <2>1. store = given.store
    BY <1>2 DEF Built
  <2>2. Copies(given.store, << >>, 0)
    BY GivenGrown DEF GivenOK
  <2> QED
    BY <2>1, <2>2 DEF Copies
<1> QED
  BY <1>1, <1>2

\* An object of the program is read as it was given.
LEMMA GivenReads ==
  ASSUME Sound, Grown(store), NEW v, Link(given.store, v)
  PROVE  /\ \A kind : Is(store, v, kind) <=> Is(given.store, v, kind)
         /\ v.k = "ref" => store[v.a] = given.store[v.a]
BY DEF Sound, Linked, Grown, Link, Is

\* A list that has been looked at.
LEMMA NowChecked ==
  ASSUME GivenOK, NEW i, NEW head, NEW tail, NEW b \in BOOLEAN,
         Turn(i), Built(i - 1, head, tail), b <=> ListGiven(i),
         Loop([m |-> "checked", i |-> i, list |-> b, head |-> head, tail |-> tail])
  PROVE  IInv'
<1>1. /\ given' = given /\ store' = store
      /\ walk' = [m |-> "checked", i |-> i, list |-> b, head |-> head, tail |-> tail]
  BY DEF Loop
<1>2. InChecked'
  BY <1>1 DEF InChecked, Turn, Built, Joins, Copies, Grown, ListGiven, ItemsGiven, HeadOf, TailOf, args, primitive
<1>3. OnlyNamedChanges'
  BY <1>1, BuiltGrown, GrownKeeps
<1> QED
  BY <1>1, <1>2, <1>3, ToChecked

\* The race goes on, or it begins.
LEMMA NowFinite ==
  ASSUME GivenOK, NEW i, NEW head, NEW tail, NEW o, NEW rabbit, NEW k,
         Turn(i), Built(i - 1, head, tail), Running(given.store, args[i], k, o, rabbit),
         Loop([m |-> "finite", i |-> i, o |-> o, rabbit |-> rabbit, head |-> head, tail |-> tail])
  PROVE  IInv'
<1>1. /\ given' = given /\ store' = store
      /\ walk' = [m |-> "finite", i |-> i, o |-> o, rabbit |-> rabbit, head |-> head, tail |-> tail]
  BY DEF Loop
<1>2. InFinite'
  BY <1>1 DEF InFinite, Turn, Built, Joins, Copies, Grown, ListGiven, ItemsGiven, HeadOf, TailOf, args, primitive
<1>3. OnlyNamedChanges'
  BY <1>1, BuiltGrown, GrownKeeps
<1> QED
  BY <1>1, <1>2, <1>3, ToFinite

\* What a race tells.
LEMMA RaceTells ==
  ASSUME NEW s, NEW v, Linked(s), Link(s, v), NEW k, NEW o, NEW rabbit, Running(s, v, k, o, rabbit),
         Is(s, rabbit, "pair"), NEW once, NEW next, once = s[rabbit.a].e[2], next = s[o.a].e[2]
  PROVE  /\ ~Is(s, once, "pair") => (Proper(s, v) <=> once = nil)
         /\ Is(s, once, "pair") /\ s[once.a].e[2] = next => ~Proper(s, v)
         /\ Is(s, once, "pair") => Running(s, v, k + 1, next, s[once.a].e[2])
BY RaceGoes

\* HareEnds: the rabbit has come to the end.
LEMMA HareEndsInv ==
  ASSUME IInv, HareEnds
  PROVE  IInv'
<1> DEFINE i == walk.i
<1>1. /\ GivenOK /\ Turn(i) /\ Built(i - 1, walk.head, walk.tail)
      /\ \E k : Running(given.store, args[i], k, walk.o, walk.rabbit)
  BY DEF IInv, InFinite, HareEnds
<1> HIDE DEF i
<1>2. Sound /\ Linked(given.store) /\ Link(given.store, args[i])
  BY <1>1, TurnFacts, ArgumentFacts
<1>3. PICK k : Running(given.store, args[i], k, walk.o, walk.rabbit)
  BY <1>1
<1>4. Grown(store)
  BY <1>1, BuiltGrown
<1>5. Link(given.store, walk.rabbit) /\ (~Is(given.store, walk.rabbit, "pair") => (Proper(given.store, args[i]) <=> walk.rabbit = nil))
  BY <1>2, <1>3, RaceGoes
<1>6. ~Is(given.store, walk.rabbit, "pair")
  BY <1>2, <1>4, <1>5, GivenReads DEF HareEnds, is_pair
<1>7. Loop([m |-> "checked", i |-> i, list |-> (walk.rabbit = nil), head |-> walk.head, tail |-> walk.tail])
  BY DEF HareEnds, Checked, i
<1>8. (walk.rabbit = nil) <=> ListGiven(i)
  BY <1>5, <1>6 DEF ListGiven
<1> QED
  BY <1>1, <1>7, <1>8, NowChecked

\* Hare: the rabbit and the tortoise go on, meet, or the rabbit comes to the end.
LEMMA HareInv ==
  ASSUME IInv, Hare
  PROVE  IInv'
<1>1. PICK i, o, rabbit, head, tail :
        /\ walk = [m |-> "finite", i |-> i, o |-> o, rabbit |-> rabbit, head |-> head, tail |-> tail]
        /\ GivenOK /\ Turn(i) /\ Built(i - 1, head, tail)
        /\ \E k : Running(given.store, args[i], k, o, rabbit)
  BY DEF IInv, InFinite, Hare
<1>2. PICK k : Running(given.store, args[i], k, o, rabbit)
  BY <1>1
<1>3. Sound /\ Linked(given.store) /\ Link(given.store, args[i]) /\ Grown(store)
  BY <1>1, TurnFacts, ArgumentFacts, BuiltGrown
<1> DEFINE once == store[rabbit.a].e[2]
           next == store[o.a].e[2]
           twice == store[once.a].e[2]
<1>4. walk.i = i /\ walk.o = o /\ walk.rabbit = rabbit /\ walk.head = head /\ walk.tail = tail
  BY <1>1
<1>5. /\ Is(store, rabbit, "pair")
      /\ \/ ~Is(store, once, "pair") /\ Loop(Checked(walk, once = nil))
         \/ Is(store, once, "pair") /\ twice = next /\ Loop(Checked(walk, FALSE))
         \/ Is(store, once, "pair") /\ Loop([walk EXCEPT !.o = next, !.rabbit = twice])
  BY <1>4 DEF Hare, is_pair, cdr
<1>6. Link(given.store, o) /\ Link(given.store, rabbit)
  BY <1>2, <1>3, RaceGoes
<1>7. Is(given.store, rabbit, "pair")
  BY <1>3, <1>5, <1>6, GivenReads
<1>8. Is(given.store, o, "pair")
  BY <1>2, <1>3, <1>7, RaceGoes
<1>9. once = given.store[rabbit.a].e[2] /\ next = given.store[o.a].e[2]
  BY <1>3, <1>6, <1>7, <1>8, GivenReads DEF Is
<1> HIDE DEF once, next
<1>10. Link(given.store, once)
  BY <1>2, <1>3, <1>7, <1>9, RaceGoes
<1>11. Is(given.store, once, "pair") <=> Is(store, once, "pair")
  BY <1>3, <1>10, GivenReads
<1>12. Is(store, once, "pair") => twice = given.store[once.a].e[2]
  BY <1>3, <1>10, GivenReads DEF Is
<1> HIDE DEF twice
<1>13. /\ ~Is(given.store, once, "pair") => (Proper(given.store, args[i]) <=> once = nil)
       /\ Is(given.store, once, "pair") /\ given.store[once.a].e[2] = next => ~Proper(given.store, args[i])
       /\ Is(given.store, once, "pair") => Running(given.store, args[i], k + 1, next, given.store[once.a].e[2])
  BY ONLY <1>2, <1>3, <1>7, <1>9, RaceTells
<1>14. CASE ~Is(store, once, "pair") /\ Loop(Checked(walk, once = nil))
  <2>1. Loop([m |-> "checked", i |-> i, list |-> (once = nil), head |-> head, tail |-> tail])
    BY <1>4, <1>14 DEF Checked
  <2>2. (once = nil) <=> ListGiven(i)
    BY <1>11, <1>13, <1>14 DEF ListGiven
  <2> QED
    BY <1>1, <2>1, <2>2, NowChecked
<1>15. CASE Is(store, once, "pair") /\ twice = next /\ Loop(Checked(walk, FALSE))
  <2>1. Loop([m |-> "checked", i |-> i, list |-> FALSE, head |-> head, tail |-> tail])
    BY <1>4, <1>15 DEF Checked
  <2>2. ~ListGiven(i)
    BY <1>11, <1>12, <1>13, <1>15 DEF ListGiven
  <2> QED
    BY <1>1, <2>1, <2>2, NowChecked
<1>16. CASE Is(store, once, "pair") /\ Loop([walk EXCEPT !.o = next, !.rabbit = twice])
  <2>1. Loop([m |-> "finite", i |-> i, o |-> next, rabbit |-> twice, head |-> head, tail |-> tail])
    <3>1. [walk EXCEPT !.o = next, !.rabbit = twice]
            = [m |-> "finite", i |-> i, o |-> next, rabbit |-> twice, head |-> head, tail |-> tail]
      <4>1. walk = [m |-> "finite", i |-> i, o |-> o, rabbit |-> rabbit, head |-> head, tail |-> tail]
        BY <1>1
      <4> DEFINE v == [walk EXCEPT !.o = next]
      <4>2. v = [m |-> "finite", i |-> i, o |-> next, rabbit |-> rabbit, head |-> head, tail |-> tail]
        BY ONLY <4>1
      <4>3. [v EXCEPT !.rabbit = twice]
              = [m |-> "finite", i |-> i, o |-> next, rabbit |-> twice, head |-> head, tail |-> tail]
        <5> HIDE DEF v
        <5> QED
          BY ONLY <4>2
      <4> QED
        BY ONLY <4>3
    <3> QED
      BY <1>16, <3>1
  <2>2. Running(given.store, args[i], k + 1, next, twice)
    BY <1>11, <1>12, <1>13, <1>16
  <2> QED
    BY <1>1, <2>1, <2>2, NowFinite
<1> QED
  BY <1>5, <1>14, <1>15, <1>16

-----------------------------------------------------------------------------
(* The steps: what is done with what has been looked at.                   *)

\* What has been looked at.
LEMMA CheckedFacts ==
  ASSUME IInv, walk.m = "checked"
  PROVE  /\ GivenOK /\ Turn(walk.i) /\ Built(walk.i - 1, walk.head, walk.tail) /\ Grown(store)
         /\ walk.list \in BOOLEAN /\ (walk.list <=> ListGiven(walk.i))
         /\ Sound /\ Linked(given.store) /\ Link(given.store, args[walk.i])
<1>1. /\ GivenOK /\ Turn(walk.i) /\ Built(walk.i - 1, walk.head, walk.tail)
      /\ walk.list \in BOOLEAN /\ (walk.list <=> ListGiven(walk.i))
  BY DEF IInv, InChecked
<1> QED
  BY <1>1, TurnFacts, ArgumentFacts, BuiltGrown

\* An answer while only new pairs have been made.
LEMMA LateAnswer ==
  ASSUME GivenOK, Grown(store), NEW v, Return(v), ListsAre(v), CopiesAre(store, v), EqualIs(v)
  PROVE  IInv'
<1>1. OnlyNamedChanges'
  BY GrownKeeps DEF Return
<1> QED
  BY <1>1, Answered

\* Refuses: what is no list is refused.
LEMMA RefusesInv ==
  ASSUME IInv, Refuses
  PROVE  IInv'
<1> DEFINE i == walk.i
<1>1. /\ GivenOK /\ Turn(i) /\ Grown(store) /\ ~ListGiven(i) /\ primitive # "list?" /\ Return(Error)
  BY CheckedFacts DEF Refuses, Fail
<1> HIDE DEF i
<1>2. primitive \in Walkers /\ (primitive # "append" => Len(args) = Arguments[primitive] /\ i = ListArgument[primitive])
  BY <1>1, TurnFacts
<1>3. /\ primitive \in {"length", "reverse", "list-tail", "list-ref"} => i = 1
      /\ primitive \in {"memq", "member", "assq", "assoc"} => i = 2
      /\ primitive = "append" => i \in 1..(Len(args) - 1)
  BY <1>1, <1>2 DEF ListArgument, Walkers, Turn
<1>4. ListsAre(Error) /\ CopiesAre(store, Error) /\ EqualIs(Error)
  <2>1. primitive # "equal?"
    BY <1>2 DEF Walkers
  <2>2. primitive = "append" => ~\A j \in 1..(Len(args) - 1) : ListGiven(j)
    BY <1>1, <1>3
  <2> QED
    BY <1>1, <1>2, <1>3, <2>1, <2>2, RefusalAnswer
<1> QED
  BY <1>1, <1>4, LateAnswer

\* IsList: list? says what it has seen.
LEMMA IsListInv ==
  ASSUME IInv, IsList
  PROVE  IInv'
<1>1. /\ GivenOK /\ Turn(walk.i) /\ Grown(store) /\ walk.list \in BOOLEAN /\ (walk.list <=> ListGiven(walk.i))
      /\ primitive = "list?" /\ Return(Boolean(walk.list))
  BY CheckedFacts DEF IsList
<1>2. walk.i = 1 /\ Len(args) = 1
  BY <1>1, TurnFacts DEF ListArgument, Arguments, Walkers
<1>3. Boolean(walk.list) = Boolean(ListGiven(1))
  <2>1. CASE ListGiven(1)
    BY <1>1, <1>2, <2>1 DEF Boolean, ListGiven, Proper
  <2>2. CASE ~ListGiven(1)
    BY <1>1, <1>2, <2>2 DEF Boolean, ListGiven, Proper
  <2> QED
    BY <2>1, <2>2
<1>4. ListsAre(Boolean(walk.list)) /\ CopiesAre(store, Boolean(walk.list)) /\ EqualIs(Boolean(walk.list))
  BY <1>1, <1>2, <1>3 DEF ListsAre, CopiesAre, EqualIs, Makers
<1> QED
  BY <1>1, <1>4, LateAnswer

\* A loop that only counts.
LEMMA NowCount ==
  ASSUME GivenOK, NEW m \in {"length", "list-tail", "list-ref"}, primitive = m, Turn(1), ListGiven(1),
         store = given.store, NEW i, NEW lst, NEW head, NEW tail, NEW n, NEW frames, At(lst, 1, n),
         m # "length" => is_fixnum(args[2]) /\ args[2].i \in Int /\ n <= args[2].i,
         Loop([m |-> m, i |-> i, lst |-> lst, head |-> head, tail |-> tail, n |-> n, frames |-> frames])
  PROVE  IInv'
<1>1. /\ given' = given /\ store' = given.store
      /\ walk' = [m |-> m, i |-> i, lst |-> lst, head |-> head, tail |-> tail, n |-> n, frames |-> frames]
  BY DEF Loop
<1>2. InCount'
  BY <1>1 DEF InCount, LoopShape, Turn, At, ListGiven, args, primitive
<1>3. OnlyNamedChanges'
  BY <1>1, SameKeeps
<1> QED
  BY <1>1, <1>2, <1>3, ToCount

\* What is found and compared stays as it is.
LEMMA FindStays ==
  ASSUME given' = given
  PROVE  \A j : (Fits(j)' <=> Fits(j)) /\ (NoEntry(j)' <=> NoEntry(j)) /\ Key(j)' = Key(j)
<1>1. args' = args /\ primitive' = primitive /\ \A j : Place(j)' = Place(j)
  BY DEF Place, args, primitive
<1>2. \A j : Item(j)' = Item(j)
  BY <1>1 DEF Item
<1>3. \A j : (Key(j)' = Key(j)) /\ (NoEntry(j)' <=> NoEntry(j))
  BY <1>1, <1>2 DEF Key, NoEntry
<1> QED
  BY <1>1, <1>3, AlikeStays DEF Fits

\* And the frames of a comparison.
LEMMA FramesStay ==
  ASSUME given' = given
  PROVE  \A F, v, w : Frames(F, v, w)' <=> Frames(F, v, w)
<1>1. \A f : IsFrame(f)' <=> IsFrame(f)
  BY DEF IsFrame
<1>2. \A f, n : PartsAlike(f, n)' <=> PartsAlike(f, n)
  BY AlikeStays DEF PartsAlike
<1>3. \A f, g : Waits(f, g)' <=> Waits(f, g)
  BY <1>2 DEF Waits
<1> QED
  BY <1>1, <1>2, <1>3 DEF Frames

\* A loop that searches.
LEMMA NowFind ==
  ASSUME GivenOK, NEW m \in {"memq", "member", "assq", "assoc"}, primitive = m, Turn(2), ListGiven(2),
         store = given.store, NEW i, NEW lst, NEW head, NEW tail, NEW c, NEW frames, NEW n, At(lst, 2, n),
         \A j \in 0..(n - 1) : ~Fits(j),
         \/ frames = << >>
         \/ primitive \in {"member", "assoc"} /\ lst # nil /\ ~NoEntry(n) /\ Frames(frames, args[1], Key(n)),
         Loop([m |-> m, i |-> i, lst |-> lst, head |-> head, tail |-> tail, n |-> c, frames |-> frames])
  PROVE  IInv'
<1>1. /\ given' = given /\ store' = given.store
      /\ walk' = [m |-> m, i |-> i, lst |-> lst, head |-> head, tail |-> tail, n |-> c, frames |-> frames]
  BY DEF Loop
<1>2. (\E l : /\ At(lst, 2, l) /\ \A j \in 0..(l - 1) : ~Fits(j)
              /\ \/ frames = << >>
                 \/ /\ primitive \in {"member", "assoc"} /\ lst # nil /\ ~NoEntry(l)
                    /\ Frames(frames, args[1], Key(l)))'
  <2>1. At(lst, 2, n)' /\ (\A j \in 0..(n - 1) : ~Fits(j))'
    BY <1>1, TellsStay, FindStays
  <2>2. (\/ frames = << >>
         \/ primitive \in {"member", "assoc"} /\ lst # nil /\ ~NoEntry(n) /\ Frames(frames, args[1], Key(n)))'
    <3>1. frames # << >> => Frames(frames, args[1], Key(n))'
      BY <1>1, FindStays, FramesStay, TellsStay
    <3> QED
      BY <1>1, <3>1, FindStays, TellsStay
  <2> QED
    BY <2>1, <2>2
<1>3. InFind'
  BY <1>1, <1>2 DEF InFind, LoopShape, Turn, ListGiven, args, primitive
<1>4. OnlyNamedChanges'
  BY <1>1, SameKeeps
<1> QED
  BY <1>1, <1>3, <1>4, ToFind

\* A loop that copies.
LEMMA NowAppend ==
  ASSUME GivenOK, primitive = "append", NEW i, Turn(i), \A j \in 1..i : ListGiven(j),
         NEW g, NEW k, NEW lst, NEW head, NEW tail, NEW n, NEW frames, Joins(g, i), At(lst, i, k),
         Copies(store', g[i], Len(g[i - 1]) + k),
         head = HeadOf(Len(g[i - 1]) + k), tail = TailOf(Len(g[i - 1]) + k),
         given' = given,
         walk' = [m |-> "append", i |-> i, lst |-> lst, head |-> head, tail |-> tail, n |-> n, frames |-> frames]
  PROVE  IInv'
<1>1. InAppend'
  BY DEF InAppend, LoopShape, Turn, At, ListGiven, Joins, Copies, Grown, ItemsGiven, HeadOf, TailOf, args, primitive
<1>2. OnlyNamedChanges'
  BY GrownKeeps DEF Copies
<1> QED
  BY <1>1, <1>2, ToAppend

\* A function on the first numbers is a sequence.
LEMMA IsSequence ==
  ASSUME NEW n \in Nat, NEW f, f = [j \in 1..n |-> f[j]]
  PROVE  Sequential(f) /\ Len(f) = n
<1> DEFINE S == {f[j] : j \in 1..n}
<1>1. f \in [1..n -> S]
  OBVIOUS
<1>2. f \in Seq(S) /\ Len(f) = n
  <2> HIDE DEF S
  <2>1. DOMAIN f = 1..n
    BY <1>1
  <2> QED
    BY <1>1, <2>1
<1> QED
  BY <1>2 DEF Sequential

\* A list that is given has a length, and its elements are as many.
LEMMA GivenList ==
  ASSUME GivenOK, NEW i \in 1..Len(args), ListGiven(i)
  PROVE  \E n \in 0..Len(given.store) :
           /\ ListOfLength(given.store, args[i], n) /\ Trail(given.store, args[i], After(given.store, args[i]))
           /\ ItemsGiven(i) = [j \in 1..n |-> given.store[After(given.store, args[i])[j - 1].a].e[1]]
           /\ Sequential(ItemsGiven(i)) /\ Len(ItemsGiven(i)) = n
<1>1. /\ Linked(given.store) /\ Link(given.store, args[i]) /\ Len(given.store) \in Nat
      /\ After(given.store, args[i])[Len(given.store)] = nil
  BY ArgumentFacts DEF ListGiven, Proper
<1>2. PICK n \in 0..Len(given.store) : ListOfLength(given.store, args[i], n)
  BY ONLY <1>1, ProperMeans
<1>3. n \in Nat /\ n <= Len(given.store)
  BY <1>1, <1>2
<1>4. Trail(given.store, args[i], After(given.store, args[i]))
  BY <1>1, AfterFacts
<1> DEFINE F == [j \in 1..n |-> given.store[After(given.store, args[i])[j - 1].a].e[1]]
<1>5. ItemsGiven(i) = F
  <2>1. Listed(given.store, args[i]) = F
    <3>1. PICK t, v : t = given.store /\ v = args[i]
      OBVIOUS
    <3>2. ListOfLength(t, v, n) /\ n <= Len(t) /\ Len(t) \in Nat
      BY <1>1, <1>2, <1>3, <3>1
    <3>3. Listed(t, v) = [j \in 1..n |-> t[After(t, v)[j - 1].a].e[1]]
      BY ONLY <3>2, ListedIs
    <3> QED
      BY ONLY <3>1, <3>3
  <2> QED
    BY <2>1 DEF ItemsGiven
<1>6. F = [j \in 1..n |-> F[j]]
  OBVIOUS
<1>7. Sequential(F) /\ Len(F) = n
  <2> HIDE DEF F
  <2> QED
    BY <1>3, <1>6, IsSequence
<1> QED
  BY <1>2, <1>4, <1>5, <1>7

\* The next list is put behind those there are.
LEMMA JoinsNext ==
  ASSUME GivenOK, NEW i \in 1..Len(args), ListGiven(i), NEW g, Joins(g, i - 1), NEW t,
         Copies(t, g[i - 1], Len(g[i - 1]))
  PROVE  \E h : /\ Joins(h, i) /\ h[i - 1] = g[i - 1] /\ h[i] = g[i - 1] \o ItemsGiven(i)
                /\ Copies(t, h[i], Len(h[i - 1]) + 0)
<1>1. Sequential(ItemsGiven(i))
  BY GivenList
<1>2. i \in Nat /\ i - 1 \in Nat /\ i - 1 \in 0..(i - 1)
  BY ArgumentFacts
<1>3. Sequential(g[i - 1])
  BY <1>2 DEF Joins
<1> DEFINE last == g[i - 1] \o ItemsGiven(i)
           h == [m \in 0..i |-> IF m = i THEN last ELSE g[m]]
<1>4. Sequential(last) /\ Len(g[i - 1]) \in Nat /\ \A j \in 1..Len(g[i - 1]) : last[j] = g[i - 1][j]
  BY <1>1, <1>3, Concatenated
<1>5. h[i] = last /\ h[i - 1] = g[i - 1] /\ \A m \in 0..(i - 1) : h[m] = g[m]
  BY <1>2
<1>6. h = [m \in 0..i |-> h[m]]
  OBVIOUS
<1> HIDE DEF h
<1>7. ASSUME NEW m \in 0..i PROVE Sequential(h[m]) /\ h[m] = IF m = 0 THEN << >> ELSE h[m - 1] \o ItemsGiven(m)
  <2>1. CASE m = i
    <3>1. m # 0
      BY <1>2, <2>1
    <3> QED
      BY ONLY <1>4, <1>5, <2>1, <3>1
  <2>2. CASE m # i
    <3>1. m \in 0..(i - 1) /\ (m # 0 => m - 1 \in 0..(i - 1))
      BY <1>2, <2>2
    <3>2. h[m] = g[m] /\ (m # 0 => h[m - 1] = g[m - 1])
      BY <1>5, <3>1
    <3> QED
      BY <3>1, <3>2 DEF Joins
  <2> QED
    BY <2>1, <2>2
<1>8. Joins(h, i)
  BY ONLY <1>6, <1>7 DEF Joins
<1>9. Copies(t, last, Len(g[i - 1]))
  <2> HIDE DEF last
  <2> QED
    BY <1>4 DEF Copies
<1>10. Len(g[i - 1]) + 0 = Len(g[i - 1])
  BY <1>4
<1> QED
  BY <1>5, <1>8, <1>9, <1>10

\* StartLoop: the loop starts at the list that has been looked at.
LEMMA StartLoopInv ==
  ASSUME IInv, StartLoop
  PROVE  IInv'
<1> DEFINE i == walk.i
           bad == primitive \in Counting /\ (~is_fixnum(args[2]) \/ (is_fixnum(args[2]) /\ args[2].i < 0))
           w == [m |-> primitive, i |-> i, lst |-> args[i], head |-> walk.head, tail |-> walk.tail, n |-> 0,
                 frames |-> << >>]
<1>1. /\ GivenOK /\ Turn(i) /\ Built(i - 1, walk.head, walk.tail) /\ Grown(store) /\ ListGiven(i)
      /\ Sound /\ Linked(given.store) /\ Link(given.store, args[i])
  BY CheckedFacts DEF StartLoop, Accepted
<1>2. /\ primitive \notin {"list?", "reverse"} \cup Converting
      /\ IF bad THEN Return(Error) ELSE Loop(w)
  BY DEF StartLoop, Fail
<1> HIDE DEF i
<1>3. /\ i \in 1..Len(args) /\ primitive \in Walkers
      /\ primitive # "append" => Len(args) = Arguments[primitive] /\ i = ListArgument[primitive]
  BY <1>1, TurnFacts
<1>4. At(args[i], i, 0)
  BY <1>1, AfterFacts DEF At, Trail
<1>5. CASE bad
  <2>1. primitive \in {"list-tail", "list-ref"} /\ \A n : is_fixnum(args[2]) => args[2].i \notin 0..n
    BY <1>5 DEF Counting
  <2>2. ListsAre(Error) /\ CopiesAre(store, Error) /\ EqualIs(Error)
    BY <2>1 DEF ListsAre, CopiesAre, EqualIs, Makers
  <2> QED
    BY <1>1, <1>2, <1>5, <2>2, LateAnswer
<1>6. CASE ~bad /\ primitive \in {"length", "list-tail", "list-ref"}
  <2>1. i = 1 /\ store = given.store
    BY <1>1, <1>3, <1>6 DEF ListArgument, Built
  <2>2. primitive # "length" => is_fixnum(args[2]) /\ args[2].i \in Int /\ 0 <= args[2].i
    <3> SUFFICES ASSUME primitive # "length" PROVE is_fixnum(args[2]) /\ args[2].i \in Int /\ 0 <= args[2].i
      OBVIOUS
    <3>1. Len(args) = 2 /\ is_fixnum(args[2]) /\ ~(args[2].i < 0)
      BY <1>3, <1>6 DEF Arguments, Counting, Walkers
    <3>2. Value(given.store, args[2])
      BY <1>1, <3>1, ArgumentFacts
    <3>3. args[2].i \in Int
      BY <3>1, <3>2 DEF Value, is_fixnum, Fixnums
    <3> QED
      BY <3>1, <3>3
  <2>3. Turn(1) /\ ListGiven(1) /\ At(args[1], 1, 0)
    BY <1>1, <1>4, <2>1
  <2>4. Loop([m |-> primitive, i |-> 1, lst |-> args[1], head |-> walk.head, tail |-> walk.tail, n |-> 0,
              frames |-> << >>])
    BY <1>2, <1>6, <2>1
  <2> HIDE DEF w
  <2> QED
    BY <1>1, <1>6, <2>1, <2>2, <2>3, <2>4, NowCount
<1>7. CASE ~bad /\ primitive \in {"memq", "member", "assq", "assoc"}
  <2>1. i = 2 /\ store = given.store
    BY <1>1, <1>3, <1>7 DEF ListArgument, Built, Walkers
  <2>2. Turn(2) /\ ListGiven(2) /\ At(args[2], 2, 0)
    BY <1>1, <1>4, <2>1
  <2>3. Loop([m |-> primitive, i |-> 2, lst |-> args[2], head |-> walk.head, tail |-> walk.tail, n |-> 0,
              frames |-> << >>])
    BY <1>2, <1>7, <2>1
  <2>4. \A j \in 0..(0 - 1) : ~Fits(j)
    OBVIOUS
  <2> HIDE DEF w
  <2> QED
    BY <1>1, <1>7, <2>1, <2>2, <2>3, <2>4, NowFind
<1>8. CASE ~bad /\ primitive = "append"
  <2>1. /\ \A j \in 1..(i - 1) : ListGiven(j)
        /\ \E g : /\ Joins(g, i - 1) /\ Copies(store, g[i - 1], Len(g[i - 1]))
                  /\ walk.head = HeadOf(Len(g[i - 1])) /\ walk.tail = TailOf(Len(g[i - 1]))
    BY <1>1, <1>8 DEF Built
  <2>2. PICK g : /\ Joins(g, i - 1) /\ Copies(store, g[i - 1], Len(g[i - 1]))
                 /\ walk.head = HeadOf(Len(g[i - 1])) /\ walk.tail = TailOf(Len(g[i - 1]))
    BY <2>1
  <2>3. PICK h : /\ Joins(h, i) /\ h[i - 1] = g[i - 1]
                 /\ Copies(store, h[i], Len(h[i - 1]) + 0)
    BY <1>1, <1>3, <2>2, JoinsNext
  <2>4. Len(h[i - 1]) + 0 = Len(g[i - 1])
    BY <2>2, <2>3 DEF Copies
  <2>5. \A j \in 1..i : ListGiven(j)
    BY <1>1, <1>3, <2>1
  <2>6. given' = given /\ store' = store /\ walk' = w
    BY <1>2, <1>8 DEF Loop
  <2>7. Copies(store', h[i], Len(h[i - 1]) + 0)
    BY <2>3, <2>6
  <2>8. walk.head = HeadOf(Len(h[i - 1]) + 0) /\ walk.tail = TailOf(Len(h[i - 1]) + 0)
    BY <2>2, <2>4
  <2>9. walk' = [m |-> "append", i |-> i, lst |-> args[i], head |-> walk.head, tail |-> walk.tail, n |-> 0,
                 frames |-> << >>]
    BY <1>8, <2>6
  <2> HIDE DEF w
  <2> QED
    BY ONLY <1>1, <1>4, <1>8, <2>3, <2>5, <2>6, <2>7, <2>8, <2>9, NowAppend
<1> QED
  BY <1>2, <1>3, <1>5, <1>6, <1>7, <1>8 DEF Walkers, Converting

-----------------------------------------------------------------------------
(* The steps: length, list-tail and list-ref.                              *)

\* A power of two is positive, and each is twice the one before.
LEMMA Powers ==
  PowerOfTwo[0] = 1 /\ \A n \in Nat : PowerOfTwo[n] \in Nat \ {0} /\ PowerOfTwo[n + 1] = 2 * PowerOfTwo[n]
<1> DEFINE S == Nat \ {0}
           F == [nr \in Nat \X S |-> 2 * nr[2]]
           Rec(h) == h = [n \in Nat |-> IF n = 0 THEN 1 ELSE 2 * h[n - 1]]
<1>1. F \in [Nat \X S -> S] /\ 1 \in S
  OBVIOUS
<1>2. PICK g : DefinedOnNat(S, 1, F, g)
  <2> HIDE DEF S, F
  <2> QED
    BY <1>1, NatRecursion
<1>3. g \in [Nat -> S] /\ \A n \in Nat : g[n] = IF n = 0 THEN 1 ELSE F[<<n, g[n - 1]>>]
  BY <1>2 DEF DefinedOnNat
<1>4. ASSUME NEW n \in Nat PROVE g[n] = IF n = 0 THEN 1 ELSE 2 * g[n - 1]
  <2>1. CASE n = 0
    BY <1>3, <2>1
  <2>2. CASE n # 0
    <3>1. n - 1 \in Nat
      BY <2>2
    <3>2. g[n - 1] \in S
      BY <1>3, <3>1
    <3>3. <<n, g[n - 1]>> \in Nat \X S
      BY <3>2
    <3> QED
      BY <1>3, <2>2, <3>3
  <2> QED
    BY <2>1, <2>2
<1>5. Rec(g)
  BY <1>3, <1>4
<1>6. Rec(PowerOfTwo)
  <2>1. PowerOfTwo = CHOOSE h : Rec(h)
    BY DEF PowerOfTwo
  <2> HIDE DEF Rec
  <2> QED
    BY <1>5, <2>1
<1>7. \A n \in Nat : PowerOfTwo[n] = IF n = 0 THEN 1 ELSE 2 * PowerOfTwo[n - 1]
  BY <1>6
<1> HIDE DEF Rec
<1> DEFINE A == {n \in Nat : PowerOfTwo[n] \in Nat \ {0}}
<1>8. 0 \in A
  BY <1>7
<1>9. ASSUME NEW n \in Nat, n \in A PROVE n + 1 \in A /\ PowerOfTwo[n + 1] = 2 * PowerOfTwo[n]
  <2>1. PowerOfTwo[n + 1] = 2 * PowerOfTwo[n]
    BY <1>7
  <2> QED
    BY <1>9, <2>1
<1>10. Nat \subseteq A
  <2> HIDE DEF A
  <2> QED
    BY <1>8, <1>9, SetInduction
<1>11. PowerOfTwo[0] = 1
  BY <1>7
<1> QED
  BY <1>9, <1>10, <1>11

\* A number that a fixnum can hold is made one as it is.
LEMMA FixnumIs ==
  ASSUME NEW n \in Fixnums
  PROVE  make_fixnum(n) = Fixnum(n)
<1>1. Bits - 1 \in Nat /\ (Bits - 1) + 1 = Bits
  BY BitsAssumption
<1> DEFINE b == PowerOfTwo[Bits - 1]
<1>2. b \in Nat \ {0} /\ PowerOfTwo[Bits] = 2 * b
  BY <1>1, Powers
<1>3. n \in (-b)..(b - 1)
  BY DEF Fixnums
<1>4. ((n + b) % (2 * b)) - b = n
  <2> HIDE DEF b
  <2>1. b \in Int /\ n \in Int /\ 0 <= n + b /\ n + b < 2 * b /\ 2 * b > 0
    BY <1>2, <1>3
  <2>2. (n + b) % (2 * b) = n + b
    BY <2>1
  <2> QED
    BY <2>1, <2>2
<1> QED
  BY <1>2, <1>4 DEF make_fixnum, Wrap

\* A natural number below a fixnum is one.
LEMMA FixnumBelow ==
  ASSUME NEW m \in Fixnums, NEW n \in Nat, n <= m
  PROVE  n \in Fixnums
<1>1. Bits - 1 \in Nat
  BY BitsAssumption
<1> DEFINE b == PowerOfTwo[Bits - 1]
<1>2. b \in Nat \ {0}
  BY <1>1, Powers
<1> QED
  BY <1>2 DEF Fixnums

\* Where a loop is along a list: at its end, or at a pair that holds the next
\* element and has the rest behind it.
LEMMA AtFacts ==
  ASSUME GivenOK, NEW i \in 1..Len(args), ListGiven(i), NEW lst, NEW n, At(lst, i, n)
  PROVE  /\ Len(ItemsGiven(i)) \in Nat /\ n \in 0..Len(ItemsGiven(i)) /\ Sequential(ItemsGiven(i))
         /\ Len(ItemsGiven(i)) <= Len(given.store) /\ Link(given.store, lst)
         /\ lst = nil <=> n = Len(ItemsGiven(i))
         /\ lst # nil => /\ Is(given.store, lst, "pair") /\ n + 1 \in 1..Len(ItemsGiven(i))
                         /\ given.store[lst.a].e[1] = ItemsGiven(i)[n + 1]
                         /\ At(given.store[lst.a].e[2], i, n + 1)
<1>1. PICK N \in 0..Len(given.store) :
        /\ ListOfLength(given.store, args[i], N) /\ Trail(given.store, args[i], After(given.store, args[i]))
        /\ ItemsGiven(i) = [j \in 1..N |-> given.store[After(given.store, args[i])[j - 1].a].e[1]]
        /\ Sequential(ItemsGiven(i)) /\ Len(ItemsGiven(i)) = N
  BY GivenList
<1> DEFINE A == After(given.store, args[i])
<1>2. N \in Nat /\ N <= Len(given.store) /\ n \in Nat /\ lst = A[n] /\ \A j \in 0..(n - 1) : A[j] # nil
  <2>1. Len(given.store) \in Nat
    BY ArgumentFacts
  <2>2. N \in Nat /\ N <= Len(given.store)
    <3>1. \A L \in Nat : N \in 0..L => N \in Nat /\ N <= L
      OBVIOUS
    <3> QED
      BY ONLY <1>1, <2>1, <3>1
  <2>3. n \in Nat /\ lst = A[n] /\ \A j \in 0..(n - 1) : A[j] # nil
    BY DEF At
  <2> QED
    BY ONLY <2>2, <2>3
<1>3. A[N] = nil /\ \A j \in 0..(N - 1) : A[j] # nil /\ Is(given.store, A[j], "pair")
  BY <1>1, ListPairs DEF ListOfLength
<1>4. Linked(given.store) /\ Link(given.store, args[i])
  BY ArgumentFacts
<1>5. Link(given.store, A[n]) /\ \A m \in Nat : A[m + 1] = Behind(given.store, A[m])
  BY <1>2, <1>4, AfterFacts DEF Trail
<1> HIDE DEF A
<1>6. n <= N
  <2> SUFFICES ASSUME N < n PROVE FALSE
    BY <1>2
  <2>1. N \in 0..(n - 1)
    BY <1>2
  <2> QED
    BY <1>2, <1>3, <2>1
<1>7. ASSUME n # N
      PROVE  /\ lst # nil /\ Is(given.store, lst, "pair") /\ n + 1 \in 1..N
             /\ given.store[lst.a].e[1] = ItemsGiven(i)[n + 1]
             /\ At(given.store[lst.a].e[2], i, n + 1)
  <2>1. n \in 0..(N - 1) /\ n + 1 \in 1..N /\ (n + 1) - 1 = n
    BY <1>2, <1>6, <1>7
  <2>2. lst # nil /\ Is(given.store, lst, "pair")
    BY <1>2, <1>3, <2>1
  <2>3. ItemsGiven(i)[n + 1] = given.store[A[(n + 1) - 1].a].e[1]
    BY <1>1, <2>1 DEF A
  <2>4. A[n + 1] = given.store[lst.a].e[2]
    BY <1>2, <1>5, <2>2 DEF Behind
  <2>5. \A j \in 0..((n + 1) - 1) : A[j] # nil
    BY <1>3, <1>6, <2>1, <1>2
  <2>6. At(given.store[lst.a].e[2], i, n + 1)
    BY <1>2, <2>4, <2>5 DEF At, A
  <2> QED
    BY <1>2, <2>1, <2>2, <2>3, <2>6
<1>8. n = N => lst = nil
  BY <1>2, <1>3
<1>9. Len(ItemsGiven(i)) = N /\ Sequential(ItemsGiven(i))
  BY <1>1
<1>10. N \in Nat /\ n \in 0..N /\ N <= Len(given.store) /\ Link(given.store, lst)
  BY <1>2, <1>5, <1>6
<1>11. lst = nil <=> n = N
  BY <1>7, <1>8
<1> QED
  BY ONLY <1>7, <1>9, <1>10, <1>11

\* An answer while the store is as it was given.
LEMMA PlainAnswer ==
  ASSUME GivenOK, store = given.store, NEW v, Return(v), ListsAre(v), CopiesAre(store, v), EqualIs(v)
  PROVE  IInv'
<1>1. OnlyNamedChanges'
  BY SameKeeps DEF Return
<1> QED
  BY <1>1, Answered

\* What a loop that counts knows.
LEMMA CountFacts ==
  ASSUME IInv, walk.m \in {"length", "list-tail", "list-ref"}
  PROVE  \E i, lst, head, tail, n, frames :
           /\ walk = [m |-> primitive, i |-> i, lst |-> lst, head |-> head, tail |-> tail, n |-> n, frames |-> frames]
           /\ GivenOK /\ primitive \in {"length", "list-tail", "list-ref"} /\ Turn(1) /\ ListGiven(1)
           /\ store = given.store /\ At(lst, 1, n) /\ 1 \in 1..Len(args)
           /\ Len(args) = IF primitive = "length" THEN 1 ELSE 2
           /\ primitive # "length" => is_fixnum(args[2]) /\ args[2].i \in Int /\ n <= args[2].i
<1>1. /\ LoopShape(walk) /\ primitive = walk.m /\ Turn(1) /\ ListGiven(1) /\ store = given.store
      /\ At(walk.lst, 1, walk.n) /\ GivenOK
      /\ walk.m # "length" => is_fixnum(args[2]) /\ args[2].i \in Int /\ walk.n <= args[2].i
  BY DEF IInv, InCount
<1>2. 1 \in 1..Len(args) /\ Len(args) = Arguments[primitive]
  BY <1>1, TurnFacts
<1>3. Len(args) = IF primitive = "length" THEN 1 ELSE 2
  BY <1>1, <1>2 DEF Arguments, Walkers
<1> QED
  BY <1>1, <1>2, <1>3 DEF LoopShape

\* A loop that goes on behind the pair.
LEMMA CountGoes ==
  ASSUME NEW m, NEW i, NEW lst, NEW head, NEW tail, NEW n, NEW frames,
         walk = [m |-> m, i |-> i, lst |-> lst, head |-> head, tail |-> tail, n |-> n, frames |-> frames]
  PROVE  [walk EXCEPT !.lst = cdr(@), !.n = @ + 1]
           = [m |-> m, i |-> i, lst |-> store[lst.a].e[2], head |-> head, tail |-> tail, n |-> n + 1, frames |-> frames]
<1> DEFINE v == [walk EXCEPT !.lst = cdr(@)]
<1>1. v = [m |-> m, i |-> i, lst |-> store[lst.a].e[2], head |-> head, tail |-> tail, n |-> n, frames |-> frames]
  BY DEF cdr
<1>2. [v EXCEPT !.n = @ + 1]
        = [m |-> m, i |-> i, lst |-> store[lst.a].e[2], head |-> head, tail |-> tail, n |-> n + 1, frames |-> frames]
  <2> HIDE DEF v
  <2> QED
    BY ONLY <1>1
<1> QED
  BY <1>2

\* Count: length counts a pair, or is at the end.
LEMMA CountInv ==
  ASSUME IInv, Count
  PROVE  IInv'
<1>1. PICK i, lst, head, tail, n, frames :
        /\ walk = [m |-> primitive, i |-> i, lst |-> lst, head |-> head, tail |-> tail, n |-> n, frames |-> frames]
        /\ GivenOK /\ primitive \in {"length", "list-tail", "list-ref"} /\ Turn(1) /\ ListGiven(1)
        /\ store = given.store /\ At(lst, 1, n) /\ 1 \in 1..Len(args)
        /\ Len(args) = IF primitive = "length" THEN 1 ELSE 2
        /\ primitive # "length" => is_fixnum(args[2]) /\ args[2].i \in Int /\ n <= args[2].i
  BY CountFacts DEF Count
<1>2. walk.m = primitive /\ walk.lst = lst /\ walk.n = n
  BY <1>1
<1>3. /\ primitive = "length"
      /\ IF lst = nil THEN Return(make_fixnum(n)) ELSE Loop([walk EXCEPT !.lst = cdr(@), !.n = @ + 1])
  BY <1>2 DEF Count
<1>4. /\ Len(ItemsGiven(1)) \in Nat /\ Len(ItemsGiven(1)) <= Len(given.store)
      /\ lst = nil <=> n = Len(ItemsGiven(1))
      /\ lst # nil => At(given.store[lst.a].e[2], 1, n + 1)
  BY <1>1, AtFacts
<1>5. CASE lst = nil
  <2>1. Len(given.store) \in Fixnums
    BY <1>1 DEF GivenOK
  <2>2. n \in Fixnums
    BY <1>4, <1>5, <2>1, FixnumBelow
  <2>3. make_fixnum(n) = Fixnum(Len(ItemsGiven(1)))
    BY <1>4, <1>5, <2>2, FixnumIs
  <2>4. ListsAre(make_fixnum(n)) /\ CopiesAre(store, make_fixnum(n)) /\ EqualIs(make_fixnum(n))
    BY <1>1, <1>3, <2>3 DEF ListsAre, CopiesAre, EqualIs, Makers
  <2> QED
    BY <1>1, <1>3, <1>5, <2>4, PlainAnswer
<1>6. CASE lst # nil
  <2>1. Loop([m |-> primitive, i |-> i, lst |-> store[lst.a].e[2], head |-> head, tail |-> tail, n |-> n + 1,
              frames |-> frames])
    BY <1>1, <1>3, <1>6, CountGoes
  <2>2. At(store[lst.a].e[2], 1, n + 1)
    BY <1>1, <1>4, <1>6
  <2> QED
    BY <1>1, <1>3, <2>1, <2>2, NowCount
<1> QED
  BY <1>5, <1>6

\* Skip: a pair is left behind, or there is none where one should be.
LEMMA SkipInv ==
  ASSUME IInv, Skip
  PROVE  IInv'
<1>1. PICK i, lst, head, tail, n, frames :
        /\ walk = [m |-> primitive, i |-> i, lst |-> lst, head |-> head, tail |-> tail, n |-> n, frames |-> frames]
        /\ GivenOK /\ primitive \in {"length", "list-tail", "list-ref"} /\ Turn(1) /\ ListGiven(1)
        /\ store = given.store /\ At(lst, 1, n) /\ 1 \in 1..Len(args)
        /\ Len(args) = IF primitive = "length" THEN 1 ELSE 2
        /\ primitive # "length" => is_fixnum(args[2]) /\ args[2].i \in Int /\ n <= args[2].i
  BY CountFacts DEF Skip, Counting
<1>2. walk.m = primitive /\ walk.lst = lst /\ walk.n = n
  BY <1>1
<1>3. /\ primitive \in {"list-tail", "list-ref"} /\ n < args[2].i
      /\ IF lst = nil THEN Return(Error) ELSE Loop([walk EXCEPT !.lst = cdr(@), !.n = @ + 1])
  BY <1>2 DEF Skip, Counting, Fail
<1>4. /\ Len(ItemsGiven(1)) \in Nat /\ n \in 0..Len(ItemsGiven(1))
      /\ lst = nil <=> n = Len(ItemsGiven(1))
      /\ lst # nil => At(given.store[lst.a].e[2], 1, n + 1)
  BY <1>1, AtFacts
<1>5. CASE lst = nil
  <2>1. args[2].i \notin 0..(Len(ItemsGiven(1)) - (IF primitive = "list-ref" THEN 1 ELSE 0))
    BY <1>3, <1>4, <1>5
  <2>2. ListsAre(Error) /\ CopiesAre(store, Error) /\ EqualIs(Error)
    BY <1>3, <2>1 DEF ListsAre, CopiesAre, EqualIs, Makers
  <2> QED
    BY <1>1, <1>3, <1>5, <2>2, PlainAnswer
<1>6. CASE lst # nil
  <2>1. Loop([m |-> primitive, i |-> i, lst |-> store[lst.a].e[2], head |-> head, tail |-> tail, n |-> n + 1,
              frames |-> frames])
    BY <1>1, <1>3, <1>6, CountGoes
  <2>2. At(store[lst.a].e[2], 1, n + 1)
    BY <1>1, <1>4, <1>6
  <2>3. is_fixnum(args[2]) /\ args[2].i \in Int /\ n + 1 <= args[2].i
    BY <1>1, <1>3, <1>4
  <2> QED
    BY <1>1, <1>3, <2>1, <2>2, <2>3, NowCount
<1> QED
  BY <1>5, <1>6

\* Skipped: the place asked for is reached.
LEMMA SkippedInv ==
  ASSUME IInv, Skipped
  PROVE  IInv'
<1>1. PICK i, lst, head, tail, n, frames :
        /\ walk = [m |-> primitive, i |-> i, lst |-> lst, head |-> head, tail |-> tail, n |-> n, frames |-> frames]
        /\ GivenOK /\ primitive \in {"length", "list-tail", "list-ref"} /\ Turn(1) /\ ListGiven(1)
        /\ store = given.store /\ At(lst, 1, n) /\ 1 \in 1..Len(args)
        /\ Len(args) = IF primitive = "length" THEN 1 ELSE 2
        /\ primitive # "length" => is_fixnum(args[2]) /\ args[2].i \in Int /\ n <= args[2].i
  BY CountFacts DEF Skipped, Counting
<1>2. walk.m = primitive /\ walk.lst = lst /\ walk.n = n
  BY <1>1
<1>3. /\ primitive \in {"list-tail", "list-ref"} /\ n = args[2].i /\ Len(args) = 2 /\ is_fixnum(args[2])
      /\ CASE primitive = "list-tail" -> Return(lst)
           [] primitive = "list-ref" /\ lst = nil -> Return(Error)
           [] primitive = "list-ref" /\ lst # nil -> Return(store[lst.a].e[1])
  BY <1>1, <1>2 DEF Skipped, Counting, Fail, car
<1>4. /\ Len(ItemsGiven(1)) \in Nat /\ n \in 0..Len(ItemsGiven(1))
      /\ lst = nil <=> n = Len(ItemsGiven(1))
      /\ lst # nil => n + 1 \in 1..Len(ItemsGiven(1)) /\ given.store[lst.a].e[1] = ItemsGiven(1)[n + 1]
  BY <1>1, AtFacts
<1>5. lst = After(given.store, args[1])[n]
  BY <1>1 DEF At
<1>6. CASE primitive = "list-tail"
  <2>1. n \in 0..(Len(ItemsGiven(1)) - 0)
    BY <1>4
  <2>2. ListsAre(lst) /\ CopiesAre(store, lst) /\ EqualIs(lst)
    BY <1>1, <1>3, <1>5, <1>6, <2>1 DEF ListsAre, CopiesAre, EqualIs, Makers
  <2> QED
    BY <1>1, <1>3, <1>6, <2>2, PlainAnswer
<1>7. CASE primitive = "list-ref" /\ lst = nil
  <2>1. args[2].i \notin 0..(Len(ItemsGiven(1)) - 1)
    BY <1>3, <1>4, <1>7
  <2>2. ListsAre(Error) /\ CopiesAre(store, Error) /\ EqualIs(Error)
    BY <1>7, <2>1 DEF ListsAre, CopiesAre, EqualIs, Makers
  <2> QED
    BY <1>1, <1>3, <1>7, <2>2, PlainAnswer
<1>8. CASE primitive = "list-ref" /\ lst # nil
  <2> DEFINE v == store[lst.a].e[1]
  <2>1. n \in 0..(Len(ItemsGiven(1)) - 1) /\ v = ItemsGiven(1)[n + 1]
    BY <1>1, <1>4, <1>8
  <2> HIDE DEF v
  <2>2. ListsAre(v) /\ CopiesAre(store, v) /\ EqualIs(v)
    BY <1>1, <1>3, <1>8, <2>1 DEF ListsAre, CopiesAre, EqualIs, Makers
  <2>3. Return(v)
    BY <1>3, <1>8 DEF v
  <2> QED
    BY <1>1, <2>2, <2>3, PlainAnswer
<1> QED
  BY <1>3, <1>6, <1>7, <1>8

-----------------------------------------------------------------------------
(* The steps: append.                                                      *)

\* What the loop of append knows.
LEMMA AppendFacts ==
  ASSUME IInv, walk.m = "append"
  PROVE  \E i, lst, head, tail, n, frames, g, k :
           /\ walk = [m |-> "append", i |-> i, lst |-> lst, head |-> head, tail |-> tail, n |-> n, frames |-> frames]
           /\ GivenOK /\ primitive = "append" /\ Turn(i) /\ \A j \in 1..i : ListGiven(j)
           /\ Joins(g, i) /\ At(lst, i, k) /\ Copies(store, g[i], Len(g[i - 1]) + k)
           /\ head = HeadOf(Len(g[i - 1]) + k) /\ tail = TailOf(Len(g[i - 1]) + k)
<1>1. GivenOK /\ LoopShape(walk) /\ primitive = "append" /\ Turn(walk.i) /\ \A j \in 1..walk.i : ListGiven(j)
  BY DEF IInv, InAppend
<1>2. PICK g, k : /\ Joins(g, walk.i) /\ At(walk.lst, walk.i, k)
                  /\ Copies(store, g[walk.i], Len(g[walk.i - 1]) + k)
                  /\ walk.head = HeadOf(Len(g[walk.i - 1]) + k)
                  /\ walk.tail = TailOf(Len(g[walk.i - 1]) + k)
  BY DEF IInv, InAppend
<1>3. walk = [m |-> "append", i |-> walk.i, lst |-> walk.lst, head |-> walk.head, tail |-> walk.tail, n |-> walk.n,
              frames |-> walk.frames]
  BY <1>1 DEF LoopShape
<1> QED
  BY ONLY <1>1, <1>2, <1>3

\* The lists put together before the i-th and with it.
LEMMA JoinsParts ==
  ASSUME GivenOK, primitive = "append", NEW i, Turn(i), ListGiven(i), NEW g, Joins(g, i)
  PROVE  /\ i \in 1..(Len(args) - 1) /\ i \in 1..Len(args) /\ Len(args) \in Nat
         /\ Sequential(g[i - 1]) /\ Len(g[i - 1]) \in Nat
         /\ Sequential(g[i]) /\ Len(g[i]) = Len(g[i - 1]) + Len(ItemsGiven(i)) /\ Len(g[i]) \in Nat
         /\ \A k \in 1..Len(ItemsGiven(i)) : g[i][Len(g[i - 1]) + k] = ItemsGiven(i)[k]
<1>1. i \in 1..(Len(args) - 1)
  BY DEF Turn
<1>2. Len(args) \in Nat
  BY ArgumentFacts
<1>3. i \in 1..Len(args) /\ i \in 0..i /\ i - 1 \in 0..i /\ i # 0
  BY <1>1, <1>2
<1>4. Sequential(ItemsGiven(i))
  BY <1>3, GivenList
<1>5. Sequential(g[i - 1]) /\ g[i] = g[i - 1] \o ItemsGiven(i)
  BY <1>3 DEF Joins
<1>6. /\ Sequential(g[i]) /\ Len(g[i - 1]) \in Nat /\ Len(ItemsGiven(i)) \in Nat
      /\ Len(g[i]) = Len(g[i - 1]) + Len(ItemsGiven(i))
      /\ \A k \in 1..Len(ItemsGiven(i)) : g[i][Len(g[i - 1]) + k] = ItemsGiven(i)[k]
  <2>1. PICK s, t : s = g[i - 1] /\ t = ItemsGiven(i)
    OBVIOUS
  <2>2. /\ Sequential(s \o t) /\ Len(s) \in Nat /\ Len(t) \in Nat /\ Len(s \o t) = Len(s) + Len(t)
        /\ \A k \in 1..Len(t) : (s \o t)[Len(s) + k] = t[k]
    <3>1. Sequential(s) /\ Sequential(t)
      BY ONLY <1>4, <1>5, <2>1
    <3> QED
      BY ONLY <3>1, Concatenated
  <2> QED
    BY ONLY <1>5, <2>1, <2>2
<1>7. Len(g[i]) \in Nat
  <2>1. \A x \in Nat, y \in Nat : x + y \in Nat
    OBVIOUS
  <2> QED
    BY ONLY <1>6, <2>1
<1> QED
  BY ONLY <1>1, <1>2, <1>3, <1>5, <1>6, <1>7

\* Copy: a pair is copied, and put behind the last.
LEMMA CopyInv ==
  ASSUME IInv, Copy
  PROVE  IInv'
<1>1. PICK i, lst, head, tail, n, frames, g, k :
        /\ walk = [m |-> "append", i |-> i, lst |-> lst, head |-> head, tail |-> tail, n |-> n, frames |-> frames]
        /\ GivenOK /\ primitive = "append" /\ Turn(i) /\ \A j \in 1..i : ListGiven(j)
        /\ Joins(g, i) /\ At(lst, i, k) /\ Copies(store, g[i], Len(g[i - 1]) + k)
        /\ head = HeadOf(Len(g[i - 1]) + k) /\ tail = TailOf(Len(g[i - 1]) + k)
  BY AppendFacts DEF Copy
<1>2. walk.i = i /\ walk.lst = lst /\ walk.head = head /\ walk.tail = tail
  BY <1>1
<1> DEFINE new == Ref(Len(store) + 1)
           longer == Append(store, Pair(store[lst.a].e[1], nil))
           first == IF head = nil THEN new ELSE head
           m == Len(g[i - 1]) + k
           L == Len(given.store)
           rest == store[lst.a].e[2]
<1>3. /\ lst # nil /\ given' = given
      /\ store' = IF head = nil THEN longer ELSE Put(longer, tail, 2, new)
      /\ walk' = [walk EXCEPT !.lst = rest, !.tail = new, !.head = first]
  BY <1>2 DEF Copy, car, cdr, Next_free
<1>4. ListGiven(i) /\ i \in 1..Len(args)
  <2>1. i \in 1..Len(args)
    BY <1>1, TurnFacts
  <2>2. i \in 1..i
    BY <2>1, ArgumentFacts, <1>1
  <2> QED
    BY <1>1, <2>1, <2>2
<1>5. /\ Sequential(g[i - 1]) /\ Len(g[i - 1]) \in Nat
      /\ \A j \in 1..Len(ItemsGiven(i)) : g[i][Len(g[i - 1]) + j] = ItemsGiven(i)[j]
  BY <1>1, <1>4, JoinsParts
<1>6. /\ Link(given.store, lst) /\ Is(given.store, lst, "pair") /\ k + 1 \in 1..Len(ItemsGiven(i))
      /\ given.store[lst.a].e[1] = ItemsGiven(i)[k + 1] /\ At(given.store[lst.a].e[2], i, k + 1)
  BY <1>1, <1>3, <1>4, AtFacts
<1>7. Sound /\ Grown(store) /\ k \in Nat /\ L \in Nat
  BY <1>1, ArgumentFacts DEF Copies, At
<1>8. store[lst.a] = given.store[lst.a]
  BY <1>6, <1>7, GivenReads DEF Is
<1>9. m \in Nat /\ m + 1 = Len(g[i - 1]) + (k + 1) /\ Len(store) = L + m
  <2>1. \A x \in Nat, y \in Nat : x + y \in Nat /\ (x + y) + 1 = x + (y + 1)
    OBVIOUS
  <2>2. Len(store) = L + m
    BY <1>1 DEF Copies
  <2> QED
    BY ONLY <1>5, <1>7, <2>1, <2>2 DEF m
<1>10. g[i][m + 1] = store[lst.a].e[1]
  <2>1. g[i][Len(g[i - 1]) + (k + 1)] = ItemsGiven(i)[k + 1]
    BY <1>5, <1>6
  <2> QED
    BY <1>6, <1>8, <1>9, <2>1
<1>11. At(rest, i, k + 1)
  BY <1>6, <1>8
<1>12. Copies(store, g[i], m) /\ head = HeadOf(m) /\ tail = TailOf(m)
  BY <1>1
<1> HIDE DEF m
<1>13. /\ m = 0 => Copies(Append(store, Pair(g[i][m + 1], nil)), g[i], 1)
       /\ m > 0 => Copies(Put(Append(store, Pair(g[i][m + 1], nil)), Ref(Len(given.store) + m), 2, Ref(Len(store) + 1)),
                          g[i], m + 1)
  <2>1. PICK t, c : t = store /\ c = g[i]
    OBVIOUS
  <2>2. LET l == Append(t, Pair(c[m + 1], nil))
            w == Ref(Len(t) + 1)
        IN  /\ m = 0 => Copies(l, c, 1)
            /\ m > 0 => Copies(Put(l, Ref(Len(given.store) + m), 2, w), c, m + 1)
    BY <1>7, <1>12, <2>1, CopyGrows
  <2> QED
    BY ONLY <2>1, <2>2
<1>14. Copies(store', g[i], m + 1)
  <2>1. CASE m = 0
    <3>1. head = nil /\ m + 1 = 1
      BY <1>12, <2>1 DEF HeadOf
    <3> QED
      BY <1>3, <1>10, <1>13, <2>1, <3>1
  <2>2. CASE m # 0
    <3>1. head # nil /\ tail = Ref(Len(given.store) + m) /\ m > 0
      BY <1>9, <1>12, <2>2 DEF HeadOf, TailOf, nil, Ref
    <3> QED
      BY <1>3, <1>10, <1>13, <2>2, <3>1
  <2> QED
    BY <2>1, <2>2
<1>15. new = TailOf(m + 1) /\ first = HeadOf(m + 1)
  <2>1. m + 1 # 0 /\ Len(store) + 1 = L + (m + 1)
    <3>1. \A x \in Nat, y \in Nat : y + 1 # 0 /\ (x + y) + 1 = x + (y + 1)
      OBVIOUS
    <3> QED
      BY ONLY <1>7, <1>9, <3>1
  <2>2. new = TailOf(m + 1)
    BY <2>1 DEF TailOf
  <2>3. CASE m = 0
    <3>1. head = nil /\ Len(store) + 1 = L + 1
      BY <1>7, <1>9, <1>12, <2>3 DEF HeadOf
    <3> QED
      BY <2>1, <2>2, <3>1 DEF HeadOf
  <2>4. CASE m # 0
    <3>1. head = Ref(L + 1) /\ head # nil
      BY <1>12, <2>4 DEF HeadOf, nil, Ref
    <3> QED
      BY <2>1, <2>2, <3>1 DEF HeadOf
  <2> QED
    BY <2>3, <2>4, <2>2
<1> HIDE DEF new, first, rest, L, longer
<1>16. walk' = [m |-> "append", i |-> i, lst |-> rest, head |-> first, tail |-> new, n |-> n, frames |-> frames]
  <2> DEFINE u == [walk EXCEPT !.lst = rest]
             v == [u EXCEPT !.tail = new]
  <2>1. u = [m |-> "append", i |-> i, lst |-> rest, head |-> head, tail |-> tail, n |-> n, frames |-> frames]
    <3>1. walk = [m |-> "append", i |-> i, lst |-> lst, head |-> head, tail |-> tail, n |-> n, frames |-> frames]
      BY <1>1
    <3> QED
      BY ONLY <3>1
  <2>2. v = [m |-> "append", i |-> i, lst |-> rest, head |-> head, tail |-> new, n |-> n, frames |-> frames]
    <3> HIDE DEF u
    <3> QED
      BY ONLY <2>1
  <2>3. [v EXCEPT !.head = first]
          = [m |-> "append", i |-> i, lst |-> rest, head |-> first, tail |-> new, n |-> n, frames |-> frames]
    <3> HIDE DEF v
    <3> QED
      BY ONLY <2>2
  <2> QED
    BY ONLY <1>3, <2>3
<1>17. Copies(store', g[i], Len(g[i - 1]) + (k + 1))
  BY <1>9, <1>14
<1>18. first = HeadOf(Len(g[i - 1]) + (k + 1)) /\ new = TailOf(Len(g[i - 1]) + (k + 1))
  BY <1>9, <1>15
<1> QED
  BY <1>1, <1>3, <1>11, <1>16, <1>17, <1>18, NowAppend

\* What has been put together is what Joined says.
LEMMA JoinedIs ==
  ASSUME NEW N \in Nat, N = Len(args) - 1, NEW g, Joins(g, N)
  PROVE  Joined[Len(args) - 1] = g[N]
<1> DEFINE Rec(h) == h = [n \in 0..(Len(args) - 1) |-> IF n = 0 THEN << >> ELSE h[n - 1] \o ItemsGiven(n)]
<1>1. ASSUME NEW n \in 0..N PROVE g[n] = IF n = 0 THEN << >> ELSE g[n - 1] \o ItemsGiven(n)
  BY DEF Joins
<1>2. g = [m \in 0..N |-> g[m]]
  BY DEF Joins
<1>3. g = [n \in 0..N |-> IF n = 0 THEN << >> ELSE g[n - 1] \o ItemsGiven(n)]
  BY ONLY <1>1, <1>2
<1>4. Rec(g)
  BY <1>3
<1>5. Rec(Joined)
  <2>1. Joined = CHOOSE h : Rec(h)
    BY DEF Joined
  <2> HIDE DEF Rec
  <2> QED
    BY <1>4, <2>1
<1>6. \A n \in 0..N : Joined[n] = IF n = 0 THEN << >> ELSE Joined[n - 1] \o ItemsGiven(n)
  BY <1>5
<1> HIDE DEF Rec
<1> DEFINE A == {n \in Nat : n <= N => Joined[n] = g[n]}
<1>7. 0 \in A
  BY <1>1, <1>6
<1>8. ASSUME NEW n \in Nat, n \in A PROVE n + 1 \in A
  <2> SUFFICES ASSUME n + 1 <= N PROVE Joined[n + 1] = g[n + 1]
    OBVIOUS
  <2>1. n <= N /\ n + 1 \in 0..N /\ n + 1 # 0 /\ (n + 1) - 1 = n
    OBVIOUS
  <2>2. Joined[n] = g[n]
    BY <1>8, <2>1
  <2>3. Joined[n + 1] = Joined[(n + 1) - 1] \o ItemsGiven(n + 1)
    BY ONLY <1>6, <2>1
  <2>4. g[n + 1] = g[(n + 1) - 1] \o ItemsGiven(n + 1)
    BY ONLY <1>1, <2>1
  <2> QED
    BY ONLY <2>1, <2>2, <2>3, <2>4
<1>9. Nat \subseteq A
  <2> HIDE DEF A
  <2> QED
    BY <1>7, <1>8, SetInduction
<1> QED
  BY <1>9

\* Copied: the list is copied; append goes on to the next, or is done.
LEMMA CopiedInv ==
  ASSUME IInv, Copied
  PROVE  IInv'
<1>1. PICK i, lst, head, tail, n, frames, g, k :
        /\ walk = [m |-> "append", i |-> i, lst |-> lst, head |-> head, tail |-> tail, n |-> n, frames |-> frames]
        /\ GivenOK /\ primitive = "append" /\ Turn(i) /\ \A j \in 1..i : ListGiven(j)
        /\ Joins(g, i) /\ At(lst, i, k) /\ Copies(store, g[i], Len(g[i - 1]) + k)
        /\ head = HeadOf(Len(g[i - 1]) + k) /\ tail = TailOf(Len(g[i - 1]) + k)
  BY AppendFacts DEF Copied
<1>2. walk.i = i /\ walk.lst = lst /\ walk.head = head /\ walk.tail = tail
  BY <1>1
<1> DEFINE next == i + 1
           m == Len(g[i])
<1>3. /\ lst = nil
      /\ CASE next < Len(args) -> Loop(Look(next, head, tail))
           [] next = Len(args) /\ tail = nil -> Return(args[next])
           [] next = Len(args) /\ tail # nil -> Make(Put(store, tail, 2, args[next]), head)
  BY <1>2 DEF Copied
<1>4. i \in 1..Len(args) /\ Len(args) \in Nat /\ i \in 1..(Len(args) - 1)
  BY <1>1, TurnFacts, ArgumentFacts DEF Turn
<1>5. ListGiven(i)
  <2>1. i \in 1..i
    BY <1>4
  <2> QED
    BY <1>1, <2>1
<1>6. Len(g[i - 1]) + k = m /\ Sequential(g[i]) /\ m \in Nat
  <2>1. k = Len(ItemsGiven(i))
    BY <1>1, <1>3, <1>4, <1>5, AtFacts
  <2> QED
    BY <1>1, <1>5, <2>1, JoinsParts
<1>7. Copies(store, g[i], m) /\ head = HeadOf(m) /\ tail = TailOf(m) /\ Grown(store)
  BY <1>1, <1>6 DEF Copies
<1> HIDE DEF m
<1>8. next \in 1..Len(args) /\ next - 1 = i /\ Link(given.store, args[next]) /\ Sound /\ Linked(given.store)
  <2>1. next \in 1..Len(args) /\ next - 1 = i
    BY <1>4
  <2> QED
    BY <1>1, <2>1, ArgumentFacts
<1>9. CASE next < Len(args)
  <2>1. Loop([m |-> "finite", i |-> next, o |-> args[next], rabbit |-> args[next], head |-> head, tail |-> tail])
    <3>1. next # Len(args)
      BY <1>4, <1>9
    <3> QED
      BY <1>3, <1>9, <3>1 DEF Look
  <2>2. Turn(next)
    BY <1>1, <1>4, <1>9 DEF Turn, Walkers
  <2>3. Built(next - 1, head, tail)
    BY <1>1, <1>7, <1>8 DEF Built, m
  <2>4. Running(given.store, args[next], 0, args[next], args[next])
    BY <1>8, RaceStarts
  <2> HIDE DEF next
  <2> QED
    BY <1>1, <2>1, <2>2, <2>3, <2>4, NowFinite
<1>10. ASSUME next = Len(args) PROVE Joined[Len(args) - 1] = g[i] /\ Last(args) = args[next]
  <2>1. i \in Nat /\ i = Len(args) - 1
    BY <1>4, <1>10
  <2> QED
    BY <1>1, <1>10, <2>1, JoinedIs DEF Last
<1>11. next = Len(args) => \A j \in 1..(Len(args) - 1) : ListGiven(j)
  BY <1>1, <1>8
<1>12. DOMAIN g[i] = 1..m
  BY <1>6, Domain DEF m
<1>13. CASE next = Len(args) /\ tail = nil
  <2>1. m = 0
    BY <1>7, <1>13 DEF TailOf, nil, Ref
  <2>2. After(store, args[next])[0] = args[next]
    <3>1. After(store, args[next]) = After(given.store, args[next])
      <4>1. \A j \in DOMAIN given.store : store[j] = given.store[j]
        BY <1>7, <1>8 DEF Grown, Linked
      <4> HIDE DEF next
      <4> QED
        BY <1>8, <4>1, AfterSame
    <3>2. Trail(given.store, args[next], After(given.store, args[next]))
      <4> HIDE DEF next
      <4> QED
        BY <1>8, AfterFacts
    <3> QED
      BY <3>1, <3>2 DEF Trail
  <2> HIDE DEF next
  <2>3. AppendIs(store, args[next])
    <3>1. Len(g[i]) = 0 /\ \A j \in DOMAIN g[i] : FALSE
      BY <1>12, <2>1 DEF m
    <3> QED
      BY <1>10, <1>11, <1>13, <2>2, <3>1 DEF AppendIs
  <2>4. ListsAre(args[next]) /\ CopiesAre(store, args[next]) /\ EqualIs(args[next])
    BY <1>1, <2>3 DEF ListsAre, CopiesAre, EqualIs, Makers
  <2>5. Return(args[next])
    BY <1>3, <1>13, <1>4 DEF next
  <2> QED
    BY <1>1, <1>7, <2>4, <2>5, LateAnswer
<1>14. CASE next = Len(args) /\ tail # nil
  <2>1. m > 0 /\ tail = Ref(Len(given.store) + m) /\ head = Ref(Len(given.store) + 1)
    BY <1>6, <1>7, <1>14 DEF TailOf, HeadOf
  <2> HIDE DEF next
  <2>2. PICK t, c, last : t = store /\ c = g[i] /\ last = args[next]
    OBVIOUS
  <2> DEFINE u == Put(t, Ref(Len(given.store) + m), 2, last)
             v == Ref(Len(given.store) + 1)
  <2>3. Copies(t, c, m) /\ Link(given.store, last)
    BY <1>7, <1>8, <2>2
  <2>4. /\ Grown(u) /\ After(u, v)[m] = last
        /\ \A j \in 1..m : After(u, v)[j - 1] = Ref(Len(given.store) + j) /\ u[Len(given.store) + j].e[1] = c[j]
    BY ONLY <1>8, <2>1, <2>3, CopiedList
  <2>5. Make(u, v)
    BY <1>3, <1>14, <2>1, <2>2 DEF next
  <2> HIDE DEF u, v
  <2>6. AppendIs(u, v)
    <3>1. ASSUME NEW j \in 1..m PROVE u[After(u, v)[j - 1].a].e[1] = c[j] /\ Fresh(After(u, v)[j - 1])
      <4>1. After(u, v)[j - 1] = Ref(Len(given.store) + j) /\ u[Len(given.store) + j].e[1] = c[j]
        BY <2>4
      <4>2. Len(given.store) \in Nat
        BY <1>1, ArgumentFacts
      <4>3. Len(given.store) + j > Len(given.store)
        BY <1>6, <4>2
      <4> QED
        BY <4>1, <4>3 DEF Fresh, Ref
    <3>2. Len(c) = m /\ DOMAIN c = 1..m
      BY <1>12, <2>2 DEF m
    <3>3. Joined[Len(args) - 1] = c /\ Last(args) = last
      BY <1>10, <1>14, <2>2
    <3> QED
      BY <1>11, <1>14, <2>4, <3>1, <3>2, <3>3 DEF AppendIs
  <2>7. ListsAre(v) /\ CopiesAre(u, v) /\ EqualIs(v)
    BY <1>1, <2>6 DEF ListsAre, CopiesAre, EqualIs, Makers
  <2>8. OnlyNamedChanges'
    <3>1. given' = given /\ store' = u
      BY <2>5 DEF Make
    <3> QED
      BY <1>1, <2>4, <3>1, GrownKeeps
  <2> QED
    BY <1>1, <2>5, <2>7, <2>8, Made
<1> QED
  <2>1. next < Len(args) \/ next = Len(args)
    BY <1>4
  <2> QED
    BY <1>9, <1>13, <1>14, <2>1

-----------------------------------------------------------------------------
(* The steps: reverse.                                                     *)

\* A loop that reverses.
LEMMA NowReverse ==
  ASSUME GivenOK, primitive = "reverse", Turn(1), ListGiven(1), NEW lst, NEW tail, lst # nil,
         NEW k, At(lst, 1, k), Reversed(store', ItemsGiven(1), k), tail = TailOf(k),
         given' = given, walk' = [m |-> "reverse", lst |-> lst, tail |-> tail]
  PROVE  IInv'
<1>1. InReverse'
  BY DEF InReverse, Turn, At, ListGiven, Reversed, Grown, ItemsGiven, TailOf, args, primitive
<1>2. OnlyNamedChanges'
  BY GrownKeeps DEF Reversed
<1> QED
  BY <1>1, <1>2, ToReverse

\* The empty list has no elements, in any store.
LEMMA NilListed ==
  ASSUME NEW t, Len(t) \in Nat
  PROVE  Proper(t, nil) /\ Len(Listed(t, nil)) = 0 /\ \A f : Listed(t, nil) = [j \in 1..0 |-> f[j]]
<1>1. After(t, nil) = [n \in Nat |-> nil]
  BY NilChain, AfterIs
<1>2. ListOfLength(t, nil, 0)
  BY <1>1 DEF ListOfLength
<1>3. Listed(t, nil) = [j \in 1..0 |-> t[After(t, nil)[j - 1].a].e[1]]
  BY <1>2, ListedIs
<1>4. Proper(t, nil)
  BY <1>1 DEF Proper
<1> DEFINE F == [j \in 1..0 |-> t[After(t, nil)[j - 1].a].e[1]]
<1>5. F = [j \in 1..0 |-> F[j]]
  OBVIOUS
<1>6. Len(F) = 0
  <2> HIDE DEF F
  <2> QED
    BY <1>5, IsSequence
<1>7. \A f : F = [j \in 1..0 |-> f[j]]
  OBVIOUS
<1> QED
  BY ONLY <1>3, <1>4, <1>6, <1>7

\* StartReverse: what is to be reversed is empty, or its first pair is copied next.
LEMMA StartReverseInv ==
  ASSUME IInv, StartReverse
  PROVE  IInv'
<1>1. /\ GivenOK /\ Turn(walk.i) /\ Built(walk.i - 1, walk.head, walk.tail) /\ ListGiven(walk.i) /\ Sound /\ Linked(given.store)
      /\ primitive = "reverse"
      /\ IF args[1] = nil THEN Return(nil) ELSE Loop([m |-> "reverse", lst |-> args[1], tail |-> nil])
  BY CheckedFacts DEF StartReverse, Accepted
<1>2. walk.i = 1 /\ Len(args) = 1 /\ store = given.store
  BY <1>1, TurnFacts DEF ListArgument, Arguments, Walkers, Built
<1>3. Turn(1) /\ ListGiven(1) /\ 1 \in 1..Len(args) /\ Link(given.store, args[1]) /\ Len(given.store) \in Nat
  BY <1>1, <1>2, TurnFacts, ArgumentFacts
<1>4. At(args[1], 1, 0)
  BY <1>1, <1>3, AfterFacts DEF At, Trail
<1>5. CASE args[1] = nil
  <2>1. Len(ItemsGiven(1)) = 0
    BY <1>1, <1>3, <1>4, <1>5, AtFacts
  <2>2. Proper(store, nil) /\ Len(Listed(store, nil)) = 0 /\ \A f : Listed(store, nil) = [j \in 1..0 |-> f[j]]
    BY <1>2, <1>3, NilListed
  <2> DEFINE r == Reverse(ItemsGiven(1))
  <2>3. r = [j \in 1..0 |-> r[j]]
    BY <2>1 DEF Reverse
  <2>4. Listed(store, nil) = r
    BY <2>2, <2>3
  <2>5. \A j \in 0..(Len(Listed(store, nil)) - 1) : FALSE
    BY <2>2
  <2>6. ReverseIs(store, nil)
    BY <1>2, <1>3, <2>2, <2>4, <2>5 DEF ReverseIs
  <2>7. ListsAre(nil) /\ CopiesAre(store, nil) /\ EqualIs(nil)
    BY <1>1, <2>6 DEF ListsAre, CopiesAre, EqualIs, Makers
  <2> QED
    BY <1>1, <1>2, <1>5, <2>7, PlainAnswer
<1>6. CASE args[1] # nil
  <2>1. given' = given /\ store' = given.store /\ walk' = [m |-> "reverse", lst |-> args[1], tail |-> nil]
    BY <1>1, <1>2, <1>6 DEF Loop
  <2>2. Reversed(given.store, ItemsGiven(1), 0)
    BY <1>1, GivenGrown DEF GivenOK
  <2>3. Reversed(store', ItemsGiven(1), 0) /\ nil = TailOf(0)
    BY <2>1, <2>2 DEF TailOf
  <2> QED
    BY <1>1, <1>3, <1>4, <1>6, <2>1, <2>3, NowReverse
<1> QED
  BY <1>5, <1>6

\* What the loop of reverse knows, and what copying the next pair makes.
LEMMA ReverseFacts ==
  ASSUME IInv, walk.m = "reverse"
  PROVE  \E k \in Nat :
           /\ walk = [m |-> "reverse", lst |-> walk.lst, tail |-> walk.tail]
           /\ GivenOK /\ primitive = "reverse" /\ Turn(1) /\ ListGiven(1) /\ 1 \in 1..Len(args) /\ Len(args) = 1
           /\ Sound /\ Len(given.store) \in Nat
           /\ cdr(walk.lst) = given.store[walk.lst.a].e[2] /\ At(cdr(walk.lst), 1, k + 1)
           /\ Reversed(Append(store, Pair(car(walk.lst), walk.tail)), ItemsGiven(1), k + 1)
           /\ Ref(Len(store) + 1) = TailOf(k + 1)
<1>1. GivenOK /\ Len(given.store) \in Nat /\ Sound
  BY ArgumentFacts DEF IInv
<1>2. PICK k : At(walk.lst, 1, k) /\ Reversed(store, ItemsGiven(1), k) /\ walk.tail = TailOf(k)
  BY DEF IInv, InReverse
<1>3. /\ walk = [m |-> "reverse", lst |-> walk.lst, tail |-> walk.tail]
      /\ primitive = "reverse" /\ Turn(1) /\ ListGiven(1) /\ walk.lst # nil
  BY DEF IInv, InReverse
<1>4. 1 \in 1..Len(args) /\ Len(args) = 1
  BY <1>1, <1>3, TurnFacts DEF Arguments, Walkers
<1>5. PICK lst : lst = walk.lst
  OBVIOUS
<1>6. /\ Link(given.store, lst) /\ Is(given.store, lst, "pair")
      /\ given.store[lst.a].e[1] = ItemsGiven(1)[k + 1] /\ At(given.store[lst.a].e[2], 1, k + 1)
  BY <1>1, <1>2, <1>3, <1>4, <1>5, AtFacts
<1>7. Grown(store) /\ k \in Nat /\ Len(store) = Len(given.store) + k
  BY <1>2 DEF Reversed
<1>8. store[lst.a] = given.store[lst.a]
  BY <1>1, <1>6, <1>7, GivenReads DEF Is
<1>9. car(walk.lst) = ItemsGiven(1)[k + 1] /\ cdr(walk.lst) = given.store[walk.lst.a].e[2]
  BY <1>5, <1>6, <1>8 DEF car, cdr
<1>10. Reversed(Append(store, Pair(ItemsGiven(1)[k + 1], IF k = 0 THEN nil ELSE Ref(Len(given.store) + k))), ItemsGiven(1), k + 1)
  <2>1. PICK t, c : t = store /\ c = ItemsGiven(1)
    OBVIOUS
  <2>2. Reversed(Append(t, Pair(c[k + 1], IF k = 0 THEN nil ELSE Ref(Len(given.store) + k))), c, k + 1)
    BY <1>1, <1>2, <2>1, ReverseGrows
  <2> QED
    BY ONLY <2>1, <2>2
<1>11. Ref(Len(store) + 1) = TailOf(k + 1)
  <2>1. \A x \in Nat, y \in Nat : (x + y) + 1 = x + (y + 1) /\ y + 1 # 0
    OBVIOUS
  <2> QED
    BY ONLY <1>1, <1>7, <2>1 DEF TailOf
<1>12. walk.tail = IF k = 0 THEN nil ELSE Ref(Len(given.store) + k)
  BY <1>2 DEF TailOf
<1> QED
  BY <1>1, <1>3, <1>4, <1>5, <1>6, <1>7, <1>9, <1>10, <1>11, <1>12

\* ReverseOne: a pair that is not the last is copied.
LEMMA ReverseOneInv ==
  ASSUME IInv, ReverseOne
  PROVE  IInv'
<1>1. PICK k \in Nat :
           /\ walk = [m |-> "reverse", lst |-> walk.lst, tail |-> walk.tail]
           /\ GivenOK /\ primitive = "reverse" /\ Turn(1) /\ ListGiven(1) /\ 1 \in 1..Len(args) /\ Len(args) = 1
           /\ Sound /\ Len(given.store) \in Nat
           /\ cdr(walk.lst) = given.store[walk.lst.a].e[2] /\ At(cdr(walk.lst), 1, k + 1)
           /\ Reversed(Append(store, Pair(car(walk.lst), walk.tail)), ItemsGiven(1), k + 1)
           /\ Ref(Len(store) + 1) = TailOf(k + 1)
  BY ReverseFacts DEF ReverseOne, Reversing
<1>2. PICK rest, new, lst, tail :
        /\ rest = cdr(walk.lst) /\ new = Ref(Len(store) + 1)
        /\ walk = [m |-> "reverse", lst |-> lst, tail |-> tail]
  BY <1>1
<1>3. /\ cdr(walk.lst) # nil /\ given' = given
      /\ store' = Append(store, Pair(car(walk.lst), walk.tail))
      /\ walk' = [walk EXCEPT !.lst = rest, !.tail = new]
  BY <1>2 DEF ReverseOne, Reversing, Next_free
<1>4. walk' = [m |-> "reverse", lst |-> rest, tail |-> new]
  <2> DEFINE u == [walk EXCEPT !.lst = rest]
  <2>1. u = [m |-> "reverse", lst |-> rest, tail |-> tail]
    BY ONLY <1>2
  <2>2. [u EXCEPT !.tail = new] = [m |-> "reverse", lst |-> rest, tail |-> new]
    <3> HIDE DEF u
    <3> QED
      BY ONLY <2>1
  <2> QED
    BY ONLY <1>3, <2>2
<1>5. /\ rest # nil /\ At(rest, 1, k + 1) /\ Reversed(store', ItemsGiven(1), k + 1) /\ new = TailOf(k + 1)
  BY <1>1, <1>2, <1>3
<1> QED
  BY <1>1, <1>3, <1>4, <1>5, NowReverse

\* ReverseLast: the last pair is copied, and its copy is the first of the answer.
LEMMA ReverseLastInv ==
  ASSUME IInv, ReverseLast
  PROVE  IInv'
<1>1. PICK k \in Nat :
           /\ walk = [m |-> "reverse", lst |-> walk.lst, tail |-> walk.tail]
           /\ GivenOK /\ primitive = "reverse" /\ Turn(1) /\ ListGiven(1) /\ 1 \in 1..Len(args) /\ Len(args) = 1
           /\ Sound /\ Len(given.store) \in Nat
           /\ cdr(walk.lst) = given.store[walk.lst.a].e[2] /\ At(cdr(walk.lst), 1, k + 1)
           /\ Reversed(Append(store, Pair(car(walk.lst), walk.tail)), ItemsGiven(1), k + 1)
           /\ Ref(Len(store) + 1) = TailOf(k + 1)
  BY ReverseFacts DEF ReverseLast
<1>2. PICK t, v, c, n : t = Append(store, Pair(car(walk.lst), walk.tail)) /\ v = Ref(Len(store) + 1) /\ c = ItemsGiven(1) /\ n = k + 1
  OBVIOUS
<1>3. cdr(walk.lst) = nil /\ Make(t, v)
  BY <1>2 DEF ReverseLast, New, Next_free
<1>4. n = Len(c) /\ Sequential(c)
  <2>1. At(nil, 1, n)
    BY <1>1, <1>2, <1>3
  <2> QED
    BY <1>1, <1>2, <2>1, AtFacts
<1>5. Reversed(t, c, n) /\ n > 0 /\ n \in Nat /\ v = Ref(Len(given.store) + n)
  <2>1. n > 0 /\ n \in Nat /\ n # 0
    BY <1>2
  <2> QED
    BY <1>1, <1>2, <2>1 DEF TailOf
<1>6. /\ ListOfLength(t, v, n) /\ Trail(t, v, After(t, v))
      /\ Listed(t, v) = [j \in 1..n |-> c[n - j + 1]]
      /\ \A j \in 0..(n - 1) : After(t, v)[j] = Ref(Len(given.store) + (n - j))
  BY <1>1, <1>5, ReversedList
<1>7. Grown(t) /\ Len(t) = Len(given.store) + n
  BY <1>5 DEF Reversed
<1>8. Proper(t, v)
  <2>1. Len(t) \in Nat /\ Len(t) >= n
    <3>1. \A x \in Nat, y \in Nat : x + y \in Nat /\ x + y >= y
      OBVIOUS
    <3> QED
      BY ONLY <1>1, <1>5, <1>7, <3>1
  <2> QED
    BY <1>6, <2>1, ListPairs DEF Proper
<1>9. Listed(t, v) = Reverse(c) /\ Len(Listed(t, v)) = n
  <2> DEFINE F == [j \in 1..n |-> c[n - j + 1]]
  <2>1. F = [j \in 1..n |-> F[j]]
    OBVIOUS
  <2>2. Len(F) = n
    <3> HIDE DEF F
    <3> QED
      BY <1>5, <2>1, IsSequence
  <2>3. Reverse(c) = F
    BY <1>4 DEF Reverse
  <2> QED
    BY <1>6, <2>2, <2>3
<1>10. ASSUME NEW j \in 0..(n - 1) PROVE Fresh(After(t, v)[j])
  <2>1. Len(given.store) + (n - j) > Len(given.store)
    <3>1. n - j > 0 /\ n - j \in Nat
      BY <1>5
    <3>2. \A x \in Nat, y \in Nat : y > 0 => x + y > x
      OBVIOUS
    <3> QED
      BY ONLY <1>1, <3>1, <3>2
  <2>2. After(t, v)[j] = Ref(Len(given.store) + (n - j))
    BY <1>6
  <2> QED
    BY <2>1, <2>2 DEF Fresh, Ref
<1>11. ReverseIs(t, v)
  BY <1>1, <1>2, <1>8, <1>9, <1>10 DEF ReverseIs
<1>12. ListsAre(v) /\ CopiesAre(t, v) /\ EqualIs(v)
  BY <1>1, <1>11 DEF ListsAre, CopiesAre, EqualIs, Makers
<1>13. OnlyNamedChanges'
  <2>1. given' = given /\ store' = t
    BY <1>3 DEF Make
  <2> QED
    BY <1>1, <1>7, <2>1, GrownKeeps
<1> QED
  BY <1>1, <1>3, <1>12, <1>13, Made

-----------------------------------------------------------------------------
(* The steps: what memq, member, assq and assoc look for.                  *)

\* What the loop that searches knows.
LEMMA FindFacts ==
  ASSUME IInv, walk.m \in {"memq", "member", "assq", "assoc"}
  PROVE  \E i, lst, head, tail, c, frames, n :
           /\ walk = [m |-> primitive, i |-> i, lst |-> lst, head |-> head, tail |-> tail, n |-> c, frames |-> frames]
           /\ GivenOK /\ primitive \in {"memq", "member", "assq", "assoc"} /\ Turn(2) /\ ListGiven(2)
           /\ store = given.store /\ 2 \in 1..Len(args) /\ Len(args) = 2
           /\ At(lst, 2, n) /\ \A j \in 0..(n - 1) : ~Fits(j)
           /\ \/ frames = << >>
              \/ /\ primitive \in {"member", "assoc"} /\ lst # nil /\ ~NoEntry(n)
                 /\ Frames(frames, args[1], Key(n))
<1>1. /\ LoopShape(walk) /\ primitive = walk.m /\ Turn(2) /\ ListGiven(2) /\ store = given.store /\ GivenOK
  BY DEF IInv, InFind
<1>2. PICK n : /\ At(walk.lst, 2, n) /\ \A j \in 0..(n - 1) : ~Fits(j)
               /\ \/ walk.frames = << >>
                  \/ /\ primitive \in {"member", "assoc"} /\ walk.lst # nil /\ ~NoEntry(n)
                     /\ Frames(walk.frames, args[1], Key(n))
  BY DEF IInv, InFind
<1>3. 2 \in 1..Len(args) /\ Len(args) = 2
  BY <1>1, TurnFacts DEF Arguments, Walkers
<1>4. walk = [m |-> primitive, i |-> walk.i, lst |-> walk.lst, head |-> walk.head, tail |-> walk.tail, n |-> walk.n,
              frames |-> walk.frames]
  BY <1>1 DEF LoopShape
<1> QED
  BY <1>1, <1>2, <1>3, <1>4

\* Nothing fits up to the end of the list: nothing is found.
LEMMA FoundNone ==
  ASSUME GivenOK, 2 \in 1..Len(args), ListGiven(2), NEW n, At(nil, 2, n), \A j \in 0..(n - 1) : ~Fits(j)
  PROVE  Found = {Boolean(FALSE)}
<1>1. n = Len(ItemsGiven(2))
  BY AtFacts
<1>2. {j \in 0..(Len(ItemsGiven(2)) - 1) : Fits(j)} = {}
  BY <1>1
<1> QED
  BY <1>2 DEF Found, Least

\* Where the loop is, is what the properties call the n-th place.
LEMMA PlaceIs ==
  ASSUME NEW lst, NEW n, At(lst, 2, n)
  PROVE  Place(n) = lst /\ Item(n) = given.store[lst.a].e[1]
BY DEF At, Place, Item

\* The first that fits is found.
LEMMA FoundFirst ==
  ASSUME GivenOK, primitive \in {"memq", "member", "assq", "assoc"}, 2 \in 1..Len(args), ListGiven(2),
         NEW lst, NEW n, At(lst, 2, n), lst # nil,
         \A j \in 0..(n - 1) : ~Fits(j), Fits(n)
  PROVE  /\ primitive \in {"memq", "member"} => lst \in Found
         /\ primitive \in {"assq", "assoc"} /\ NoEntry(n) => Error \in Found
         /\ primitive \in {"assq", "assoc"} /\ ~NoEntry(n) => given.store[lst.a].e[1] \in Found
<1> DEFINE S == {j \in 0..(Len(ItemsGiven(2)) - 1) : Fits(j)}
           value(j) == CASE primitive \in {"memq", "member"} -> Place(j)
                         [] NoEntry(j) -> Error
                         [] primitive \in {"assq", "assoc"} /\ ~NoEntry(j) -> Item(j)
<1>1. n \in Nat /\ n \in 0..(Len(ItemsGiven(2)) - 1)
  <2>1. Len(ItemsGiven(2)) \in Nat /\ n \in 0..Len(ItemsGiven(2)) /\ n + 1 \in 1..Len(ItemsGiven(2))
    BY AtFacts
  <2>2. \A N \in Nat : n \in 0..N /\ n + 1 \in 1..N => n \in Nat /\ n \in 0..(N - 1)
    OBVIOUS
  <2> QED
    BY ONLY <2>1, <2>2
<1>2. n \in S /\ \A j \in S : n <= j
  <2>1. ASSUME NEW j \in S PROVE n <= j
    <3>1. j \in Nat /\ Fits(j)
      OBVIOUS
    <3>2. j \notin 0..(n - 1)
      BY <3>1
    <3> QED
      BY ONLY <1>1, <3>1, <3>2
  <2> QED
    BY <1>1, <2>1
<1>3. S \subseteq Int
  OBVIOUS
<1> HIDE DEF S
<1>4. Least(S) = {n}
  <2>1. \A i \in S : (\A j \in S : i <= j) => i = n
    BY <1>1, <1>2, <1>3
  <2>2. (CHOOSE i \in S : \A j \in S : i <= j) = n
    BY <1>2, <2>1
  <2> QED
    BY <1>2, <2>2 DEF Least
<1>5. Found = {value(j) : j \in {n}}
  BY <1>4 DEF Found, S
<1>6. Place(n) = lst /\ Item(n) = given.store[lst.a].e[1]
  BY PlaceIs
<1>7. value(n) \in Found
  <2> HIDE DEF value
  <2> QED
    BY <1>5
<1> QED
  BY <1>6, <1>7 DEF NoEntry

\* An answer of a search.
LEMMA FoundAnswer ==
  ASSUME GivenOK, store = given.store, primitive \in {"memq", "member", "assq", "assoc"},
         Len(args) = 2, ListGiven(2), NEW v \in Found, Return(v)
  PROVE  IInv'
<1>1. ListsAre(v) /\ CopiesAre(store, v) /\ EqualIs(v)
  BY DEF ListsAre, CopiesAre, EqualIs, Makers
<1> QED
  BY <1>1, PlainAnswer

\* The pair the loop is at is one of the program, and so are its parts.
LEMMA EntryFacts ==
  ASSUME GivenOK, 2 \in 1..Len(args), ListGiven(2), NEW lst, NEW n, At(lst, 2, n), lst # nil
  PROVE  /\ Value(given.store, Item(n))
         /\ primitive \in {"memq", "member", "assq", "assoc"} /\ ~NoEntry(n) => Value(given.store, Key(n))
<1>1. Link(given.store, lst) /\ Is(given.store, lst, "pair") /\ Sound
  BY AtFacts, ArgumentFacts
<1>2. ASSUME NEW v, Is(given.store, v, "pair"), Link(given.store, v)
      PROVE  Value(given.store, given.store[v.a].e[1])
  <2>1. Value(given.store, v) /\ v.k = "ref" /\ given.store[v.a].k = "pair"
    BY <1>2 DEF Is, Link, Value
  <2>2. Object(given.store, given.store[v.a])
    BY <1>1, <2>1 DEF Sound, Value
  <2>3. 1 \in 1..Len(given.store[v.a].e)
    <3>1. Len(given.store[v.a].e) = 2
      BY <2>1, <2>2 DEF Object
    <3> QED
      BY ONLY <3>1
  <2> QED
    BY <1>1, <2>1, <2>3, PartIsValue
<1>3. Item(n) = given.store[lst.a].e[1]
  BY PlaceIs
<1>4. Value(given.store, Item(n))
  BY <1>1, <1>2, <1>3
<1>5. ASSUME primitive \in {"assq", "assoc"}, ~NoEntry(n) PROVE Value(given.store, given.store[Item(n).a].e[1])
  <2>1. Is(given.store, Item(n), "pair") /\ Link(given.store, Item(n))
    BY <1>4, <1>5, ValueLink DEF NoEntry
  <2> QED
    BY <1>2, <2>1
<1> QED
  BY <1>4, <1>5 DEF Key

\* A loop that searches goes on behind what does not fit.
LEMMA FindGoes ==
  ASSUME GivenOK, primitive \in {"memq", "member", "assq", "assoc"}, Turn(2), ListGiven(2),
         store = given.store, 2 \in 1..Len(args), NEW i, NEW lst, NEW head, NEW tail, NEW c, NEW n, At(lst, 2, n),
         lst # nil, \A j \in 0..(n - 1) : ~Fits(j), ~Fits(n),
         Loop([m |-> primitive, i |-> i, lst |-> store[lst.a].e[2], head |-> head, tail |-> tail, n |-> c,
               frames |-> << >>])
  PROVE  IInv'
<1>1. At(store[lst.a].e[2], 2, n + 1)
  BY AtFacts
<1>2. \A j \in 0..((n + 1) - 1) : ~Fits(j)
  <2>1. n \in Nat
    BY DEF At
  <2>2. \A j : j \in 0..((n + 1) - 1) => j \in 0..(n - 1) \/ j = n
    BY <2>1
  <2> QED
    BY <2>2
<1> QED
  BY <1>1, <1>2, NowFind

\* Find: a pair of the list is looked at.
LEMMA FindInv ==
  ASSUME IInv, Find
  PROVE  IInv'
<1>1. PICK i, lst, head, tail, c, frames, n :
           /\ walk = [m |-> primitive, i |-> i, lst |-> lst, head |-> head, tail |-> tail, n |-> c, frames |-> frames]
           /\ GivenOK /\ primitive \in {"memq", "member", "assq", "assoc"} /\ Turn(2) /\ ListGiven(2)
           /\ store = given.store /\ 2 \in 1..Len(args) /\ Len(args) = 2
           /\ At(lst, 2, n) /\ \A j \in 0..(n - 1) : ~Fits(j)
           /\ \/ frames = << >>
              \/ /\ primitive \in {"member", "assoc"} /\ lst # nil /\ ~NoEntry(n)
                 /\ Frames(frames, args[1], Key(n))
  BY FindFacts DEF Find
<1>2. walk.lst = lst /\ walk.frames = frames /\ frames = << >>
  BY <1>1 DEF Find
<1> DEFINE key == IF primitive \in {"memq", "member"} THEN car(lst) ELSE car(car(lst))
<1>3. (CASE lst = nil -> Return(Boolean(FALSE))
         [] lst # nil /\ primitive \in {"assq", "assoc"} /\ ~is_pair(car(lst)) -> Fail
         [] lst # nil /\ (primitive \in {"assq", "assoc"} => is_pair(car(lst))) ->
              CASE primitive \in {"member", "assoc"} -> Loop([walk EXCEPT !.frames = <<Frame(args[1], key)>>])
                [] primitive = "memq" /\ key = args[1] -> Return(lst)
                [] primitive = "assq" /\ key = args[1] -> Return(car(lst))
                [] OTHER -> Loop([walk EXCEPT !.lst = cdr(@)]))
  BY <1>2 DEF Find
<1>4. Place(n) = lst /\ Item(n) = given.store[lst.a].e[1]
  BY <1>1, PlaceIs
<1>5. car(lst) = Item(n) /\ key = Key(n)
  BY <1>1, <1>4 DEF car, Key
<1>6. NoEntry(n) <=> primitive \in {"assq", "assoc"} /\ ~is_pair(car(lst))
  BY <1>1, <1>5 DEF NoEntry, is_pair
<1> HIDE DEF key
<1>7. CASE lst = nil
  <2>1. Boolean(FALSE) \in Found
    BY <1>1, <1>7, FoundNone
  <2> QED
    BY <1>1, <1>3, <1>7, <2>1, FoundAnswer
<1>8. CASE lst # nil /\ NoEntry(n)
  <2>1. Error \in Found /\ Return(Error)
    <3>1. Fits(n) /\ primitive \in {"assq", "assoc"}
      BY <1>6, <1>8 DEF Fits
    <3>2. Return(Error)
      BY <1>3, <1>6, <1>8 DEF Fail
    <3> QED
      BY <1>1, <1>8, <3>1, <3>2, FoundFirst
  <2> QED
    BY <1>1, <2>1, FoundAnswer
<1>9. ASSUME lst # nil, ~NoEntry(n)
      PROVE  CASE primitive \in {"member", "assoc"} -> Loop([walk EXCEPT !.frames = <<Frame(args[1], key)>>])
               [] primitive = "memq" /\ key = args[1] -> Return(lst)
               [] primitive = "assq" /\ key = args[1] -> Return(car(lst))
               [] OTHER -> Loop([walk EXCEPT !.lst = cdr(@)])
  BY <1>3, <1>6, <1>9
<1>10. CASE lst # nil /\ ~NoEntry(n) /\ primitive \in {"member", "assoc"}
  <2>1. PICK F : F = <<Frame(args[1], key)>>
    OBVIOUS
  <2>2. Loop([walk EXCEPT !.frames = F])
    BY <1>9, <1>10, <2>1
  <2>3. Value(given.store, args[1]) /\ Value(given.store, Key(n))
    BY <1>1, <1>10, EntryFacts, ArgumentFacts
  <2>4. Frames(F, args[1], Key(n))
    BY <1>5, <2>1, <2>3, FirstFrame
  <2>5. [walk EXCEPT !.frames = F]
          = [m |-> primitive, i |-> i, lst |-> lst, head |-> head, tail |-> tail, n |-> c, frames |-> F]
    <3>1. walk = [m |-> primitive, i |-> i, lst |-> lst, head |-> head, tail |-> tail, n |-> c, frames |-> frames]
      BY <1>1
    <3> QED
      BY ONLY <3>1
  <2>6. Loop([m |-> primitive, i |-> i, lst |-> lst, head |-> head, tail |-> tail, n |-> c, frames |-> F])
    BY ONLY <2>2, <2>5
  <2> QED
    BY <1>1, <1>10, <2>4, <2>6, NowFind
<1>11. CASE lst # nil /\ ~NoEntry(n) /\ primitive \in {"memq", "assq"} /\ key = args[1]
  <2>1. Fits(n)
    BY <1>5, <1>11 DEF Fits
  <2>2. CASE primitive = "memq"
    <3>1. lst \in Found
      BY <1>1, <1>11, <2>1, <2>2, FoundFirst
    <3>2. Return(lst)
      BY <1>9, <1>11, <2>2
    <3> QED
      BY <1>1, <3>1, <3>2, FoundAnswer
  <2>3. CASE primitive = "assq"
    <3>1. car(lst) \in Found
      BY <1>1, <1>4, <1>5, <1>11, <2>1, <2>3, FoundFirst
    <3>2. Return(car(lst))
      BY <1>9, <1>11, <2>3
    <3> QED
      BY <1>1, <3>1, <3>2, FoundAnswer
  <2> QED
    BY <1>11, <2>2, <2>3
<1>12. CASE lst # nil /\ ~NoEntry(n) /\ primitive \in {"memq", "assq"} /\ key # args[1]
  <2>1. ~Fits(n)
    BY <1>5, <1>12 DEF Fits
  <2>2. PICK rest : rest = store[lst.a].e[2]
    OBVIOUS
  <2>3. Loop([walk EXCEPT !.lst = rest])
    <3>1. cdr(walk.lst) = rest
      BY <1>2, <2>2 DEF cdr
    <3>2. Loop([walk EXCEPT !.lst = cdr(@)])
      BY <1>9, <1>12
    <3> QED
      BY ONLY <3>1, <3>2
  <2>4. [walk EXCEPT !.lst = rest]
          = [m |-> primitive, i |-> i, lst |-> rest, head |-> head, tail |-> tail, n |-> c, frames |-> << >>]
    <3>1. walk = [m |-> primitive, i |-> i, lst |-> lst, head |-> head, tail |-> tail, n |-> c, frames |-> << >>]
      BY <1>1, <1>2
    <3> QED
      BY ONLY <3>1
  <2>5. Loop([m |-> primitive, i |-> i, lst |-> store[lst.a].e[2], head |-> head, tail |-> tail, n |-> c,
              frames |-> << >>])
    BY ONLY <2>2, <2>3, <2>4
  <2> QED
    BY <1>1, <1>12, <2>1, <2>5, FindGoes
<1> QED
  BY <1>1, <1>7, <1>8, <1>10, <1>11, <1>12

-----------------------------------------------------------------------------
(* The steps: is_equal.                                                    *)

\* A comparison for equal?.
LEMMA NowEqual ==
  ASSUME GivenOK, primitive = "equal?", Len(args) = 2, store = given.store, NEW F, Frames(F, args[1], args[2]),
         Loop([m |-> "equal?", lst |-> nil, frames |-> F])
  PROVE  IInv'
<1>1. /\ given' = given /\ store' = given.store /\ walk' = [m |-> "equal?", lst |-> nil, frames |-> F]
  BY DEF Loop
<1>2. args' = args /\ primitive' = primitive
  BY <1>1, TellsStay
<1>3. (walk = [m |-> "equal?", lst |-> nil, frames |-> walk.frames])'
  BY <1>1
<1>4. Frames(F, args[1], args[2])'
  BY <1>1, <1>2, FramesStay
<1>6. InEqual'
  BY <1>1, <1>4 DEF InEqual, args, primitive
<1>7. OnlyNamedChanges'
  BY <1>1, SameKeeps
<1> QED
  BY <1>1, <1>6, <1>7, ToEqual

\* StartEqual: equal? compares its arguments.
LEMMA StartEqualInv ==
  ASSUME IInv, StartEqual
  PROVE  IInv'
<1>1. GivenOK /\ store = given.store /\ primitive = "equal?" /\ Len(args) \in Nat
  BY ArgumentFacts DEF IInv, InRest, StartEqual
<1>2. CASE Len(args) # 2
  <2>1. Return(Error)
    BY <1>2 DEF StartEqual, Fail
  <2>2. ListsAre(Error) /\ CopiesAre(store, Error) /\ EqualIs(Error)
    BY <1>1, <1>2 DEF ListsAre, CopiesAre, EqualIs, Makers
  <2> QED
    BY <1>1, <2>1, <2>2, PlainAnswer
<1>3. CASE Len(args) = 2
  <2>1. PICK F : F = <<Frame(args[1], args[2])>>
    OBVIOUS
  <2>2. Loop([m |-> "equal?", lst |-> nil, frames |-> F])
    BY <1>1, <1>3, <2>1 DEF StartEqual
  <2>3. Value(given.store, args[1]) /\ Value(given.store, args[2])
    BY <1>1, <1>3, ArgumentFacts
  <2>4. Frames(F, args[1], args[2])
    BY <2>1, <2>3, FirstFrame
  <2> QED
    BY <1>1, <1>3, <2>2, <2>4, NowEqual
<1> QED
  BY <1>2, <1>3

\* What a comparison knows: the one of equal?, or the one at a pair.
LEMMA ComparingFacts ==
  ASSUME IInv, Comparing
  PROVE  \/ /\ GivenOK /\ store = given.store
            /\ walk = [m |-> "equal?", lst |-> nil, frames |-> walk.frames]
            /\ primitive = "equal?" /\ Len(args) = 2 /\ Frames(walk.frames, args[1], args[2])
         \/ \E i, lst, head, tail, c, frames, n :
              /\ walk = [m |-> primitive, i |-> i, lst |-> lst, head |-> head, tail |-> tail, n |-> c, frames |-> frames]
              /\ GivenOK /\ primitive \in {"member", "assoc"} /\ Turn(2) /\ ListGiven(2)
              /\ store = given.store /\ 2 \in 1..Len(args) /\ Len(args) = 2
              /\ At(lst, 2, n) /\ \A j \in 0..(n - 1) : ~Fits(j)
              /\ lst # nil /\ ~NoEntry(n) /\ Frames(frames, args[1], Key(n))
<1>1. CASE walk.m = "equal?"
  BY <1>1 DEF IInv, InEqual
<1>2. CASE walk.m \in {"member", "assoc"}
  <2>1. PICK i, lst, head, tail, c, frames, n :
           /\ walk = [m |-> primitive, i |-> i, lst |-> lst, head |-> head, tail |-> tail, n |-> c, frames |-> frames]
           /\ GivenOK /\ primitive \in {"memq", "member", "assq", "assoc"} /\ Turn(2) /\ ListGiven(2)
           /\ store = given.store /\ 2 \in 1..Len(args) /\ Len(args) = 2
           /\ At(lst, 2, n) /\ \A j \in 0..(n - 1) : ~Fits(j)
           /\ \/ frames = << >>
              \/ /\ primitive \in {"member", "assoc"} /\ lst # nil /\ ~NoEntry(n)
                 /\ Frames(frames, args[1], Key(n))
    BY <1>2, FindFacts
  <2>2. frames # << >>
    BY <2>1 DEF Comparing
  <2> QED
    BY <2>1, <2>2
<1> QED
  BY <1>1, <1>2 DEF Comparing

\* What the top frame of a comparison says.
LEMMA TopFacts ==
  ASSUME IInv, Comparing
  PROVE  /\ GivenOK /\ Sound /\ store = given.store
         /\ Head(walk.frames) = walk.frames[1] /\ IsFrame(walk.frames[1])
         /\ Value(given.store, walk.frames[1].x) /\ Value(given.store, walk.frames[1].y)
         /\ walk.frames[1].i > 1 => PartsAlike(walk.frames[1], walk.frames[1].i)
         /\ primitive \in {"equal?", "member", "assoc"}
<1>1. GivenOK /\ store = given.store /\ (\E v, w : Frames(walk.frames, v, w)) /\ primitive \in {"equal?", "member", "assoc"}
  <2>1. CASE primitive = "equal?"
    BY <2>1, ComparingFacts
  <2>2. CASE primitive # "equal?"
    <3>1. PICK i, lst, head, tail, c, frames, n :
              /\ walk = [m |-> primitive, i |-> i, lst |-> lst, head |-> head, tail |-> tail, n |-> c, frames |-> frames]
              /\ GivenOK /\ primitive \in {"member", "assoc"} /\ Turn(2) /\ ListGiven(2)
              /\ store = given.store /\ 2 \in 1..Len(args) /\ Len(args) = 2
              /\ At(lst, 2, n) /\ \A j \in 0..(n - 1) : ~Fits(j)
              /\ lst # nil /\ ~NoEntry(n) /\ Frames(frames, args[1], Key(n))
      BY <2>2, ComparingFacts
    <3>2. walk.frames = frames
      BY <3>1
    <3> QED
      BY <3>1, <3>2
  <2> QED
    BY <2>1, <2>2
<1>2. PICK v, w : Frames(walk.frames, v, w)
  BY <1>1
<1>3. PICK F : F = walk.frames
  OBVIOUS
<1>4. /\ Sequential(F) /\ F # << >> /\ Len(F) \in Nat
      /\ \A t \in 1..Len(F) : IsFrame(F[t])
      /\ F[1].i > 1 => PartsAlike(F[1], F[1].i)
  BY <1>2, <1>3 DEF Frames
<1>5. Len(F) \in Nat \ {0} /\ Head(F) = F[1]
  BY <1>4, Popped
<1>6. 1 \in 1..Len(F)
  BY <1>5
<1>7. IsFrame(F[1])
  BY <1>4, <1>6
<1>8. Sound
  BY <1>1, ArgumentFacts
<1> QED
  BY <1>1, <1>3, <1>4, <1>5, <1>7, <1>8 DEF IsFrame

\* A call of is_equal that returns no to all those under it.
LEMMA UnequalInv ==
  ASSUME IInv, Comparing, Unequal, ~Alike(walk.frames[1].x, walk.frames[1].y)
  PROVE  IInv'
<1>1. CASE primitive = "equal?"
  <2>1. /\ GivenOK /\ store = given.store /\ Len(args) = 2 /\ Frames(walk.frames, args[1], args[2]) /\ Sound
    BY <1>1, ComparingFacts, ArgumentFacts
  <2>2. ~Alike(args[1], args[2])
    BY <2>1, UnlikeAtBottom
  <2>3. Return(Boolean(FALSE))
    BY <1>1 DEF Unequal
  <2>4. Boolean(Alike(args[1], args[2])) = Boolean(FALSE)
    BY <2>2 DEF Boolean, Alike
  <2>5. ListsAre(Boolean(FALSE)) /\ CopiesAre(store, Boolean(FALSE)) /\ EqualIs(Boolean(FALSE))
    BY <1>1, <2>4 DEF ListsAre, CopiesAre, EqualIs, Makers
  <2> QED
    BY <2>1, <2>3, <2>5, PlainAnswer
<1>2. CASE primitive # "equal?"
  <2>1. PICK i, lst, head, tail, c, frames, n :
              /\ walk = [m |-> primitive, i |-> i, lst |-> lst, head |-> head, tail |-> tail, n |-> c, frames |-> frames]
              /\ GivenOK /\ primitive \in {"member", "assoc"} /\ Turn(2) /\ ListGiven(2)
              /\ store = given.store /\ 2 \in 1..Len(args) /\ Len(args) = 2
              /\ At(lst, 2, n) /\ \A j \in 0..(n - 1) : ~Fits(j)
              /\ lst # nil /\ ~NoEntry(n) /\ Frames(frames, args[1], Key(n))
    BY <1>2, ComparingFacts
  <2>2. walk.frames = frames /\ walk.lst = lst /\ Sound
    BY <2>1, ArgumentFacts
  <2>3. ~Alike(args[1], Key(n))
    <3>1. Frames(frames, args[1], Key(n)) /\ ~Alike(frames[1].x, frames[1].y)
      BY <2>1, <2>2
    <3> QED
      BY <2>2, <3>1, UnlikeAtBottom
  <2>4. ~Fits(n)
    BY <2>1, <2>3 DEF Fits
  <2>5. PICK rest : rest = store[lst.a].e[2]
    OBVIOUS
  <2>6. Loop([walk EXCEPT !.lst = rest, !.frames = << >>])
    <3>1. cdr(walk.lst) = rest
      BY <2>2, <2>5 DEF cdr
    <3>2. Loop([walk EXCEPT !.lst = cdr(@), !.frames = << >>])
      BY <1>2 DEF Unequal
    <3> QED
      BY ONLY <3>1, <3>2
  <2>7. [walk EXCEPT !.lst = rest, !.frames = << >>]
          = [m |-> primitive, i |-> i, lst |-> rest, head |-> head, tail |-> tail, n |-> c, frames |-> << >>]
    <3> DEFINE u == [walk EXCEPT !.lst = rest]
    <3>1. walk = [m |-> primitive, i |-> i, lst |-> lst, head |-> head, tail |-> tail, n |-> c, frames |-> frames]
      BY <2>1
    <3>2. u = [m |-> primitive, i |-> i, lst |-> rest, head |-> head, tail |-> tail, n |-> c, frames |-> frames]
      BY ONLY <3>1
    <3>3. [u EXCEPT !.frames = << >>]
            = [m |-> primitive, i |-> i, lst |-> rest, head |-> head, tail |-> tail, n |-> c, frames |-> << >>]
      <4> HIDE DEF u
      <4> QED
        BY ONLY <3>2
    <3> QED
      BY ONLY <3>3
  <2>8. Loop([m |-> primitive, i |-> i, lst |-> store[lst.a].e[2], head |-> head, tail |-> tail, n |-> c,
              frames |-> << >>])
    BY ONLY <2>5, <2>6, <2>7
  <2> QED
    BY <2>1, <2>4, <2>8, FindGoes
<1> QED
  BY <1>1, <1>2

\* What Equal does, by the number of its frames.
LEMMA EqualCases ==
  ASSUME Equal, NEW N \in Nat \ {0}, N = Len(walk.frames)
  PROVE  /\ N > 1 \/ N = 1
         /\ N > 1 => Loop([walk EXCEPT !.frames = Tail(@)])
         /\ N = 1 /\ primitive = "equal?" => Return(Boolean(TRUE))
         /\ N = 1 /\ primitive = "member" => Return(walk.lst)
         /\ N = 1 /\ primitive = "assoc" => Return(car(walk.lst))
<1>1. (CASE N > 1 -> Loop([walk EXCEPT !.frames = Tail(@)])
         [] N = 1 /\ primitive = "equal?" -> Return(Boolean(TRUE))
         [] N = 1 /\ primitive = "member" -> Return(walk.lst)
         [] N = 1 /\ primitive = "assoc"  -> Return(car(walk.lst)))
  BY DEF Equal
<1>2. (N > 1 \/ N = 1) /\ ~(N > 1 /\ N = 1)
  <2>1. \A n \in Nat \ {0} : (n > 1 \/ n = 1) /\ ~(n > 1 /\ n = 1)
    OBVIOUS
  <2> QED
    BY <2>1
<1> QED
  BY ONLY <1>1, <1>2

\* A call of is_equal that returns yes to the one under it, or as the last.
LEMMA EqualInv ==
  ASSUME IInv, Comparing, Equal, Alike(walk.frames[1].x, walk.frames[1].y)
  PROVE  IInv'
<1>1. CASE primitive = "equal?"
  <2>1. /\ GivenOK /\ store = given.store /\ Len(args) = 2 /\ Frames(walk.frames, args[1], args[2])
        /\ walk = [m |-> "equal?", lst |-> nil, frames |-> walk.frames]
    BY <1>1, ComparingFacts
  <2>2. Len(walk.frames) \in Nat \ {0}
    BY <2>1, Popped DEF Frames
  <2>3. CASE Len(walk.frames) > 1
    <3>1. PICK F, T : F = walk.frames /\ T = Tail(F)
      OBVIOUS
    <3>2. Frames(T, args[1], args[2])
      <4>1. Frames(F, args[1], args[2]) /\ Len(F) > 1 /\ Alike(F[1].x, F[1].y)
        BY <2>1, <2>3, <3>1
      <4> QED
        BY ONLY <3>1, <4>1, AlikePops
    <3>3. Loop([walk EXCEPT !.frames = T])
      <4>1. Loop([walk EXCEPT !.frames = Tail(@)])
        BY <2>2, <2>3, EqualCases
      <4> QED
        BY ONLY <3>1, <4>1
    <3>4. walk = [m |-> "equal?", lst |-> nil, frames |-> F]
      BY <2>1, <3>1
    <3>5. [walk EXCEPT !.frames = T] = [m |-> "equal?", lst |-> nil, frames |-> T]
      BY ONLY <3>4
    <3>6. Loop([m |-> "equal?", lst |-> nil, frames |-> T])
      BY ONLY <3>3, <3>5
    <3> QED
      BY <1>1, <2>1, <3>2, <3>6, NowEqual
  <2>4. CASE Len(walk.frames) = 1
    <3>1. Alike(args[1], args[2])
      BY <2>1, <2>4 DEF Frames
    <3>2. Boolean(Alike(args[1], args[2])) = Boolean(TRUE)
      BY <3>1 DEF Boolean, Alike
    <3>3. Return(Boolean(TRUE))
      BY <1>1, <2>2, <2>4, EqualCases
    <3>4. ListsAre(Boolean(TRUE)) /\ CopiesAre(store, Boolean(TRUE)) /\ EqualIs(Boolean(TRUE))
      BY <1>1, <3>2 DEF ListsAre, CopiesAre, EqualIs, Makers
    <3> QED
      BY <2>1, <3>3, <3>4, PlainAnswer
  <2>5. Len(walk.frames) > 1 \/ Len(walk.frames) = 1
    BY <2>2, EqualCases
  <2> QED
    BY ONLY <2>3, <2>4, <2>5
<1>2. CASE primitive # "equal?"
  <2>1. PICK i, lst, head, tail, c, frames, n :
              /\ walk = [m |-> primitive, i |-> i, lst |-> lst, head |-> head, tail |-> tail, n |-> c, frames |-> frames]
              /\ GivenOK /\ primitive \in {"member", "assoc"} /\ Turn(2) /\ ListGiven(2)
              /\ store = given.store /\ 2 \in 1..Len(args) /\ Len(args) = 2
              /\ At(lst, 2, n) /\ \A j \in 0..(n - 1) : ~Fits(j)
              /\ lst # nil /\ ~NoEntry(n) /\ Frames(frames, args[1], Key(n))
    BY <1>2, ComparingFacts
  <2>2. walk.frames = frames /\ walk.lst = lst
    BY <2>1
  <2>3. Len(frames) \in Nat \ {0} /\ Alike(frames[1].x, frames[1].y)
    BY <2>1, <2>2, Popped DEF Frames
  <2>4. CASE Len(frames) > 1
    <3>1. PICK T : T = Tail(frames)
      OBVIOUS
    <3>2. Frames(T, args[1], Key(n))
      BY <2>1, <2>3, <2>4, <3>1, AlikePops
    <3>3. Loop([walk EXCEPT !.frames = T])
      <4>1. Loop([walk EXCEPT !.frames = Tail(@)])
        BY <2>2, <2>3, <2>4, EqualCases
      <4> QED
        BY ONLY <2>2, <3>1, <4>1
    <3>4. walk = [m |-> primitive, i |-> i, lst |-> lst, head |-> head, tail |-> tail, n |-> c, frames |-> frames]
      BY <2>1
    <3>5. [walk EXCEPT !.frames = T]
            = [m |-> primitive, i |-> i, lst |-> lst, head |-> head, tail |-> tail, n |-> c, frames |-> T]
      BY ONLY <3>4
    <3>6. Loop([m |-> primitive, i |-> i, lst |-> lst, head |-> head, tail |-> tail, n |-> c, frames |-> T])
      BY ONLY <3>3, <3>5
    <3> QED
      BY <2>1, <3>2, <3>6, NowFind
  <2>5. CASE Len(frames) = 1
    <3>1. Alike(args[1], Key(n))
      BY <2>1, <2>3, <2>5 DEF Frames
    <3>2. Fits(n)
      BY <2>1, <3>1 DEF Fits
    <3>3. PICK v : v = IF primitive = "member" THEN lst ELSE car(lst)
      OBVIOUS
    <3>4. Return(v)
      BY <2>1, <2>2, <2>3, <2>5, <3>3, EqualCases
    <3>5. v \in Found
      BY <2>1, <3>2, <3>3, FoundFirst DEF car
    <3> QED
      BY <2>1, <3>4, <3>5, FoundAnswer
  <2>6. Len(frames) > 1 \/ Len(frames) = 1
    BY <2>2, <2>3, EqualCases
  <2> QED
    BY ONLY <2>4, <2>5, <2>6
<1> QED
  BY <1>1, <1>2

\* CompareParts: two pairs or two vectors are compared, part by part.
LEMMA ComparePartsInv ==
  ASSUME IInv, CompareParts
  PROVE  IInv'
<1>1. /\ GivenOK /\ Sound /\ store = given.store /\ Comparing
      /\ Head(walk.frames) = walk.frames[1] /\ IsFrame(walk.frames[1])
      /\ Value(given.store, walk.frames[1].x) /\ Value(given.store, walk.frames[1].y)
      /\ walk.frames[1].i > 1 => PartsAlike(walk.frames[1], walk.frames[1].i)
      /\ primitive \in {"equal?", "member", "assoc"}
  BY TopFacts DEF CompareParts
<1>2. PICK F, top : F = walk.frames /\ top = F[1]
  OBVIOUS
<1>3. PICK x, y : x = given.store[top.x.a].e /\ y = given.store[top.y.a].e
  OBVIOUS
<1>4. PICK kind \in {"pair", "vector"} : Is(given.store, top.x, kind) /\ Is(given.store, top.y, kind)
  BY <1>1, <1>2 DEF CompareParts, SameKind
<1>5. (CASE Len(x) # Len(y) -> Unequal
         [] Len(x) = Len(y) /\ top.i > Len(x) -> Equal
         [] Len(x) = Len(y) /\ top.i <= Len(x) /\ Len(F) >= MaxDepth -> Loop([m |-> "overflow"])
         [] Len(x) = Len(y) /\ top.i <= Len(x) /\ Len(F) < MaxDepth ->
              Loop([walk EXCEPT !.frames = <<Frame(x[top.i], y[top.i]), [top EXCEPT !.i = @ + 1]>> \o Tail(@)]))
  BY <1>1, <1>2, <1>3 DEF CompareParts, elements
<1>6. Alike(top.x, top.y) <=> Len(x) = Len(y) /\ \A j \in 1..Len(x) : Alike(x[j], y[j])
  <2>1. Value(given.store, top.x) /\ Value(given.store, top.y)
    BY <1>1, <1>2
  <2>2. PICK v, w : v = top.x /\ w = top.y
    OBVIOUS
  <2>3. Alike(v, w) <=> Len(given.store[v.a].e) = Len(given.store[w.a].e)
                          /\ \A j \in 1..Len(given.store[v.a].e) : Alike(given.store[v.a].e[j], given.store[w.a].e[j])
    <3>1. Sound /\ Value(given.store, v) /\ Value(given.store, w) /\ Is(given.store, v, kind) /\ Is(given.store, w, kind)
      BY <1>1, <1>4, <2>1, <2>2
    <3> QED
      BY ONLY <3>1, AlikeParts
  <2> QED
    BY ONLY <1>3, <2>2, <2>3
<1>7. Len(x) \in Nat /\ top.i \in Nat \ {0}
  <2>1. Object(given.store, given.store[top.x.a])
    BY <1>1, <1>2, <1>4 DEF Sound, Value, Is
  <2> QED
    BY <1>1, <1>2, <1>3, <2>1, ObjectParts DEF IsFrame
<1>8. CASE Len(x) # Len(y)
  <2>1. ~Alike(walk.frames[1].x, walk.frames[1].y)
    BY <1>2, <1>6, <1>8
  <2> QED
    BY <1>1, <1>5, <1>8, <2>1, UnequalInv
<1>9. CASE Len(x) = Len(y) /\ top.i > Len(x)
  <2>1. \A j \in 1..Len(x) : Alike(x[j], y[j])
    <3>1. CASE top.i > 1
      <4>1. PartsAlike(top, top.i)
        BY <1>1, <1>2, <3>1
      <4>2. \A j \in 1..(top.i - 1) : Alike(x[j], y[j])
        BY <1>3, <4>1 DEF PartsAlike
      <4>3. \A j \in 1..Len(x) : j \in 1..(top.i - 1)
        BY <1>7, <1>9
      <4> QED
        BY ONLY <4>2, <4>3
    <3>2. CASE ~(top.i > 1)
      <4>1. \A j \in 1..Len(x) : FALSE
        BY <1>7, <1>9, <3>2
      <4> QED
        BY ONLY <4>1
    <3> QED
      BY <3>1, <3>2
  <2>2. Alike(walk.frames[1].x, walk.frames[1].y)
    BY <1>2, <1>6, <1>9, <2>1
  <2>3. Equal
    <3>1. ~(top.i <= Len(x))
      BY <1>7, <1>9
    <3> QED
      BY ONLY <1>5, <1>9, <3>1
  <2> QED
    BY <1>1, <2>2, <2>3, EqualInv
<1>10. CASE Len(x) = Len(y) /\ top.i <= Len(x)
  <2>1. PICK G : G = <<Frame(x[top.i], y[top.i]), [top EXCEPT !.i = @ + 1]>> \o Tail(F)
    OBVIOUS
  <2>2. Loop([m |-> "overflow"]) \/ Loop([walk EXCEPT !.frames = G])
    <3>1. ~(top.i > Len(x))
      BY <1>7, <1>10
    <3>2. Len(F) \in Nat /\ MaxDepth \in Nat
      <4>1. \E v, w : Frames(F, v, w)
        <5>1. CASE primitive = "equal?"
          BY <1>1, <1>2, <5>1, ComparingFacts
        <5>2. CASE primitive # "equal?"
          <6>1. \E f, v, w : walk.frames = f /\ Frames(f, v, w)
            BY <1>1, <5>2, ComparingFacts
          <6> QED
            BY <1>2, <6>1
        <5> QED
          BY <5>1, <5>2
      <4> QED
        BY <4>1, DepthAssumption DEF Frames
    <3>3. Len(F) >= MaxDepth \/ Len(F) < MaxDepth
      BY ONLY <3>2
    <3>4. <<Frame(x[top.i], y[top.i]), [top EXCEPT !.i = @ + 1]>> \o Tail(walk.frames) = G
      BY <1>2, <2>1
    <3> QED
      BY <1>5, <1>10, <3>1, <3>3, <3>4
  <2>3. CASE Loop([m |-> "overflow"])
    <3>1. given' = given /\ store' = given.store /\ walk'.m = "overflow"
      BY <1>1, <2>3 DEF Loop
    <3> QED
      BY <1>1, <3>1, SameKeeps, ToOverflow
  <2>4. CASE Loop([walk EXCEPT !.frames = G])
    <3>1. ASSUME NEW v, NEW w, Frames(F, v, w) PROVE Frames(G, v, w)
      <4>1. Frames(<<Frame(given.store[F[1].x.a].e[F[1].i], given.store[F[1].y.a].e[F[1].i]),
                     [F[1] EXCEPT !.i = @ + 1]>> \o Tail(F), v, w)
        BY <1>1, <1>2, <1>3, <1>4, <1>10, <3>1, FramePushes
      <4> QED
        BY ONLY <1>2, <1>3, <2>1, <4>1
    <3>2. CASE primitive = "equal?"
      <4>1. Len(args) = 2 /\ Frames(F, args[1], args[2]) /\ walk = [m |-> "equal?", lst |-> nil, frames |-> F]
        BY <1>1, <1>2, <3>2, ComparingFacts
      <4>2. [walk EXCEPT !.frames = G] = [m |-> "equal?", lst |-> nil, frames |-> G]
        BY ONLY <4>1
      <4>3. Loop([m |-> "equal?", lst |-> nil, frames |-> G])
        BY ONLY <2>4, <4>2
      <4> QED
        BY <1>1, <3>1, <3>2, <4>1, <4>3, NowEqual
    <3>3. CASE primitive # "equal?"
      <4>1. PICK i, lst, head, tail, c, frames, n :
              /\ walk = [m |-> primitive, i |-> i, lst |-> lst, head |-> head, tail |-> tail, n |-> c, frames |-> frames]
              /\ GivenOK /\ primitive \in {"member", "assoc"} /\ Turn(2) /\ ListGiven(2)
              /\ store = given.store /\ 2 \in 1..Len(args) /\ Len(args) = 2
              /\ At(lst, 2, n) /\ \A j \in 0..(n - 1) : ~Fits(j)
              /\ lst # nil /\ ~NoEntry(n) /\ Frames(frames, args[1], Key(n))
        BY <1>1, <3>3, ComparingFacts
      <4>2. walk = [m |-> primitive, i |-> i, lst |-> lst, head |-> head, tail |-> tail, n |-> c, frames |-> frames]
        BY <4>1
      <4>3. [walk EXCEPT !.frames = G]
              = [m |-> primitive, i |-> i, lst |-> lst, head |-> head, tail |-> tail, n |-> c, frames |-> G]
        BY ONLY <4>2
      <4>4. Loop([m |-> primitive, i |-> i, lst |-> lst, head |-> head, tail |-> tail, n |-> c, frames |-> G])
        BY ONLY <2>4, <4>3
      <4>5. Frames(G, args[1], Key(n))
        <5>1. frames = F
          BY <1>2, <4>2
        <5> QED
          BY <3>1, <4>1, <5>1
      <4> QED
        BY <4>1, <4>4, <4>5, NowFind
    <3> QED
      BY <3>2, <3>3
  <2> QED
    BY <2>2, <2>3, <2>4
<1> QED
  BY <1>7, <1>8, <1>9, <1>10

\* CompareAtoms: what has no parts, or parts of another kind, is the same or is not.
LEMMA CompareAtomsInv ==
  ASSUME IInv, CompareAtoms
  PROVE  IInv'
<1>1. /\ Sound /\ store = given.store /\ Comparing
      /\ Head(walk.frames) = walk.frames[1]
      /\ Value(given.store, walk.frames[1].x) /\ Value(given.store, walk.frames[1].y)
  BY TopFacts DEF CompareAtoms
<1>2. PICK v, w : v = walk.frames[1].x /\ w = walk.frames[1].y
  OBVIOUS
<1>3. /\ \A kind \in {"pair", "vector"} : ~(Is(given.store, v, kind) /\ Is(given.store, w, kind))
      /\ IF Same(v, w) THEN Equal ELSE Unequal
  BY <1>1, <1>2 DEF CompareAtoms, SameKind
<1>4. Alike(v, w) <=> \/ v = w
                      \/ /\ Is(given.store, v, "string") /\ Is(given.store, w, "string")
                         /\ given.store[v.a].e = given.store[w.a].e
  BY <1>1, <1>2, <1>3, AlikeAtoms
<1>5. Same(v, w) <=> Alike(v, w)
  BY <1>1, <1>4 DEF Same, is_string, elements
<1>6. Alike(v, w) <=> Alike(walk.frames[1].x, walk.frames[1].y)
  BY <1>2
<1> QED
  BY <1>1, <1>3, <1>5, <1>6, UnequalInv, EqualInv

-----------------------------------------------------------------------------
(* The steps: the calls that are one step.                                 *)

\* What is known when a primitive is called.
LEMMA CallFacts ==
  ASSUME IInv, walk.m = "start"
  PROVE  /\ GivenOK /\ store = given.store /\ Sound /\ Grown(store) /\ Len(given.store) \in Nat
         /\ Len(args) \in Nat /\ DOMAIN args = 1..Len(args) /\ Sequential(args)
         /\ \A i \in 1..Len(args) : Value(given.store, args[i])
<1>1. GivenOK /\ store = given.store
  BY DEF IInv, InRest
<1>2. Copies(given.store, << >>, 0)
  BY <1>1, GivenGrown DEF GivenOK
<1> QED
  BY <1>1, <1>2, ArgumentFacts DEF Copies, GivenOK

\* The primitives that none of the properties but OnlyNamedChanges is about.
Others(p) == p \notin Walkers \cup Makers \cup {"equal?"}

\* They may return anything.
LEMMA OtherReturns ==
  ASSUME GivenOK, store = given.store, Others(primitive), \E v : Return(v)
  PROVE  IInv'
<1>1. PICK v : Return(v)
  OBVIOUS
<1>2. ListsAre(v) /\ CopiesAre(store, v) /\ EqualIs(v)
  BY OtherAnswer DEF Others
<1> QED
  BY <1>1, <1>2, PlainAnswer

\* They may make what they like,
LEMMA OtherMakes ==
  ASSUME GivenOK, Others(primitive), NEW t, NEW v, Make(t, v), Grown(t)
  PROVE  IInv'
<1>1. ListsAre(v) /\ CopiesAre(t, v) /\ EqualIs(v)
  BY OtherAnswer DEF Others
<1>2. given' = given /\ store' = t
  BY DEF Make
<1>3. OnlyNamedChanges'
  BY <1>2, GrownKeeps
<1> QED
  BY <1>1, <1>3, Made

\* and an object is something new.
LEMMA OtherNew ==
  ASSUME GivenOK, Others(primitive), Grown(store), \E o : New(o)
  PROVE  IInv'
<1>1. PICK o : New(o)
  OBVIOUS
<1>2. Grown(Append(store, o))
  <2>1. Sound
    BY ArgumentFacts
  <2> QED
    BY <2>1, GrownAppends
<1>3. Make(Append(store, o), Ref(Next_free))
  BY <1>1 DEF New
<1> QED
  BY <1>2, <1>3, OtherMakes

\* Those with a ! may write to their first argument.
LEMMA OtherWrites ==
  ASSUME GivenOK, primitive \in Mutators, NEW kind, Is(given.store, args[1], kind), 1 \in 1..Len(args),
         NEW t, NEW v, Make(t, v), \A a \in DOMAIN given.store : a # args[1].a => t[a] = given.store[a]
  PROVE  IInv'
<1>1. Others(primitive)
  BY DEF Mutators, Others, Walkers, Makers
<1>2. ListsAre(v) /\ CopiesAre(t, v) /\ EqualIs(v)
  BY <1>1, OtherAnswer DEF Others
<1>3. given' = given /\ store' = t
  BY DEF Make
<1>4. args[1] = Ref(args[1].a)
  BY ArgumentFacts DEF Is, Link
<1>5. OnlyNamedChanges'
  BY <1>3, <1>4 DEF OnlyNamedChanges, args, primitive
<1> QED
  BY <1>2, <1>5, Made

\* Writing one part leaves the other objects alone.
LEMMA PutLeaves ==
  ASSUME NEW s, NEW v, NEW i, NEW x, NEW a \in DOMAIN s, a # v.a
  PROVE  Put(s, v, i, x)[a] = s[a]
BY DEF Put

\* The new list has the elements of the sequence, and is given back from its start.
LEMMA NewListCopies ==
  ASSUME Sound, store = given.store, Grown(store), NEW s, Sequential(s)
  PROVE  /\ Copies(NewList(s, nil), s, Len(s)) /\ Grown(NewList(s, nil)) /\ Len(s) \in Nat
         /\ Fresh(ListOf(s)) /\ Listed(NewList(s, nil), ListOf(s)) = s
<1> DEFINE m == Len(s)
           L == Len(given.store)
           F == [j \in 1..m |-> Pair(s[j], IF j = m THEN nil ELSE Ref(Next_free + j))]
           t == NewList(s, nil)
<1>1. m \in Nat /\ DOMAIN s = 1..m /\ L \in Nat /\ Sequential(store) /\ Next_free = L + 1
  BY Domain DEF Grown, Next_free, Sound, Linked
<1>2. t = store \o F
  BY <1>1 DEF NewList
<1>3. F = [j \in 1..m |-> F[j]]
  OBVIOUS
<1>4. Sequential(F) /\ Len(F) = m
  <2> HIDE DEF F
  <2> QED
    BY <1>1, <1>3, IsSequence
<1>5. ASSUME NEW j \in 1..m PROVE F[j] = Pair(s[j], IF j = m THEN nil ELSE Ref(L + j + 1))
  <2>1. Next_free + j = L + j + 1
    BY <1>1
  <2> QED
    BY <2>1
<1> HIDE DEF F
<1>6. /\ Sequential(t) /\ Len(t) = L + m /\ \A j \in 1..L : t[j] = store[j]
      /\ \A j \in 1..m : t[L + j] = F[j]
  <2>1. PICK p, q : p = store /\ q = F /\ Sequential(p) /\ Sequential(q)
    BY <1>1, <1>4
  <2>2. /\ Sequential(p \o q) /\ Len(p \o q) = Len(p) + Len(q)
        /\ \A j \in 1..Len(p) : (p \o q)[j] = p[j]
        /\ \A j \in 1..Len(q) : (p \o q)[Len(p) + j] = q[j]
    BY ONLY <2>1, Concatenated
  <2>3. p \o q = t /\ Len(p) = L /\ Len(q) = m
    BY <1>2, <1>4, <2>1
  <2> QED
    BY ONLY <2>1, <2>2, <2>3
<1> HIDE DEF t
<1>7. DOMAIN t = 1..Len(t) /\ Len(t) \in Nat
  BY <1>6, Domain
<1>8. Grown(t)
  <2>1. L <= Len(t)
    <3>1. \A x \in Nat, y \in Nat : x <= x + y
      OBVIOUS
    <3> QED
      BY ONLY <1>1, <1>6, <3>1
  <2> QED
    BY <1>6, <1>7, <2>1 DEF Grown
<1>9. Copies(t, s, m)
  BY <1>1, <1>5, <1>6, <1>8 DEF Copies
<1>10. Fresh(ListOf(s))
  <2>1. L + 1 > L
    BY <1>1
  <2> QED
    BY <1>1, <2>1 DEF Fresh, ListOf, nil, Ref
<1>11. s = [j \in 1..m |-> s[j]]
  <2>1. PICK S : s \in Seq(S)
    BY DEF Sequential
  <2> QED
    BY <1>1, <2>1
<1>12. Listed(t, ListOf(s)) = s
  <2>1. CASE s = << >>
    <3>1. Len(s) = 0
      BY <2>1
    <3>2. ListOf(s) = nil
      BY <2>1 DEF ListOf
    <3>3. Listed(t, nil) = [j \in 1..0 |-> s[j]]
      BY <1>7, NilListed
    <3> QED
      BY ONLY <1>11, <3>1, <3>2, <3>3
  <2>2. CASE s # << >>
    <3>1. ListOf(s) = Ref(Len(given.store) + 1)
      BY <1>1, <2>2 DEF ListOf
    <3>2. m > 0
      <4>1. PICK S : s \in Seq(S)
        BY DEF Sequential
      <4> QED
        BY <1>1, <2>2, <4>1
    <3> HIDE DEF m
    <3>3. Listed(t, Ref(Len(given.store) + 1)) = [j \in 1..m |-> s[j]]
      BY <1>9, <3>2, NewListed
    <3> QED
      BY ONLY <1>11, <3>1, <3>3
  <2> QED
    BY <2>1, <2>2
<1> QED
  BY <1>1, <1>8, <1>9, <1>10, <1>12 DEF t

\* An error of a primitive that makes something.
LEMMA MakerFails ==
  ASSUME GivenOK, store = given.store, primitive \in Makers, Fail
  PROVE  IInv'
<1>1. ListsAre(Error) /\ EqualIs(Error) /\ CopiesAre(store, Error)
  BY DEF ListsAre, EqualIs, CopiesAre, Makers, Fresh, Error
<1> QED
  BY <1>1, PlainAnswer DEF Fail

\* The new object of one.
LEMMA MakerNew ==
  ASSUME GivenOK, Grown(store), primitive \in Makers \ {"vector->list", "string->list"}, \E o : New(o)
  PROVE  IInv'
<1>1. PICK o : New(o)
  OBVIOUS
<1> DEFINE t == Append(store, o)
           v == Ref(Next_free)
<1>2. Grown(t) /\ Make(t, v)
  <2>1. Sound
    BY ArgumentFacts
  <2> QED
    BY <1>1, <2>1, GrownAppends DEF New
<1>3. Fresh(v)
  <2>1. Len(store) \in Nat /\ Len(given.store) \in Nat /\ Len(given.store) <= Len(store)
    BY ArgumentFacts DEF Grown
  <2>2. \A x \in Nat, y \in Nat : x <= y => y + 1 > x
    OBVIOUS
  <2>3. Len(store) + 1 > Len(given.store)
    BY ONLY <2>1, <2>2
  <2> QED
    BY <2>3 DEF Fresh, Next_free, Ref
<1> HIDE DEF t, v
<1>4. ListsAre(v) /\ EqualIs(v) /\ CopiesAre(t, v)
  BY <1>3 DEF ListsAre, EqualIs, CopiesAre, Makers
<1>5. OnlyNamedChanges'
  <2>1. given' = given /\ store' = t
    BY <1>2 DEF Make
  <2> QED
    BY <1>2, <2>1, GrownKeeps
<1> QED
  BY <1>2, <1>4, <1>5, Made

\* Convert: a list becomes a vector or a string.
LEMMA ConvertInv ==
  ASSUME IInv, Convert
  PROVE  IInv'
<1>1. GivenOK /\ Grown(store) /\ Built(walk.i - 1, walk.head, walk.tail) /\ primitive \in Converting
  BY CheckedFacts DEF Convert, Accepted
<1>2. store = given.store /\ primitive \in Makers \ {"vector->list", "string->list"}
  BY <1>1 DEF Converting, Built, Makers
<1>3. (\E o : New(o)) \/ Fail
  <2>1. PICK s : s = ListElements(args[1])
    OBVIOUS
  <2>2. (CASE primitive = "list->vector" -> New(Vector(s))
           [] primitive = "list->string" /\ Characters(s) -> New(Text(CodesOf(s)))
           [] primitive = "list->string" /\ ~Characters(s) -> Fail)
    BY <2>1 DEF Convert
  <2>3. New(Vector(s)) \/ New(Text(CodesOf(s))) \/ Fail
    BY <1>1, <2>2 DEF Converting
  <2> QED
    BY <2>3
<1> QED
  BY <1>1, <1>2, <1>3, MakerFails, MakerNew

\* PairCall: the accessors, cons, the two that write to a pair, and list.
LEMMA PairCallInv ==
  ASSUME IInv, PairCall
  PROVE  IInv'
<1>1. /\ GivenOK /\ store = given.store /\ Sound /\ Grown(store)
      /\ Len(args) \in Nat /\ Sequential(args)
  BY CallFacts DEF PairCall, Calls
<1>2. primitive \in {"pair_fun", "cons", "set-car!", "set-cdr!", "list"}
  BY DEF PairCall, Calls
<1>3. Others(primitive)
  BY <1>2 DEF Others, Walkers, Makers
<1>4. CASE primitive = "pair_fun"
  <2>1. \E v : Return(v)
    BY <1>4 DEF PairCall, Calls, Fail
  <2> QED
    BY <1>1, <1>3, <2>1, OtherReturns
<1>5. CASE primitive = "cons"
  <2>1. (\E v : Return(v)) \/ (\E o : New(o))
    BY <1>5 DEF PairCall, Calls, Fail
  <2> QED
    BY <1>1, <1>3, <2>1, OtherReturns, OtherNew
<1>6. CASE primitive \in {"set-car!", "set-cdr!"}
  <2>1. PICK i : \/ Fail
                 \/ /\ Sent(2) /\ is_pair(args[1])
                    /\ Make(Put(store, args[1], i, args[2]), unspecified)
    BY <1>6 DEF PairCall, Calls
  <2>2. CASE Fail
    BY <1>1, <1>3, <2>2, OtherReturns DEF Fail
  <2>3. CASE Sent(2) /\ is_pair(args[1]) /\ Make(Put(store, args[1], i, args[2]), unspecified)
    <3>1. 1 \in 1..Len(args) /\ primitive \in Mutators /\ Is(given.store, args[1], "pair")
      BY <1>1, <1>6, <2>3 DEF Sent, Mutators, is_pair
    <3>2. \A a \in DOMAIN given.store : a # args[1].a => Put(store, args[1], i, args[2])[a] = given.store[a]
      BY <1>1, PutLeaves
    <3> QED
      BY <1>1, <2>3, <3>1, <3>2, OtherWrites
  <2> QED
    BY <2>1, <2>2, <2>3
<1>7. CASE primitive = "list"
  <2>1. Make(NewList(args, nil), ListOf(args))
    BY <1>7 DEF PairCall, Calls
  <2>2. Grown(NewList(args, nil))
    BY <1>1, NewListCopies
  <2> QED
    BY <1>1, <1>3, <2>1, <2>2, OtherMakes
<1> QED
  BY <1>2, <1>4, <1>5, <1>6, <1>7

\* EqCall and Compare write nothing.
LEMMA EqCallInv ==
  ASSUME IInv, EqCall
  PROVE  IInv'
<1>1. GivenOK /\ store = given.store
  BY CallFacts DEF EqCall, Calls
<1>2. Others(primitive) /\ \E v : Return(v)
  BY DEF EqCall, Calls, Others, Walkers, Makers, Fail
<1> QED
  BY <1>1, <1>2, OtherReturns

LEMMA CompareInv ==
  ASSUME IInv, Compare
  PROVE  IInv'
<1>1. GivenOK /\ store = given.store
  BY CallFacts DEF Compare, Calls
<1>2. primitive \in {"number_fun", "char_fun", "string_fun"}
  BY DEF Compare, Calls
<1>3. Others(primitive)
  BY <1>2 DEF Others, Walkers, Makers
<1>4. \E v : Return(v)
  <2>1. CASE primitive = "number_fun"
    BY <2>1 DEF Compare
  <2>2. CASE primitive = "char_fun"
    BY <2>2 DEF Compare
  <2>3. CASE primitive = "string_fun"
    BY <2>3 DEF Compare
  <2> QED
    BY <1>2, <2>1, <2>2, <2>3
<1> QED
  BY <1>1, <1>3, <1>4, OtherReturns

\* NumberCall: a number's text is a new object, the rest is returned.
LEMMA NumberCallInv ==
  ASSUME IInv, NumberCall
  PROVE  IInv'
<1>1. GivenOK /\ store = given.store /\ Grown(store)
  BY CallFacts DEF NumberCall, Calls
<1>2. Others(primitive)
  <2>1. primitive \in Arithmetic \/ primitive \in Signs
          \/ primitive \in {"char-upcase", "char-downcase", "integer->char", "char->integer",
                           "number->string", "string->number"}
    BY DEF NumberCall, Calls
  <2>2. CASE primitive \in Arithmetic
    BY <2>2 DEF Arithmetic, IntegerDivisions, Others, Walkers, Makers
  <2>3. CASE primitive \in Signs
    BY <2>3 DEF Signs, Others, Walkers, Makers
  <2>4. CASE primitive \in {"char-upcase", "char-downcase", "integer->char", "char->integer",
                           "number->string", "string->number"}
    BY <2>4 DEF Others, Walkers, Makers
  <2> QED
    BY <2>1, <2>2, <2>3, <2>4
<1>3. (\E v : Return(v)) \/ (\E o : New(o))
  BY DEF NumberCall, Calls, Fail
<1> QED
  BY <1>1, <1>2, <1>3, OtherReturns, OtherNew

\* What an object given as the first argument holds is a sequence.
LEMMA ElementsFacts ==
  ASSUME GivenOK, 1 \in 1..Len(args), NEW kind, Is(given.store, args[1], kind)
  PROVE  LET e == given.store[args[1].a].e IN Sequential(e) /\ Len(e) \in Nat /\ DOMAIN e = 1..Len(e)
<1> DEFINE o == given.store[args[1].a]
<1>1. Object(given.store, o)
  BY ArgumentFacts DEF Is, Sound, Value
<1> HIDE DEF o
<1>2. Len(o.e) \in Nat /\ DOMAIN o.e = 1..Len(o.e) /\ o.e \in Seq(Range(o.e))
  BY <1>1, ObjectParts
<1> QED
  BY <1>2 DEF Sequential, o

\* The two that make a list of an object's parts.
LEMMA MakerList ==
  ASSUME GivenOK, store = given.store, primitive \in {"vector->list", "string->list"},
         NEW s, Sequential(s), Make(NewList(s, nil), ListOf(s)),
         primitive = "vector->list" => s = given.store[args[1].a].e,
         primitive = "string->list" => CodesOf(s) = given.store[args[1].a].e
  PROVE  IInv'
<1>1. PICK t, v : t = NewList(s, nil) /\ v = ListOf(s)
  OBVIOUS
<1>2. Grown(store) /\ Sound
  BY GivenGrown, ArgumentFacts DEF GivenOK, Copies
<1>3. Grown(t) /\ Fresh(v) /\ Listed(t, v) = s
  BY <1>1, <1>2, NewListCopies
<1>4. ListsAre(v) /\ EqualIs(v)
  BY DEF ListsAre, EqualIs
<1>5. CopiesAre(t, v)
  BY <1>3 DEF CopiesAre
<1>6. Make(t, v)
  BY <1>1
<1>7. OnlyNamedChanges'
  BY <1>3, <1>6, GrownKeeps DEF Make
<1> QED
  BY <1>4, <1>5, <1>6, <1>7, Made

\* VectorCall: vectors are made, read and written to.
LEMMA VectorCallInv ==
  ASSUME IInv, VectorCall
  PROVE  IInv'
<1>1. GivenOK /\ store = given.store /\ Grown(store) /\ Len(args) \in Nat
  BY CallFacts DEF VectorCall, Calls
<1>2. primitive \in {"vector", "make-vector", "vector-length", "vector->list", "vector-ref",
                     "vector-set!", "vector-fill!"}
  BY DEF VectorCall, Calls
<1>3. CASE primitive \in {"vector", "make-vector"}
  <2>1. (\E v : Return(v)) \/ (\E o : New(o))
    BY <1>3 DEF VectorCall, Calls, Fail
  <2>2. Others(primitive)
    BY <1>3 DEF Others, Walkers, Makers
  <2> QED
    BY <1>1, <2>1, <2>2, OtherReturns, OtherNew
<1>4. CASE primitive \in {"vector-length", "vector-ref"}
  <2>1. \E v : Return(v)
    BY <1>4 DEF VectorCall, Calls, Fail
  <2>2. Others(primitive)
    BY <1>4 DEF Others, Walkers, Makers
  <2> QED
    BY <1>1, <2>1, <2>2, OtherReturns
<1>5. CASE primitive = "vector->list"
  <2>1. \/ Fail
        \/ /\ Sent(1) /\ is_vector(args[1])
           /\ Make(NewList(elements(args[1]), nil), ListOf(elements(args[1])))
    BY <1>5 DEF VectorCall, Calls
  <2>2. CASE Fail
    BY <1>1, <1>5, <2>2, MakerFails DEF Makers
  <2>3. CASE /\ Sent(1) /\ is_vector(args[1])
             /\ Make(NewList(elements(args[1]), nil), ListOf(elements(args[1])))
    <3>1. PICK s : s = elements(args[1])
      OBVIOUS
    <3>2. s = given.store[args[1].a].e /\ Sequential(s)
      BY <1>1, <2>3, <3>1, ElementsFacts DEF Sent, is_vector, elements
    <3>3. Make(NewList(s, nil), ListOf(s))
      BY <2>3, <3>1
    <3> QED
      BY <1>1, <1>5, <3>2, <3>3, MakerList
  <2> QED
    BY <2>1, <2>2, <2>3
<1>6. CASE primitive \in {"vector-set!", "vector-fill!"}
  <2>1. Others(primitive) /\ primitive \in Mutators
    BY <1>6 DEF Others, Walkers, Makers, Mutators
  <2>2. \/ Fail
        \/ /\ is_vector(args[1]) /\ 1 \in 1..Len(args)
           /\ \E t : /\ Make(t, unspecified)
                     /\ \A a \in DOMAIN given.store : a # args[1].a => t[a] = given.store[a]
    <3>1. CASE primitive = "vector-set!"
      <4>1. \/ Fail
            \/ /\ Sent(3) /\ is_vector(args[1])
               /\ Make(Put(store, args[1], args[2].i + 1, args[3]), unspecified)
        BY <3>1 DEF VectorCall, Calls
      <4>2. \A a \in DOMAIN given.store :
              a # args[1].a => Put(store, args[1], args[2].i + 1, args[3])[a] = given.store[a]
        BY <1>1, PutLeaves
      <4> QED
        BY <1>1, <4>1, <4>2 DEF Sent
    <3>2. CASE primitive = "vector-fill!"
      <4> DEFINE t == [store EXCEPT ![args[1].a].e = [j \in DOMAIN @ |-> args[2]]]
      <4>1. Fail \/ (Sent(2) /\ is_vector(args[1]) /\ Make(t, unspecified))
        BY <3>2 DEF VectorCall, Calls
      <4>2. \A a \in DOMAIN given.store : a # args[1].a => t[a] = given.store[a]
        BY <1>1
      <4> HIDE DEF t
      <4> QED
        BY <1>1, <4>1, <4>2 DEF Sent
    <3> QED
      BY <1>6, <3>1, <3>2
  <2>3. CASE Fail
    BY <1>1, <2>1, <2>3, OtherReturns DEF Fail
  <2>4. ASSUME NEW t, Make(t, unspecified), is_vector(args[1]), 1 \in 1..Len(args),
               \A a \in DOMAIN given.store : a # args[1].a => t[a] = given.store[a]
        PROVE  IInv'
    <3>1. Is(given.store, args[1], "vector")
      BY <1>1, <2>4 DEF is_vector
    <3> QED
      BY <1>1, <2>1, <2>4, <3>1, OtherWrites
  <2> QED
    BY <2>2, <2>3, <2>4
<1> QED
  BY <1>2, <1>3, <1>4, <1>5, <1>6

\* StringCall: strings are made, read and written to.
LEMMA StringCallInv ==
  ASSUME IInv, StringCall
  PROVE  IInv'
<1>1. GivenOK /\ store = given.store /\ Grown(store) /\ Len(args) \in Nat
  BY CallFacts DEF StringCall, Calls
<1>2. primitive \in {"string", "make-string", "string-length", "string-ref", "string-set!"}
  BY DEF StringCall, Calls
<1>3. Others(primitive)
  BY <1>2 DEF Others, Walkers, Makers
<1>4. CASE primitive \in {"string", "make-string"}
  <2>1. (\E v : Return(v)) \/ (\E o : New(o))
    BY <1>4 DEF StringCall, Calls, Fail
  <2> QED
    BY <1>1, <1>3, <2>1, OtherReturns, OtherNew
<1>5. CASE primitive \in {"string-length", "string-ref"}
  <2>1. \E v : Return(v)
    BY <1>5 DEF StringCall, Calls, Fail
  <2> QED
    BY <1>1, <1>3, <2>1, OtherReturns
<1>6. CASE primitive = "string-set!"
  <2>1. \/ Fail
        \/ /\ Sent(3) /\ is_string(args[1])
           /\ Make(Put(store, args[1], args[2].i + 1, args[3].c), unspecified)
    BY <1>6 DEF StringCall, Calls
  <2>2. CASE Fail
    BY <1>1, <1>3, <2>2, OtherReturns DEF Fail
  <2>3. CASE /\ Sent(3) /\ is_string(args[1])
             /\ Make(Put(store, args[1], args[2].i + 1, args[3].c), unspecified)
    <3>1. 1 \in 1..Len(args) /\ primitive \in Mutators /\ Is(given.store, args[1], "string")
      BY <1>1, <1>6, <2>3 DEF Sent, Mutators, is_string
    <3>2. \A a \in DOMAIN given.store :
            a # args[1].a => Put(store, args[1], args[2].i + 1, args[3].c)[a] = given.store[a]
      BY <1>1, PutLeaves
    <3> QED
      BY <1>1, <2>3, <3>1, <3>2, OtherWrites
  <2> QED
    BY <2>1, <2>2, <2>3
<1> QED
  BY <1>2, <1>4, <1>5, <1>6

\* The characters of a string, as a list holds them.
LEMMA CodesFacts ==
  ASSUME NEW e, Len(e) \in Nat, DOMAIN e = 1..Len(e), Sequential(e)
  PROVE  Sequential(Codes(e)) /\ CodesOf(Codes(e)) = e
<1>1. Codes(e) = [j \in 1..Len(e) |-> Char(e[j])]
  BY DEF Codes
<1>2. Sequential(Codes(e))
  <2>1. PICK f : f = Codes(e)
    OBVIOUS
  <2>2. f = [j \in 1..Len(e) |-> f[j]]
    BY <1>1, <2>1
  <2>3. Sequential(f)
    BY <2>2, IsSequence
  <2> QED
    BY <2>1, <2>3
<1>3. CodesOf(Codes(e)) = [j \in 1..Len(e) |-> e[j]]
  BY <1>1 DEF CodesOf, Char
<1>4. e = [j \in 1..Len(e) |-> e[j]]
  <2>1. PICK S : e \in Seq(S)
    BY DEF Sequential
  <2> QED
    BY <2>1
<1> QED
  BY <1>2, <1>3, <1>4

\* WholeStringCall: strings are copied, listed, filled and put together.
LEMMA WholeStringCallInv ==
  ASSUME IInv, WholeStringCall
  PROVE  IInv'
<1>1. GivenOK /\ store = given.store /\ Grown(store) /\ Len(args) \in Nat
  BY CallFacts DEF WholeStringCall, Calls
<1>2. primitive \in {"string->list", "string-copy", "string-fill!", "substring", "string-append"}
  BY DEF WholeStringCall, Calls
<1>3. CASE primitive \in {"string-copy", "substring", "string-append"}
  <2>1. Fail \/ (\E o : New(o))
    BY <1>3 DEF WholeStringCall, Calls, StringCopy
  <2>2. primitive \in Makers \ {"vector->list", "string->list"}
    BY <1>3 DEF Makers
  <2> QED
    BY <1>1, <2>1, <2>2, MakerFails, MakerNew
<1>4. CASE primitive = "string->list"
  <2>1. \/ Fail
        \/ /\ Sent(1) /\ is_string(args[1])
           /\ Make(NewList(Codes(elements(args[1])), nil), ListOf(elements(args[1])))
    BY <1>4 DEF WholeStringCall, Calls
  <2>2. CASE Fail
    BY <1>1, <1>4, <2>2, MakerFails DEF Makers
  <2>3. CASE /\ Sent(1) /\ is_string(args[1])
             /\ Make(NewList(Codes(elements(args[1])), nil), ListOf(elements(args[1])))
    <3>1. PICK e, s : e = elements(args[1]) /\ s = Codes(e)
      OBVIOUS
    <3>2. e = given.store[args[1].a].e /\ Sequential(e) /\ Len(e) \in Nat /\ DOMAIN e = 1..Len(e)
      BY <1>1, <2>3, <3>1, ElementsFacts DEF Sent, is_string, elements
    <3>3. Sequential(s) /\ CodesOf(s) = e
      BY <3>1, <3>2, CodesFacts
    <3>4. ListOf(s) = ListOf(e)
      <4>1. e = << >> <=> DOMAIN e = {}
        <5>1. PICK S : e \in Seq(S)
          BY <3>2 DEF Sequential
        <5> QED
          BY <5>1
      <4>2. s = << >> <=> DOMAIN s = {}
        <5>1. PICK S : s \in Seq(S)
          BY <3>3 DEF Sequential
        <5> QED
          BY <5>1
      <4>3. DOMAIN s = DOMAIN e
        BY <3>1 DEF Codes
      <4> QED
        BY <4>1, <4>2, <4>3 DEF ListOf
    <3>5. Make(NewList(s, nil), ListOf(s))
      BY <2>3, <3>1, <3>4
    <3> QED
      BY <1>1, <1>4, <3>2, <3>3, <3>5, MakerList
  <2> QED
    BY <2>1, <2>2, <2>3
<1>5. CASE primitive = "string-fill!"
  <2> DEFINE t == [store EXCEPT ![args[1].a].e = [j \in DOMAIN @ |-> args[2].c]]
  <2>1. Fail \/ (Sent(2) /\ is_string(args[1]) /\ Make(t, unspecified))
    BY <1>5 DEF WholeStringCall, Calls
  <2>2. \A a \in DOMAIN given.store : a # args[1].a => t[a] = given.store[a]
    BY <1>1
  <2> HIDE DEF t
  <2>3. Others(primitive) /\ primitive \in Mutators
    BY <1>5 DEF Others, Walkers, Makers, Mutators
  <2>4. CASE Fail
    BY <1>1, <2>3, <2>4, OtherReturns DEF Fail
  <2>5. CASE Sent(2) /\ is_string(args[1]) /\ Make(t, unspecified)
    <3>1. 1 \in 1..Len(args) /\ Is(given.store, args[1], "string")
      BY <1>1, <2>5 DEF Sent, is_string
    <3> QED
      BY <1>1, <2>2, <2>3, <2>5, <3>1, OtherWrites
  <2> QED
    BY <2>1, <2>4, <2>5
<1> QED
  BY <1>2, <1>3, <1>4, <1>5

-----------------------------------------------------------------------------
(* The invariant, and the properties it gives.                             *)

\* What is known of the loops is told from the variables alone.
LEMMA StutterLoops ==
  ASSUME IInv, UNCHANGED vars
  PROVE  /\ OnlyNamedChanges' /\ InFinite' /\ InChecked' /\ InCount' /\ InAppend' /\ InReverse' /\ InFind'
         /\ InEqual'
<1>1. /\ GivenOK /\ OnlyNamedChanges
      /\ InFinite /\ InChecked /\ InCount /\ InAppend /\ InReverse /\ InFind /\ InEqual
  BY DEF IInv
<1>2. given' = given /\ store' = store /\ walk' = walk /\ args' = args /\ primitive' = primitive
  BY DEF vars, args, primitive
<1>3. OnlyNamedChanges'
  BY <1>1, <1>2 DEF OnlyNamedChanges
<1>4. InFinite' /\ InChecked'
  <2>1. (\E k : Running(given.store, args[walk.i], k, walk.o, walk.rabbit))' <=>
          \E k : Running(given.store, args[walk.i], k, walk.o, walk.rabbit)
    BY <1>2 DEF Running, Trail, Link, Behind, Is
  <2>2. InFinite'
    BY <1>1, <1>2, <2>1 DEF InFinite, Turn, Built, Joins, Copies, Grown, ListGiven, ItemsGiven, HeadOf, TailOf
  <2>3. InChecked'
    BY <1>1, <1>2 DEF InChecked, Turn, Built, Joins, Copies, Grown, ListGiven, ItemsGiven, HeadOf, TailOf
  <2> QED
    BY <2>2, <2>3
<1>5. InCount'
  BY <1>1, <1>2 DEF InCount, LoopShape, Turn, ListGiven, At
<1>6. InAppend'
  BY <1>1, <1>2 DEF InAppend, LoopShape, Turn, ListGiven, At, Joins, Copies, Grown, ItemsGiven, HeadOf, TailOf
<1>7. InReverse'
  BY <1>1, <1>2 DEF InReverse, Turn, ListGiven, At, Reversed, Grown, ItemsGiven, TailOf
<1>8. InFind'
  <2>1. ASSUME NEW n
        PROVE  /\ Frames(walk.frames, args[1], Key(n))' <=> Frames(walk.frames, args[1], Key(n))
               /\ (Fits(n)' <=> Fits(n)) /\ (NoEntry(n)' <=> NoEntry(n)) /\ (At(walk.lst, 2, n)' <=> At(walk.lst, 2, n))
    <3>1. PICK F, v, w : F = walk.frames /\ v = args[1] /\ w = Key(n)
      OBVIOUS
    <3>2. Frames(F, v, w)' <=> Frames(F, v, w)
      BY <1>2, FramesStay
    <3>3. (Fits(n)' <=> Fits(n)) /\ (NoEntry(n)' <=> NoEntry(n)) /\ Key(n)' = Key(n)
      BY <1>2, FindStays
    <3>4. At(walk.lst, 2, n)' <=> At(walk.lst, 2, n)
      BY <1>2 DEF At
    <3> QED
      BY <1>2, <3>1, <3>2, <3>3, <3>4
  <2> QED
    BY <1>1, <1>2, <2>1 DEF InFind, LoopShape, Turn, ListGiven
<1>9. InEqual'
  <2>1. PICK F, v, w : F = walk.frames /\ v = args[1] /\ w = args[2]
    OBVIOUS
  <2>2. Frames(F, v, w)' <=> Frames(F, v, w)
    BY <1>2, FramesStay
  <2> QED
    BY <1>1, <1>2, <2>1, <2>2 DEF InEqual
<1> QED
  BY <1>3, <1>4, <1>5, <1>6, <1>7, <1>8, <1>9

\* A primitive that has returned stays so.
LEMMA StutterInv ==
  ASSUME IInv, UNCHANGED vars
  PROVE  IInv'
<1>1. GivenOK /\ InRest
  BY DEF IInv
<1>2. given' = given /\ store' = store /\ walk' = walk /\ result' = result
  BY DEF vars
<1>3. walk.m = "done" => ListsMean' /\ CopiesMean' /\ EqualMeans'
  <2> SUFFICES ASSUME walk.m = "done" PROVE ListsMean' /\ CopiesMean' /\ EqualMeans'
    OBVIOUS
  <2>1. ListsMean /\ CopiesMean /\ EqualMeans
    BY <1>1 DEF InRest
  <2>2. ListsAre(result) /\ EqualIs(result)
    BY <2>1 DEF ListsMean, ListsAre, EqualMeans, EqualIs, Answers, Sent
  <2>3. CopiesAre(store, result)
    <3>1. primitive = "append" /\ args # << >> => AppendIs(store, result)
      BY <2>1 DEF CopiesMean, Answers, AppendIs, Cdrs, car
    <3>2. primitive = "reverse" => ReverseIs(store, result)
      BY <2>1 DEF CopiesMean, Answers, ReverseIs, Cdrs, Sent, ListElements
    <3> QED
      BY <2>1, <3>1, <3>2 DEF CopiesMean, CopiesAre, Answers, Makers, ListElements
  <2> QED
    BY <1>2, <2>2, <2>3, ListsAnswer, CopiesAnswer, EqualAnswer
<1>4. InRest'
  BY <1>1, <1>2, <1>3 DEF InRest
<1>5. GivenOK'
  BY <1>1, <1>2, GivenStays
<1> QED
  BY <1>4, <1>5, StutterLoops DEF IInv

\* Every step keeps the invariant.
LEMMA StepInv ==
  ASSUME IInv, [Next]_vars
  PROVE  IInv'
<1>1. CASE StartWalk \/ Hare \/ HareEnds \/ Refuses \/ StartLoop
  BY <1>1, StartWalkInv, HareInv, HareEndsInv, RefusesInv, StartLoopInv
<1>2. CASE Lists
  BY <1>2, IsListInv, CountInv, SkipInv, SkippedInv, CopyInv, CopiedInv, StartReverseInv, ReverseOneInv,
     ReverseLastInv DEF Lists
<1>3. CASE Search
  BY <1>3, StartEqualInv, ComparePartsInv, CompareAtomsInv, FindInv DEF Search
<1>4. CASE Convert \/ PairCall \/ EqCall \/ VectorCall \/ StringCall \/ WholeStringCall \/ Compare \/ NumberCall
  BY <1>4, ConvertInv, PairCallInv, EqCallInv, VectorCallInv, StringCallInv, WholeStringCallInv, CompareInv,
     NumberCallInv
<1>5. CASE Returned \/ UNCHANGED vars
  BY <1>5, StutterInv DEF Returned
<1> QED
  BY <1>1, <1>2, <1>3, <1>4, <1>5 DEF Next

\* So it always holds.
LEMMA AlwaysInv == Spec => []IInv
BY InitInv, StepInv, PTL DEF Spec

\* An answer is given when the primitive is done only.
LEMMA InvMeans ==
  ASSUME IInv
  PROVE  ListsMean /\ CopiesMean /\ EqualMeans /\ OnlyNamedChanges
<1>1. CASE walk.m = "done"
  BY <1>1 DEF IInv, InRest
<1>2. CASE walk.m # "done"
  BY <1>2 DEF IInv, ListsMean, CopiesMean, EqualMeans, Answers
<1> QED
  BY <1>1, <1>2

\* No primitive but the six with a ! writes to an object of the program,
\* and they write to their first argument only, while a loop runs as well.
THEOREM ProgramKept == Spec => []OnlyNamedChanges
BY AlwaysInv, InvMeans, PTL

\* list? knows a list from a circle and from a list that ends in something
\* else (the tortoise and the rabbit of is_list), and length, list-tail,
\* list-ref, memq, member, assq and assoc find on a list what there is.
THEOREM ListsRight == Spec => []ListsMean
BY AlwaysInv, InvMeans, PTL

\* append and reverse return the elements asked for in new pairs, and what
\* is made of an object's parts is new.
THEOREM CopiesRight == Spec => []CopiesMean
BY AlwaysInv, InvMeans, PTL

\* When equal? answers, it says whether its arguments unfold alike, also if
\* one of them is circular.
THEOREM EqualRight == Spec => []EqualMeans
BY AlwaysInv, InvMeans, PTL

-----------------------------------------------------------------------------
(* Numbers that differ by a multiple of m.                                 *)

ApartBy(m, a, b) == \E k \in Int : a = b + k * m

\* Division leaves a rest.
LEMMA Divided ==
  \A x \in Int, m \in Nat \ {0} : x \div m \in Int /\ x % m \in 0..(m - 1) /\ x = m * (x \div m) + (x % m)
OBVIOUS

\* No multiple of m but 0 is nearer to 0 than m.
LEMMA NoMultiple ==
  ASSUME NEW m \in Nat \ {0}, NEW j \in Int, j * m < m, j * m > -m
  PROVE  j = 0
<1>1. CASE j >= 1
  BY <1>1
<1>2. CASE j <= -1
  BY <1>2
<1> QED
  BY <1>1, <1>2

\* The remainder of a multiple is 0.
LEMMA ApartZero ==
  ASSUME NEW m \in Nat \ {0}, NEW a \in Int, NEW b \in Int, ApartBy(m, a, b)
  PROVE  (a - b) % m = 0
<1>1. PICK k \in Int : a = b + k * m
  BY DEF ApartBy
<1> DEFINE x == a - b
           q == x \div m
           r == x % m
<1>2. x \in Int /\ x = k * m
  BY <1>1
<1>3. q \in Int /\ r \in 0..(m - 1) /\ x = m * q + r
  <2> HIDE DEF x
  <2> QED
    BY <1>2, Divided
<1> HIDE DEF q, r, x
<1>4. (k - q) * m = r /\ k - q \in Int
  BY <1>2, <1>3
<1>5. k - q = 0
  <2> DEFINE j == k - q
  <2>1. j \in Int /\ j * m < m /\ j * m > -m
    BY <1>3, <1>4
  <2> HIDE DEF j
  <2>2. j = 0
    BY <2>1, NoMultiple
  <2> QED
    BY <2>2 DEF j
<1>6. r = 0
  BY <1>3, <1>4, <1>5
<1> QED
  BY <1>6 DEF r, x

\* Between two numbers that close there is no multiple.
LEMMA ApartSame ==
  ASSUME NEW h \in Nat \ {0}, NEW a \in (-h)..(h - 1), NEW b \in (-h)..(h - 1), ApartBy(2 * h, a, b)
  PROVE  a = b
<1>1. PICK k \in Int : a = b + k * (2 * h)
  BY DEF ApartBy
<1> DEFINE m == 2 * h
<1>2. m \in Nat \ {0} /\ k * m < m /\ k * m > -m
  BY <1>1
<1>3. k = 0
  <2> HIDE DEF m
  <2> QED
    BY <1>2, NoMultiple
<1> QED
  BY <1>1, <1>3

\* A number is no multiple apart from itself.
LEMMA ApartItself ==
  ASSUME NEW m \in Nat \ {0}, NEW a \in Int
  PROVE  ApartBy(m, a, a)
<1>1. a = a + 0 * m
  OBVIOUS
<1> QED
  BY <1>1 DEF ApartBy

\* Two such differences make one.
LEMMA ApartThen ==
  ASSUME NEW m \in Nat \ {0}, NEW a \in Int, NEW b \in Int, NEW c \in Int,
         ApartBy(m, a, b), ApartBy(m, b, c)
  PROVE  ApartBy(m, a, c)
<1>1. PICK k \in Int : a = b + k * m
  BY DEF ApartBy
<1>2. PICK j \in Int : b = c + j * m
  BY DEF ApartBy
<1>3. a = c + (k + j) * m /\ k + j \in Int
  BY <1>1, <1>2
<1> QED
  BY <1>3 DEF ApartBy

\* What is done to both is done alike.
LEMMA ApartDone ==
  ASSUME NEW m \in Nat \ {0}, NEW a \in Int, NEW b \in Int, NEW x \in Int, ApartBy(m, a, b)
  PROVE  ApartBy(m, a + x, b + x) /\ ApartBy(m, a - x, b - x) /\ ApartBy(m, a * x, b * x)
<1>1. PICK k \in Int : a = b + k * m
  BY DEF ApartBy
<1>2. a + x = (b + x) + k * m /\ a - x = (b - x) + k * m
  BY <1>1
<1>3. a * x = (b * x) + (k * x) * m /\ k * x \in Int
  BY <1>1
<1> QED
  BY <1>2, <1>3 DEF ApartBy

-----------------------------------------------------------------------------
(* The widths of a fixnum and of a long. *)

Half == PowerOfTwo[Bits - 1]

\* The numbers and the range of a fixnum are as wide as PowerOfTwo says.
LEMMA Widths ==
  /\ Half \in Nat \ {0} /\ Half >= 2 /\ PowerOfTwo[Bits] = 2 * Half
  /\ PowerOfTwo[Bits + 1] = 4 * Half /\ PowerOfTwo[Bits + 2] = 8 * Half
  /\ Fixnums = (-Half)..(Half - 1) /\ (Bits + 2) - 1 = Bits + 1
<1>1. /\ Bits \in Nat /\ Bits + 1 \in Nat /\ Bits - 1 \in Nat /\ Bits - 2 \in Nat
      /\ (Bits - 2) + 1 = Bits - 1 /\ (Bits - 1) + 1 = Bits /\ (Bits + 1) + 1 = Bits + 2
      /\ (Bits + 2) - 1 = Bits + 1
  BY BitsAssumption
<1>2. PowerOfTwo[Bits - 2] \in Nat \ {0} /\ Half = 2 * PowerOfTwo[Bits - 2] /\ Half \in Nat \ {0}
  BY <1>1, Powers DEF Half
<1>3. PowerOfTwo[Bits] = 2 * Half
  BY <1>1, Powers DEF Half
<1>4. PowerOfTwo[Bits + 1] = 2 * PowerOfTwo[Bits] /\ PowerOfTwo[Bits + 2] = 2 * PowerOfTwo[Bits + 1]
  BY <1>1, Powers
<1>5. Half >= 2
  BY <1>2
<1> QED
  BY <1>1, <1>2, <1>3, <1>4, <1>5 DEF Fixnums, Half

\* Wrapping takes a multiple away.
LEMMA Wraps ==
  ASSUME NEW h \in Nat \ {0}, NEW n \in Int
  PROVE  LET w == ((n + h) % (2 * h)) - h IN w \in (-h)..(h - 1) /\ ApartBy(2 * h, w, n)
<1> DEFINE m == 2 * h
           x == n + h
           q == x \div m
           r == x % m
<1>1. x \in Int /\ m \in Nat \ {0}
  OBVIOUS
<1>2. q \in Int /\ r \in 0..(m - 1) /\ x = m * q + r
  <2> HIDE DEF x, m
  <2> QED
    BY <1>1, Divided
<1> HIDE DEF q, r
<1>3. r - h \in (-h)..(h - 1)
  BY <1>2
<1>4. r - h = n + (-q) * m /\ -q \in Int
  BY <1>2
<1>5. ApartBy(m, r - h, n)
  <2> HIDE DEF m
  <2> QED
    BY <1>4 DEF ApartBy
<1> QED
  BY <1>3, <1>5 DEF r

\* What is cut to a fixnum lies in its range, a multiple of its width apart.
LEMMA Wrapped ==
  ASSUME NEW n \in Int
  PROVE  /\ Wrap(n, Bits) \in Fixnums /\ Wrap(n, Bits) \in Int /\ ApartBy(2 * Half, Wrap(n, Bits), n)
         /\ Long(n) \in Int /\ ApartBy(2 * Half, Long(n), n)
<1>1. /\ Half \in Nat \ {0} /\ PowerOfTwo[Bits] = 2 * Half /\ Fixnums = (-Half)..(Half - 1)
      /\ PowerOfTwo[Bits + 1] = 4 * Half /\ PowerOfTwo[Bits + 2] = 8 * Half /\ (Bits + 2) - 1 = Bits + 1
  BY Widths
<1>2. Wrap(n, Bits) \in Fixnums /\ ApartBy(2 * Half, Wrap(n, Bits), n)
  <2>1. Wrap(n, Bits) = ((n + Half) % (2 * Half)) - Half
    BY <1>1 DEF Wrap, Half
  <2> QED
    BY <1>1, <2>1, Wraps
<1> DEFINE l == 4 * Half
<1>3. Long(n) = ((n + l) % (2 * l)) - l
  <2>1. 8 * Half = 2 * l
    BY <1>1
  <2> QED
    BY <1>1, <2>1 DEF Long, Wrap
<1>4. Long(n) \in (-l)..(l - 1) /\ ApartBy(2 * l, Long(n), n)
  <2>1. l \in Nat \ {0}
    BY <1>1
  <2> HIDE DEF l
  <2> QED
    BY <1>3, <2>1, Wraps
<1>5. Long(n) \in Int
  BY <1>1, <1>4
<1>6. ApartBy(2 * Half, Long(n), n)
  <2>1. PICK k \in Int : Long(n) = n + k * (2 * l)
    BY <1>4 DEF ApartBy
  <2>2. k * (2 * l) = (4 * k) * (2 * Half) /\ 4 * k \in Int
    BY <1>1
  <2> QED
    BY <2>1, <2>2 DEF ApartBy
<1> QED
  BY <1>1, <1>2, <1>5, <1>6
-----------------------------------------------------------------------------
(* Loops over the arguments. *)

\* Induction along 0..n.
LEMMA TurnInduction ==
  ASSUME NEW A, NEW n \in Nat, 0 \in A, \A i \in 1..n : i - 1 \in A => i \in A
  PROVE  0..n \subseteq A
<1> DEFINE B == {i \in Nat : i <= n => i \in A}
<1>1. 0 \in B
  OBVIOUS
<1>2. ASSUME NEW i \in Nat, i \in B PROVE i + 1 \in B
  <2> SUFFICES ASSUME i + 1 <= n PROVE i + 1 \in A
    OBVIOUS
  <2>1. i + 1 \in 1..n /\ (i + 1) - 1 = i /\ i \in A
    BY <1>2
  <2> QED
    BY <2>1
<1> HIDE DEF B
<1>3. Nat \subseteq B
  BY <1>1, <1>2, SetInduction
<1>4. \A i \in 0..n : i \in Nat /\ i <= n
  OBVIOUS
<1> QED
  BY <1>3, <1>4 DEF B

\* A function on 0..n whose value at each place is had from the one before.
Turning(S, base, n, G, h) ==
  h \in [0..n -> S] /\ \A i \in 0..n : h[i] = IF i = 0 THEN base ELSE G[<<i, h[i - 1]>>]

\* A loop that takes turn after turn has a state for each.
LEMMA TurnsDefined ==
  ASSUME NEW S, NEW base \in S, NEW n \in Nat, NEW G \in [(1..n) \X S -> S]
  PROVE  \E h : Turning(S, base, n, G, h)
<1> DEFINE F == [ix \in Nat \X S |-> IF ix[1] \in 1..n THEN G[<<ix[1], ix[2]>>] ELSE base]
<1>1. F \in [Nat \X S -> S]
  <2>1. ASSUME NEW ix \in Nat \X S PROVE (IF ix[1] \in 1..n THEN G[<<ix[1], ix[2]>>] ELSE base) \in S
    <3>1. CASE ix[1] \in 1..n
      <4>1. <<ix[1], ix[2]>> \in (1..n) \X S
        BY <2>1, <3>1
      <4> QED
        BY <3>1, <4>1
    <3> QED
      BY <3>1
  <2> QED
    BY <2>1
<1>2. ASSUME NEW i \in 1..n, NEW x \in S PROVE F[<<i, x>>] = G[<<i, x>>]
  <2>1. <<i, x>> \in Nat \X S /\ <<i, x>>[1] = i /\ <<i, x>>[2] = x
    BY <1>2
  <2> QED
    BY <2>1
<1> HIDE DEF F
<1>3. PICK h : DefinedBy(S, base, F, n, h)
  BY <1>1, Recursion
<1>4. h \in [0..n -> S] /\ \A i \in 0..n : h[i] = IF i = 0 THEN base ELSE F[<<i, h[i - 1]>>]
  BY <1>3 DEF DefinedBy
<1>5. ASSUME NEW i \in 0..n PROVE h[i] = IF i = 0 THEN base ELSE G[<<i, h[i - 1]>>]
  <2>1. CASE i = 0
    BY <1>4, <2>1
  <2>2. CASE i # 0
    <3>1. i \in 1..n /\ i - 1 \in 0..n
      BY <2>2
    <3>2. h[i - 1] \in S
      BY <1>4, <3>1
    <3> QED
      BY <1>2, <1>4, <2>2, <3>1, <3>2
  <2> QED
    BY <2>1, <2>2
<1> QED
  BY <1>4, <1>5 DEF Turning

\* The numbers of a sequence.
Integers(s) == Sequential(s) /\ Len(s) \in Nat /\ \A i \in 1..Len(s) : s[i] \in Int

\* The loop of number_fun adds, multiplies or subtracts one number after the other.
LEMMA Accumulates ==
  ASSUME NEW p \in {"+", "*", "-"}, NEW base \in Int, NEW s, Integers(s)
  PROVE  LET a == Accumulated(p, base, s) IN
         /\ a[0] = base /\ \A i \in 0..Len(s) : a[i] \in Int
         /\ \A i \in 1..Len(s) : a[i] = Long(Step(p, a[i - 1], s[i]))
<1> DEFINE n == Len(s)
           next(x, i) == Long(Step(p, x, s[i]))
           G == [ix \in (1..n) \X Int |-> next(ix[2], ix[1])]
           Rec(h) == h = [i \in 0..n |-> IF i = 0 THEN base ELSE next(h[i - 1], i)]
           a == Accumulated(p, base, s)
<1>1. ASSUME NEW x \in Int, NEW i \in 1..n PROVE next(x, i) \in Int
  <2>1. Step(p, x, s[i]) \in Int
    BY DEF Step, Integers
  <2> QED
    BY <2>1, Wrapped
<1>2. n \in Nat
  BY DEF Integers
<1> HIDE DEF n, next
<1>3. G \in [(1..n) \X Int -> Int]
  BY <1>1
<1>4. \A i \in 1..n : \A x \in Int : G[<<i, x>>] = next(x, i)
  OBVIOUS
<1> HIDE DEF G
<1>5. PICK h : h \in [0..n -> Int] /\ \A i \in 0..n : h[i] = IF i = 0 THEN base ELSE G[<<i, h[i - 1]>>]
  <2> DEFINE S == Int
  <2>1. base \in S /\ G \in [(1..n) \X S -> S]
    BY <1>3
  <2> HIDE DEF S
  <2>2. \E h : Turning(S, base, n, G, h)
    BY ONLY <1>2, <2>1, TurnsDefined
  <2> QED
    BY <2>2 DEF S, Turning
<1>6. ASSUME NEW i \in 0..n
      PROVE  (IF i = 0 THEN base ELSE G[<<i, h[i - 1]>>]) = (IF i = 0 THEN base ELSE next(h[i - 1], i))
  <2>1. i # 0 => i \in 1..n /\ i - 1 \in 0..n
    BY <1>2
  <2> QED
    BY <1>4, <1>5, <2>1
<1>7. Rec(h)
  BY <1>5, <1>6
<1>8. a = CHOOSE f : Rec(f)
  BY DEF Accumulated, next, n
<1> HIDE DEF a, Rec
<1>9. Rec(a)
  BY <1>7, <1>8
<1>10. \A i \in 0..n : a[i] = IF i = 0 THEN base ELSE next(a[i - 1], i)
  BY <1>9 DEF Rec
<1> DEFINE A == {i \in Nat : a[i] \in Int}
<1>11. 0 \in A
  BY <1>2, <1>10
<1>12. ASSUME NEW i \in 1..n, i - 1 \in A PROVE i \in A
  <2>1. i \in 0..n /\ i # 0 /\ i \in Nat
    BY <1>2
  <2> QED
    BY <1>1, <1>10, <1>12, <2>1
<1>13. 0..n \subseteq A
  <2> HIDE DEF A
  <2> QED
    BY <1>2, <1>11, <1>12, TurnInduction
<1>14. \A i \in 0..n : a[i] \in Int
  BY <1>13
<1>15. \A i \in 1..n : i \in 0..n /\ i # 0
  BY <1>2
<1>16. \A i \in 1..n : a[i] = next(a[i - 1], i)
  BY <1>10, <1>15
<1>17. a[0] = base
  BY <1>2, <1>10
<1> QED
  BY <1>14, <1>16, <1>17 DEF a, n, next

\* The sums of the first numbers.
LEMMA SumsAre ==
  ASSUME NEW s, Integers(s)
  PROVE  /\ Sums(s)[0] = 0 /\ \A i \in 0..Len(s) : Sums(s)[i] \in Int
         /\ \A i \in 1..Len(s) : Sums(s)[i] = Sums(s)[i - 1] + s[i]
<1> DEFINE n == Len(s)
           next(x, i) == x + s[i]
           G == [ix \in (1..n) \X Int |-> next(ix[2], ix[1])]
           Rec(h) == h = [i \in 0..n |-> IF i = 0 THEN 0 ELSE next(h[i - 1], i)]
           a == Sums(s)
<1>1. n \in Nat /\ \A i \in 1..n : \A x \in Int : next(x, i) \in Int
  BY DEF Integers
<1>2. a = CHOOSE f : Rec(f)
  BY DEF Sums
<1> HIDE DEF n, next
<1>3. G \in [(1..n) \X Int -> Int] /\ \A i \in 1..n : \A x \in Int : G[<<i, x>>] = next(x, i)
  BY <1>1
<1> HIDE DEF G
<1>4. PICK h : h \in [0..n -> Int] /\ \A i \in 0..n : h[i] = IF i = 0 THEN 0 ELSE G[<<i, h[i - 1]>>]
  <2> DEFINE S == Int
             b == 0
  <2>0. n \in Nat
    BY <1>1
  <2>1. b \in S /\ G \in [(1..n) \X S -> S]
    BY <1>3
  <2> HIDE DEF S, b
  <2>2. \E h : Turning(S, b, n, G, h)
    BY ONLY <2>0, <2>1, TurnsDefined
  <2> QED
    BY <2>2 DEF S, b, Turning
<1>5. ASSUME NEW i \in 0..n
      PROVE  (IF i = 0 THEN 0 ELSE G[<<i, h[i - 1]>>]) = (IF i = 0 THEN 0 ELSE next(h[i - 1], i))
  <2>1. i # 0 => i \in 1..n /\ i - 1 \in 0..n
    BY <1>1
  <2> QED
    BY <1>3, <1>4, <2>1
<1>6. Rec(h)
  BY <1>4, <1>5
<1> HIDE DEF a, Rec
<1>7. Rec(a)
  BY <1>2, <1>6
<1>8. \A i \in 0..n : a[i] = IF i = 0 THEN 0 ELSE next(a[i - 1], i)
  BY <1>7 DEF Rec
<1>9. \A i \in 1..n : i \in 0..n /\ i # 0 /\ i \in Nat
  BY <1>1
<1> DEFINE A == {i \in Nat : a[i] \in Int}
<1>10. 0 \in A
  BY <1>1, <1>8
<1>11. ASSUME NEW i \in 1..n, i - 1 \in A PROVE i \in A
  BY <1>1, <1>8, <1>9, <1>11
<1>12. 0..n \subseteq A
  <2> HIDE DEF A
  <2> QED
    BY <1>1, <1>10, <1>11, TurnInduction
<1>13. \A i \in 0..n : a[i] \in Int
  BY <1>12
<1>14. a[0] = 0 /\ \A i \in 1..n : a[i] = next(a[i - 1], i)
  BY <1>1, <1>8, <1>9
<1> QED
  BY <1>13, <1>14 DEF a, n, next

\* Their products.
LEMMA ProductsAre ==
  ASSUME NEW s, Integers(s)
  PROVE  /\ Products(s)[0] = 1 /\ \A i \in 0..Len(s) : Products(s)[i] \in Int
         /\ \A i \in 1..Len(s) : Products(s)[i] = Products(s)[i - 1] * s[i]
<1> DEFINE n == Len(s)
           next(x, i) == x * s[i]
           G == [ix \in (1..n) \X Int |-> next(ix[2], ix[1])]
           Rec(h) == h = [i \in 0..n |-> IF i = 0 THEN 1 ELSE next(h[i - 1], i)]
           a == Products(s)
<1>1. n \in Nat /\ \A i \in 1..n : \A x \in Int : next(x, i) \in Int
  BY DEF Integers
<1>2. a = CHOOSE f : Rec(f)
  BY DEF Products
<1> HIDE DEF n, next
<1>3. G \in [(1..n) \X Int -> Int] /\ \A i \in 1..n : \A x \in Int : G[<<i, x>>] = next(x, i)
  BY <1>1
<1> HIDE DEF G
<1>4. PICK h : h \in [0..n -> Int] /\ \A i \in 0..n : h[i] = IF i = 0 THEN 1 ELSE G[<<i, h[i - 1]>>]
  <2> DEFINE S == Int
             b == 1
  <2>0. n \in Nat
    BY <1>1
  <2>1. b \in S /\ G \in [(1..n) \X S -> S]
    BY <1>3
  <2> HIDE DEF S, b
  <2>2. \E h : Turning(S, b, n, G, h)
    BY ONLY <2>0, <2>1, TurnsDefined
  <2> QED
    BY <2>2 DEF S, b, Turning
<1>5. ASSUME NEW i \in 0..n
      PROVE  (IF i = 0 THEN 1 ELSE G[<<i, h[i - 1]>>]) = (IF i = 0 THEN 1 ELSE next(h[i - 1], i))
  <2>1. i # 0 => i \in 1..n /\ i - 1 \in 0..n
    BY <1>1
  <2> QED
    BY <1>3, <1>4, <2>1
<1>6. Rec(h)
  BY <1>4, <1>5
<1> HIDE DEF a, Rec
<1>7. Rec(a)
  BY <1>2, <1>6
<1>8. \A i \in 0..n : a[i] = IF i = 0 THEN 1 ELSE next(a[i - 1], i)
  BY <1>7 DEF Rec
<1>9. \A i \in 1..n : i \in 0..n /\ i # 0 /\ i \in Nat
  BY <1>1
<1> DEFINE A == {i \in Nat : a[i] \in Int}
<1>10. 0 \in A
  BY <1>1, <1>8
<1>11. ASSUME NEW i \in 1..n, i - 1 \in A PROVE i \in A
  BY <1>1, <1>8, <1>9, <1>11
<1>12. 0..n \subseteq A
  <2> HIDE DEF A
  <2> QED
    BY <1>1, <1>10, <1>11, TurnInduction
<1>13. \A i \in 0..n : a[i] \in Int
  BY <1>12
<1>14. a[0] = 1 /\ \A i \in 1..n : a[i] = next(a[i - 1], i)
  BY <1>1, <1>8, <1>9
<1> QED
  BY <1>13, <1>14 DEF a, n, next

\* What is cut to a long at every turn differs from what is not by multiples
\* of the width of a fixnum.
LEMMA LoopsApart ==
  ASSUME NEW p \in {"+", "*", "-"}, NEW base \in Int, NEW s, Integers(s),
         NEW b, b[0] = base, \A i \in 0..Len(s) : b[i] \in Int,
         \A i \in 1..Len(s) : b[i] = Step(p, b[i - 1], s[i])
  PROVE  \A i \in 0..Len(s) : ApartBy(2 * Half, Accumulated(p, base, s)[i], b[i])
<1> DEFINE M == 2 * Half
<1>1. PICK a, n : a = Accumulated(p, base, s) /\ n = Len(s)
  OBVIOUS
<1>2. /\ n \in Nat /\ a[0] = base /\ \A i \in 0..n : a[i] \in Int
      /\ \A i \in 1..n : a[i] = Long(Step(p, a[i - 1], s[i])) /\ s[i] \in Int
  BY <1>1, Accumulates DEF Integers
<1>3. M \in Nat \ {0}
  BY Widths
<1> HIDE DEF M
<1> DEFINE A == {i \in 0..n : ApartBy(M, a[i], b[i])}
<1>4. 0 \in A
  BY <1>2, <1>3, ApartItself
<1>5. ASSUME NEW i \in 1..n, i - 1 \in A PROVE i \in A
  <2>1. i \in 0..n /\ i - 1 \in 0..n
    BY <1>2
  <2>2. PICK x, y, z : x = a[i - 1] /\ y = b[i - 1] /\ z = s[i]
    OBVIOUS
  <2>3. x \in Int /\ y \in Int /\ z \in Int /\ ApartBy(M, x, y) /\ b[i] = Step(p, y, z)
        /\ a[i] = Long(Step(p, x, z))
    BY <1>1, <1>2, <1>5, <2>1, <2>2
  <2>4. ApartBy(M, Step(p, x, z), Step(p, y, z)) /\ Step(p, x, z) \in Int /\ Step(p, y, z) \in Int
    <3>1. ApartBy(M, x + z, y + z) /\ ApartBy(M, x - z, y - z) /\ ApartBy(M, x * z, y * z)
      BY ONLY <1>3, <2>3, ApartDone
    <3>2. \/ Step(p, x, z) = x + z /\ Step(p, y, z) = y + z
          \/ Step(p, x, z) = x - z /\ Step(p, y, z) = y - z
          \/ Step(p, x, z) = x * z /\ Step(p, y, z) = y * z
      BY DEF Step
    <3>3. x + z \in Int /\ x - z \in Int /\ x * z \in Int /\ y + z \in Int /\ y - z \in Int /\ y * z \in Int
      BY <2>3
    <3> QED
      BY ONLY <3>1, <3>2, <3>3
  <2>5. PICK u, v : u = Step(p, x, z) /\ v = Step(p, y, z)
    OBVIOUS
  <2>6. u \in Int /\ v \in Int /\ ApartBy(M, u, v) /\ Long(u) \in Int /\ ApartBy(M, Long(u), u)
    BY <2>4, <2>5, Wrapped DEF M
  <2>7. ApartBy(M, Long(u), v)
    BY ONLY <1>3, <2>6, ApartThen
  <2> QED
    BY <2>1, <2>3, <2>5, <2>7
<1>6. 0..n \subseteq A
  <2> HIDE DEF A
  <2> QED
    BY <1>2, <1>4, <1>5, TurnInduction
<1> QED
  BY <1>1, <1>6 DEF M

\* A fixnum made of a number differs from it by a multiple of the width.
Congruence(v, n) == v \in {Fixnum(m) : m \in {m \in Fixnums : (m - n) % PowerOfTwo[Bits] = 0}}

\* A fixnum that is so far apart from a number is what Congruent asks for.
LEMMA Congruous ==
  ASSUME NEW a \in Int, NEW b \in Int, ApartBy(2 * Half, a, b)
  PROVE  Congruence(make_fixnum(a), b)
<1>1. PICK w, M : w = Wrap(a, Bits) /\ M = 2 * Half
  OBVIOUS
<1>2. w \in Fixnums /\ w \in Int /\ ApartBy(M, w, a) /\ M \in Nat \ {0} /\ PowerOfTwo[Bits] = M
  BY <1>1, Wrapped, Widths
<1>3. ApartBy(M, w, b)
  BY ONLY <1>1, <1>2, ApartThen, a \in Int, b \in Int, ApartBy(2 * Half, a, b)
<1>4. (w - b) % M = 0
  BY ONLY <1>2, <1>3, ApartZero, b \in Int
<1> QED
  BY <1>1, <1>2, <1>4 DEF Congruence, make_fixnum

\* The numbers behind the first.
LEMMA RestIntegers ==
  ASSUME NEW s, Integers(s), s # << >>
  PROVE  /\ Head(s) = s[1] /\ s[1] \in Int /\ Integers(Tail(s)) /\ Len(Tail(s)) = Len(s) - 1 /\ Len(s) >= 1
         /\ \A i \in 1..(Len(s) - 1) : Tail(s)[i] = s[i + 1]
<1>1. PICK t, n : t = Tail(s) /\ n = Len(s)
  OBVIOUS
<1>2. /\ n \in Nat \ {0} /\ Head(s) = s[1] /\ Sequential(t) /\ Len(t) = n - 1
      /\ \A i \in 1..(n - 1) : t[i] = s[i + 1]
  BY <1>1, Popped DEF Integers
<1>3. \A i \in 1..n : s[i] \in Int
  BY <1>1 DEF Integers
<1>4. ASSUME NEW i \in 1..(n - 1) PROVE t[i] \in Int
  <2>1. i + 1 \in 1..n
    BY <1>2
  <2> QED
    BY <1>2, <1>3, <2>1
<1>5. n - 1 \in Nat /\ 1 \in 1..n /\ n >= 1
  BY <1>2
<1> QED
  BY <1>1, <1>2, <1>3, <1>4, <1>5 DEF Integers

\* What +, * and - compute.
LEMMA SumRight ==
  ASSUME NEW s, Integers(s)
  PROVE  /\ Congruence(Computed("+", s), Sums(s)[Len(s)])
         /\ Congruence(Computed("*", s), Products(s)[Len(s)])
<1>1. Computed("+", s) = Accumulate("+", 0, s) /\ Computed("*", s) = Accumulate("*", 1, s)
  BY DEF Computed
<1>2. Len(s) \in 0..Len(s)
  BY DEF Integers
<1>3. Congruence(Accumulate("+", 0, s), Sums(s)[Len(s)])
  <2>1. PICK a, b : a = Accumulated("+", 0, s) /\ b = Sums(s)
    OBVIOUS
  <2>2. b[0] = 0 /\ (\A i \in 0..Len(s) : b[i] \in Int) /\ \A i \in 1..Len(s) : b[i] = b[i - 1] + s[i]
    BY <2>1, SumsAre
  <2>3. \A i \in 1..Len(s) : b[i] = Step("+", b[i - 1], s[i])
    BY <2>2 DEF Step
  <2>4. \A i \in 0..Len(s) : ApartBy(2 * Half, a[i], b[i])
    BY <2>1, <2>2, <2>3, LoopsApart
  <2>5. a[Len(s)] \in Int
    BY <1>2, <2>1, Accumulates
  <2> QED
    BY <1>2, <2>1, <2>2, <2>4, <2>5, Congruous DEF Accumulate
<1>4. Congruence(Accumulate("*", 1, s), Products(s)[Len(s)])
  <2>1. PICK a, b : a = Accumulated("*", 1, s) /\ b = Products(s)
    OBVIOUS
  <2>2. b[0] = 1 /\ (\A i \in 0..Len(s) : b[i] \in Int) /\ \A i \in 1..Len(s) : b[i] = b[i - 1] * s[i]
    BY <2>1, ProductsAre
  <2>3. \A i \in 1..Len(s) : b[i] = Step("*", b[i - 1], s[i])
    BY <2>2 DEF Step
  <2>4. \A i \in 0..Len(s) : ApartBy(2 * Half, a[i], b[i])
    BY <2>1, <2>2, <2>3, LoopsApart
  <2>5. a[Len(s)] \in Int
    BY <1>2, <2>1, Accumulates
  <2> QED
    BY <1>2, <2>1, <2>2, <2>4, <2>5, Congruous DEF Accumulate
<1> QED
  BY <1>1, <1>3, <1>4

\* - subtracts the other numbers from the first, or one from 0.
LEMMA DifferenceRight ==
  ASSUME NEW s, Integers(s), s # << >>
  PROVE  Congruence(Computed("-", s), IF Len(s) = 1 THEN -s[1] ELSE 2 * s[1] - Sums(s)[Len(s)])
<1>1. CASE Len(s) = 1
  <2>1. Computed("-", s) = Accumulate("-", 0, s)
    BY <1>1 DEF Computed
  <2>2. PICK a, b : a = Accumulated("-", 0, s) /\ b = [i \in 0..1 |-> IF i = 0 THEN 0 ELSE -s[1]]
    OBVIOUS
  <2>3. s[1] \in Int
    BY <1>1 DEF Integers
  <2>4. b[0] = 0 /\ b[1] = -s[1] /\ (\A i \in 0..1 : b[i] \in Int) /\ \A i \in 1..1 : b[i] = Step("-", b[i - 1], s[i])
    <3>1. 0 \in 0..1 /\ 1 \in 0..1 /\ 1 - 1 = 0 /\ 0 - s[1] = -s[1] /\ -s[1] \in Int
      BY <2>3
    <3>2. b[0] = 0 /\ b[1] = -s[1]
      BY <2>2, <3>1
    <3>3. \A i \in 1..1 : i = 1
      OBVIOUS
    <3>4. \A i \in 0..1 : i = 0 \/ i = 1
      OBVIOUS
    <3> QED
      BY <3>1, <3>2, <3>3, <3>4 DEF Step
  <2>5. \A i \in 0..1 : ApartBy(2 * Half, a[i], b[i])
    <3>1. /\ b[0] = 0 /\ (\A i \in 0..Len(s) : b[i] \in Int)
          /\ \A i \in 1..Len(s) : b[i] = Step("-", b[i - 1], s[i])
      BY ONLY <1>1, <2>4
    <3>2. \A i \in 0..Len(s) : ApartBy(2 * Half, Accumulated("-", 0, s)[i], b[i])
      BY ONLY <3>1, LoopsApart, Integers(s)
    <3> QED
      BY ONLY <1>1, <2>2, <3>2
  <2>6. a[1] \in Int /\ 1 \in 0..1
    BY <1>1, <2>2, Accumulates
  <2>7. Congruence(make_fixnum(a[1]), b[1])
    BY <2>4, <2>5, <2>6, Congruous
  <2> QED
    BY <1>1, <2>1, <2>2, <2>4, <2>7 DEF Accumulate
<1>2. CASE Len(s) # 1
  <2>1. Computed("-", s) = Accumulate("-", Head(s), Tail(s))
    BY <1>2 DEF Computed
  <2>2. PICK t, n, x, S : t = Tail(s) /\ n = Len(s) /\ x = s[1] /\ S = Sums(s)
    OBVIOUS
  <2>3. /\ Head(s) = x /\ x \in Int /\ Integers(t) /\ Len(t) = n - 1 /\ n >= 1 /\ n \in Nat
        /\ \A i \in 1..(n - 1) : t[i] = s[i + 1]
    BY <2>2, RestIntegers DEF Integers
  <2>4. S[0] = 0 /\ (\A i \in 0..n : S[i] \in Int) /\ (\A i \in 1..n : S[i] = S[i - 1] + s[i])
        /\ \A i \in 1..n : s[i] \in Int
    BY <2>2, SumsAre DEF Integers
  <2>5. PICK a, b : a = Accumulated("-", x, t) /\ b = [i \in 0..(n - 1) |-> 2 * x - S[i + 1]]
    OBVIOUS
  <2>6. \A i \in 0..(n - 1) : i + 1 \in 0..n /\ b[i] = 2 * x - S[i + 1] /\ S[i + 1] \in Int
    BY <2>3, <2>4, <2>5
  <2>7. b[0] = x
    <3>1. 1 \in 1..n /\ 0 \in 0..(n - 1) /\ 1 - 1 = 0 /\ 0 + 1 = 1
      BY <2>3
    <3>2. S[1] = 0 + x
      BY <2>2, <2>4, <3>1
    <3>3. b[0] = 2 * x - S[1]
      BY <2>6, <3>1
    <3> QED
      BY <2>3, <3>2, <3>3
  <2>8. ASSUME NEW i \in 1..(n - 1) PROVE b[i] = Step("-", b[i - 1], t[i])
    <3>1. i \in 0..(n - 1) /\ i - 1 \in 0..(n - 1) /\ i + 1 \in 1..n /\ (i - 1) + 1 = i /\ (i + 1) - 1 = i
      BY <2>3
    <3>2. b[i] = 2 * x - S[i + 1] /\ b[i - 1] = 2 * x - S[i] /\ S[i + 1] = S[i] + s[i + 1] /\ t[i] = s[i + 1]
      <4>1. b[i - 1] = 2 * x - S[(i - 1) + 1]
        BY <2>6, <3>1
      <4>2. S[i + 1] = S[(i + 1) - 1] + s[i + 1]
        BY <2>4, <3>1
      <4> QED
        BY <2>3, <2>6, <3>1, <4>1, <4>2
    <3>3. S[i] \in Int /\ s[i + 1] \in Int
      <4>1. i \in 0..n
        BY <2>3
      <4> QED
        BY <2>4, <3>1, <4>1
    <3>4. \A u \in Int, v \in Int, w \in Int : 2 * u - (v + w) = (2 * u - v) - w
      OBVIOUS
    <3>5. 2 * x - (S[i] + s[i + 1]) = (2 * x - S[i]) - s[i + 1]
      BY ONLY <2>3, <3>3, <3>4
    <3> QED
      BY ONLY <3>2, <3>5 DEF Step
  <2>9. \A i \in 0..(n - 1) : b[i] \in Int
    BY <2>3, <2>6
  <2>10. \A i \in 0..(n - 1) : ApartBy(2 * Half, a[i], b[i])
    <3>1. /\ b[0] = x /\ (\A i \in 0..Len(t) : b[i] \in Int)
          /\ \A i \in 1..Len(t) : b[i] = Step("-", b[i - 1], t[i])
      BY ONLY <2>3, <2>7, <2>8, <2>9
    <3>2. \A i \in 0..Len(t) : ApartBy(2 * Half, Accumulated("-", x, t)[i], b[i])
      BY ONLY <2>3, <3>1, LoopsApart
    <3> QED
      BY ONLY <2>3, <2>5, <3>2
  <2>11. n - 1 \in 0..(n - 1) /\ (n - 1) + 1 = n
    BY <2>3
  <2>12. a[n - 1] \in Int
    BY ONLY <2>3, <2>5, <2>11, Accumulates
  <2>13. Congruence(make_fixnum(a[n - 1]), b[n - 1])
    BY ONLY <2>9, <2>10, <2>11, <2>12, Congruous
  <2>14. b[n - 1] = 2 * x - S[n]
    BY <2>6, <2>11
  <2>15. Computed("-", s) = make_fixnum(a[n - 1])
    BY <2>1, <2>2, <2>3, <2>5 DEF Accumulate
  <2> QED
    BY <1>2, <2>2, <2>13, <2>14, <2>15
<1> QED
  BY <1>1, <1>2

-----------------------------------------------------------------------------
(* Division. *)

\* / and % of C make up the dividend, and a remainder is smaller than the
\* divisor and of the dividend's sign.
LEMMA Division ==
  ASSUME NEW x \in Int, NEW y \in Int, y # 0
  PROVE  /\ Quot(x, y) \in Int /\ Rem(x, y) \in Int /\ x = Quot(x, y) * y + Rem(x, y)
         /\ Magnitude(Rem(x, y)) < Magnitude(y) /\ (Rem(x, y) # 0 => (Rem(x, y) < 0) = (x < 0))
<1>1. PICK a, b, q, r, k, t :
        a = Magnitude(x) /\ b = Magnitude(y) /\ q = a \div b /\ r = a % b /\ k = Quot(x, y) /\ t = Rem(x, y)
  OBVIOUS
<1>2. a \in Nat /\ b \in Nat \ {0} /\ (x < 0 => x = -a) /\ (~(x < 0) => x = a) /\ (y < 0 => y = -b) /\ (~(y < 0) => y = b)
  BY <1>1 DEF Magnitude
<1>3. q \in Int /\ r \in 0..(b - 1) /\ a = b * q + r
  <2>1. a \in Int /\ b \in Nat \ {0}
    BY <1>2
  <2>2. a \div b \in Int /\ a % b \in 0..(b - 1) /\ a = b * (a \div b) + (a % b)
    BY ONLY <2>1, Divided
  <2> QED
    BY ONLY <1>1, <2>2
<1>4. k = (IF (x < 0) = (y < 0) THEN q ELSE -q) /\ t = x - y * k
  BY <1>1 DEF Quot, Rem
<1>5. k \in Int /\ t \in Int
  BY <1>2, <1>3, <1>4
<1>6. x = k * y + t
  BY <1>4, <1>5
<1>7. t = IF x < 0 THEN -r ELSE r
  <2>1. CASE x < 0 /\ y < 0
    <3>1. t = (-a) - (-b) * q
      BY <1>2, <1>4, <2>1
    <3> QED
      BY ONLY <1>2, <1>3, <2>1, <3>1
  <2>2. CASE x < 0 /\ ~(y < 0)
    <3>1. t = (-a) - b * (-q)
      BY <1>2, <1>4, <2>2
    <3> QED
      BY ONLY <1>2, <1>3, <2>2, <3>1
  <2>3. CASE ~(x < 0) /\ y < 0
    <3>1. t = a - (-b) * (-q)
      BY <1>2, <1>4, <2>3
    <3> QED
      BY ONLY <1>2, <1>3, <2>3, <3>1
  <2>4. CASE ~(x < 0) /\ ~(y < 0)
    <3>1. t = a - b * q
      BY <1>2, <1>4, <2>4
    <3> QED
      BY ONLY <1>2, <1>3, <2>4, <3>1
  <2> QED
    BY <2>1, <2>2, <2>3, <2>4
<1>8. Magnitude(t) < b
  BY ONLY <1>2, <1>3, <1>5, <1>7 DEF Magnitude
<1>9. t # 0 => (t < 0) = (x < 0)
  BY ONLY <1>2, <1>3, <1>5, <1>7, x \in Int
<1> QED
  BY ONLY <1>1, <1>5, <1>6, <1>8, <1>9

\* What is smaller than a fixnum is one.
LEMMA SmallerFixnum ==
  ASSUME NEW r \in Int, NEW y \in Fixnums, Magnitude(r) < Magnitude(y)
  PROVE  r \in Fixnums /\ make_fixnum(r) = Fixnum(r)
<1>1. r \in Fixnums
  BY Widths DEF Magnitude
<1> QED
  BY <1>1, FixnumIs

\* quotient and remainder make up the dividend.
LEMMA QuotientRight ==
  ASSUME NEW x \in Fixnums, NEW y \in Fixnums, y # 0
  PROVE  LET v == quotient(x, y)
             r == remainder(x, y).i
         IN  /\ make_fixnum(v.i * y + r) = Fixnum(x)
             /\ Magnitude(r) < Magnitude(y) /\ (r # 0 => (r < 0) = (x < 0))
<1>1. PICK k, t, w, M, H : k = Quot(x, y) /\ t = Rem(x, y) /\ w = Wrap(k, Bits) /\ H = Half /\ M = 2 * H
  OBVIOUS
<1>2. x \in Int /\ y \in Int /\ Fixnums = (-H)..(H - 1) /\ H \in Nat \ {0} /\ M \in Nat \ {0}
  BY <1>1, Widths
<1>3. /\ k \in Int /\ t \in Int /\ x = k * y + t
      /\ Magnitude(t) < Magnitude(y) /\ (t # 0 => (t < 0) = (x < 0))
  BY ONLY <1>1, <1>2, Division, y # 0
<1>4. remainder(x, y).i = t
  BY <1>1, <1>3, SmallerFixnum DEF remainder, Fixnum
<1>5. quotient(x, y).i = w /\ w \in Int /\ ApartBy(M, w, k)
  BY <1>1, <1>3, Wrapped DEF quotient, make_fixnum, Fixnum
<1>6. ApartBy(M, (w * y) + t, x)
  <2>1. ApartBy(M, w * y, k * y)
    BY ONLY <1>2, <1>3, <1>5, ApartDone
  <2>2. PICK c, d : c = w * y /\ d = k * y
    OBVIOUS
  <2>3. c \in Int /\ d \in Int
    BY <1>2, <1>3, <1>5, <2>2
  <2>4. ApartBy(M, c + t, d + t)
    BY ONLY <1>2, <1>3, <2>1, <2>2, <2>3, ApartDone
  <2> QED
    BY ONLY <1>3, <2>2, <2>4
<1>7. PICK n : n = (w * y) + t
  OBVIOUS
<1>8. n \in Int
  BY <1>2, <1>3, <1>5, <1>7
<1>9. PICK z : z = Wrap(n, Bits)
  OBVIOUS
<1>10. z \in Fixnums /\ z \in Int /\ ApartBy(M, z, n)
  BY <1>1, <1>8, <1>9, Wrapped
<1>11. ApartBy(M, z, x)
  BY ONLY <1>2, <1>6, <1>7, <1>8, <1>10, ApartThen
<1>12. z = x
  BY ONLY <1>1, <1>2, <1>10, <1>11, ApartSame, x \in Fixnums
<1>13. make_fixnum(n) = Fixnum(x)
  BY <1>9, <1>12 DEF make_fixnum
<1> QED
  BY ONLY <1>3, <1>4, <1>5, <1>7, <1>13

\* modulo has the sign of the divisor and is less than it.
LEMMA ModuloRight ==
  ASSUME NEW x \in Fixnums, NEW y \in Fixnums, y # 0
  PROVE  LET v == modulo(x, y) IN
         /\ (x - v.i) % Magnitude(y) = 0 /\ Magnitude(v.i) < Magnitude(y)
         /\ v.i # 0 => (v.i < 0) = (y < 0)
<1>1. PICK k, r, m, j : k = Quot(x, y) /\ r = Rem(x, y) /\ m = Rem(r + y, y) /\ j = Quot(r + y, y)
  OBVIOUS
<1>2. x \in Int /\ y \in Int
  BY Widths
<1>3. k \in Int /\ r \in Int /\ x = k * y + r /\ Magnitude(r) < Magnitude(y)
  BY ONLY <1>1, <1>2, Division, y # 0
<1>4. r + y \in Int /\ (r + y < 0) = (y < 0)
  BY <1>2, <1>3 DEF Magnitude
<1>5. /\ j \in Int /\ m \in Int /\ r + y = j * y + m /\ Magnitude(m) < Magnitude(y)
      /\ (m # 0 => (m < 0) = (y < 0))
  BY ONLY <1>1, <1>2, <1>4, Division, y # 0
<1>6. modulo(x, y).i = m
  BY <1>1, <1>5, SmallerFixnum DEF modulo, Fixnum
<1>7. PICK b : b = Magnitude(y)
  OBVIOUS
<1>8. b \in Nat \ {0} /\ (y = b \/ y = -b)
  BY <1>2, <1>7 DEF Magnitude
<1>9. x - m = (k + j - 1) * y /\ k + j - 1 \in Int
  BY ONLY <1>2, <1>3, <1>5
<1>10. ApartBy(b, x, m)
  <2>1. CASE y = b
    <3>1. x = m + (k + j - 1) * b
      BY ONLY <1>2, <1>3, <1>5, <1>8, <1>9, <2>1
    <3> QED
      BY <1>9, <3>1 DEF ApartBy
  <2>2. CASE y = -b
    <3>1. x = m + (-(k + j - 1)) * b /\ -(k + j - 1) \in Int
      BY ONLY <1>2, <1>3, <1>5, <1>8, <1>9, <2>2
    <3> QED
      BY <3>1 DEF ApartBy
  <2> QED
    BY <1>8, <2>1, <2>2
<1>11. (x - m) % b = 0
  BY ONLY <1>2, <1>5, <1>8, <1>10, ApartZero
<1> QED
  BY ONLY <1>5, <1>6, <1>7, <1>11

\* abs, which makes of the least fixnum itself again.
LEMMA AbsRight ==
  ASSUME NEW x \in Fixnums
  PROVE  Congruence(abs(x), IF x < 0 THEN -x ELSE x)
<1>1. x \in Int /\ 2 * Half \in Nat \ {0} /\ PowerOfTwo[Bits] = 2 * Half
  BY Widths
<1>2. CASE x < 0
  <2>1. PICK y : y = -x
    OBVIOUS
  <2>2. y \in Int
    BY <1>1, <2>1
  <2>3. ApartBy(2 * Half, y, y)
    BY <1>1, <2>2, ApartItself
  <2>4. Congruence(make_fixnum(y), y)
    BY <2>2, <2>3, Congruous
  <2> QED
    BY <1>2, <2>1, <2>4 DEF abs
<1>3. CASE ~(x < 0)
  <2>1. ApartBy(2 * Half, x, x)
    BY <1>1, ApartItself
  <2>2. Congruence(make_fixnum(x), x)
    BY <1>1, <2>1, Congruous
  <2> QED
    BY <1>3, <2>2, FixnumIs DEF abs
<1> QED
  BY <1>2, <1>3

\* odd? and even?, of negative numbers as well.
LEMMA ParityRight ==
  ASSUME NEW x \in Fixnums
  PROVE  /\ sign_of("odd?", x) = (x \in {2 * m + 1 : m \in Fixnums})
         /\ sign_of("even?", x) = (x \in {2 * m : m \in Fixnums})
<1>1. PICK k, r, H : k = Quot(x, 2) /\ r = Rem(x, 2) /\ H = Half
  OBVIOUS
<1>2. x \in Int /\ H \in Nat \ {0} /\ Fixnums = (-H)..(H - 1)
  BY <1>1, Widths
<1>3. k \in Int /\ r \in Int /\ x = k * 2 + r /\ Magnitude(r) < 2
  <2>1. 2 \in Int /\ 2 # 0 /\ Magnitude(2) = 2
    BY DEF Magnitude
  <2> QED
    BY ONLY <1>1, <1>2, <2>1, Division
<1>4. r \in {-1, 0, 1}
  BY <1>3 DEF Magnitude
<1>5. ASSUME r = 0 PROVE (\E m \in Fixnums : x = 2 * m) /\ \A m \in Fixnums : x # 2 * m + 1
  <2>1. k \in Fixnums /\ x = 2 * k
    BY <1>2, <1>3, <1>5
  <2> QED
    BY <1>2, <2>1
<1>6. ASSUME r # 0 PROVE (\E m \in Fixnums : x = 2 * m + 1) /\ \A m \in Fixnums : x # 2 * m
  <2>1. CASE r = 1
    <3>1. k \in Fixnums /\ x = 2 * k + 1
      BY <1>2, <1>3, <2>1
    <3> QED
      BY <1>2, <3>1
  <2>2. CASE r = -1
    <3>1. k - 1 \in Fixnums /\ x = 2 * (k - 1) + 1 /\ k - 1 \in Int
      BY <1>2, <1>3, <2>2
    <3> QED
      BY <1>2, <3>1
  <2> QED
    BY <1>4, <1>6, <2>1, <2>2
<1>7. sign_of("odd?", x) = (r # 0) /\ sign_of("even?", x) = (r = 0)
  BY <1>1 DEF sign_of
<1> QED
  BY <1>5, <1>6, <1>7

\* The comparisons.
LEMMA HoldsIs ==
  ASSUME NEW x, NEW y
  PROVE  /\ Holds("=", x, y) <=> x = y
         /\ Holds("<", x, y) <=> x < y
         /\ Holds(">", x, y) <=> x > y
         /\ Holds("<=", x, y) <=> x <= y
         /\ Holds(">=", x, y) <=> x >= y
BY DEF Holds

\* The number that no other is greater than, for max, or less than, for min.
LEMMA ExtremesAre ==
  ASSUME NEW op \in {"<", ">"}, NEW s, Integers(s), s # << >>
  PROVE  LET x == Extremes(op, s)[Len(s) - 1] IN
         (\E j \in 1..Len(s) : x = s[j]) /\ \A j \in 1..Len(s) : ~Holds(op, x, s[j])
<1> DEFINE next(x, i) == IF Holds(op, x, s[i + 1]) THEN s[i + 1] ELSE x
           G == [ix \in (1..(Len(s) - 1)) \X Int |-> next(ix[2], ix[1])]
           Rec(h) == h = [i \in 0..(Len(s) - 1) |-> IF i = 0 THEN s[1] ELSE next(h[i - 1], i)]
<1>1. PICK a, n : a = Extremes(op, s) /\ n = Len(s) - 1
  OBVIOUS
<1>2. n \in Nat /\ Len(s) = n + 1 /\ s[1] \in Int /\ \A i \in 1..n : s[i + 1] \in Int
  <2>1. Len(s) >= 1 /\ Len(s) \in Nat /\ s[1] \in Int /\ \A i \in 1..Len(s) : s[i] \in Int
    BY RestIntegers DEF Integers
  <2>2. \A i \in 1..n : i + 1 \in 1..Len(s)
    BY <1>1, <2>1
  <2> QED
    BY <1>1, <2>1, <2>2
<1>3. a = CHOOSE f : Rec(f)
  BY <1>1 DEF Extremes
<1>4. \A i \in 1..n : \A x \in Int : next(x, i) \in Int
  BY <1>2
<1>5. \A i \in 1..n : \A x \in Int :
        \/ next(x, i) = s[i + 1] /\ Holds(op, x, s[i + 1])
        \/ next(x, i) = x /\ ~Holds(op, x, s[i + 1])
  OBVIOUS
<1> HIDE DEF next
<1>6. G \in [(1..n) \X Int -> Int] /\ \A i \in 1..n : \A x \in Int : G[<<i, x>>] = next(x, i)
  BY <1>1, <1>4
<1> HIDE DEF G
<1>7. PICK h : h \in [0..n -> Int] /\ \A i \in 0..n : h[i] = IF i = 0 THEN s[1] ELSE G[<<i, h[i - 1]>>]
  <2> DEFINE S == Int
             b == s[1]
  <2>0. n \in Nat
    BY <1>2
  <2>1. b \in S /\ G \in [(1..n) \X S -> S]
    BY <1>2, <1>6
  <2> HIDE DEF S, b
  <2>2. \E h : Turning(S, b, n, G, h)
    BY ONLY <2>0, <2>1, TurnsDefined
  <2> QED
    BY <2>2 DEF S, b, Turning
<1>8. ASSUME NEW i \in 0..n
      PROVE  (IF i = 0 THEN s[1] ELSE G[<<i, h[i - 1]>>]) = (IF i = 0 THEN s[1] ELSE next(h[i - 1], i))
  <2>1. i # 0 => i \in 1..n /\ i - 1 \in 0..n
    BY <1>2
  <2> QED
    BY <1>6, <1>7, <2>1
<1>9. Rec(h)
  BY <1>1, <1>7, <1>8
<1> HIDE DEF Rec
<1>10. Rec(a)
  BY <1>3, <1>9
<1>11. \A i \in 0..n : a[i] = IF i = 0 THEN s[1] ELSE next(a[i - 1], i)
  BY <1>1, <1>10 DEF Rec
<1> DEFINE A == {i \in 0..n : /\ a[i] \in Int /\ \E j \in 1..(i + 1) : a[i] = s[j]
                             /\ \A j \in 1..(i + 1) : ~Holds(op, a[i], s[j])}
<1>12. 0 \in A
  <2>1. a[0] = s[1] /\ 0 \in 0..n /\ \A j \in 1..(0 + 1) : j = 1
    BY <1>2, <1>11
  <2>2. ~Holds(op, s[1], s[1])
    BY <1>2, HoldsIs
  <2> QED
    BY <1>2, <2>1, <2>2
<1>13. ASSUME NEW i \in 1..n, i - 1 \in A PROVE i \in A
  <2>1. i \in 0..n /\ i # 0 /\ (i - 1) + 1 = i /\ i + 1 \in 1..(n + 1)
        /\ \A j \in 1..(i + 1) : j \in 1..i \/ j = i + 1
    BY <1>2
  <2>2. PICK x, y, u : x = a[i - 1] /\ y = a[i] /\ u = s[i + 1]
    OBVIOUS
  <2>3. x \in Int /\ u \in Int /\ (\E j \in 1..i : x = s[j]) /\ \A j \in 1..i : ~Holds(op, x, s[j])
    BY <1>2, <1>13, <2>1, <2>2
  <2>4. y = next(x, i)
    BY <1>11, <2>1, <2>2
  <2>5. \A j \in 1..i : s[j] \in Int
    <3>1. \A j \in 1..i : j \in 1..Len(s)
      BY <1>2
    <3> QED
      BY <3>1 DEF Integers
  <2>6. CASE y = u /\ Holds(op, x, u)
    <3>1. ~Holds(op, u, u) /\ \A j \in 1..i : ~Holds(op, u, s[j])
      <4>1. CASE op = "<"
        BY ONLY <2>3, <2>5, <2>6, <4>1, HoldsIs
      <4>2. CASE op = ">"
        BY ONLY <2>3, <2>5, <2>6, <4>2, HoldsIs
      <4> QED
        BY <4>1, <4>2
    <3>2. i + 1 \in 1..(i + 1) /\ u = s[i + 1]
      BY <2>1, <2>2
    <3> QED
      BY ONLY <2>1, <2>2, <2>3, <2>6, <3>1, <3>2 DEF A
  <2>7. CASE y = x /\ ~Holds(op, x, u)
    <3>1. \E j \in 1..(i + 1) : x = s[j]
      BY <2>1, <2>3
    <3> QED
      BY ONLY <2>1, <2>2, <2>3, <2>7, <3>1 DEF A
  <2> QED
    BY <1>5, <2>2, <2>3, <2>4, <2>6, <2>7
<1>14. n \in A
  <2>1. 0..n \subseteq A
    <3> HIDE DEF A
    <3> QED
      BY <1>2, <1>12, <1>13, TurnInduction
  <2> QED
    BY <1>2, <2>1
<1> QED
  BY <1>1, <1>2, <1>14

\* max and min are of their arguments, and no other one is beyond them.
LEMMA ExtremeRight ==
  ASSUME NEW s, Integers(s), s # << >>
  PROVE  /\ max(s).i \in Range(s) /\ \A m \in Range(s) : m <= max(s).i
         /\ min(s).i \in Range(s) /\ \A m \in Range(s) : m >= min(s).i
<1>1. Range(s) = {s[j] : j \in 1..Len(s)} /\ \A j \in 1..Len(s) : s[j] \in Int
  <2>1. DOMAIN s = 1..Len(s)
    <3>1. PICK S : s \in Seq(S)
      BY DEF Integers, Sequential
    <3> QED
      BY <3>1
  <2> QED
    BY <2>1 DEF Range, Integers
<1>2. PICK x, y : x = max(s).i /\ y = min(s).i
  OBVIOUS
<1>3. x = Extremes("<", s)[Len(s) - 1] /\ y = Extremes(">", s)[Len(s) - 1]
  BY <1>2 DEF max, min, Fixnum
<1>4. (\E j \in 1..Len(s) : x = s[j]) /\ \A j \in 1..Len(s) : ~Holds("<", x, s[j])
  BY <1>3, ExtremesAre
<1>5. (\E j \in 1..Len(s) : y = s[j]) /\ \A j \in 1..Len(s) : ~Holds(">", y, s[j])
  BY <1>3, ExtremesAre
<1>6. x \in Int /\ y \in Int
  BY <1>1, <1>4, <1>5
<1>7. \A j \in 1..Len(s) : s[j] <= x /\ s[j] >= y
  BY <1>1, <1>4, <1>5, <1>6, HoldsIs
<1> QED
  BY <1>1, <1>2, <1>4, <1>5, <1>7

-----------------------------------------------------------------------------
(* Calls that are one step: their answers are known from the start.        *)

Comparisons == {"number_fun", "char_fun", "string_fun"}
Cases       == {"char-upcase", "char-downcase"}
Lone        == Arithmetic \cup Signs \cup Comparisons \cup Cases

\* What each returns.
Told ==
  CASE primitive \in Arithmetic -> arithmetic(primitive, args)
    [] primitive \in Signs ->
         IF Sent(1) /\ is_fixnum(args[1]) THEN Boolean(sign_of(primitive, args[1].i)) ELSE Error
    [] primitive = "number_fun" -> number_fun(given.call.op, args)
    [] primitive = "char_fun"   -> char_fun(given.call.op, given.call.ci, args)
    [] primitive = "string_fun" -> string_fun(given.call.op, given.call.ci, [j \in DOMAIN args |-> is_string(args[j])],
                                              [j \in DOMAIN args |-> elements(args[j])])
    [] primitive \in Cases -> char_case(primitive, args)

OneStep == primitive \in Lone => walk = Idle \/ (walk.m = "done" /\ result = Told)

\* What a call returns depends on the call and on the store only.
LEMMA ToldStays ==
  ASSUME UNCHANGED <<given, store>>
  PROVE  Told' = Told /\ primitive' = primitive
<1>1. given' = given /\ store' = store /\ args' = args /\ primitive' = primitive
  BY DEF args, primitive
<1> QED
  BY <1>1 DEF Told, Sent, is_string, elements

\* The situation of a call stays the one it was.
LEMMA GivenConstant ==
  ASSUME IInv, Next
  PROVE  given' = given
<1> USE DEF Return, Fail, Make, New, Loop
<1>1. CASE StartWalk
  <2>1. Len(args) \in Nat /\ (args = << >> <=> Len(args) = 0)
    BY <1>1, ArgumentFacts DEF IInv
  <2>2. PICK N : N = Len(args)
    OBVIOUS
  <2>3. (CASE primitive = "append" /\ args = << >> -> Return(nil)
           [] primitive = "append" /\ N = 1 -> Return(args[1])
           [] primitive = "append" /\ N > 1 -> Loop(Look(1, nil, nil))
           [] primitive # "append" /\ N # Arguments[primitive] -> Fail
           [] primitive # "append" /\ N = Arguments[primitive] -> Loop(Look(ListArgument[primitive], nil, nil)))
    BY <1>1, <2>2 DEF StartWalk
  <2>4. (args = << >> <=> N = 0) /\ (N = 0 \/ N = 1 \/ N > 1)
    BY <2>1, <2>2
  <2> QED
    BY ONLY <2>3, <2>4
<1>2. CASE Hare \/ HareEnds \/ Refuses \/ StartLoop
  BY <1>2 DEF Hare, HareEnds, Refuses, StartLoop
<1>3. CASE Convert
  BY <1>3 DEF Convert, Converting
<1>4. CASE IsList \/ Count \/ Skip \/ Copy \/ StartReverse \/ ReverseOne \/ ReverseLast
  BY <1>4 DEF IsList, Count, Skip, Copy, StartReverse, ReverseOne, ReverseLast
<1>5. CASE Skipped
  <2>1. primitive \in {"list-tail", "list-ref"}
    BY <1>5 DEF Skipped, Counting, IInv, InCount
  <2> QED
    BY <1>5, <2>1 DEF Skipped
<1>6. CASE Copied
  <2>1. walk.i \in Nat /\ Len(args) \in Nat /\ walk.i + 1 <= Len(args)
    <3>1. Turn(walk.i) /\ primitive = "append" /\ Len(args) \in Nat
      BY <1>6, ArgumentFacts DEF Copied, IInv, InAppend
    <3> QED
      BY <3>1 DEF Turn
  <2>2. PICK i, n : i = walk.i + 1 /\ n = Len(args)
    OBVIOUS
  <2>3. (CASE i < n -> Loop(Look(i, walk.head, walk.tail))
           [] i = n /\ walk.tail = nil -> Return(args[i])
           [] i = n /\ walk.tail # nil -> Make(Put(store, walk.tail, 2, args[i]), walk.head))
    BY <1>6, <2>2 DEF Copied
  <2>4. i < n \/ i = n
    BY <2>1, <2>2
  <2> QED
    BY <2>3, <2>4
<1>7. CASE StartEqual
  BY <1>7 DEF StartEqual
<1>8. ASSUME Comparing PROVE Len(walk.frames) \in Nat /\ (Equal \/ Unequal => given' = given)
  <2>1. primitive \in {"equal?", "member", "assoc"}
    BY <1>8, TopFacts
  <2>2. PICK N : N \in Nat \ {0} /\ N = Len(walk.frames)
    <3>1. \E v, w : Frames(walk.frames, v, w)
      <4>1. CASE primitive = "equal?"
        BY <1>8, <4>1, ComparingFacts
      <4>2. CASE primitive # "equal?"
        <5>1. PICK i, lst, head, tail, c, frames, n :
                /\ walk = [m |-> primitive, i |-> i, lst |-> lst, head |-> head, tail |-> tail, n |-> c,
                           frames |-> frames]
                /\ Frames(frames, args[1], Key(n))
          BY <1>8, <4>2, ComparingFacts
        <5>2. walk.frames = frames
          BY <5>1
        <5> QED
          BY <5>1, <5>2
      <4> QED
        BY <4>1, <4>2
    <3> QED
      BY <3>1, Popped DEF Frames
  <2>3. Equal => given' = given
    <3>1. CASE N > 1
      BY <2>2, <3>1, EqualCases
    <3>2. CASE N = 1
      <4>1. CASE primitive = "equal?"
        BY <2>2, <3>2, <4>1, EqualCases
      <4>2. CASE primitive = "member"
        BY <2>2, <3>2, <4>2, EqualCases
      <4>3. CASE primitive = "assoc"
        BY <2>2, <3>2, <4>3, EqualCases
      <4> QED
        BY <2>1, <4>1, <4>2, <4>3
    <3>3. N > 1 \/ N = 1
      <4>1. \A n \in Nat \ {0} : n > 1 \/ n = 1
        OBVIOUS
      <4> QED
        BY ONLY <2>2, <4>1
    <3> QED
      BY ONLY <3>1, <3>2, <3>3
  <2> QED
    BY <2>2, <2>3 DEF Unequal
<1>9. CASE CompareAtoms
  BY <1>8, <1>9 DEF CompareAtoms
<1>10. CASE CompareParts
  <2>1. PICK x, y, top, N, M, D :
          /\ top = Head(walk.frames) /\ x = elements(top.x) /\ y = elements(top.y)
          /\ N = Len(x) /\ M = Len(y) /\ D = Len(walk.frames)
    OBVIOUS
  <2>2. (CASE N # M -> Unequal
           [] N = M /\ top.i > N -> Equal
           [] N = M /\ top.i <= N /\ D >= MaxDepth -> Loop([m |-> "overflow"])
           [] N = M /\ top.i <= N /\ D < MaxDepth ->
                Loop([walk EXCEPT !.frames = <<Frame(x[top.i], y[top.i]), [top EXCEPT !.i = @ + 1]>> \o Tail(@)]))
    BY <1>10, <2>1 DEF CompareParts
  <2>3. N \in Nat /\ top.i \in Nat /\ D \in Nat
    <3>1. /\ GivenOK /\ Sound /\ store = given.store /\ top = walk.frames[1] /\ IsFrame(top)
          /\ Value(given.store, top.x)
      <4>1. Comparing
        BY <1>10 DEF CompareParts
      <4> QED
        BY ONLY <2>1, <4>1, IInv, TopFacts
    <3>2. PICK kind \in {"pair", "vector"} : Is(given.store, top.x, kind)
      BY <1>10, <2>1, <3>1 DEF CompareParts, SameKind
    <3>3. Object(given.store, given.store[top.x.a])
      BY ONLY <3>1, <3>2 DEF Sound, Value, Is
    <3>4. N \in Nat
      BY <2>1, <3>1, <3>2, <3>3, ObjectParts DEF elements
    <3>5. D \in Nat
      BY <1>8, <1>10, <2>1 DEF CompareParts
    <3> QED
      BY ONLY <3>1, <3>4, <3>5 DEF IsFrame
  <2>4. (top.i > N \/ top.i <= N) /\ (D >= MaxDepth \/ D < MaxDepth)
    BY <2>3, DepthAssumption
  <2>5. Unequal \/ Equal \/ given' = given
    <3>1. PICK F1, F2 : F1 = [m |-> "overflow"]
                     /\ F2 = [walk EXCEPT !.frames = <<Frame(x[top.i], y[top.i]), [top EXCEPT !.i = @ + 1]>> \o Tail(@)]
      OBVIOUS
    <3>2. (CASE N # M -> Unequal
             [] N = M /\ top.i > N -> Equal
             [] N = M /\ top.i <= N /\ D >= MaxDepth -> Loop(F1)
             [] N = M /\ top.i <= N /\ D < MaxDepth -> Loop(F2))
      BY ONLY <2>2, <3>1
    <3>3. Unequal \/ Equal \/ Loop(F1) \/ Loop(F2)
      BY ONLY <2>4, <3>2
    <3> QED
      BY ONLY <3>3 DEF Loop
  <2> QED
    BY <1>8, <1>10, <2>5 DEF CompareParts
<1>11. CASE Find
  <2>1. primitive \in {"memq", "member", "assq", "assoc"}
    BY <1>11, FindFacts DEF Find
  <2> QED
    BY <1>11, <2>1 DEF Find
<1>12. CASE PairCall \/ EqCall
  BY <1>12 DEF PairCall, EqCall
<1>13. CASE VectorCall
  BY <1>13 DEF VectorCall
<1>14. CASE StringCall \/ WholeStringCall
  BY <1>14 DEF StringCall, WholeStringCall, StringCopy
<1>15. CASE Compare
  BY <1>15 DEF Compare, Calls
<1>16. CASE NumberCall
  BY <1>16 DEF NumberCall
<1>17. CASE Returned
  BY <1>17 DEF Returned, vars
<1> QED
  BY <1>1, <1>2, <1>3, <1>4, <1>5, <1>6, <1>7, <1>9, <1>10, <1>11, <1>12, <1>13, <1>14, <1>15, <1>16, <1>17
     DEF Next, Lists, Search

\* Nothing follows an answer.
LEMMA DoneStays ==
  ASSUME Next, walk.m = "done"
  PROVE  UNCHANGED vars
<1>1. ~StartWalk /\ ~StartEqual /\ ~Hare /\ ~HareEnds /\ ~Refuses /\ ~StartLoop /\ ~Convert
  BY DEF Hare, HareEnds, Refuses, StartLoop, Convert, Accepted, StartWalk, StartEqual
<1>2. ~Lists
  BY DEF Lists, IsList, Count, Skip, Skipped, Counting, Copy, Copied, StartReverse, Accepted, ReverseOne, Reversing,
         ReverseLast
<1>3. ~CompareParts /\ ~CompareAtoms /\ ~Find
  BY DEF CompareParts, CompareAtoms, Comparing, Find
<1>4. ~PairCall /\ ~EqCall /\ ~VectorCall
  BY DEF PairCall, EqCall, VectorCall, Calls
<1>5. ~StringCall /\ ~WholeStringCall /\ ~Compare /\ ~NumberCall
  BY DEF StringCall, WholeStringCall, Compare, NumberCall, Calls
<1>6. Returned
  BY <1>1, <1>2, <1>3, <1>4, <1>5 DEF Next, Search
<1> QED
  BY <1>6 DEF Returned

\* No loop starts for these.
LEMMA LoneSteps ==
  ASSUME primitive \in Lone, Next, walk = Idle
  PROVE  Compare \/ NumberCall
<1>1. walk.m = "start"
  BY DEF Idle
<1>2. primitive \notin Walkers /\ primitive # "equal?" /\ primitive # "eq?"
  BY DEF Lone, Arithmetic, Signs, Comparisons, Cases, IntegerDivisions, Walkers
<1>3. ~StartWalk /\ ~StartEqual
  BY <1>2 DEF StartWalk, StartEqual
<1>4. ~Hare /\ ~HareEnds /\ ~Refuses /\ ~StartLoop /\ ~Convert
  BY <1>1 DEF Hare, HareEnds, Refuses, StartLoop, Convert, Accepted
<1>5. ~Lists
  BY <1>1 DEF Lists, IsList, Count, Skip, Skipped, Counting, Copy, Copied, StartReverse, Accepted, ReverseOne, Reversing,
              ReverseLast
<1>6. ~CompareParts /\ ~CompareAtoms /\ ~Find
  BY <1>1 DEF CompareParts, CompareAtoms, Comparing, Find
<1>7. ~PairCall /\ ~EqCall
  BY DEF PairCall, EqCall, Calls, Lone, Arithmetic, Signs, Comparisons, Cases, IntegerDivisions
<1>8. ~VectorCall
  BY DEF VectorCall, Calls, Lone, Arithmetic, Signs, Comparisons, Cases, IntegerDivisions
<1>9. ~StringCall
  BY DEF StringCall, Calls, Lone, Arithmetic, Signs, Comparisons, Cases, IntegerDivisions
<1>10. ~WholeStringCall
  BY DEF WholeStringCall, Calls, Lone, Arithmetic, Signs, Comparisons, Cases, IntegerDivisions
<1>11. ~Returned
  BY <1>1 DEF Returned
<1> QED
  BY <1>3, <1>4, <1>5, <1>6, <1>7, <1>8, <1>9, <1>10, <1>11 DEF Next, Search

\* The first step of such a call returns what was told.
LEMMA LoneAnswers ==
  ASSUME primitive \in Lone, Compare \/ NumberCall
  PROVE  Return(Told)
<1>1. CASE Compare
  BY <1>1 DEF Compare, Calls, Told, Arithmetic, Signs, Comparisons, Cases, IntegerDivisions
<1>2. CASE NumberCall
  <2>1. CASE primitive \in Arithmetic
    <3>1. Return(arithmetic(primitive, args))
      BY <1>2, <2>1 DEF NumberCall, Calls, Arithmetic, Signs, IntegerDivisions
    <3>2. Told = arithmetic(primitive, args)
      BY <2>1 DEF Told, Arithmetic, Signs, Comparisons, Cases, IntegerDivisions
    <3> QED
      BY <3>1, <3>2
  <2>2. CASE primitive \in Signs
    <3>1. IF Sent(1) /\ is_fixnum(args[1]) THEN Return(Boolean(sign_of(primitive, args[1].i))) ELSE Fail
      BY <1>2, <2>2 DEF NumberCall, Calls, Arithmetic, Signs, IntegerDivisions
    <3>2. Told = IF Sent(1) /\ is_fixnum(args[1]) THEN Boolean(sign_of(primitive, args[1].i)) ELSE Error
      BY <2>2 DEF Told, Arithmetic, Signs, Comparisons, Cases, IntegerDivisions
    <3> QED
      BY <3>1, <3>2 DEF Fail
  <2>3. CASE primitive \in Cases
    <3>1. Return(char_case(primitive, args))
      BY <1>2, <2>3 DEF NumberCall, Calls, Arithmetic, Signs, IntegerDivisions, Cases
    <3>2. Told = char_case(primitive, args)
      BY <2>3 DEF Told, Arithmetic, Signs, Comparisons, Cases, IntegerDivisions
    <3> QED
      BY <3>1, <3>2
  <2> QED
    BY <1>2, <2>1, <2>2, <2>3 DEF NumberCall, Calls, Lone, Comparisons
<1> QED
  BY <1>1, <1>2

\* Every step keeps OneStep.
LEMMA OneStepKept ==
  ASSUME IInv, OneStep, [Next]_vars
  PROVE  OneStep'
<1>1. CASE UNCHANGED vars
  <2>1. given' = given /\ store' = store /\ walk' = walk /\ result' = result
    BY <1>1 DEF vars
  <2> QED
    BY <2>1, ToldStays DEF OneStep
<1>2. CASE Next
  <2> SUFFICES ASSUME primitive' \in Lone PROVE walk'.m = "done" /\ result' = Told'
    BY DEF OneStep
  <2>1. given' = given
    BY <1>2, GivenConstant
  <2>2. primitive \in Lone
    BY <2>1 DEF primitive
  <2>3. CASE walk = Idle
    <3>1. Return(Told)
      BY <1>2, <2>2, <2>3, LoneSteps, LoneAnswers
    <3> QED
      BY <3>1, ToldStays DEF Return, Done
  <2>4. CASE walk.m = "done" /\ result = Told
    <3>1. UNCHANGED vars
      BY <1>2, <2>4, DoneStays
    <3> QED
      BY <2>4, <3>1, ToldStays DEF vars
  <2> QED
    BY <2>2, <2>3, <2>4 DEF OneStep
<1> QED
  BY <1>1, <1>2

\* The numbers a primitive gets.
LEMMA NumbersGiven ==
  ASSUME GivenOK, AllFixnums(args)
  PROVE  /\ Integers(Numbers) /\ Len(Numbers) = Len(args) /\ (Numbers = << >> <=> args = << >>)
         /\ \A i \in 1..Len(args) : Numbers[i] = args[i].i /\ Numbers[i] \in Fixnums
<1>1. Len(args) \in Nat /\ DOMAIN args = 1..Len(args) /\ \A i \in 1..Len(args) : Value(given.store, args[i])
  BY ArgumentFacts
<1>2. PICK N, f : N = Len(args) /\ f = Numbers
  OBVIOUS
<1>3. f = [i \in 1..N |-> args[i].i]
  BY <1>1, <1>2 DEF Numbers
<1>4. \A i \in 1..N : f[i] = args[i].i /\ f[i] \in Fixnums
  BY <1>1, <1>2, <1>3 DEF AllFixnums, is_fixnum, Value
<1>5. f = [i \in 1..N |-> f[i]] /\ N \in Nat
  BY <1>1, <1>2, <1>3
<1>6. Sequential(f) /\ Len(f) = N
  BY ONLY <1>5, IsSequence
<1>7. \A i \in 1..N : f[i] \in Int
  BY <1>4, Widths
<1>8. Integers(f)
  BY ONLY <1>5, <1>6, <1>7 DEF Integers
<1>9. f = << >> <=> N = 0
  BY <1>5, <1>6 DEF Sequential
<1>10. args = << >> <=> N = 0
  BY <1>2, ArgumentFacts
<1> QED
  BY <1>2, <1>4, <1>6, <1>8, <1>9, <1>10

\* What is told is arithmetic.
LEMMA ArithmeticTold ==
  ASSUME GivenOK, OneStep
  PROVE  ArithmeticMeans
<1> SUFFICES ASSUME Answers(Arithmetic \cup Signs), result # Error PROVE ArithmeticMeans
  BY DEF ArithmeticMeans
<1>1. result = Told /\ (primitive \in Arithmetic \/ primitive \in Signs)
  BY DEF OneStep, Answers, Lone, Idle
<1>2. PICK p, s : p = primitive /\ s = Numbers
  OBVIOUS
<1>3. ASSUME p \in Arithmetic
      PROVE  /\ AllFixnums(args) /\ result = Computed(p, s)
             /\ p \in {"-", "/", "max", "min"} => args # << >>
             /\ p = "abs" => Len(args) = 1
             /\ p \in IntegerDivisions => Len(args) = 2 /\ args[2].i # 0
  <2>1. result = arithmetic(p, args)
    <3>1. primitive \in Arithmetic
      BY <1>2, <1>3
    <3>2. Told = arithmetic(primitive, args)
      BY <3>1 DEF Told, Arithmetic, Signs, Comparisons, Cases, IntegerDivisions
    <3> QED
      BY <1>1, <1>2, <3>2
  <2>2. ~Refused(p, args) /\ result = Computed(p, s)
    BY <1>2, <2>1 DEF arithmetic, Numbers
  <2>3. DOMAIN args = 1..Len(args) /\ Len(args) \in Nat
    BY ArgumentFacts
  <2>4. p \in IntegerDivisions => Len(args) = 2 /\ args[2].i # 0
    <3> SUFFICES ASSUME p \in IntegerDivisions PROVE Len(args) = 2 /\ args[2].i # 0
      OBVIOUS
    <3>1. Len(args) = 2 /\ ~\E i \in DOMAIN args : args[i].i = 0 /\ (i > 1 \/ Len(args) = 1)
      BY <2>2 DEF Refused
    <3>2. 2 \in DOMAIN args /\ 2 > 1
      BY <2>3, <3>1
    <3> QED
      BY <3>1, <3>2
  <2> QED
    BY <2>2, <2>4 DEF Refused
<1>4. ASSUME p \in Arithmetic
      PROVE  /\ Integers(s) /\ Len(s) = Len(args) /\ (s = << >> <=> args = << >>)
             /\ \A i \in 1..Len(args) : s[i] = args[i].i /\ s[i] \in Fixnums
  BY <1>2, <1>3, <1>4, NumbersGiven
<1>5. \A n : Congruent(n) <=> Congruence(result, n)
  BY DEF Congruent, Congruence
<1>6. CASE p \in {"+", "*", "-"}
  <2>1. p \in Arithmetic
    BY <1>6 DEF Arithmetic
  <2>2. CASE p = "+"
    <3>1. Congruent(Sums(s)[Len(s)])
      BY <1>3, <1>4, <1>5, <2>1, <2>2, SumRight
    <3> QED
      BY <1>2, <2>2, <3>1 DEF ArithmeticMeans
  <2>3. CASE p = "*"
    <3>1. Congruent(Products(s)[Len(s)])
      BY <1>3, <1>4, <1>5, <2>1, <2>3, SumRight
    <3> QED
      BY <1>2, <2>3, <3>1 DEF ArithmeticMeans
  <2>4. CASE p = "-"
    <3>1. s # << >> /\ Integers(s) /\ result = Computed("-", s)
      BY <1>3, <1>4, <2>1, <2>4
    <3>2. Congruence(result, IF Len(s) = 1 THEN -s[1] ELSE 2 * s[1] - Sums(s)[Len(s)])
      BY <3>1, DifferenceRight
    <3>3. Congruent(IF Len(s) = 1 THEN -s[1] ELSE 2 * s[1] - Sums(s)[Len(s)])
      BY ONLY <1>5, <3>2
    <3> QED
      BY <1>2, <2>4, <3>3 DEF ArithmeticMeans
  <2> QED
    BY <1>6, <2>2, <2>3, <2>4
<1>7. CASE p = "abs"
  <2>1. p \in Arithmetic /\ 1 \in 1..Len(args)
    BY <1>3, <1>7 DEF Arithmetic
  <2>2. s[1] \in Fixnums /\ result = abs(s[1])
    BY <1>3, <1>4, <1>7, <2>1 DEF Computed
  <2>3. Congruent(IF s[1] < 0 THEN -s[1] ELSE s[1])
    BY <1>5, <2>2, AbsRight
  <2> QED
    BY <1>2, <1>7, <2>3 DEF ArithmeticMeans
<1>8. CASE p \in {"max", "min"}
  <2>1. p \in Arithmetic
    BY <1>8 DEF Arithmetic
  <2>2. Integers(s) /\ s # << >> /\ (p = "max" => result = max(s)) /\ (p = "min" => result = min(s))
    BY <1>3, <1>4, <1>8, <2>1 DEF Computed
  <2>3. CASE p = "max"
    <3>1. result.i \in Range(s) /\ \A m \in Range(s) : m <= result.i
      BY <2>2, <2>3, ExtremeRight
    <3> QED
      BY <1>2, <2>3, <3>1 DEF ArithmeticMeans
  <2>4. CASE p = "min"
    <3>1. result.i \in Range(s) /\ \A m \in Range(s) : m >= result.i
      BY <2>2, <2>4, ExtremeRight
    <3> QED
      BY <1>2, <2>4, <3>1 DEF ArithmeticMeans
  <2> QED
    BY <1>8, <2>3, <2>4
<1>9. CASE p \in IntegerDivisions
  <2>1. p \in Arithmetic /\ Len(args) = 2
    BY <1>3, <1>9 DEF Arithmetic
  <2>2. 1 \in 1..Len(args) /\ 2 \in 1..Len(args)
    BY <2>1
  <2>3. PICK x, y : x = s[1] /\ y = s[2]
    OBVIOUS
  <2>4. x \in Fixnums /\ y \in Fixnums /\ y # 0 /\ result = Computed(p, s)
    BY <1>3, <1>4, <1>9, <2>1, <2>2, <2>3
  <2>5. CASE p = "quotient"
    <3>1. result = quotient(x, y)
      BY <2>3, <2>4, <2>5 DEF Computed
    <3>2. LET r == remainder(x, y).i IN
          /\ make_fixnum(result.i * y + r) = Fixnum(x)
          /\ Magnitude(r) < Magnitude(y) /\ (r # 0 => (r < 0) = (x < 0))
      BY <2>4, <3>1, QuotientRight
    <3> QED
      BY <1>2, <2>3, <2>5, <3>2 DEF ArithmeticMeans
  <2>6. CASE p = "modulo"
    <3>1. result = modulo(x, y)
      BY <2>3, <2>4, <2>6 DEF Computed
    <3>2. /\ (x - result.i) % Magnitude(y) = 0 /\ Magnitude(result.i) < Magnitude(y)
          /\ result.i # 0 => (result.i < 0) = (y < 0)
      BY <2>4, <3>1, ModuloRight
    <3> QED
      BY <1>2, <2>3, <2>6, <3>2 DEF ArithmeticMeans
  <2>7. CASE p = "remainder"
    BY <1>2, <2>7 DEF ArithmeticMeans
  <2> QED
    BY <1>9, <2>5, <2>6, <2>7 DEF IntegerDivisions
<1>10. CASE p = "/"
  BY <1>2, <1>10 DEF ArithmeticMeans
<1>11. CASE p \in Signs
  <2>1. Sent(1) /\ is_fixnum(args[1]) /\ result = Boolean(sign_of(p, args[1].i))
    <3>1. primitive \in Signs
      BY <1>2, <1>11
    <3>2. Told = IF Sent(1) /\ is_fixnum(args[1]) THEN Boolean(sign_of(primitive, args[1].i)) ELSE Error
      BY <3>1 DEF Told, Arithmetic, Signs, Comparisons, Cases, IntegerDivisions
    <3> QED
      BY <1>1, <1>2, <3>2
  <2>2. PICK x : x = args[1].i
    OBVIOUS
  <2>3. x \in Fixnums /\ s[1] = x
    <3>1. Len(args) = 1 /\ DOMAIN args = 1..Len(args) /\ Value(given.store, args[1])
      BY <2>1, ArgumentFacts DEF Sent
    <3>2. s[1] = x
      BY <1>2, <2>2, <3>1 DEF Numbers
    <3> QED
      BY <2>1, <2>2, <3>1, <3>2 DEF Value, is_fixnum
  <2>4. CASE p = "odd?"
    <3>1. result = Boolean(s[1] \in {2 * m + 1 : m \in Fixnums})
      BY <2>1, <2>2, <2>3, <2>4, ParityRight
    <3> QED
      BY <1>2, <2>4, <3>1 DEF ArithmeticMeans
  <2>5. CASE p = "even?"
    <3>1. result = Boolean(s[1] \in {2 * m : m \in Fixnums})
      BY <2>1, <2>2, <2>3, <2>5, ParityRight
    <3> QED
      BY <1>2, <2>5, <3>1 DEF ArithmeticMeans
  <2>6. CASE p \in {"zero?", "positive?", "negative?"}
    BY <1>2, <2>6 DEF ArithmeticMeans
  <2> QED
    BY <1>11, <2>4, <2>5, <2>6 DEF Signs
<1> QED
  BY <1>1, <1>2, <1>6, <1>7, <1>8, <1>9, <1>10, <1>11 DEF Arithmetic

\* No call has returned before its first step.
LEMMA OneStepInit ==
  ASSUME Init
  PROVE  OneStep
BY DEF Init, OneStep

\* So a call of one step returns what was told.
LEMMA AlwaysOneStep == Spec => [](IInv /\ OneStep)
<1>1. IInv /\ OneStep /\ [Next]_vars => OneStep'
  BY OneStepKept
<1> QED
  BY <1>1, OneStepInit, AlwaysInv, PTL DEF Spec

\* Arithmetic is exact but for a multiple of the width of a fixnum, quotient
\* and remainder make up the dividend, modulo has the sign of the divisor,
\* max and min are of their arguments, odd? and even? know negative numbers.
THEOREM ArithmeticRight == Spec => []ArithmeticMeans
<1>1. IInv /\ OneStep => ArithmeticMeans
  BY ArithmeticTold DEF IInv
<1> QED
  BY <1>1, AlwaysOneStep, PTL

-----------------------------------------------------------------------------
(* Chains of comparisons. *)

\* What holds of neighbours holds of all, if it is transitive.
LEMMA Neighbours ==
  ASSUME NEW n \in Nat, NEW R,
         \A i \in 2..n : <<i - 1, i>> \in R,
         \A i \in 1..n, j \in 1..n, k \in 1..n : <<i, j>> \in R /\ <<j, k>> \in R => <<i, k>> \in R
  PROVE  \A i \in 1..n, j \in 1..n : i < j => <<i, j>> \in R
<1> DEFINE A == {j \in 0..n : \A i \in 1..n : i < j => <<i, j>> \in R}
<1>1. 0 \in A
  OBVIOUS
<1>2. ASSUME NEW j \in 1..n, j - 1 \in A PROVE j \in A
  <2> SUFFICES ASSUME NEW i \in 1..n, i < j PROVE <<i, j>> \in R
    OBVIOUS
  <2>1. j \in 2..n /\ j - 1 \in 1..n /\ (i = j - 1 \/ i < j - 1)
    OBVIOUS
  <2>2. <<j - 1, j>> \in R
    BY <2>1
  <2>3. CASE i = j - 1
    BY <2>2, <2>3
  <2>4. CASE i < j - 1
    <3>1. <<i, j - 1>> \in R
      BY <1>2, <2>4
    <3> QED
      BY <2>1, <2>2, <3>1
  <2> QED
    BY <2>1, <2>3, <2>4
<1>3. 0..n \subseteq A
  <2> HIDE DEF A
  <2> QED
    BY <1>1, <1>2, TurnInduction
<1>4. \A j \in 1..n : j \in A
  BY <1>3
<1> QED
  BY <1>4

\* What the loop of number_fun and its kin makes of n arguments.
LEMMA ChainIs ==
  ASSUME NEW n \in Nat, NEW right, DOMAIN right = 1..n, NEW follows
  PROVE  /\ (\A i \in 1..n : right[i]) =>
              Chain(right, follows) = Boolean(\A i \in 2..n : follows[i])
         /\ (\E i \in 1..n : ~right[i]) => Chain(right, follows) # Boolean(TRUE)
         /\ n > 1 /\ ~right[2] => Chain(right, follows) = Error
         /\ n > 1 /\ right[1] /\ right[2] /\ ~follows[2] => Chain(right, follows) = Boolean(FALSE)
<1>1. PICK wrong, breaks :
        /\ wrong = {i \in 1..n : ~right[i]}
        /\ breaks = {i \in (1..n) \ {1} : {i - 1, i} \cap wrong = {} /\ ~follows[i]}
  OBVIOUS
<1>2. Chain(right, follows) = IF \E i \in wrong : \A j \in breaks : i < j THEN Error ELSE Boolean(breaks = {})
  BY <1>1 DEF Chain
<1>3. Error # Boolean(TRUE) /\ Boolean(FALSE) # Boolean(TRUE)
  BY DEF Error, Boolean
<1>4. ASSUME \A i \in 1..n : right[i] PROVE Chain(right, follows) = Boolean(\A i \in 2..n : follows[i])
  <2>1. wrong = {}
    BY <1>1, <1>4
  <2>2. Chain(right, follows) = Boolean(breaks = {})
    BY <1>2, <2>1
  <2>3. (1..n) \ {1} = 2..n
    OBVIOUS
  <2>4. (breaks = {}) = (\A i \in 2..n : follows[i])
    BY <1>1, <2>1, <2>3
  <2> QED
    BY <2>2, <2>4
<1>5. ASSUME \E i \in 1..n : ~right[i] PROVE Chain(right, follows) # Boolean(TRUE)
  <2>1. wrong # {}
    BY <1>1, <1>5
  <2>2. CASE breaks = {}
    <3>1. \E i \in wrong : \A j \in breaks : i < j
      BY <2>1, <2>2
    <3> QED
      BY <1>2, <1>3, <3>1
  <2>3. CASE breaks # {}
    <3>1. Chain(right, follows) \in {Error, Boolean(FALSE)}
      BY <1>2, <2>3
    <3> QED
      BY <1>3, <3>1
  <2> QED
    BY <2>2, <2>3
<1>6. ASSUME n > 1, ~right[2] PROVE Chain(right, follows) = Error
  <2>1. 2 \in wrong
    BY <1>1, <1>6
  <2>2. ASSUME NEW j \in breaks PROVE 2 < j
    <3>1. j \in Nat /\ j > 1 /\ j \notin wrong
      BY <1>1
    <3> QED
      BY <2>1, <3>1
  <2> QED
    BY <1>2, <2>1, <2>2
<1>7. ASSUME n > 1, right[1], right[2], ~follows[2] PROVE Chain(right, follows) = Boolean(FALSE)
  <2>1. 2 \in breaks
    BY <1>1, <1>7
  <2>2. ASSUME NEW i \in wrong PROVE ~(i < 2)
    BY <1>1, <1>7
  <2>3. ~\E i \in wrong : \A j \in breaks : i < j
    BY <2>1, <2>2
  <2>4. (breaks = {}) = FALSE
    BY <2>1
  <2> QED
    BY <1>2, <2>3, <2>4
<1> QED
  BY <1>4, <1>5, <1>6, <1>7

\* The orders of the numbers.
LEMMA HoldsThrough ==
  ASSUME NEW op \in Ops, NEW x \in Int, NEW y \in Int, NEW z \in Int, Holds(op, x, y), Holds(op, y, z)
  PROVE  Holds(op, x, z)
<1>1. CASE op = "="
  BY <1>1, HoldsIs
<1>2. CASE op = "<"
  BY <1>2, HoldsIs
<1>3. CASE op = ">"
  BY <1>3, HoldsIs
<1>4. CASE op = "<="
  BY <1>4, HoldsIs
<1>5. CASE op = ">="
  BY <1>5, HoldsIs
<1> QED
  BY <1>1, <1>2, <1>3, <1>4, <1>5 DEF Ops

\* Numbers are sorted if their neighbours are.
LEMMA SortedIs ==
  ASSUME NEW op \in Ops, NEW n \in Nat, NEW s, DOMAIN s = 1..n, \A i \in 1..n : s[i] \in Int
  PROVE  Sorted(op, s) <=> \A i \in 2..n : Holds(op, s[i - 1], s[i])
<1>1. ASSUME Sorted(op, s), NEW i \in 2..n PROVE Holds(op, s[i - 1], s[i])
  <2>1. i \in 1..n /\ i - 1 \in 1..n /\ i - 1 < i
    OBVIOUS
  <2> QED
    BY <1>1, <2>1 DEF Sorted
<1>2. ASSUME \A i \in 2..n : Holds(op, s[i - 1], s[i]) PROVE Sorted(op, s)
  <2> DEFINE R == {ij \in (1..n) \X (1..n) : Holds(op, s[ij[1]], s[ij[2]])}
  <2>1. \A i \in 1..n, j \in 1..n : <<i, j>> \in R <=> Holds(op, s[i], s[j])
    OBVIOUS
  <2>2. ASSUME NEW i \in 2..n PROVE <<i - 1, i>> \in R
    <3>1. i \in 1..n /\ i - 1 \in 1..n
      OBVIOUS
    <3> QED
      BY <1>2, <2>1, <3>1
  <2>3. \A i \in 1..n, j \in 1..n, k \in 1..n : <<i, j>> \in R /\ <<j, k>> \in R => <<i, k>> \in R
    BY <2>1, HoldsThrough
  <2> HIDE DEF R
  <2>4. \A i \in 1..n, j \in 1..n : i < j => <<i, j>> \in R
    BY <2>2, <2>3, Neighbours
  <2> QED
    BY <2>1, <2>4 DEF Sorted
<1> QED
  BY <1>1, <1>2

-----------------------------------------------------------------------------
(* Characters. *)

\* The width of a byte.
LEMMA Bytes == PowerOfTwo[7] = 128 /\ PowerOfTwo[8] = 256
<1>0. PowerOfTwo[0] = 1
  BY Powers
<1>1. PowerOfTwo[0 + 1] = 2
  BY <1>0, Powers
<1>2. PowerOfTwo[1 + 1] = 4
  BY <1>1, Powers
<1>3. PowerOfTwo[2 + 1] = 8
  BY <1>2, Powers
<1>4. PowerOfTwo[3 + 1] = 16
  BY <1>3, Powers
<1>5. PowerOfTwo[4 + 1] = 32
  BY <1>4, Powers
<1>6. PowerOfTwo[5 + 1] = 64
  BY <1>5, Powers
<1>7. PowerOfTwo[6 + 1] = 128
  BY <1>6, Powers
<1>8. PowerOfTwo[7 + 1] = 256
  BY <1>7, Powers
<1> QED
  BY <1>7, <1>8

\* What a code is kept as.
LEMMA Character ==
  ASSUME NEW n \in Int
  PROVE  /\ make_character(n) = Char(((n + 128) % 256) - 128)
         /\ n \in -128..127 => make_character(n) = Char(n)
         /\ n \in 0..255 => make_character(n) = Char(IF n < 128 THEN n ELSE n - 256)
<1>1. make_character(n) = Char(((n + 128) % 256) - 128)
  BY Bytes DEF make_character, Wrap
<1>2. n \in -128..127 => ((n + 128) % 256) - 128 = n
  OBVIOUS
<1>3. n \in 0..255 => ((n + 128) % 256) - 128 = IF n < 128 THEN n ELSE n - 256
  OBVIOUS
<1> QED
  BY <1>1, <1>2, <1>3

\* The number of a character is the one its comparison goes by.
LEMMA CodeIs ==
  ASSUME NEW c \in -128..127
  PROVE  CodeOf(Char(c)) = Unsigned(c) /\ Unsigned(c) \in 0..255 /\ Unsigned(c) = IF c < 0 THEN c + 256 ELSE c
<1>1. Unsigned(c) = (IF c < 0 THEN c + 256 ELSE c) /\ Unsigned(c) \in 0..255
  BY DEF Unsigned
<1>2. ASSUME NEW n \in 0..255
      PROVE  integer_char(<<Fixnum(n)>>) = Char(c) <=> n = Unsigned(c)
  <2>1. Len(<<Fixnum(n)>>) = 1 /\ <<Fixnum(n)>>[1] = Fixnum(n) /\ AllFixnums(<<Fixnum(n)>>)
    BY DEF AllFixnums, is_fixnum, Fixnum
  <2>2. integer_char(<<Fixnum(n)>>) = make_character(n)
    BY <2>1 DEF integer_char, Fixnum
  <2>3. make_character(n) = Char(IF n < 128 THEN n ELSE n - 256)
    BY Character
  <2>4. \A a, b : Char(a) = Char(b) <=> a = b
    BY DEF Char
  <2>5. (IF n < 128 THEN n ELSE n - 256) = c <=> n = IF c < 0 THEN c + 256 ELSE c
    OBVIOUS
  <2> QED
    BY <1>1, <2>2, <2>3, <2>4, <2>5
<1>3. CodeOf(Char(c)) = CHOOSE n \in 0..255 : integer_char(<<Fixnum(n)>>) = Char(c)
  BY DEF CodeOf
<1>4. CodeOf(Char(c)) = Unsigned(c)
  <2> DEFINE P(n) == integer_char(<<Fixnum(n)>>) = Char(c)
  <2>1. \A n \in 0..255 : P(n) <=> n = Unsigned(c)
    BY <1>2
  <2>2. CodeOf(Char(c)) = CHOOSE n \in 0..255 : P(n)
    BY <1>3
  <2> HIDE DEF P
  <2> QED
    BY <1>1, <2>1, <2>2
<1> QED
  BY <1>1, <1>4

\* Characters compare as the numbers that integer->char takes.
LEMMA CharactersSorted ==
  ASSUME GivenOK, Characters(args), given.call.op \in Ops, given.call.ci \in BOOLEAN
  PROVE  char_fun(given.call.op, given.call.ci, args)
           = Boolean(Sorted(given.call.op, [i \in DOMAIN args |-> Folded(given.call.ci, CodeOf(args[i]))]))
<1>1. PICK n, op, ci, s :
        /\ n = Len(args) /\ op = given.call.op /\ ci = given.call.ci
        /\ s = [i \in 1..n |-> Folded(ci, args[i].c)]
  OBVIOUS
<1>2. n \in Nat /\ DOMAIN args = 1..n /\ (\A i \in 1..n : Value(given.store, args[i])) /\ op \in Ops /\ ci \in BOOLEAN
  BY <1>1, ArgumentFacts
<1>3. ASSUME NEW i \in 1..n
      PROVE  /\ args[i] = Char(args[i].c) /\ args[i].c \in -128..127 /\ is_character(args[i])
             /\ s[i] = Folded(ci, args[i].c) /\ s[i] \in Int /\ s[i] = Folded(ci, CodeOf(args[i]))
  <2>1. is_character(args[i]) /\ args[i] = Char(args[i].c) /\ args[i].c \in -128..127
    BY <1>2 DEF Characters, is_character, Value
  <2>2. PICK c : c = args[i].c
    OBVIOUS
  <2>3. CodeOf(args[i]) = Unsigned(c) /\ Unsigned(c) \in 0..255
    BY <2>1, <2>2, CodeIs
  <2>4. \A u \in 0..255 : Unsigned(u) = u
    BY DEF Unsigned
  <2>5. s[i] = Folded(ci, c)
    BY <1>1, <2>2
  <2>6. Folded(ci, c) = Folded(ci, Unsigned(c)) /\ Folded(ci, c) \in Int
    <3>1. PICK u : u = Unsigned(c)
      OBVIOUS
    <3>2. Unsigned(u) = u /\ u \in 0..255
      BY ONLY <2>3, <2>4, <3>1
    <3>3. Folded(ci, c) = (IF ci THEN tolower(u) ELSE u) /\ Folded(ci, u) = (IF ci THEN tolower(u) ELSE u)
      BY ONLY <3>1, <3>2 DEF Folded
    <3>4. tolower(u) \in Int /\ u \in Int
      BY ONLY <3>2 DEF tolower
    <3> QED
      BY ONLY <3>1, <3>3, <3>4
  <2> QED
    BY <2>1, <2>2, <2>3, <2>5, <2>6
<1>4. [i \in DOMAIN args |-> Folded(ci, CodeOf(args[i]))] = s
  BY <1>1, <1>2, <1>3
<1>5. PICK right, follows :
        /\ right = [i \in DOMAIN args |-> is_character(args[i])]
        /\ follows = [i \in 2..n |-> Holds(op, Folded(ci, args[i - 1].c), Folded(ci, args[i].c))]
  OBVIOUS
<1>6. char_fun(op, ci, args) = Chain(right, follows)
  BY <1>1, <1>5 DEF char_fun
<1>7. DOMAIN right = 1..n /\ \A i \in 1..n : right[i]
  BY <1>2, <1>3, <1>5
<1>8. Chain(right, follows) = Boolean(\A i \in 2..n : follows[i])
  BY <1>2, <1>7, ChainIs
<1>9. ASSUME NEW i \in 2..n PROVE follows[i] = Holds(op, s[i - 1], s[i])
  <2>1. i \in 1..n /\ i - 1 \in 1..n
    BY <1>2
  <2> QED
    BY <1>3, <1>5, <2>1
<1>10. Sorted(op, s) <=> \A i \in 2..n : Holds(op, s[i - 1], s[i])
  <2>1. DOMAIN s = 1..n /\ \A i \in 1..n : s[i] \in Int
    BY <1>1, <1>3
  <2> QED
    BY <1>2, <2>1, SortedIs
<1>11. (\A i \in 2..n : follows[i]) = Sorted(op, s)
  BY <1>9, <1>10 DEF Sorted
<1> QED
  BY <1>1, <1>4, <1>6, <1>8, <1>11

\* char-upcase and char-downcase.
LEMMA CasesRight ==
  ASSUME NEW p \in Cases, GivenOK, char_case(p, args) # Error
  PROVE  LET v == char_case(p, args) IN
         /\ char_fun("=", TRUE, <<v, args[1]>>) = Boolean(TRUE)
         /\ CodeOf(v) # CodeOf(args[1]) <=>
              CodeOf(args[1]) \in IF p = "char-upcase" THEN 97..122 ELSE 65..90
<1>1. Len(args) = 1 /\ is_character(args[1])
  BY DEF char_case
<1>2. PICK c : c = args[1].c
  OBVIOUS
<1>3. args[1] = Char(c) /\ c \in -128..127
  <2>1. Value(given.store, args[1])
    BY <1>1, ArgumentFacts
  <2> QED
    BY <1>1, <1>2, <2>1 DEF Value, is_character
<1>4. PICK d : d = IF p = "char-upcase" THEN toupper(c) ELSE tolower(c)
  OBVIOUS
<1>5. d \in -128..127 /\ d \in Int
  BY <1>3, <1>4 DEF toupper, tolower
<1>6. char_case(p, args) = Char(d)
  BY <1>1, <1>2, <1>4, <1>5, Character DEF char_case
<1>7. CodeOf(Char(d)) = (IF d < 0 THEN d + 256 ELSE d) /\ CodeOf(args[1]) = IF c < 0 THEN c + 256 ELSE c
  BY <1>3, <1>5, CodeIs
<1>8. CodeOf(Char(d)) # CodeOf(args[1]) <=> CodeOf(args[1]) \in IF p = "char-upcase" THEN 97..122 ELSE 65..90
  <2>1. CASE p = "char-upcase"
    BY <1>3, <1>4, <1>5, <1>7, <2>1 DEF toupper
  <2>2. CASE p = "char-downcase"
    BY <1>3, <1>4, <1>5, <1>7, <2>2 DEF tolower
  <2> QED
    BY <2>1, <2>2 DEF Cases
<1>9. Folded(TRUE, d) = Folded(TRUE, c)
  <2>1. Unsigned(c) = (IF c < 0 THEN c + 256 ELSE c) /\ Unsigned(d) = (IF d < 0 THEN d + 256 ELSE d)
    BY <1>3, <1>5, CodeIs
  <2>2. CASE p = "char-upcase"
    BY <1>3, <1>4, <1>5, <2>1, <2>2 DEF toupper, tolower, Folded
  <2>3. CASE p = "char-downcase"
    BY <1>3, <1>4, <1>5, <2>1, <2>3 DEF tolower, Folded
  <2> QED
    BY <2>2, <2>3 DEF Cases
<1>10. char_fun("=", TRUE, <<Char(d), args[1]>>) = Boolean(TRUE)
  <2>1. PICK t : t = <<Char(d), args[1]>>
    OBVIOUS
  <2>2. DOMAIN t = 1..2 /\ Len(t) = 2 /\ t[1] = Char(d) /\ t[2] = Char(c)
    BY <1>3, <2>1
  <2>3. PICK right, follows :
          /\ right = [i \in DOMAIN t |-> is_character(t[i])]
          /\ follows = [i \in 2..Len(t) |-> Holds("=", Folded(TRUE, t[i - 1].c), Folded(TRUE, t[i].c))]
    OBVIOUS
  <2>4. char_fun("=", TRUE, t) = Chain(right, follows)
    BY <2>3 DEF char_fun
  <2>5. \A i \in 1..2 : right[i]
    <3>1. is_character(t[1]) /\ is_character(t[2])
      BY ONLY <2>2 DEF is_character, Char
    <3>2. ASSUME NEW i \in 1..2 PROVE is_character(t[i])
      <4>1. i = 1 \/ i = 2
        OBVIOUS
      <4> QED
        BY ONLY <3>1, <4>1
    <3> QED
      BY ONLY <2>2, <2>3, <3>2
  <2>6. \A i \in 2..2 : follows[i]
    <3>1. ASSUME NEW i \in 2..2 PROVE Holds("=", Folded(TRUE, t[i - 1].c), Folded(TRUE, t[i].c))
      <4>1. i = 2 /\ i - 1 = 1
        OBVIOUS
      <4>2. t[1].c = d /\ t[2].c = c
        BY ONLY <2>2 DEF Char
      <4>3. Folded(TRUE, t[i - 1].c) = Folded(TRUE, t[i].c)
        BY ONLY <1>9, <4>1, <4>2
      <4> QED
        BY ONLY <4>3, HoldsIs
    <3> QED
      BY ONLY <2>2, <2>3, <3>1
  <2>7. Chain(right, follows) = Boolean(\A i \in 2..2 : follows[i])
    <3>1. DOMAIN right = 1..2 /\ 2 \in Nat
      BY <2>2, <2>3
    <3> QED
      BY <2>5, <3>1, ChainIs
  <2> QED
    BY <2>1, <2>4, <2>6, <2>7
<1> QED
  BY <1>6, <1>8, <1>10

-----------------------------------------------------------------------------
(* Texts, in the order of a dictionary. *)

\* Two texts are the same for n characters, and there the one ends before the
\* other or has the lesser character.
Parting(x, y, n) ==
  /\ n \in Nat /\ n <= Len(x) /\ n <= Len(y) /\ \A i \in 1..n : x[i] = y[i]
  /\ IF n = Len(x) THEN n < Len(y) ELSE n < Len(y) /\ x[n + 1] < y[n + 1]

\* The smaller of two lengths.
LEMMA LeastOfTwo ==
  ASSUME NEW m \in Nat, NEW n \in Nat
  PROVE  Min({m, n}) = IF m <= n THEN m ELSE n
<1>1. PICK k : k = IF m <= n THEN m ELSE n
  OBVIOUS
<1>2. k \in {m, n} /\ \A j \in {m, n} : k <= j
  BY <1>1
<1>3. \A x \in {m, n} : (\A j \in {m, n} : x <= j) => x = k
  BY <1>1
<1>4. Min({m, n}) = k
  BY <1>2, <1>3 DEF Min
<1> QED
  BY <1>1, <1>4

\* Two texts start alike if their bytes do.
LEMMA SameStart ==
  ASSUME NEW x, NEW y, Integers(x), Integers(y), NEW n \in Nat, n <= Len(x), n <= Len(y)
  PROVE  SubSeq(x, 1, n) = SubSeq(y, 1, n) <=> \A i \in 1..n : x[i] = y[i]
<1>1. SubSeq(x, 1, n) = [i \in 1..n |-> x[i]]
  <2>1. PICK S : x \in Seq(S)
    BY DEF Integers, Sequential
  <2>2. SubSeq(x, 1, n) = [i \in 1..((n - 1) + 1) |-> x[(i + 1) - 1]]
    BY <2>1
  <2>3. (n - 1) + 1 = n /\ \A i \in 1..n : (i + 1) - 1 = i
    OBVIOUS
  <2> QED
    BY <2>2, <2>3
<1>2. SubSeq(y, 1, n) = [i \in 1..n |-> y[i]]
  <2>1. PICK S : y \in Seq(S)
    BY DEF Integers, Sequential
  <2>2. SubSeq(y, 1, n) = [i \in 1..((n - 1) + 1) |-> y[(i + 1) - 1]]
    BY <2>1
  <2>3. (n - 1) + 1 = n /\ \A i \in 1..n : (i + 1) - 1 = i
    OBVIOUS
  <2> QED
    BY <2>2, <2>3
<1> QED
  BY <1>1, <1>2

\* A text is before the one it parts from.
LEMMA BeforeIs ==
  ASSUME NEW x, NEW y, Integers(x), Integers(y)
  PROVE  Before(x, y) <=> \E n : Parting(x, y, n)
<1>1. PICK k, m : k = Len(x) /\ m = Len(y)
  OBVIOUS
<1>2. k \in Nat /\ m \in Nat
  BY <1>1 DEF Integers
<1>3. Before(x, y) <=>
        \E n \in 0..Min({k, m}) :
          /\ SubSeq(x, 1, n) = SubSeq(y, 1, n)
          /\ IF n = k THEN n < m ELSE n < m /\ x[n + 1] < y[n + 1]
  BY <1>1 DEF Before
<1>4. Min({k, m}) = IF k <= m THEN k ELSE m
  BY <1>2, LeastOfTwo
<1>5. \A n : n \in 0..Min({k, m}) <=> n \in Nat /\ n <= k /\ n <= m
  BY <1>2, <1>4
<1>6. ASSUME NEW n, n \in 0..Min({k, m})
      PROVE  SubSeq(x, 1, n) = SubSeq(y, 1, n) <=> \A i \in 1..n : x[i] = y[i]
  BY <1>1, <1>5, <1>6, SameStart
<1> QED
  BY <1>1, <1>3, <1>5, <1>6 DEF Parting

\* Two texts that are not the same part somewhere.
LEMMA PartSomewhere ==
  ASSUME NEW x, NEW y, Integers(x), Integers(y), x # y
  PROVE  \E n : Parting(x, y, n) \/ Parting(y, x, n)
<1>1. PICK k, m : k = Len(x) /\ m = Len(y)
  OBVIOUS
<1>2. k \in Nat /\ m \in Nat /\ (\A i \in 1..k : x[i] \in Int) /\ \A i \in 1..m : y[i] \in Int
  BY <1>1 DEF Integers
<1> DEFINE D == {n \in Nat : n = k \/ n = m \/ x[n + 1] # y[n + 1]}
<1>3. PICK n \in D : \A j \in D : n <= j
  <2>1. k \in D /\ D \subseteq Nat
    BY <1>2
  <2> HIDE DEF D
  <2> QED
    BY <2>1, Smallest
<1>4. n \in Nat /\ n <= k /\ n <= m /\ (n = k \/ n = m \/ x[n + 1] # y[n + 1])
  BY <1>2, <1>3
<1>5. ASSUME NEW i \in 1..n PROVE x[i] = y[i]
  <2>1. i - 1 \in Nat /\ i - 1 < n /\ (i - 1) + 1 = i
    BY <1>4
  <2>2. i - 1 \notin D
    BY <1>3, <1>4, <2>1
  <2> QED
    BY <2>1, <2>2
<1>6. CASE n = k /\ n = m
  <2>1. PICK S : x \in Seq(S)
    BY DEF Integers, Sequential
  <2>2. PICK T : y \in Seq(T)
    BY DEF Integers, Sequential
  <2>3. x = [i \in 1..Len(x) |-> x[i]]
    BY ONLY <2>1
  <2>4. y = [i \in 1..Len(y) |-> y[i]]
    BY ONLY <2>2
  <2>5. x = y
    BY ONLY <1>1, <1>5, <1>6, <2>3, <2>4
  <2> QED
    BY <2>5
<1>7. CASE n = k /\ n # m
  BY <1>1, <1>4, <1>5, <1>7 DEF Parting
<1>8. CASE n # k /\ n = m
  BY <1>1, <1>4, <1>5, <1>8 DEF Parting
<1>9. CASE n # k /\ n # m
  <2>1. n + 1 \in 1..k /\ n + 1 \in 1..m
    BY <1>2, <1>4, <1>9
  <2>2. x[n + 1] \in Int /\ y[n + 1] \in Int /\ x[n + 1] # y[n + 1]
    BY <1>2, <1>4, <1>9, <2>1
  <2>3. x[n + 1] < y[n + 1] \/ y[n + 1] < x[n + 1]
    BY <2>2
  <2>4. n < k /\ n < m
    BY <1>2, <1>4, <1>9
  <2>5. x[n + 1] < y[n + 1] => Parting(x, y, n)
    BY ONLY <1>1, <1>4, <1>5, <1>9, <2>4 DEF Parting
  <2>6. y[n + 1] < x[n + 1] => Parting(y, x, n)
    BY ONLY <1>1, <1>4, <1>5, <1>9, <2>4 DEF Parting
  <2> QED
    BY ONLY <2>3, <2>5, <2>6
<1> QED
  BY <1>6, <1>7, <1>8, <1>9

\* They part in one way only.
LEMMA PartOnce ==
  ASSUME NEW x, NEW y, Integers(x), Integers(y), NEW n, NEW m, Parting(x, y, n)
  PROVE  ~Parting(y, x, m)
<1> SUFFICES ASSUME Parting(y, x, m) PROVE FALSE
  OBVIOUS
<1>1. PICK k, l : k = Len(x) /\ l = Len(y)
  OBVIOUS
<1>2. k \in Nat /\ l \in Nat /\ (\A i \in 1..k : x[i] \in Int) /\ \A i \in 1..l : y[i] \in Int
  BY <1>1 DEF Integers
<1>3. /\ n \in Nat /\ n <= k /\ n <= l /\ \A i \in 1..n : x[i] = y[i]
      /\ IF n = k THEN n < l ELSE n < l /\ x[n + 1] < y[n + 1]
  BY <1>1 DEF Parting
<1>4. /\ m \in Nat /\ m <= k /\ m <= l /\ \A i \in 1..m : y[i] = x[i]
      /\ IF m = l THEN m < k ELSE m < k /\ y[m + 1] < x[m + 1]
  BY <1>1 DEF Parting
<1>5. CASE n < m
  <2>1. n + 1 \in 1..m /\ n # k /\ n + 1 \in 1..k
    BY <1>2, <1>3, <1>4, <1>5
  <2>2. x[n + 1] < y[n + 1] /\ y[n + 1] = x[n + 1] /\ x[n + 1] \in Int
    BY <1>2, <1>3, <1>4, <2>1
  <2> QED
    BY <2>2
<1>6. CASE m < n
  <2>1. m + 1 \in 1..n /\ m # l /\ m + 1 \in 1..k
    BY <1>2, <1>3, <1>4, <1>6
  <2>2. y[m + 1] < x[m + 1] /\ y[m + 1] = x[m + 1] /\ x[m + 1] \in Int
    BY <1>2, <1>3, <1>4, <2>1
  <2> QED
    BY <2>2
<1>7. CASE n = m
  <2>1. n < l /\ n < k /\ n + 1 \in 1..k /\ n + 1 \in 1..l
    BY <1>2, <1>3, <1>4, <1>7
  <2>2. x[n + 1] < y[n + 1] /\ y[n + 1] < x[n + 1] /\ x[n + 1] \in Int /\ y[n + 1] \in Int
    BY <1>2, <1>3, <1>4, <1>7, <2>1
  <2> QED
    BY <2>2
<1> QED
  BY <1>3, <1>4, <1>5, <1>6, <1>7

\* Where two texts part from a third, they part from each other.
LEMMA PartThrough ==
  ASSUME NEW x, NEW y, NEW z, Integers(x), Integers(y), Integers(z), NEW n, NEW m,
         Parting(x, y, n), Parting(y, z, m)
  PROVE  \E k : Parting(x, z, k)
<1>1. PICK a, b, c : a = Len(x) /\ b = Len(y) /\ c = Len(z)
  OBVIOUS
<1>2. /\ a \in Nat /\ b \in Nat /\ c \in Nat
      /\ (\A i \in 1..a : x[i] \in Int) /\ (\A i \in 1..b : y[i] \in Int) /\ \A i \in 1..c : z[i] \in Int
  BY <1>1 DEF Integers
<1>3. /\ n \in Nat /\ n <= a /\ n <= b /\ (\A i \in 1..n : x[i] = y[i])
      /\ IF n = a THEN n < b ELSE n < b /\ x[n + 1] < y[n + 1]
  BY <1>1 DEF Parting
<1>4. /\ m \in Nat /\ m <= b /\ m <= c /\ (\A i \in 1..m : y[i] = z[i])
      /\ IF m = b THEN m < c ELSE m < c /\ y[m + 1] < z[m + 1]
  BY <1>1 DEF Parting
<1>5. CASE n < m
  <2>1. n + 1 \in 1..m /\ n < c /\ n + 1 <= b /\ \A i \in 1..n : i \in 1..m
    BY <1>2, <1>3, <1>4, <1>5
  <2>2. y[n + 1] = z[n + 1] /\ \A i \in 1..n : x[i] = z[i]
    BY <1>3, <1>4, <2>1
  <2>3. n <= a /\ n <= c /\ IF n = a THEN n < c ELSE n < c /\ x[n + 1] < z[n + 1]
    BY <1>2, <1>3, <2>1, <2>2
  <2>4. Parting(x, z, n)
    BY <1>1, <1>3, <2>2, <2>3 DEF Parting
  <2> QED
    BY <2>4
<1>6. CASE m < n
  <2>1. m + 1 \in 1..n /\ m < a /\ m # b /\ m + 1 <= a /\ \A i \in 1..m : i \in 1..n
    BY <1>2, <1>3, <1>4, <1>6
  <2>2. x[m + 1] = y[m + 1] /\ \A i \in 1..m : x[i] = z[i]
    BY <1>3, <1>4, <2>1
  <2>3. m <= a /\ m <= c /\ m # a /\ m < c /\ x[m + 1] < z[m + 1]
    BY <1>2, <1>4, <2>1, <2>2
  <2>4. Parting(x, z, m)
    BY <1>1, <1>4, <2>2, <2>3 DEF Parting
  <2> QED
    BY <2>4
<1>7. CASE n = m
  <2>1. n < b /\ n < c /\ y[n + 1] < z[n + 1] /\ n + 1 \in 1..b /\ n + 1 \in 1..c
    BY <1>2, <1>3, <1>4, <1>7
  <2>2. \A i \in 1..n : x[i] = z[i]
    BY <1>3, <1>4, <1>7
  <2>3. n # a => x[n + 1] < z[n + 1]
    <3> SUFFICES ASSUME n # a PROVE x[n + 1] < z[n + 1]
      OBVIOUS
    <3>1. n + 1 \in 1..a /\ x[n + 1] < y[n + 1]
      BY <1>2, <1>3
    <3>2. x[n + 1] \in Int /\ y[n + 1] \in Int /\ z[n + 1] \in Int
      BY <1>2, <2>1, <3>1
    <3> QED
      BY <2>1, <3>1, <3>2
  <2>4. Parting(x, z, n)
    BY <1>1, <1>3, <2>1, <2>2, <2>3 DEF Parting
  <2> QED
    BY <2>4
<1> QED
  BY <1>3, <1>4, <1>5, <1>6, <1>7

\* So texts are ordered as numbers are.
LEMMA BeforeOrders ==
  ASSUME NEW x, NEW y, Integers(x), Integers(y)
  PROVE  /\ x = y \/ Before(x, y) \/ Before(y, x)
         /\ ~(Before(x, y) /\ Before(y, x)) /\ ~Before(x, x)
BY BeforeIs, PartSomewhere, PartOnce

\* So Before is transitive.
LEMMA BeforeThrough ==
  ASSUME NEW x, NEW y, NEW z, Integers(x), Integers(y), Integers(z), Before(x, y), Before(y, z)
  PROVE  Before(x, z)
BY BeforeIs, PartThrough

\* The five orders of texts.
LEMMA OrderedIs ==
  ASSUME NEW x, NEW y
  PROVE  /\ Ordered("=", x, y) <=> x = y
         /\ Ordered("<", x, y) <=> Before(x, y)
         /\ Ordered(">", x, y) <=> Before(y, x)
         /\ Ordered("<=", x, y) <=> ~Before(y, x)
         /\ Ordered(">=", x, y) <=> ~Before(x, y)
BY DEF Ordered

\* All five are transitive.
LEMMA OrderedThrough ==
  ASSUME NEW op \in Ops, NEW x, NEW y, NEW z, Integers(x), Integers(y), Integers(z),
         Ordered(op, x, y), Ordered(op, y, z)
  PROVE  Ordered(op, x, z)
<1>1. CASE op = "="
  BY <1>1, OrderedIs
<1>2. CASE op = "<"
  BY <1>2, OrderedIs, BeforeThrough
<1>3. CASE op = ">"
  BY <1>3, OrderedIs, BeforeThrough
<1>4. CASE op = "<="
  <2>1. ~Before(y, x) /\ ~Before(z, y)
    BY <1>4, OrderedIs
  <2>2. ~Before(z, x)
    BY <2>1, BeforeOrders, BeforeThrough
  <2> QED
    BY <1>4, <2>2, OrderedIs
<1>5. CASE op = ">="
  <2>1. ~Before(x, y) /\ ~Before(y, z)
    BY <1>5, OrderedIs
  <2>2. ~Before(x, z)
    BY <2>1, BeforeOrders, BeforeThrough
  <2> QED
    BY <1>5, <2>2, OrderedIs
<1> QED
  BY <1>1, <1>2, <1>3, <1>4, <1>5 DEF Ops

\* What string_fun finds of two neighbours, the length it knows that of the
\* first, is their order.
TextOf(ci, t) == [i \in 1..Len(t) |-> Folded(ci, t[i])]

\* A byte stays one when its case is taken away.
LEMMA FoldedIs ==
  ASSUME NEW ci \in BOOLEAN, NEW c \in Int
  PROVE  Folded(ci, c) \in Int
<1>1. PICK u : u = Unsigned(c)
  OBVIOUS
<1>2. u \in Int
  BY <1>1 DEF Unsigned
<1>3. tolower(u) \in Int
  BY <1>2 DEF tolower
<1> QED
  BY <1>1, <1>2, <1>3 DEF Folded

\* A text keeps its length when its case is taken away.
LEMMA TextIs ==
  ASSUME NEW ci \in BOOLEAN, NEW t, Integers(t)
  PROVE  /\ Integers(TextOf(ci, t)) /\ Len(TextOf(ci, t)) = Len(t) /\ Len(t) \in Nat
         /\ \A i \in 1..Len(t) : TextOf(ci, t)[i] = Folded(ci, t[i])
<1>1. PICK n, x : n = Len(t) /\ x = TextOf(ci, t)
  OBVIOUS
<1>2. n \in Nat /\ x = [i \in 1..n |-> Folded(ci, t[i])] /\ \A i \in 1..n : t[i] \in Int
  BY <1>1 DEF TextOf, Integers
<1>3. \A i \in 1..n : x[i] = Folded(ci, t[i]) /\ x[i] \in Int
  BY <1>2, FoldedIs
<1>4. x = [i \in 1..n |-> x[i]]
  BY ONLY <1>2, <1>3
<1>5. Sequential(x) /\ Len(x) = n
  BY ONLY <1>2, <1>4, IsSequence
<1>6. Integers(x)
  BY ONLY <1>2, <1>3, <1>5 DEF Integers
<1> QED
  BY <1>1, <1>2, <1>3, <1>5, <1>6

\* Where two texts differ first, they part.
LEMMA FirstDifference ==
  ASSUME NEW x, NEW y, Integers(x), Integers(y),
         NEW D, D # {},
         \A i : i \in D <=> i \in Nat /\ 1 <= i /\ i <= Len(x) /\ i <= Len(y) /\ x[i] # y[i]
  PROVE  /\ Min(D) \in D
         /\ x[Min(D)] < y[Min(D)] => Parting(x, y, Min(D) - 1)
         /\ y[Min(D)] < x[Min(D)] => Parting(y, x, Min(D) - 1)
<1>1. PICK k, m : k = Len(x) /\ m = Len(y)
  OBVIOUS
<1>2. k \in Nat /\ m \in Nat
  BY <1>1 DEF Integers
<1>4. \A i : i \in D <=> i \in Nat /\ 1 <= i /\ i <= k /\ i <= m /\ x[i] # y[i]
  BY <1>1
<1>5. PICK b : b \in D
  OBVIOUS
<1>6. b \in Nat
  BY <1>4, <1>5
<1>7. PICK a \in Nat : a \in D /\ a <= b /\ \A j \in 0..(a - 1) : j \notin D
  BY ONLY <1>5, <1>6, Smallest
<1>8. \A j \in D : a <= j
  <2> SUFFICES ASSUME NEW j \in D, ~(a <= j) PROVE FALSE
    OBVIOUS
  <2>1. j \in Nat
    BY <1>4
  <2>2. j \in 0..(a - 1)
    BY <1>7, <2>1
  <2> QED
    BY <1>7, <2>2
<1>9. \A j \in D : (\A i \in D : j <= i) => j = a
  <2> SUFFICES ASSUME NEW j \in D, \A i \in D : j <= i PROVE j = a
    OBVIOUS
  <2>1. j \in Nat /\ j <= a /\ a <= j
    BY ONLY j \in D, \A i \in D : j <= i, <1>4, <1>7, <1>8
  <2> QED
    BY ONLY <2>1, a \in Nat
<1>10. Min(D) = a
  BY ONLY <1>7, <1>8, <1>9 DEF Min
<1>11. a \in Nat /\ 1 <= a /\ a <= k /\ a <= m
  BY <1>4, <1>7
<1>12. \A i \in 1..(a - 1) : x[i] = y[i]
  <2> SUFFICES ASSUME NEW i \in 1..(a - 1) PROVE x[i] = y[i]
    OBVIOUS
  <2>1. i \in 0..(a - 1) /\ i \in Nat /\ 1 <= i /\ i <= k /\ i <= m
    BY <1>2, <1>11
  <2> QED
    BY <1>4, <1>7, <2>1
<1>13. PICK n : n = a - 1
  OBVIOUS
<1>14. n \in Nat /\ n < k /\ n < m /\ n + 1 = a
  BY <1>2, <1>11, <1>13
<1>15. n <= k /\ n <= m /\ n # k /\ n # m
  BY <1>2, <1>14
<1>16. x[a] < y[a] => Parting(x, y, n)
  BY ONLY <1>1, <1>12, <1>13, <1>14, <1>15 DEF Parting
<1>17. y[a] < x[a] => Parting(y, x, n)
  BY ONLY <1>1, <1>12, <1>13, <1>14, <1>15 DEF Parting
<1> QED
  BY ONLY <1>7, <1>10, <1>13, <1>16, <1>17

\* If they nowhere differ, the shorter one is before the longer.
LEMMA NoDifference ==
  ASSUME NEW x, NEW y, Integers(x), Integers(y),
         {i \in 1..Min({Len(x), Len(y)}) : x[i] # y[i]} = {}
  PROVE  /\ Len(x) < Len(y) => Parting(x, y, Len(x))
         /\ Len(y) < Len(x) => Parting(y, x, Len(y))
         /\ Len(x) = Len(y) => x = y
<1>1. PICK k, m : k = Len(x) /\ m = Len(y)
  OBVIOUS
<1>2. k \in Nat /\ m \in Nat
  BY <1>1 DEF Integers
<1>3. Min({k, m}) = IF k <= m THEN k ELSE m
  BY <1>2, LeastOfTwo
<1>4. \A i \in 1..Min({k, m}) : x[i] = y[i]
  BY <1>1
<1>5. k < m => Parting(x, y, k)
  <2> SUFFICES ASSUME k < m PROVE Parting(x, y, k)
    OBVIOUS
  <2>1. k <= m /\ k <= k /\ \A i \in 1..k : x[i] = y[i]
    BY <1>2, <1>3, <1>4
  <2> QED
    BY ONLY <1>1, <1>2, <2>1, k < m DEF Parting
<1>6. m < k => Parting(y, x, m)
  <2> SUFFICES ASSUME m < k PROVE Parting(y, x, m)
    OBVIOUS
  <2>1. m <= k /\ m <= m /\ \A i \in 1..m : y[i] = x[i]
    BY <1>2, <1>3, <1>4
  <2> QED
    BY ONLY <1>1, <1>2, <2>1, m < k DEF Parting
<1>7. k = m => x = y
  <2> SUFFICES ASSUME k = m PROVE x = y
    OBVIOUS
  <2>1. \A i \in 1..k : x[i] = y[i]
    BY <1>2, <1>3, <1>4
  <2>2. PICK S : x \in Seq(S)
    BY DEF Integers, Sequential
  <2>3. PICK T : y \in Seq(T)
    BY DEF Integers, Sequential
  <2>4. x = [i \in 1..Len(x) |-> x[i]]
    BY ONLY <2>2
  <2>5. y = [i \in 1..Len(y) |-> y[i]]
    BY ONLY <2>3
  <2> QED
    BY ONLY <1>1, <2>1, <2>4, <2>5, k = m
<1> QED
  BY <1>1, <1>5, <1>6, <1>7

\* How two texts compare once it is known which is before the other.
LEMMA OrderedBy ==
  ASSUME NEW op \in Ops, NEW x, NEW y, Integers(x), Integers(y), NEW a \in Int, NEW b \in Int,
         a < b => Before(x, y), b < a => Before(y, x), a = b => x = y
  PROVE  Holds(op, a, b) <=> Ordered(op, x, y)
<1>1. a < b \/ b < a \/ a = b
  OBVIOUS
<1>2. /\ x = y \/ Before(x, y) \/ Before(y, x)
      /\ ~(Before(x, y) /\ Before(y, x)) /\ ~Before(x, x)
  BY BeforeOrders
<1>3. ~Before(y, y)
  BY BeforeOrders
<1>4. a < b <=> Before(x, y)
  BY <1>1, <1>2, <1>3
<1>5. b < a <=> Before(y, x)
  BY <1>1, <1>2, <1>3
<1>6. a = b <=> x = y
  BY <1>1, <1>2, <1>3
<1>7. CASE op = "="
  BY <1>6, <1>7, HoldsIs, OrderedIs
<1>8. CASE op = "<"
  BY <1>4, <1>8, HoldsIs, OrderedIs
<1>9. CASE op = ">"
  <2>1. Holds(">", a, b) <=> b < a
    BY HoldsIs
  <2> QED
    BY <1>5, <1>9, <2>1, OrderedIs
<1>10. CASE op = "<="
  <2>1. Holds("<=", a, b) <=> ~(b < a)
    BY HoldsIs
  <2> QED
    BY <1>5, <1>10, <2>1, OrderedIs
<1>11. CASE op = ">="
  <2>1. Holds(">=", a, b) <=> ~(a < b)
    BY HoldsIs
  <2> QED
    BY <1>4, <1>11, <2>1, OrderedIs
<1> QED
  BY <1>7, <1>8, <1>9, <1>10, <1>11 DEF Ops

\* string_fun compares two neighbours as a dictionary orders them.
LEMMA FollowsIs ==
  ASSUME NEW op \in Ops, NEW ci \in BOOLEAN, NEW prec, NEW current, Integers(prec), Integers(current)
  PROVE  TextsFollow(op, ci, Len(prec), prec, current) <=> Ordered(op, TextOf(ci, prec), TextOf(ci, current))
<1>1. PICK x, y, k, m : x = TextOf(ci, prec) /\ y = TextOf(ci, current) /\ k = Len(prec) /\ m = Len(current)
  OBVIOUS
<1>2. /\ Integers(x) /\ Integers(y) /\ Len(x) = k /\ Len(y) = m /\ k \in Nat /\ m \in Nat
      /\ \A i \in 1..k : x[i] = Folded(ci, prec[i])
      /\ \A i \in 1..m : y[i] = Folded(ci, current[i])
  BY <1>1, TextIs
<1>3. Min({k, m}) = IF k <= m THEN k ELSE m
  BY <1>2, LeastOfTwo
<1>4. PICK D : D = {i \in 1..Min({k, m}) : x[i] # y[i]}
  OBVIOUS
<1>5. \A i \in 1..Min({k, m}) :
        /\ i \in 1..k /\ i \in 1..m
        /\ Folded(ci, ByteOf(prec, i)) = x[i] /\ Folded(ci, ByteOf(current, i)) = y[i]
  <2> SUFFICES ASSUME NEW i \in 1..Min({k, m})
               PROVE  /\ i \in 1..k /\ i \in 1..m
                      /\ Folded(ci, ByteOf(prec, i)) = x[i] /\ Folded(ci, ByteOf(current, i)) = y[i]
    OBVIOUS
  <2>1. i \in 1..k /\ i \in 1..m /\ i <= k /\ i <= m
    BY <1>2, <1>3
  <2>2. ByteOf(prec, i) = prec[i] /\ ByteOf(current, i) = current[i]
    BY <1>1, <2>1 DEF ByteOf
  <2> QED
    BY <1>2, <2>1, <2>2
<1>6. D = {i \in 1..Min({k, m}) : Folded(ci, ByteOf(prec, i)) # Folded(ci, ByteOf(current, i))}
  BY ONLY <1>4, <1>5
<1>7. TextsFollow(op, ci, k, prec, current) <=>
        IF D = {} THEN Holds(op, k, m)
        ELSE Holds(op, Folded(ci, ByteOf(prec, Min(D))), Folded(ci, ByteOf(current, Min(D))))
  BY ONLY <1>1, <1>6 DEF TextsFollow
<1>8. CASE D = {}
  <2>1. /\ k < m => Parting(x, y, k)
        /\ m < k => Parting(y, x, m)
        /\ k = m => x = y
    BY ONLY <1>2, <1>4, <1>8, NoDifference
  <2>2. (k < m => Before(x, y)) /\ (m < k => Before(y, x))
    BY ONLY <1>2, <2>1, BeforeIs
  <2>3. k \in Int /\ m \in Int
    BY <1>2
  <2>4. Holds(op, k, m) <=> Ordered(op, x, y)
    BY ONLY op \in Ops, <1>2, <2>1, <2>2, <2>3, OrderedBy
  <2> QED
    BY ONLY <1>1, <1>7, <1>8, <2>4
<1>9. CASE D # {}
  <2>1. PICK a : a = Min(D)
    OBVIOUS
  <2>2. /\ a \in D
        /\ x[a] < y[a] => Parting(x, y, a - 1)
        /\ y[a] < x[a] => Parting(y, x, a - 1)
    <3>1. \A i : i \in D <=> i \in Nat /\ 1 <= i /\ i <= k /\ i <= m /\ x[i] # y[i]
      BY ONLY <1>2, <1>3, <1>4
    <3>2. /\ Min(D) \in D
          /\ x[Min(D)] < y[Min(D)] => Parting(x, y, Min(D) - 1)
          /\ y[Min(D)] < x[Min(D)] => Parting(y, x, Min(D) - 1)
      BY ONLY <1>2, <1>9, <3>1, FirstDifference
    <3> QED
      BY ONLY <2>1, <3>2
  <2>3. /\ x[a] # y[a] /\ a \in 1..k /\ a \in 1..m
        /\ Folded(ci, ByteOf(prec, a)) = x[a] /\ Folded(ci, ByteOf(current, a)) = y[a]
    BY ONLY <1>4, <1>5, <2>2
  <2>4. x[a] \in Int /\ y[a] \in Int
    BY ONLY <1>2, <2>3 DEF Integers
  <2>5. (x[a] < y[a] => Before(x, y)) /\ (y[a] < x[a] => Before(y, x))
    BY ONLY <1>2, <2>2, BeforeIs
  <2>6. x[a] = y[a] => x = y
    BY <2>3
  <2>7. Holds(op, x[a], y[a]) <=> Ordered(op, x, y)
    BY ONLY op \in Ops, <1>2, <2>4, <2>5, <2>6, OrderedBy
  <2> QED
    BY ONLY <1>1, <1>7, <1>9, <2>1, <2>3, <2>7
<1> QED
  BY <1>8, <1>9

\* So string_fun orders all the texts, if it knows the length of each before
\* the last, or asks whether they are the same.
LEMMA TextsSorted ==
  ASSUME NEW op \in Ops, NEW ci \in BOOLEAN, NEW n \in Nat, n > 1,
         NEW texts, \A i \in 1..n : Integers(texts[i]),
         op = "=" \/ \A i \in 1..(n - 1) : Len(texts[i]) = Len(texts[1])
  PROVE  (\A i \in 2..n : TextsFollow(op, ci, Len(texts[1]), texts[i - 1], texts[i])) <=>
         \A i \in 1..n, j \in 1..n : i < j => Ordered(op, TextOf(ci, texts[i]), TextOf(ci, texts[j]))
<1> DEFINE Regular == \A i \in 1..(n - 1) : Len(texts[i]) = Len(texts[1])
           Follow(i) == TextsFollow(op, ci, Len(texts[1]), texts[i - 1], texts[i])
           Order(i, j) == Ordered(op, TextOf(ci, texts[i]), TextOf(ci, texts[j]))
           R == {ij \in (1..n) \X (1..n) : Order(ij[1], ij[2])}
<1>1. \A i \in 2..n : i \in 1..n /\ i - 1 \in 1..(n - 1) /\ i - 1 \in 1..n /\ i - 1 < i
  OBVIOUS
<1>2. ASSUME NEW i \in 2..n, Len(texts[i - 1]) = Len(texts[1]) PROVE Follow(i) <=> Order(i - 1, i)
  <2>1. Integers(texts[i - 1]) /\ Integers(texts[i])
    BY <1>1
  <2>2. TextsFollow(op, ci, Len(texts[i - 1]), texts[i - 1], texts[i]) <=> Order(i - 1, i)
    BY <2>1, FollowsIs
  <2> QED
    BY <1>2, <2>2
<1>3. \A i \in 1..n : Integers(TextOf(ci, texts[i])) /\ Len(TextOf(ci, texts[i])) = Len(texts[i])
  BY TextIs
<1>4. ASSUME Regular PROVE (\A i \in 2..n : Follow(i)) <=> \A i \in 1..n, j \in 1..n : i < j => Order(i, j)
  <2>1. \A i \in 2..n : Follow(i) <=> Order(i - 1, i)
    <3> SUFFICES ASSUME NEW i \in 2..n PROVE Follow(i) <=> Order(i - 1, i)
      OBVIOUS
    <3>1. Len(texts[i - 1]) = Len(texts[1])
      BY <1>1, <1>4
    <3> QED
      BY <1>2, <3>1
  <2>2. ASSUME \A i \in 2..n : Follow(i) PROVE \A i \in 1..n, j \in 1..n : i < j => Order(i, j)
    <3> HIDE DEF Order
    <3>1. \A i \in 2..n : <<i - 1, i>> \in R
      BY <1>1, <2>1, <2>2
    <3>2. \A i \in 1..n, j \in 1..n, k \in 1..n : <<i, j>> \in R /\ <<j, k>> \in R => <<i, k>> \in R
      <4> SUFFICES ASSUME NEW i \in 1..n, NEW j \in 1..n, NEW k \in 1..n, Order(i, j), Order(j, k)
                   PROVE  Order(i, k)
        OBVIOUS
      <4> USE DEF Order
      <4> QED
        BY <1>3, OrderedThrough
    <3>3. \A i \in 1..n, j \in 1..n : i < j => <<i, j>> \in R
      <4> HIDE DEF R
      <4> QED
        BY ONLY n \in Nat, <3>1, <3>2, Neighbours, ZenonT(60)
    <3> QED
      BY <3>3
  <2>3. ASSUME \A i \in 1..n, j \in 1..n : i < j => Order(i, j) PROVE \A i \in 2..n : Follow(i)
    <3> HIDE DEF Order, Follow
    <3> QED
      BY <1>1, <2>1, <2>3
  <2> HIDE DEF Order, Follow
  <2> QED
    BY <2>2, <2>3
<1>5. ASSUME op = "=", \A i \in 2..n : Follow(i) PROVE Regular
  <2> DEFINE A == {i \in 1..n : Len(texts[i]) = Len(texts[1])}
  <2>1. 1 \in A
    OBVIOUS
  <2>2. ASSUME NEW k \in 1..(n - 1), k \in A PROVE k + 1 \in A
    <3>1. k + 1 \in 2..n /\ k + 1 \in 1..n /\ k \in 1..n /\ (k + 1) - 1 = k
      OBVIOUS
    <3>2. Order(k, k + 1)
      <4>1. Order((k + 1) - 1, k + 1)
        <5>1. Len(texts[(k + 1) - 1]) = Len(texts[1])
          BY <2>2, <3>1
        <5>2. Follow(k + 1)
          BY <1>5, <3>1
        <5> HIDE DEF Follow, Order
        <5> QED
          BY ONLY <1>2, <3>1, <5>1, <5>2
      <4> QED
        BY <3>1, <4>1
    <3>3. TextOf(ci, texts[k]) = TextOf(ci, texts[k + 1])
      BY <1>5, <3>2, OrderedIs
    <3>4. Len(texts[k]) = Len(texts[k + 1])
      BY <1>3, <3>1, <3>3
    <3> QED
      BY <2>2, <3>1, <3>4
  <2>3. 1..n \subseteq A
    <3> HIDE DEF A
    <3> QED
      BY <2>1, <2>2, IndexInduction
  <2> QED
    BY <2>3
<1>6. ASSUME op = "=", \A i \in 1..n, j \in 1..n : i < j => Order(i, j) PROVE Regular
  <2> SUFFICES ASSUME NEW i \in 1..(n - 1) PROVE Len(texts[i]) = Len(texts[1])
    OBVIOUS
  <2>1. CASE i = 1
    BY <2>1
  <2>2. CASE i # 1
    <3>1. 1 \in 1..n /\ i \in 1..n /\ 1 < i
      BY <2>2
    <3>2. Order(1, i)
      <4> HIDE DEF Order
      <4> QED
        BY <1>6, <3>1
    <3>3. TextOf(ci, texts[1]) = TextOf(ci, texts[i])
      BY <1>6, <3>2, OrderedIs
    <3> QED
      BY <1>3, <3>1, <3>3
  <2> QED
    BY <2>1, <2>2
<1>7. op = "=" \/ Regular
  OBVIOUS
<1>8. (\A i \in 2..n : Follow(i)) <=> \A i \in 1..n, j \in 1..n : i < j => Order(i, j)
  <2> HIDE DEF Regular, Follow, Order
  <2> QED
    BY <1>4, <1>5, <1>6, <1>7
<1> QED
  BY <1>8

-----------------------------------------------------------------------------
(* The comparisons of a program. *)

\* A family of comparisons is called with one of its five.
CallOK ==
  /\ primitive \in Comparisons => given.call.op \in Ops
  /\ primitive \in {"char_fun", "string_fun"} => given.call.ci \in BOOLEAN

\* The families are called with what the situations name.
LEMMA CallInit ==
  ASSUME Init
  PROVE  CallOK
<1>1. PICK i \in DOMAIN Situations : \E s \in Situations[i].stores, c \in Situations[i].calls :
        given = [store |-> s, call |-> c]
  BY DEF Init
<1>2. PICK s \in Situations[i].stores, c \in Situations[i].calls : given = [store |-> s, call |-> c]
  BY <1>1
<1>3. /\ c.p \in {"number_fun", "char_fun", "string_fun"} => c.op \in Ops
      /\ c.p \in {"char_fun", "string_fun"} => c.ci \in BOOLEAN
  BY SituationsAssumption
<1>4. given.call = c
  BY <1>2
<1> QED
  BY <1>3, <1>4 DEF CallOK, Comparisons, primitive

\* Strings hold integers, and their comparison leaves them as they are.
LEMMA StringsGiven ==
  ASSUME IInv, primitive = "string_fun", NEW j \in 1..Len(args), is_string(args[j])
  PROVE  Integers(elements(args[j]))
<1>1. GivenOK /\ OnlyNamedChanges
  BY DEF IInv
<1>2. PICK v : v = args[j]
  OBVIOUS
<1>3. Value(given.store, v)
  BY <1>1, <1>2, ArgumentFacts
<1>4. v.k = "ref" /\ store[v.a].k = "string"
  BY <1>2 DEF is_string, Is
<1>5. v.a \in DOMAIN given.store
  BY <1>3, <1>4 DEF Value
<1>6. store[v.a] = given.store[v.a]
  BY <1>1, <1>5 DEF OnlyNamedChanges, Mutators
<1>7. PICK o : o = given.store[v.a]
  OBVIOUS
<1>8. Object(given.store, o) /\ o.k = "string"
  BY <1>1, <1>4, <1>5, <1>6, <1>7 DEF GivenOK, Sound
<1>9. PICK t : t = o.e
  OBVIOUS
<1>10. t \in Seq(Range(t)) /\ \A x \in Range(t) : x \in -128..127
  BY <1>8, <1>9 DEF Object
<1>11. Sequential(t)
  BY <1>10 DEF Sequential
<1>12. Len(t) \in Nat /\ DOMAIN t = 1..Len(t)
  BY <1>10
<1>13. \A i \in 1..Len(t) : t[i] \in Int
  <2> SUFFICES ASSUME NEW i \in 1..Len(t) PROVE t[i] \in Int
    OBVIOUS
  <2>1. t[i] \in Range(t)
    BY ONLY <1>12 DEF Range
  <2>2. PICK x : x = t[i]
    OBVIOUS
  <2>3. x \in -128..127
    BY ONLY <1>10, <2>1, <2>2
  <2>4. x \in Int
    BY ONLY <2>3
  <2> QED
    BY ONLY <2>2, <2>4
<1>14. Integers(t)
  BY <1>11, <1>12, <1>13 DEF Integers
<1> QED
  BY <1>2, <1>6, <1>7, <1>9, <1>14 DEF elements

\* number_fun holds of numbers in order, and stops at what is no number.
LEMMA NumbersSorted ==
  ASSUME GivenOK, given.call.op \in Ops
  PROVE  LET v == number_fun(given.call.op, args) IN
         /\ AllFixnums(args) => v = Boolean(Sorted(given.call.op, [i \in DOMAIN args |-> args[i].i]))
         /\ ~AllFixnums(args) => v # Boolean(TRUE)
         /\ Len(args) > 1 /\ ~AllFixnums(args) /\ ~is_fixnum(args[2]) => v = Error
         /\ Len(args) > 2 /\ AllFixnums(SubSeq(args, 1, 2)) /\ ~Holds(given.call.op, args[1].i, args[2].i)
              => v = Boolean(FALSE)
<1>1. PICK n, op, right, follows :
        /\ n = Len(args) /\ op = given.call.op
        /\ right = [i \in DOMAIN args |-> is_fixnum(args[i])]
        /\ follows = [i \in 2..Len(args) |-> Holds(op, args[i - 1].i, args[i].i)]
  OBVIOUS
<1>2. n \in Nat /\ DOMAIN args = 1..n /\ \A i \in 1..n : Value(given.store, args[i])
  BY <1>1, ArgumentFacts
<1>3. /\ DOMAIN right = 1..n /\ \A i \in 1..n : right[i] <=> is_fixnum(args[i])
      /\ \A i \in 2..n : follows[i] <=> Holds(op, args[i - 1].i, args[i].i)
  BY <1>1, <1>2
<1>4. number_fun(op, args) = Chain(right, follows)
  BY <1>1 DEF number_fun
<1>5. AllFixnums(args) <=> \A i \in 1..n : right[i]
  BY <1>2, <1>3 DEF AllFixnums
<1>6. /\ (\A i \in 1..n : right[i]) => Chain(right, follows) = Boolean(\A i \in 2..n : follows[i])
      /\ (\E i \in 1..n : ~right[i]) => Chain(right, follows) # Boolean(TRUE)
      /\ n > 1 /\ ~right[2] => Chain(right, follows) = Error
      /\ n > 1 /\ right[1] /\ right[2] /\ ~follows[2] => Chain(right, follows) = Boolean(FALSE)
  BY <1>2, <1>3, ChainIs
<1>7. ASSUME AllFixnums(args)
      PROVE  Chain(right, follows) = Boolean(Sorted(op, [i \in DOMAIN args |-> args[i].i]))
  <2>1. PICK s : s = [i \in DOMAIN args |-> args[i].i]
    OBVIOUS
  <2>2. DOMAIN s = 1..n /\ \A i \in 1..n : s[i] = args[i].i /\ s[i] \in Int
    <3>1. \A i \in 1..n : args[i].i \in Fixnums
      BY <1>2, <1>7 DEF AllFixnums, is_fixnum, Value
    <3> QED
      BY <1>2, <2>1, <3>1, Widths
  <2>3. Sorted(op, s) <=> \A i \in 2..n : Holds(op, s[i - 1], s[i])
    BY <1>1, <1>2, <2>2, SortedIs
  <2>4. \A i \in 2..n : i \in 1..n /\ i - 1 \in 1..n
    BY <1>2
  <2>5. (\A i \in 2..n : follows[i]) <=> \A i \in 2..n : Holds(op, s[i - 1], s[i])
    BY <1>3, <2>2, <2>4
  <2>6. (\A i \in 2..n : follows[i]) = Sorted(op, s)
    BY ONLY <2>3, <2>5 DEF Sorted
  <2> QED
    BY ONLY <1>5, <1>6, <1>7, <2>1, <2>6
<1>8. n > 1 => 1 \in 1..n /\ 2 \in 1..n /\ 2 \in 2..n /\ 2 - 1 = 1
  BY <1>2
<1>9. ASSUME n > 2, AllFixnums(SubSeq(args, 1, 2)) PROVE right[1] /\ right[2]
  <2>1. PICK S : args \in Seq(S)
    BY DEF GivenOK, Sequential
  <2>2. SubSeq(args, 1, 2) = [i \in 1..2 |-> args[i]]
    <3>1. SubSeq(args, 1, 2) = [i \in 1..((2 - 1) + 1) |-> args[(i + 1) - 1]]
      BY ONLY <2>1
    <3>2. (2 - 1) + 1 = 2 /\ \A i \in 1..2 : (i + 1) - 1 = i
      OBVIOUS
    <3> QED
      BY ONLY <3>1, <3>2
  <2>3. is_fixnum(args[1]) /\ is_fixnum(args[2])
    BY <1>9, <2>2 DEF AllFixnums
  <2> QED
    BY <1>2, <1>3, <1>9, <2>3
<1>10. n > 2 => n > 1
  BY <1>2
<1> QED
  BY ONLY <1>1, <1>3, <1>4, <1>5, <1>6, <1>7, <1>8, <1>9, <1>10

\* string_fun of arguments that are all strings.
LEMMA StringsSorted ==
  ASSUME IInv, primitive = "string_fun", CallOK, Len(args) > 1, \A i \in DOMAIN args : is_string(args[i])
  PROVE  LET text(v) == [i \in DOMAIN elements(v) |-> Folded(given.call.ci, elements(v)[i])]
             regular == \A i \in 1..(Len(args) - 1) : Len(text(args[i])) = Len(text(args[1]))
         IN  given.call.op = "=" \/ regular =>
               Told = Boolean(\A i, j \in DOMAIN args : i < j => Ordered(given.call.op, text(args[i]), text(args[j])))
<1> DEFINE text(v) == [i \in DOMAIN elements(v) |-> Folded(given.call.ci, elements(v)[i])]
<1>1. PICK n, op, ci, texts, right :
        /\ n = Len(args) /\ op = given.call.op /\ ci = given.call.ci
        /\ texts = [j \in DOMAIN args |-> elements(args[j])]
        /\ right = [j \in DOMAIN args |-> is_string(args[j])]
  OBVIOUS
<1>2. op \in Ops /\ ci \in BOOLEAN
  BY <1>1 DEF CallOK, Comparisons
<1>3. n \in Nat /\ n > 1 /\ DOMAIN args = 1..n
  BY <1>1, ArgumentFacts DEF IInv
<1>4. \A i \in 1..n : Integers(texts[i]) /\ texts[i] = elements(args[i]) /\ right[i]
  BY <1>1, <1>3, StringsGiven
<1>5. \A i \in 1..n : text(args[i]) = TextOf(ci, texts[i]) /\ Len(text(args[i])) = Len(texts[i])
  <2> SUFFICES ASSUME NEW i \in 1..n
               PROVE  text(args[i]) = TextOf(ci, texts[i]) /\ Len(text(args[i])) = Len(texts[i])
    OBVIOUS
  <2>1. PICK t : t = texts[i]
    OBVIOUS
  <2>2. Integers(t) /\ t = elements(args[i])
    BY <1>4, <2>1
  <2>3. DOMAIN t = 1..Len(t)
    BY <2>2, Domain DEF Integers
  <2>4. text(args[i]) = [k \in 1..Len(t) |-> Folded(ci, t[k])]
    BY ONLY <1>1, <2>2, <2>3
  <2>5. Len(TextOf(ci, t)) = Len(t)
    BY <1>2, <2>2, TextIs
  <2> QED
    BY ONLY <2>1, <2>4, <2>5 DEF TextOf
<1>6. PICK follows : follows = [i \in 2..n |-> TextsFollow(op, ci, Len(texts[1]), texts[i - 1], texts[i])]
  OBVIOUS
<1>7. DOMAIN right = 1..n /\ Len(right) = n
  <2>1. DOMAIN right = 1..n /\ right = [i \in 1..n |-> right[i]]
    BY ONLY <1>1, <1>3
  <2> QED
    BY ONLY <1>3, <2>1, IsSequence
<1>8. Told = Chain(right, follows)
  <2>1. Told = string_fun(op, ci, right, texts)
    BY <1>1 DEF Told, Arithmetic, Signs, Comparisons, Cases, IntegerDivisions
  <2>2. right[1] /\ ~(Len(right) < 2)
    BY <1>3, <1>4, <1>7
  <2> QED
    BY ONLY <1>6, <1>7, <2>1, <2>2 DEF string_fun
<1>9. Chain(right, follows) = Boolean(\A i \in 2..n : follows[i])
  BY <1>3, <1>4, <1>7, ChainIs
<1>10. ASSUME op = "=" \/ \A i \in 1..(n - 1) : Len(texts[i]) = Len(texts[1])
       PROVE  (\A i \in 2..n : follows[i]) <=>
              \A i \in 1..n, j \in 1..n : i < j => Ordered(op, TextOf(ci, texts[i]), TextOf(ci, texts[j]))
  <2>1. \A i \in 1..n : Integers(texts[i])
    BY <1>4
  <2>2. (\A i \in 2..n : TextsFollow(op, ci, Len(texts[1]), texts[i - 1], texts[i])) <=>
        \A i \in 1..n, j \in 1..n : i < j => Ordered(op, TextOf(ci, texts[i]), TextOf(ci, texts[j]))
    BY ONLY <1>2, <1>3, <1>10, <2>1, TextsSorted
  <2>3. \A i \in 2..n : follows[i] <=> TextsFollow(op, ci, Len(texts[1]), texts[i - 1], texts[i])
    BY ONLY <1>6
  <2> QED
    BY ONLY <2>2, <2>3
<1>11. ASSUME op = "=" \/ \A i \in 1..(n - 1) : Len(text(args[i])) = Len(text(args[1]))
       PROVE  Told = Boolean(\A i \in 1..n, j \in 1..n : i < j => Ordered(op, text(args[i]), text(args[j])))
  <2>1. \A i \in 1..(n - 1) : i \in 1..n /\ 1 \in 1..n
    BY <1>3
  <2>2. op = "=" \/ \A i \in 1..(n - 1) : Len(texts[i]) = Len(texts[1])
    <3> HIDE DEF text
    <3> QED
      BY ONLY <1>5, <1>11, <2>1
  <2> DEFINE A == \A i \in 2..n : follows[i]
             B == \A i \in 1..n, j \in 1..n : i < j => Ordered(op, TextOf(ci, texts[i]), TextOf(ci, texts[j]))
             C == \A i \in 1..n, j \in 1..n : i < j => Ordered(op, text(args[i]), text(args[j]))
  <2>3. B = C
    <3> HIDE DEF text
    <3>1. B <=> C
      BY ONLY <1>5
    <3> QED
      BY ONLY <3>1
  <2>4. A = B
    <3>1. A <=> B
      BY ONLY <1>10, <2>2
    <3> QED
      BY ONLY <3>1
  <2>5. Told = Boolean(A)
    BY ONLY <1>8, <1>9
  <2> HIDE DEF A, B, C
  <2>6. Told = Boolean(C)
    BY ONLY <2>3, <2>4, <2>5
  <2> USE DEF C
  <2> HIDE DEF text
  <2> QED
    BY ONLY <2>6
<1> QED
  BY ONLY <1>1, <1>3, <1>11

\* What is told of a comparison is what it means.
LEMMA ChainsTold ==
  ASSUME IInv, OneStep, CallOK
  PROVE  ChainsMean
<1>1. GivenOK
  BY DEF IInv
<1>2. ASSUME NEW ps \in SUBSET Lone, Answers(ps) PROVE result = Told /\ primitive \in ps
  BY <1>2 DEF OneStep, Answers, Idle
<1>3. ASSUME Answers({"number_fun"})
      PROVE  /\ AllFixnums(args) => result = Boolean(Sorted(given.call.op, [i \in DOMAIN args |-> args[i].i]))
             /\ ~AllFixnums(args) => result # Boolean(TRUE)
             /\ Len(args) > 1 /\ ~AllFixnums(args) /\ ~is_fixnum(args[2]) => result = Error
             /\ Len(args) > 2 /\ AllFixnums(SubSeq(args, 1, 2)) /\ ~Holds(given.call.op, args[1].i, args[2].i)
                  => result = Boolean(FALSE)
  <2>1. result = Told /\ primitive = "number_fun"
    BY <1>2, <1>3 DEF Lone, Comparisons
  <2>2. Told = number_fun(given.call.op, args)
    BY <2>1 DEF Told, Arithmetic, Signs, Comparisons, Cases, IntegerDivisions
  <2>3. given.call.op \in Ops
    BY <2>1 DEF CallOK, Comparisons
  <2> QED
    BY ONLY <1>1, <2>1, <2>2, <2>3, NumbersSorted
<1>4. ASSUME Answers({"char_fun"}), Characters(args)
      PROVE  result = Boolean(Sorted(given.call.op, [i \in DOMAIN args |-> Folded(given.call.ci, CodeOf(args[i]))]))
  <2>1. result = Told /\ primitive = "char_fun"
    BY <1>2, <1>4 DEF Lone, Comparisons
  <2>2. Told = char_fun(given.call.op, given.call.ci, args)
    BY <2>1 DEF Told, Arithmetic, Signs, Comparisons, Cases, IntegerDivisions
  <2>3. given.call.op \in Ops /\ given.call.ci \in BOOLEAN
    BY <2>1 DEF CallOK, Comparisons
  <2> QED
    BY ONLY <1>1, <1>4, <2>1, <2>2, <2>3, CharactersSorted
<1>5. ASSUME Answers({"char-upcase", "char-downcase"}), result # Error
      PROVE  /\ char_fun("=", TRUE, <<result, args[1]>>) = Boolean(TRUE)
             /\ CodeOf(result) # CodeOf(args[1]) <=>
                  CodeOf(args[1]) \in IF primitive = "char-upcase" THEN 97..122 ELSE 65..90
  <2>1. result = Told /\ primitive \in Cases
    BY <1>2, <1>5 DEF Lone, Cases
  <2>2. Told = char_case(primitive, args)
    BY <2>1 DEF Told, Arithmetic, Signs, Comparisons, Cases, IntegerDivisions
  <2>3. char_case(primitive, args) # Error
    BY ONLY <1>5, <2>1, <2>2
  <2> QED
    BY ONLY <1>1, <2>1, <2>2, <2>3, CasesRight
<1>6. ASSUME Answers({"string_fun"}), Len(args) > 1, \A i \in DOMAIN args : is_string(args[i])
      PROVE  LET text(v) == [i \in DOMAIN elements(v) |-> Folded(given.call.ci, elements(v)[i])]
                 regular == \A i \in 1..(Len(args) - 1) : Len(text(args[i])) = Len(text(args[1]))
             IN  given.call.op = "=" \/ regular =>
                   result = Boolean(\A i, j \in DOMAIN args :
                                      i < j => Ordered(given.call.op, text(args[i]), text(args[j])))
  <2>1. result = Told /\ primitive = "string_fun"
    BY <1>2, <1>6 DEF Lone, Comparisons
  <2> QED
    BY ONLY IInv, CallOK, <1>6, <2>1, StringsSorted
<1> QED
  BY ONLY <1>3, <1>4, <1>5, <1>6 DEF ChainsMean

\* The call does not change.
LEMMA AlwaysCallOK == Spec => []CallOK
<1>1. IInv /\ CallOK /\ [Next]_vars => CallOK'
  <2> SUFFICES ASSUME IInv, CallOK, [Next]_vars PROVE CallOK'
    OBVIOUS
  <2>1. given' = given
    BY GivenConstant DEF vars
  <2> QED
    BY <2>1 DEF CallOK, primitive
<1> QED
  BY <1>1, CallInit, AlwaysInv, PTL DEF Spec

\* The comparisons hold of all their arguments in their order, of numbers,
\* of characters as the codes they have, of texts as in a dictionary where
\* the length of the first is that of all but the last; the cases of
\* a letter are the same to the comparisons that ignore them.
THEOREM ChainsRight == Spec => []ChainsMean
<1>1. IInv /\ OneStep /\ CallOK => ChainsMean
  BY ChainsTold
<1> QED
  BY <1>1, AlwaysOneStep, AlwaysCallOK, PTL
=============================================================================
