---------------------------- MODULE SequenceFacts ----------------------------
(***************************************************************************)
(* Facts about sequences and about recursion that the proofs share.       *)
(*                                                                         *)
(* The first are about the sequences that the machines of Evaluator.tla    *)
(* and Repl.tla keep as stacks, queues and logs, for elements of any kind: *)
(* the theorems of the library ask for a set the elements are in.  The     *)
(* others are induction along a sequence and the existence of a function   *)
(* defined by recursion, in forms that ask for no operator: induction is   *)
(* over a set of numbers, and a recursion over a function from each value  *)
(* to the next.                                                            *)
(***************************************************************************)
EXTENDS Integers, Sequences, SequenceTheorems, NaturalsInduction, WellFoundedInduction, TLAPS

\* A sequence, of whatever there is in it.
Sequential(s) == \E S : s \in Seq(S)

\* What is known of s with f put before it.
LEMMA Pushed ==
  ASSUME NEW s, Sequential(s), NEW f
  PROVE  /\ Sequential(<<f>> \o s) /\ <<f>> \o s # << >>
         /\ Len(s) \in Nat /\ Len(<<f>> \o s) = Len(s) + 1
         /\ (<<f>> \o s)[1] = f /\ Head(<<f>> \o s) = f
         /\ \A i \in 1..Len(s) : (<<f>> \o s)[i + 1] = s[i]
<1>1. PICK S : s \in Seq(S)
  BY DEF Sequential
<1> DEFINE T == S \cup {f}
<1>2. s \in Seq(T) /\ <<f>> \in Seq(T) /\ Len(<<f>>) = 1 /\ <<f>>[1] = f
  BY <1>1
<1> DEFINE t == <<f>> \o s
<1>3. /\ t \in Seq(T) /\ Len(t) = 1 + Len(s)
      /\ \A i \in 1..(1 + Len(s)) : t[i] = IF i <= 1 THEN <<f>>[i] ELSE s[i - 1]
  BY <1>2, ConcatProperties
<1>4. Len(s) \in Nat
  BY <1>1
<1> HIDE DEF t
<1>5. Len(t) = Len(s) + 1 /\ t # << >> /\ t[1] = f
  BY <1>2, <1>3, <1>4
<1>6. \A i \in 1..Len(s) : t[i + 1] = s[i]
  BY <1>3, <1>4
<1>7. Head(t) = f
  BY <1>3, <1>5
<1>8. Sequential(t)
  BY <1>3 DEF Sequential
<1> QED
  BY <1>4, <1>5, <1>6, <1>7, <1>8 DEF t

\* What is known of a sequence that is not empty, and of its tail.
LEMMA Popped ==
  ASSUME NEW s, Sequential(s), s # << >>
  PROVE  /\ Len(s) \in Nat \ {0} /\ Head(s) = s[1]
         /\ Sequential(Tail(s)) /\ Len(Tail(s)) = Len(s) - 1
         /\ (Tail(s) = << >> <=> Len(s) = 1)
         /\ \A i \in 1..(Len(s) - 1) : Tail(s)[i] = s[i + 1]
<1>1. PICK S : s \in Seq(S)
  BY DEF Sequential
<1>2. Len(s) \in Nat \ {0} /\ Head(s) = s[1]
  BY <1>1
<1> DEFINE t == Tail(s)
<1>3. t \in Seq(S) /\ Len(t) = Len(s) - 1 /\ \A i \in 1..Len(t) : t[i] = s[i + 1]
  BY <1>1, HeadTailProperties
<1> HIDE DEF t
<1>4. t = << >> <=> Len(s) = 1
  BY <1>2, <1>3
<1> QED
  BY <1>2, <1>3, <1>4 DEF t, Sequential

\* What is known of s with f put behind it.
LEMMA Appended ==
  ASSUME NEW s, Sequential(s), NEW f
  PROVE  /\ Sequential(Append(s, f)) /\ Append(s, f) # << >>
         /\ Len(s) \in Nat /\ Len(Append(s, f)) = Len(s) + 1
         /\ Append(s, f)[Len(s) + 1] = f
         /\ \A i \in 1..Len(s) : Append(s, f)[i] = s[i]
<1>1. PICK S : s \in Seq(S)
  BY DEF Sequential
<1>2. s \in Seq(S \cup {f}) /\ f \in S \cup {f}
  BY <1>1
<1> QED
  BY <1>2, AppendProperties DEF Sequential

\* What is known of s when one of its elements is replaced.
LEMMA Replaced ==
  ASSUME NEW s, Sequential(s), NEW p \in 1..Len(s), NEW x
  PROVE  /\ Sequential([s EXCEPT ![p] = x]) /\ [s EXCEPT ![p] = x] # << >>
         /\ Len([s EXCEPT ![p] = x]) = Len(s)
         /\ [s EXCEPT ![p] = x][p] = x
         /\ \A i \in 1..Len(s) : i # p => [s EXCEPT ![p] = x][i] = s[i]
<1>1. PICK S : s \in Seq(S)
  BY DEF Sequential
<1>2. s \in Seq(S \cup {x})
  BY <1>1
<1>3. [s EXCEPT ![p] = x] \in Seq(S \cup {x}) /\ Len([s EXCEPT ![p] = x]) = Len(s)
  BY <1>2
<1> QED
  BY <1>2, <1>3 DEF Sequential

\* What is known of two sequences, one put behind the other.
LEMMA Concatenated ==
  ASSUME NEW s, Sequential(s), NEW t, Sequential(t)
  PROVE  /\ Sequential(s \o t) /\ Len(s) \in Nat /\ Len(t) \in Nat
         /\ Len(s \o t) = Len(s) + Len(t)
         /\ \A i \in 1..Len(s) : (s \o t)[i] = s[i]
         /\ \A i \in 1..Len(t) : (s \o t)[Len(s) + i] = t[i]
<1>1. PICK S : s \in Seq(S)
  BY DEF Sequential
<1>2. PICK T : t \in Seq(T)
  BY DEF Sequential
<1> DEFINE U == S \cup T
           u == s \o t
<1>3. s \in Seq(U) /\ t \in Seq(U)
  BY <1>1, <1>2
<1>4. Len(s) \in Nat /\ Len(t) \in Nat
  BY <1>3
<1> HIDE DEF U
<1>5. /\ u \in Seq(U) /\ Len(u) = Len(s) + Len(t)
      /\ \A i \in 1..(Len(s) + Len(t)) : u[i] = IF i <= Len(s) THEN s[i] ELSE t[i - Len(s)]
  BY <1>3, ConcatProperties
<1> HIDE DEF u
<1>6. ASSUME NEW i \in 1..Len(s) PROVE u[i] = s[i]
  BY <1>4, <1>5
<1>7. ASSUME NEW i \in 1..Len(t) PROVE u[Len(s) + i] = t[i]
  <2>1. Len(s) + i \in 1..(Len(s) + Len(t)) /\ ~(Len(s) + i <= Len(s)) /\ (Len(s) + i) - Len(s) = i
    BY <1>4
  <2> QED
    BY <1>5, <2>1
<1> QED
  BY <1>4, <1>5, <1>6, <1>7 DEF u, Sequential

-----------------------------------------------------------------------------
(* Induction and recursion over the natural numbers. *)

Less == {ss \in Nat \X Nat : ss[1] < ss[2]}

\* Induction, for the numbers of a set.
LEMMA SetInduction ==
  ASSUME NEW A, 0 \in A, \A n \in Nat : n \in A => n + 1 \in A
  PROVE  Nat \subseteq A
<1> SUFFICES ASSUME Nat \ A # {} PROVE FALSE
  OBVIOUS
<1>1. IsWellFoundedOn(Less, Nat)
  BY NatLessThanWellFounded DEF OpToRel, Less
<1>2. PICK m \in Nat \ A : \A y \in Nat \ A : <<y, m>> \notin Less
  BY <1>1, WFMin, Zenon
<1>3. m # 0 /\ m \in Nat
  BY <1>2
<1>4. m - 1 \in Nat /\ m - 1 < m /\ (m - 1) + 1 = m
  BY <1>3
<1>5. m - 1 \notin A
  BY <1>2, <1>4
<1>6. <<m - 1, m>> \in Less
  BY <1>3, <1>4 DEF Less
<1> QED
  BY <1>2, <1>4, <1>5, <1>6

\* There is a smallest number in a set of them.
LEMMA Smallest ==
  ASSUME NEW A, NEW n \in Nat, n \in A
  PROVE  \E m \in Nat : m \in A /\ m <= n /\ \A j \in 0..(m - 1) : j \notin A
<1>1. IsWellFoundedOn(Less, Nat)
  BY NatLessThanWellFounded DEF OpToRel, Less
<1> DEFINE B == Nat \cap A
<1>2. B \subseteq Nat /\ B # {}
  OBVIOUS
<1>3. PICK m \in B : \A y \in B : <<y, m>> \notin Less
  <2> HIDE DEF B
  <2> QED
    BY <1>1, <1>2, WFMin, Zenon
<1>4. ASSUME NEW j \in Nat, j \in A PROVE ~(j < m)
  BY <1>3, <1>4 DEF Less
<1> QED
  BY <1>3, <1>4

\* Function g on 0..N has the first value base and each next one by F.
DefinedBy(S, base, F, N, g) ==
  /\ g \in [0..N -> S]
  /\ \A n \in 0..N : g[n] = IF n = 0 THEN base ELSE F[<<n, g[n - 1]>>]

\* A function can be defined by its first value and by each next one.
LEMMA Recursion ==
  ASSUME NEW S, NEW base \in S, NEW F \in [Nat \X S -> S]
  PROVE  \A N \in Nat : \E g : DefinedBy(S, base, F, N, g)
<1> DEFINE A == {N \in Nat : \E g : DefinedBy(S, base, F, N, g)}
<1>1. 0 \in A
  <2> DEFINE g == [n \in 0..0 |-> base]
  <2>1. DefinedBy(S, base, F, 0, g)
    BY DEF DefinedBy
  <2> QED
    BY <2>1
<1>2. ASSUME NEW N \in Nat, N \in A PROVE N + 1 \in A
  <2>1. PICK f : DefinedBy(S, base, F, N, f)
    BY <1>2
  <2> DEFINE g == [n \in 0..(N + 1) |-> IF n = N + 1 THEN F[<<N + 1, f[N]>>] ELSE f[n]]
  <2>2. f[N] \in S /\ <<N + 1, f[N]>> \in Nat \X S /\ F[<<N + 1, f[N]>>] \in S
    BY <2>1 DEF DefinedBy
  <2>3. g \in [0..(N + 1) -> S]
    BY <2>1, <2>2 DEF DefinedBy
  <2>4. ASSUME NEW n \in 0..(N + 1)
        PROVE  g[n] = IF n = 0 THEN base ELSE F[<<n, g[n - 1]>>]
    <3>1. CASE n = N + 1
      <4>1. n # 0 /\ n - 1 = N /\ N \in 0..(N + 1) /\ N # N + 1
        BY <3>1
      <4>2. g[n - 1] = f[N] /\ g[n] = F[<<N + 1, f[N]>>]
        BY <3>1, <4>1
      <4> QED
        BY <3>1, <4>1, <4>2
    <3>2. CASE n # N + 1
      <4>1. n \in 0..N /\ g[n] = f[n]
        BY <3>2
      <4>2. n # 0 => n - 1 \in 0..(N + 1) /\ n - 1 # N + 1 /\ g[n - 1] = f[n - 1]
        BY <3>2, <4>1
      <4>3. f[n] = IF n = 0 THEN base ELSE F[<<n, f[n - 1]>>]
        BY <2>1, <4>1 DEF DefinedBy
      <4> QED
        BY <4>1, <4>2, <4>3
    <3> QED
      BY <3>1, <3>2
  <2>5. DefinedBy(S, base, F, N + 1, g)
    BY <2>3, <2>4 DEF DefinedBy
  <2> HIDE DEF g
  <2>6. (N + 1) \in Nat /\ \E f1 : DefinedBy(S, base, F, N + 1, f1)
    BY <2>5
  <2> QED
    BY <2>6
<1> HIDE DEF A
<1>3. Nat \subseteq A
  BY <1>1, <1>2, SetInduction
<1> QED
  BY <1>3 DEF A

\* Two functions defined by the same recursion agree as far as both go.
LEMMA RecursionUnique ==
  ASSUME NEW S, NEW base, NEW F, NEW N \in Nat, NEW M \in Nat, NEW f, NEW g,
         DefinedBy(S, base, F, N, f), DefinedBy(S, base, F, M, g)
  PROVE  \A n \in Nat : n <= N /\ n <= M => f[n] = g[n]
<1> DEFINE A == {n \in Nat : n <= N /\ n <= M => f[n] = g[n]}
<1>1. 0 \in A
  <2>1. 0 \in 0..N /\ 0 \in 0..M
    OBVIOUS
  <2>2. f[0] = base
    BY <2>1 DEF DefinedBy
  <2>3. g[0] = base
    BY <2>1 DEF DefinedBy
  <2> QED
    BY <2>2, <2>3
<1>2. ASSUME NEW n \in Nat, n \in A PROVE n + 1 \in A
  <2> SUFFICES ASSUME n + 1 <= N, n + 1 <= M PROVE f[n + 1] = g[n + 1]
    OBVIOUS
  <2>1. f[n] = g[n] /\ n + 1 \in 0..N /\ n + 1 \in 0..M /\ n + 1 # 0 /\ (n + 1) - 1 = n
    BY <1>2
  <2>2. f[n + 1] = F[<<n + 1, f[n]>>] /\ g[n + 1] = F[<<n + 1, g[n]>>]
    BY <2>1 DEF DefinedBy
  <2> QED
    BY <2>1, <2>2
<1> HIDE DEF A
<1>3. Nat \subseteq A
  BY <1>1, <1>2, SetInduction
<1> QED
  BY <1>3 DEF A

\* The same, for a function on all the natural numbers.
DefinedOnNat(S, base, F, g) ==
  /\ g \in [Nat -> S]
  /\ \A n \in Nat : g[n] = IF n = 0 THEN base ELSE F[<<n, g[n - 1]>>]

\* So there is one on all of them.
LEMMA NatRecursion ==
  ASSUME NEW S, NEW base \in S, NEW F \in [Nat \X S -> S]
  PROVE  \E g : DefinedOnNat(S, base, F, g)
<1> DEFINE upTo(n) == CHOOSE h : DefinedBy(S, base, F, n, h)
           g == [n \in Nat |-> upTo(n)[n]]
<1>1. \A n \in Nat : DefinedBy(S, base, F, n, upTo(n))
  BY Recursion
<1>2. ASSUME NEW n \in Nat PROVE upTo(n)[n] \in S
  <2>1. DefinedBy(S, base, F, n, upTo(n)) /\ n \in 0..n
    BY <1>1
  <2> HIDE DEF upTo
  <2> QED
    BY <2>1 DEF DefinedBy
<1>3. ASSUME NEW n \in Nat
      PROVE  upTo(n)[n] = IF n = 0 THEN base ELSE F[<<n, upTo(n - 1)[n - 1]>>]
  <2>1. DefinedBy(S, base, F, n, upTo(n)) /\ n \in 0..n
    BY <1>1
  <2>2. CASE n = 0
    <3> HIDE DEF upTo
    <3> QED
      BY <2>1, <2>2 DEF DefinedBy
  <2>3. CASE n # 0
    <3>1. n - 1 \in Nat /\ DefinedBy(S, base, F, n - 1, upTo(n - 1)) /\ n - 1 <= n /\ n - 1 <= n - 1
      BY <1>1, <2>3
    <3> HIDE DEF upTo
    <3>2. upTo(n)[n - 1] = upTo(n - 1)[n - 1]
      BY <2>1, <3>1, RecursionUnique
    <3>3. upTo(n)[n] = F[<<n, upTo(n)[n - 1]>>]
      BY <2>1, <2>3 DEF DefinedBy
    <3> QED
      BY <2>3, <3>2, <3>3
  <2> QED
    BY <2>2, <2>3
<1> HIDE DEF upTo
<1>4. g \in [Nat -> S]
  BY <1>2
<1>5. ASSUME NEW n \in Nat PROVE g[n] = IF n = 0 THEN base ELSE F[<<n, g[n - 1]>>]
  <2>1. n # 0 => n - 1 \in Nat
    OBVIOUS
  <2> QED
    BY <1>3, <2>1
<1> HIDE DEF g
<1>6. DefinedOnNat(S, base, F, g)
  BY <1>4, <1>5 DEF DefinedOnNat
<1> QED
  BY <1>6

\* Induction along a sequence.
LEMMA IndexInduction ==
  ASSUME NEW A, NEW n \in Nat, n > 0 => 1 \in A,
         \A k \in 1..(n - 1) : k \in A => k + 1 \in A
  PROVE  1..n \subseteq A
<1> DEFINE B == {k \in Nat : k + 1 \in 1..n => k + 1 \in A}
<1>1. 0 \in B
  OBVIOUS
<1>2. ASSUME NEW k \in Nat, k \in B PROVE k + 1 \in B
  <2> SUFFICES ASSUME k + 2 \in 1..n PROVE k + 2 \in A
    OBVIOUS
  <2>1. k + 1 \in 1..(n - 1) /\ k + 1 \in 1..n
    OBVIOUS
  <2>2. k + 1 \in A
    BY <1>2, <2>1
  <2>3. (k + 1) + 1 \in A
    BY <2>1, <2>2
  <2> QED
    BY <2>3
<1> HIDE DEF B
<1>3. Nat \subseteq B
  BY <1>1, <1>2, SetInduction
<1> SUFFICES ASSUME NEW k \in 1..n PROVE k \in A
  OBVIOUS
<1>4. k - 1 \in Nat /\ (k - 1) + 1 = k
  OBVIOUS
<1>5. k - 1 \in B
  BY <1>3, <1>4
<1> QED
  BY <1>4, <1>5 DEF B
=============================================================================
