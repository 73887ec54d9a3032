------------------------- MODULE EnvironmentsProofs -------------------------
(***************************************************************************)
(* Theorems about Environments.tla, for all programs: any number of        *)
(* lambdas with any parameters, arguments, data and room.                  *)
(*                                                                         *)
(* The walks over lists are recursive functions: SequenceFacts.Recursion   *)
(* gives that they exist, and induction along a list what they return.     *)
(* The inductive invariant IInv says that the heap can be laid out: every  *)
(* pair has a kind, which no step changes unless it is data; with apply,   *)
(* the values of a frame are; the pairs of an environment, of names and    *)
(* (without apply) of values count down to the end of their list; and a    *)
(* list of values belongs to one frame, a frame to one environment.        *)
(***************************************************************************)
EXTENDS Environments, SequenceFacts

USE ObjectsAssumption, BoundsAssumption

\* The heaps whose fields have their types.
Heaps == [car : [Pairs -> Objects], cdr : [Pairs -> Objects], fresh : 1..(MaxPair + 1)]

\* The recursive definition of the walks of heap h.
WalkOf(h, walk) ==
  walk = [n \in 0..MaxPair |->
            [p \in Pairs |-> <<p>> \o (IF n = 0 \/ ~is_pair(h, h.cdr[p])
                                       THEN << >> ELSE walk[n - 1][h.cdr[p]])]]

\* There is such a function, and it gives lists of pairs.
LEMMA WalksDefined ==
  ASSUME NEW h \in Heaps
  PROVE  /\ WalkOf(h, Walks(h))
         /\ Walks(h) \in [0..MaxPair -> [Pairs -> Seq(Pairs)]]
<1> DEFINE S == [Pairs -> Seq(Pairs)]
           base == [p \in Pairs |-> <<p>> \o << >>]
           step(w) == [p \in Pairs |-> <<p>> \o (IF ~is_pair(h, h.cdr[p]) THEN << >> ELSE w[h.cdr[p]])]
           F == [nw \in Nat \X S |-> step(nw[2])]
<1>1. base \in S
  OBVIOUS
<1>2. \A o : is_pair(h, o) => o \in Pairs
  BY DEF is_pair, Heaps, Pairs
<1>3. ASSUME NEW w \in S PROVE step(w) \in S
  <2> SUFFICES ASSUME NEW p \in Pairs
               PROVE  <<p>> \o (IF ~is_pair(h, h.cdr[p]) THEN << >> ELSE w[h.cdr[p]]) \in Seq(Pairs)
    OBVIOUS
  <2>1. is_pair(h, h.cdr[p]) => w[h.cdr[p]] \in Seq(Pairs)
    BY <1>2
  <2> QED
    BY <2>1
<1>4. F \in [Nat \X S -> S]
  BY <1>3
<1> HIDE DEF base, S
<1>5. PICK g : DefinedBy(S, base, F, MaxPair, g)
  <2> HIDE DEF F
  <2> QED
    BY <1>1, <1>4, Recursion
<1>6. ASSUME NEW n \in 0..MaxPair
      PROVE  g[n] = [p \in Pairs |-> <<p>> \o (IF n = 0 \/ ~is_pair(h, h.cdr[p])
                                              THEN << >> ELSE g[n - 1][h.cdr[p]])]
  <2>1. CASE n = 0
    BY <1>5, <2>1 DEF base, DefinedBy
  <2>2. CASE n # 0
    <3>1. g[n - 1] \in S /\ n \in Nat
      BY <1>5, <2>2 DEF DefinedBy
    <3>2. g[n] = step(g[n - 1])
      BY <1>5, <2>2, <3>1 DEF DefinedBy
    <3> QED
      BY <2>2, <3>2
  <2> QED
    BY <2>1, <2>2
<1>7. WalkOf(h, g)
  BY <1>5, <1>6 DEF WalkOf, DefinedBy
<1>8. WalkOf(h, Walks(h))
  BY <1>7 DEF WalkOf, Walks
<1> DEFINE w == Walks(h)
           A == {n \in Nat : n <= MaxPair => w[n] \in S}
<1> HIDE DEF w
<1>9. w = [n \in 0..MaxPair |->
             [p \in Pairs |-> <<p>> \o (IF n = 0 \/ ~is_pair(h, h.cdr[p])
                                        THEN << >> ELSE w[n - 1][h.cdr[p]])]]
  BY <1>8 DEF WalkOf, w
<1>10. 0 \in A
  <2>1. w[0] = base
    BY <1>9 DEF base
  <2> QED
    BY <1>1, <2>1
<1>11. ASSUME NEW n \in Nat, n \in A PROVE n + 1 \in A
  <2> SUFFICES ASSUME n + 1 <= MaxPair PROVE w[n + 1] \in S
    OBVIOUS
  <2>1. w[n] \in S /\ n + 1 \in 0..MaxPair /\ n + 1 # 0 /\ (n + 1) - 1 = n
    BY <1>11
  <2>2. w[n + 1] = step(w[n])
    BY <1>9, <2>1
  <2> QED
    BY <1>3, <2>1, <2>2
<1> HIDE DEF A
<1>12. Nat \subseteq A
  BY <1>10, <1>11, SetInduction
<1>13. \A n \in 0..MaxPair : w[n] \in S
  BY <1>12 DEF A
<1>14. w \in [0..MaxPair -> S]
  BY <1>9, <1>13
<1> QED
  BY <1>8, <1>14 DEF w, S

-----------------------------------------------------------------------------
(* What a walk returns. *)

Made(h) == 1..(h.fresh - 1)

\* The pairs of s follow each other by their cdrs, from l on.
Chain(h, l, s) ==
  /\ s \in Seq(Made(h)) /\ s # << >> /\ s[1] = l
  /\ \A k \in 1..(Len(s) - 1) : s[k + 1] = h.cdr[s[k]]

\* A walk of n + 1 pairs is a chain, that stops early only at the list's end.
Walked(h, n, l, s) ==
  /\ Chain(h, l, s) /\ Len(s) <= n + 1
  /\ Len(s) <= n => ~is_pair(h, h.cdr[s[Len(s)]])

\* A chain with its predecessor in front.
LEMMA ChainPushed ==
  ASSUME NEW h \in Heaps, NEW n \in Nat, NEW p \in Made(h), NEW t,
         is_pair(h, h.cdr[p]), Walked(h, n, h.cdr[p], t)
  PROVE  Walked(h, n + 1, p, <<p>> \o t)
<1>1. /\ t \in Seq(Made(h)) /\ t # << >> /\ t[1] = h.cdr[p] /\ Len(t) <= n + 1
      /\ \A k \in 1..(Len(t) - 1) : t[k + 1] = h.cdr[t[k]]
      /\ Len(t) <= n => ~is_pair(h, h.cdr[t[Len(t)]])
  BY DEF Walked, Chain
<1> DEFINE s == <<p>> \o t
<1>2. s \in Seq(Made(h))
  BY <1>1
<1>3. Len(t) \in Nat /\ Len(t) # 0
  BY <1>1
<1>4. /\ s # << >> /\ Len(s) = Len(t) + 1 /\ s[1] = p
      /\ \A i \in 1..Len(t) : s[i + 1] = t[i]
  BY <1>1, Pushed DEF Sequential
<1> HIDE DEF s
<1>5. ASSUME NEW k \in 1..(Len(s) - 1) PROVE s[k + 1] = h.cdr[s[k]]
  <2>1. k \in 1..Len(t) /\ s[k + 1] = t[k]
    BY <1>3, <1>4
  <2>2. CASE k = 1
    BY <1>1, <1>4, <2>1, <2>2
  <2>3. CASE k # 1
    <3>1. k - 1 \in 1..(Len(t) - 1) /\ k - 1 \in 1..Len(t) /\ (k - 1) + 1 = k
      BY <1>3, <2>1, <2>3
    <3>2. s[k] = t[k - 1] /\ t[k] = h.cdr[t[k - 1]]
      BY <1>1, <1>4, <3>1
    <3> QED
      BY <2>1, <3>2
  <2> QED
    BY <2>2, <2>3
<1>6. s[Len(s)] = t[Len(t)]
  BY <1>3, <1>4
<1>7. Len(s) <= (n + 1) + 1 /\ (Len(s) <= n + 1 => ~is_pair(h, h.cdr[s[Len(s)]]))
  BY <1>1, <1>3, <1>4, <1>6
<1> QED
  BY <1>2, <1>4, <1>5, <1>7 DEF s, Walked, Chain

\* A list whose cdr is no pair has one pair.
LEMMA ChainOfOne ==
  ASSUME NEW h \in Heaps, NEW n \in Nat, NEW p \in Made(h), n # 0 => ~is_pair(h, h.cdr[p])
  PROVE  Walked(h, n, p, <<p>>)
BY DEF Walked, Chain

\* Walks does what its definition says.
LEMMA WalksWalk ==
  ASSUME NEW h \in Heaps
  PROVE  \A n \in 0..MaxPair, p \in Made(h) : Walked(h, n, p, Walks(h)[n][p])
<1> DEFINE w == Walks(h)
           A == {n \in Nat : n <= MaxPair => \A p \in Made(h) : Walked(h, n, p, w[n][p])}
<1>1. \A n \in 0..MaxPair, p \in Pairs :
        w[n][p] = <<p>> \o (IF n = 0 \/ ~is_pair(h, h.cdr[p]) THEN << >> ELSE w[n - 1][h.cdr[p]])
  <2> HIDE DEF w
  <2>1. w = [n \in 0..MaxPair |->
               [p \in Pairs |-> <<p>> \o (IF n = 0 \/ ~is_pair(h, h.cdr[p])
                                          THEN << >> ELSE w[n - 1][h.cdr[p]])]]
    BY WalksDefined DEF WalkOf, w
  <2> SUFFICES ASSUME NEW n \in 0..MaxPair, NEW p \in Pairs
               PROVE  w[n][p] = <<p>> \o (IF n = 0 \/ ~is_pair(h, h.cdr[p])
                                          THEN << >> ELSE w[n - 1][h.cdr[p]])
    OBVIOUS
  <2>2. w[n] = [q \in Pairs |-> <<q>> \o (IF n = 0 \/ ~is_pair(h, h.cdr[q])
                                          THEN << >> ELSE w[n - 1][h.cdr[q]])]
    BY <2>1
  <2> QED
    BY <2>2
<1>2. Made(h) \subseteq Pairs
  BY DEF Made, Heaps, Pairs
<1> HIDE DEF w
<1>3. \A p : <<p>> \o << >> = <<p>>
  OBVIOUS
<1>4. 0 \in A
  <2> SUFFICES ASSUME NEW p \in Made(h) PROVE Walked(h, 0, p, w[0][p])
    OBVIOUS
  <2>1. w[0][p] = <<p>> \o << >>
    <3>1. 0 \in 0..MaxPair /\ p \in Pairs
      BY <1>2
    <3> HIDE DEF A
    <3> QED
      BY <1>1, <3>1, Zenon
  <2> QED
    BY <1>3, <2>1, ChainOfOne
<1>5. ASSUME NEW n \in Nat, n \in A PROVE n + 1 \in A
  <2> SUFFICES ASSUME n + 1 <= MaxPair, NEW p \in Made(h)
               PROVE  Walked(h, n + 1, p, w[n + 1][p])
    OBVIOUS
  <2>1. n + 1 \in 0..MaxPair /\ n + 1 # 0 /\ (n + 1) - 1 = n /\ n <= MaxPair /\ n + 1 \in Nat
    OBVIOUS
  <2>2. CASE is_pair(h, h.cdr[p])
    <3>1. h.cdr[p] \in Made(h)
      BY <2>2 DEF is_pair, Made
    <3>2. Walked(h, n, h.cdr[p], w[n][h.cdr[p]])
      BY <1>5, <2>1, <3>1
    <3>3. w[n + 1][p] = <<p>> \o w[n][h.cdr[p]]
      <4>1. p \in Pairs
        BY <1>2
      <4> HIDE DEF A
      <4> QED
        BY <1>1, <2>1, <2>2, <4>1, Zenon
    <3> QED
      BY <2>2, <3>2, <3>3, ChainPushed
  <2>3. CASE ~is_pair(h, h.cdr[p])
    <3>1. w[n + 1][p] = <<p>>
      BY <1>1, <1>2, <1>3, <2>1, <2>3
    <3> QED
      BY <2>1, <2>3, <3>1, ChainOfOne
  <2> QED
    BY <2>2, <2>3
<1> HIDE DEF A
<1>6. Nat \subseteq A
  BY <1>4, <1>5, SetInduction
<1> QED
  BY <1>6 DEF A, w

\* The spine of a list is a chain; if it has at most MaxPair pairs, the whole list.
LEMMA SpineFacts ==
  ASSUME NEW h \in Heaps, NEW l
  PROVE  /\ ~is_pair(h, l) => Spine(h, l) = << >>
         /\ is_pair(h, l) => Walked(h, MaxPair, l, Spine(h, l))
<1>1. is_pair(h, l) <=> l \in Made(h)
  BY DEF is_pair, Made
<1> QED
  BY <1>1, WalksWalk DEF Spine

\* The pairs of a list have been made.
LEMMA SpineTyped ==
  ASSUME NEW h \in Heaps, NEW l
  PROVE  Spine(h, l) \in Seq(Made(h))
<1>1. CASE is_pair(h, l)
  BY <1>1, SpineFacts DEF Walked, Chain
<1>2. CASE ~is_pair(h, l)
  <2>1. Spine(h, l) = << >>
    BY <1>2, SpineFacts
  <2> QED
    BY <2>1
<1> QED
  BY <1>1, <1>2

\* The spine of a list that begins in a set closed under cdr stays in it.
Closed(h, C) == \A p \in C : is_pair(h, h.cdr[p]) => h.cdr[p] \in C

\* So a walk along it meets pairs of the set only.
LEMMA ClosedSpine ==
  ASSUME NEW h \in Heaps, NEW C, Closed(h, C), NEW l, is_pair(h, l) => l \in C
  PROVE  /\ Spine(h, l) \in Seq(Made(h))
         /\ \A k \in 1..Len(Spine(h, l)) : Spine(h, l)[k] \in C
<1>1. CASE ~is_pair(h, l)
  <2>1. Spine(h, l) = << >>
    BY <1>1, SpineFacts
  <2> QED
    BY <2>1
<1>2. CASE is_pair(h, l)
  <2> DEFINE s == Spine(h, l)
             A == {k \in 1..Len(s) : s[k] \in C}
  <2>1. /\ s \in Seq(Made(h)) /\ s # << >> /\ s[1] = l
        /\ \A k \in 1..(Len(s) - 1) : s[k + 1] = h.cdr[s[k]]
    BY <1>2, SpineFacts DEF Walked, Chain
  <2> HIDE DEF s
  <2>2. Len(s) \in Nat /\ Len(s) # 0
    BY <2>1
  <2>3. 1 \in A
    BY <1>2, <2>1, <2>2
  <2>4. ASSUME NEW k \in 1..(Len(s) - 1), k \in A PROVE k + 1 \in A
    <3>1. k + 1 \in 1..Len(s) /\ s[k + 1] = h.cdr[s[k]] /\ s[k] \in C
      BY <2>1, <2>2, <2>4
    <3>2. s[k + 1] \in Made(h)
      BY <2>1, <2>2, <3>1
    <3>3. is_pair(h, h.cdr[s[k]])
      BY <3>1, <3>2 DEF is_pair, Made
    <3> QED
      BY <3>1, <3>3 DEF Closed
  <2> HIDE DEF A
  <2>5. 1..Len(s) \subseteq A
    BY <2>2, <2>3, <2>4, IndexInduction
  <2> QED
    BY <2>1, <2>5 DEF A, s
<1> QED
  BY <1>1, <1>2

\* The cdr of the last pair is where the list ends.
LEMMA SpineEnd ==
  ASSUME NEW h \in Heaps, NEW l
  PROVE  End(h, l) = IF is_pair(h, l) THEN h.cdr[Spine(h, l)[Len(Spine(h, l))]] ELSE l
BY SpineFacts DEF End, Walked, Chain

\* A finite chain from l to the end of the list is its spine.
LEMMA ChainIsSpine ==
  ASSUME NEW h \in Heaps, NEW l, NEW s, Chain(h, l, s), Len(s) <= MaxPair,
         ~is_pair(h, h.cdr[s[Len(s)]])
  PROVE  Spine(h, l) = s /\ End(h, l) = h.cdr[s[Len(s)]]
<1>1. /\ s \in Seq(Made(h)) /\ s # << >> /\ s[1] = l /\ Len(s) \in Nat /\ Len(s) # 0
      /\ \A k \in 1..(Len(s) - 1) : s[k + 1] = h.cdr[s[k]]
  BY DEF Chain
<1>2. is_pair(h, l)
  <2>1. 1 \in 1..Len(s) /\ s[1] \in Made(h)
    BY <1>1
  <2> QED
    BY <1>1, <2>1 DEF is_pair, Made
<1> DEFINE t == Spine(h, l)
<1>3. Walked(h, MaxPair, l, t)
  BY <1>2, SpineFacts
<1> HIDE DEF t
<1>4. /\ t \in Seq(Made(h)) /\ t # << >> /\ t[1] = l /\ Len(t) \in Nat /\ Len(t) # 0
      /\ \A k \in 1..(Len(t) - 1) : t[k + 1] = h.cdr[t[k]]
      /\ Len(t) <= MaxPair => ~is_pair(h, h.cdr[t[Len(t)]])
  BY <1>3 DEF Walked, Chain
<1> DEFINE n == IF Len(s) <= Len(t) THEN Len(s) ELSE Len(t)
           A == {k \in 1..n : s[k] = t[k]}
<1>5. n \in Nat /\ n # 0 /\ n <= Len(s) /\ n <= Len(t)
  BY <1>1, <1>4
<1>6. n = Len(s) \/ n = Len(t)
  OBVIOUS
<1> HIDE DEF n
<1>7. 1 \in A
  BY <1>1, <1>4, <1>5
<1>8. ASSUME NEW k \in 1..(n - 1), k \in A PROVE k + 1 \in A
  <2>1. k \in 1..(Len(s) - 1) /\ k \in 1..(Len(t) - 1) /\ k + 1 \in 1..n
    BY <1>1, <1>4, <1>5
  <2>2. s[k + 1] = h.cdr[s[k]] /\ t[k + 1] = h.cdr[t[k]]
    BY <1>1, <1>4, <2>1
  <2> QED
    BY <1>8, <2>1, <2>2
<1> HIDE DEF A
<1>9. 1..n \subseteq A
  BY <1>5, <1>7, <1>8, IndexInduction
<1>10. \A k \in 1..n : s[k] = t[k]
  BY <1>9 DEF A
<1>11. ASSUME NEW r \in Seq(Made(h)), NEW k \in 1..Len(r) PROVE is_pair(h, r[k])
  <2>1. r[k] \in Made(h)
    BY <1>11
  <2> QED
    BY <2>1 DEF is_pair, Made
<1>12. Len(s) <= Len(t)
  <2> SUFFICES ASSUME Len(t) < Len(s) PROVE FALSE
    BY <1>1, <1>4
  <2>1. n = Len(t) /\ Len(t) \in 1..(Len(s) - 1) /\ Len(t) + 1 \in 1..Len(s) /\ Len(t) <= MaxPair
    BY <1>1, <1>4, <1>5, <1>6
  <2>2. s[Len(t) + 1] = h.cdr[t[Len(t)]]
    BY <1>1, <1>5, <1>10, <2>1
  <2> QED
    BY <1>1, <1>4, <1>11, <2>1, <2>2
<1>13. Len(t) <= Len(s)
  <2> SUFFICES ASSUME Len(s) < Len(t) PROVE FALSE
    BY <1>1, <1>4
  <2>1. n = Len(s) /\ Len(s) \in 1..(Len(t) - 1) /\ Len(s) + 1 \in 1..Len(t)
    BY <1>1, <1>4, <1>5, <1>6
  <2>2. t[Len(s) + 1] = h.cdr[s[Len(s)]]
    BY <1>4, <1>5, <1>10, <2>1
  <2> QED
    BY <1>4, <1>11, <2>1, <2>2
<1>14. Len(s) = Len(t) /\ n = Len(s)
  BY <1>1, <1>4, <1>6, <1>12, <1>13
<1>15. s = t
  BY <1>1, <1>4, <1>10, <1>14, SeqEqual
<1> QED
  BY <1>2, <1>15, SpineEnd DEF t

\* Lists whose pairs know how many pairs are left, themselves included.
Ranked(h, rank, C) ==
  \A p \in C : /\ is_pair(h, p) /\ rank[p] \in 1..MaxPair
               /\ \/ ~is_pair(h, h.cdr[p]) /\ rank[p] = 1
                  \/ h.cdr[p] \in C /\ rank[p] = rank[h.cdr[p]] + 1

\* Such a list is finite, and as long as it says.
LEMMA RankedSpine ==
  ASSUME NEW h \in Heaps, NEW rank, NEW C, Ranked(h, rank, C), NEW l \in C
  PROVE  /\ Spine(h, l) \in Seq(Made(h)) /\ Spine(h, l) # << >>
         /\ \A k \in 1..Len(Spine(h, l)) : Spine(h, l)[k] \in C
         /\ length(h, l) = rank[l]
         /\ ~is_pair(h, End(h, l))
         /\ \E p \in C : End(h, l) = h.cdr[p]
         /\ \A j, k \in 1..Len(Spine(h, l)) : j # k => Spine(h, l)[j] # Spine(h, l)[k]
<1> DEFINE s == Spine(h, l)
<1>1. is_pair(h, l) /\ Walked(h, MaxPair, l, s)
  BY SpineFacts DEF Ranked
<1> HIDE DEF s
<1>2. /\ s \in Seq(Made(h)) /\ s # << >> /\ s[1] = l /\ Len(s) \in Nat /\ Len(s) # 0
      /\ \A k \in 1..(Len(s) - 1) : s[k + 1] = h.cdr[s[k]]
      /\ Len(s) <= MaxPair => ~is_pair(h, h.cdr[s[Len(s)]])
  BY <1>1 DEF Walked, Chain
<1> DEFINE A == {k \in 1..Len(s) : s[k] \in C /\ rank[s[k]] = rank[l] - k + 1}
<1>3. 1 \in A
  BY <1>2 DEF Ranked
<1>4. ASSUME NEW k \in 1..(Len(s) - 1), k \in A PROVE k + 1 \in A
  <2>1. k + 1 \in 1..Len(s) /\ s[k + 1] = h.cdr[s[k]] /\ s[k] \in C /\ rank[s[k]] = rank[l] - k + 1
    BY <1>2, <1>4
  <2>2. s[k + 1] \in Made(h)
    BY <1>2, <2>1
  <2>3. is_pair(h, h.cdr[s[k]])
    BY <2>1, <2>2 DEF is_pair, Made
  <2>4. h.cdr[s[k]] \in C /\ rank[s[k]] = rank[h.cdr[s[k]]] + 1
    BY <2>1, <2>3 DEF Ranked
  <2>5. rank[l] \in Int /\ rank[h.cdr[s[k]]] \in Int /\ k \in Int
    BY <2>4 DEF Ranked
  <2>6. \A a, b, c, d \in Int : b = d - c + 1 /\ b = a + 1 => a = d - (c + 1) + 1
    OBVIOUS
  <2>7. rank[s[k]] \in Int
    BY <2>1 DEF Ranked
  <2>8. rank[h.cdr[s[k]]] = rank[l] - (k + 1) + 1
    BY <2>1, <2>4, <2>5, <2>6, <2>7
  <2> QED
    BY <2>1, <2>4, <2>8
<1> HIDE DEF A
<1>5. 1..Len(s) \subseteq A
  BY <1>2, <1>3, <1>4, IndexInduction
<1>6. \A k \in 1..Len(s) : s[k] \in C /\ rank[s[k]] = rank[l] - k + 1
  BY <1>5 DEF A
<1> DEFINE q == s[Len(s)]
<1>7. q \in C /\ rank[q] = rank[l] - Len(s) + 1
  BY <1>2, <1>6
<1> HIDE DEF q
<1>8. rank[q] \in 1..MaxPair /\ rank[l] \in 1..MaxPair
  BY <1>7 DEF Ranked
<1>9. Len(s) <= rank[l] /\ Len(s) <= MaxPair
  BY <1>2, <1>7, <1>8
<1>10. ~is_pair(h, h.cdr[q])
  BY <1>2, <1>9 DEF q
<1>11. rank[q] = 1
  BY <1>7, <1>10 DEF Ranked
<1>12. Len(s) = rank[l]
  BY <1>2, <1>7, <1>8, <1>11
<1>13. End(h, l) = h.cdr[q]
  BY <1>1, SpineEnd DEF q, s
<1>14. \A j, k \in 1..Len(s) : j # k => s[j] # s[k]
  <2> SUFFICES ASSUME NEW j \in 1..Len(s), NEW k \in 1..Len(s), s[j] = s[k] PROVE j = k
    OBVIOUS
  <2>1. rank[l] - j + 1 = rank[l] - k + 1
    BY <1>6
  <2>2. rank[l] \in Int /\ j \in Int /\ k \in Int
    BY <1>2, <1>8
  <2> QED
    BY <2>1, <2>2
<1> QED
  BY <1>2, <1>6, <1>7, <1>10, <1>12, <1>13, <1>14 DEF s, length

-----------------------------------------------------------------------------
(* The layout of the heap.  Each pair is of one kind, and the pairs of an   *)
(* environment, of a list of names and, as long as nobody shares them, of a *)
(* list of values carry the number of pairs left in their list.  A value    *)
(* belongs to one frame, and a frame to one environment.                    *)

Kinds  == {"text", "name", "value", "data", "frame", "env"}
Listed == {"name", "value", "env"}

\* What the values of a frame are: with apply, anybody's data.
Given == IF UsesApply THEN "data" ELSE "value"

Known(h, o) == o \in Objects /\ o \notin h.fresh..MaxPair

\* o is the empty list, or a pair of kind K.
IsOf(h, kind, o, K) == o = nil \/ (o \in Made(h) /\ kind[o] = K)

Size(rank, o) == IF o = nil THEN 0 ELSE rank[o]

\* The names and the values of a frame are equally many.
SameSize(rank, xs, vs) == UsesApply \/ Size(rank, xs) = Size(rank, vs)

\* The list l belongs to pair f.
OwnedBy(owner, l, f) == l = nil \/ owner[l] = f

CellOK(h, kind, rank, owner, p) ==
  /\ Known(h, h.car[p]) /\ Known(h, h.cdr[p])
  /\ kind[p] \in Listed =>
        IsOf(h, kind, h.cdr[p], kind[p]) /\ rank[p] = Size(rank, h.cdr[p]) + 1
  /\ kind[p] = "value" => ~UsesApply /\ OwnedBy(owner, h.cdr[p], owner[p])
  /\ kind[p] = "env" => /\ h.car[p] \in Made(h) /\ kind[h.car[p]] = "frame"
                        /\ owner[h.car[p]] = p
  /\ kind[p] = "frame" => /\ IsOf(h, kind, h.car[p], "name")
                          /\ IsOf(h, kind, h.cdr[p], Given)
                          /\ SameSize(rank, h.car[p], h.cdr[p])
                          /\ UsesApply \/ OwnedBy(owner, h.cdr[p], p)
  /\ kind[p] = "data" /\ UsesApply => IsOf(h, kind, h.cdr[p], "data")

Laid(h, kind, rank, owner) ==
  /\ h \in Heaps
  /\ kind \in [Made(h) -> Kinds] /\ rank \in [Made(h) -> Made(h)]
  /\ \A p \in Made(h) : CellOK(h, kind, rank, owner, p)

\* The layout after a list of kind K was consed on tail.
PushedKind(h, kind, h2, K) == [p \in Made(h2) |-> IF p \in Made(h) THEN kind[p] ELSE K]
PushedRank(h, rank, h2, tail, K) ==
  [p \in Made(h2) |-> IF p \in Made(h) THEN rank[p]
                      ELSE IF K \in Listed THEN Size(rank, tail) + (h2.fresh - p) ELSE 1]

PushedOwner(h, owner, h2, O) == [p \in Made(h2) |-> IF p \in Made(h) THEN owner[p] ELSE O]

\* The empty list and the symbols are no pairs.
LEMMA NotPairs ==
  ASSUME NEW h \in Heaps
  PROVE  nil \notin Made(h) /\ Made(h) \subseteq Pairs /\ \A o : is_pair(h, o) <=> o \in Made(h)
BY DEF Made, Heaps, Pairs, is_pair

\* What is known stays known.
LEMMA KnownKept ==
  ASSUME NEW h \in Heaps, NEW h2 \in Heaps, h.fresh <= h2.fresh, NEW o, Known(h, o)
  PROVE  Known(h2, o)
BY DEF Known, Heaps

\* The empty list and the pairs there are known.
LEMMA OfKindKnown ==
  ASSUME NEW h \in Heaps, NEW kind, NEW o, NEW K, IsOf(h, kind, o, K)
  PROVE  Known(h, o)
<1>1. h.fresh \in 1..(MaxPair + 1)
  BY DEF Heaps
<1>2. CASE o = nil
  <2>1. nil \notin h.fresh..MaxPair
    BY <1>1 DEF Pairs
  <2> QED
    BY <1>2, <2>1 DEF Known, Objects
<1>3. CASE o \in Made(h)
  BY <1>1, <1>3 DEF Known, Objects, Made, Pairs
<1> QED
  BY <1>2, <1>3 DEF IsOf

\* A cell is as it was when neither it nor what is said of the others changes.
LEMMA CellKept ==
  ASSUME NEW h \in Heaps, NEW h2 \in Heaps, h.fresh <= h2.fresh,
         NEW kind, NEW rank, NEW owner, NEW kind2, NEW rank2, NEW owner2,
         \A q \in Made(h) : kind2[q] = kind[q] /\ rank2[q] = rank[q] /\ owner2[q] = owner[q],
         NEW p \in Made(h), h2.car[p] = h.car[p], h2.cdr[p] = h.cdr[p],
         CellOK(h, kind, rank, owner, p)
  PROVE  CellOK(h2, kind2, rank2, owner2, p)
<1>1. Made(h) \subseteq Made(h2)
  BY DEF Made, Heaps
<1>2. ASSUME NEW o, NEW K, IsOf(h, kind, o, K)
      PROVE  /\ IsOf(h2, kind2, o, K) /\ Size(rank2, o) = Size(rank, o)
             /\ \A f : OwnedBy(owner, o, f) => OwnedBy(owner2, o, f)
  <2>1. CASE o = nil
    BY <2>1 DEF IsOf, Size, OwnedBy
  <2>2. CASE o # nil
    <3>1. o \in Made(h) /\ kind[o] = K
      BY <1>2, <2>2 DEF IsOf
    <3> QED
      BY <1>1, <2>2, <3>1 DEF IsOf, Size, OwnedBy
  <2> QED
    BY <2>1, <2>2
<1>3. \A o : Known(h, o) => Known(h2, o)
  BY KnownKept
<1>4. kind2[p] = kind[p] /\ rank2[p] = rank[p] /\ owner2[p] = owner[p]
  OBVIOUS
<1>5. /\ Known(h, h.car[p]) /\ Known(h, h.cdr[p])
      /\ kind[p] \in Listed =>
            IsOf(h, kind, h.cdr[p], kind[p]) /\ rank[p] = Size(rank, h.cdr[p]) + 1
      /\ kind[p] = "value" => ~UsesApply /\ OwnedBy(owner, h.cdr[p], owner[p])
      /\ kind[p] = "env" => /\ h.car[p] \in Made(h) /\ kind[h.car[p]] = "frame"
                            /\ owner[h.car[p]] = p
      /\ kind[p] = "frame" => /\ IsOf(h, kind, h.car[p], "name")
                              /\ IsOf(h, kind, h.cdr[p], Given)
                              /\ SameSize(rank, h.car[p], h.cdr[p])
                              /\ UsesApply \/ OwnedBy(owner, h.cdr[p], p)
      /\ kind[p] = "data" /\ UsesApply => IsOf(h, kind, h.cdr[p], "data")
  BY DEF CellOK
<1>6. kind[p] \in Listed =>
        IsOf(h2, kind2, h2.cdr[p], kind2[p]) /\ rank2[p] = Size(rank2, h2.cdr[p]) + 1
  BY <1>2, <1>4, <1>5
<1>7. kind[p] = "env" => /\ h2.car[p] \in Made(h2) /\ kind2[h2.car[p]] = "frame"
                        /\ owner2[h2.car[p]] = p
  BY <1>1, <1>5
<1>8. kind[p] = "frame" => /\ IsOf(h2, kind2, h2.car[p], "name")
                           /\ IsOf(h2, kind2, h2.cdr[p], Given)
                           /\ SameSize(rank2, h2.car[p], h2.cdr[p])
                           /\ UsesApply \/ OwnedBy(owner2, h2.cdr[p], p)
  BY <1>2, <1>5 DEF SameSize
<1>11. kind[p] = "value" => ~UsesApply /\ OwnedBy(owner2, h2.cdr[p], owner2[p])
  BY <1>2, <1>4, <1>5 DEF Listed
<1>9. kind[p] = "data" /\ UsesApply => IsOf(h2, kind2, h2.cdr[p], "data")
  BY <1>2, <1>5
<1>10. Known(h2, h2.car[p]) /\ Known(h2, h2.cdr[p])
  BY <1>3, <1>5
<1> QED
  BY <1>4, <1>5, <1>6, <1>7, <1>8, <1>9, <1>10, <1>11 DEF CellOK

\* What Push does: the pairs there were stay, the new ones hold the elements.
LEMMA PushFacts ==
  ASSUME NEW h \in Heaps, NEW elems \in Seq(Objects), NEW tail \in Objects,
         h.fresh + Len(elems) <= MaxPair + 1, NEW h2, h2 = Push(h, elems, tail)
  PROVE  /\ h2 \in Heaps /\ h2.fresh = h.fresh + Len(elems) /\ h.fresh <= h2.fresh
         /\ \A p \in Made(h) : h2.car[p] = h.car[p] /\ h2.cdr[p] = h.cdr[p]
         /\ \A p \in Made(h2) \ Made(h) :
               /\ p - h.fresh + 1 \in 1..Len(elems)
               /\ h2.car[p] = elems[p - h.fresh + 1]
               /\ h2.cdr[p] = IF p = h2.fresh - 1 THEN tail ELSE p + 1
<1> DEFINE n == Len(elems)
           new == h.fresh..(h.fresh + n - 1)
<1>1. n \in Nat /\ h.fresh \in 1..(MaxPair + 1) /\ h.car \in [Pairs -> Objects] /\ h.cdr \in [Pairs -> Objects]
  BY DEF Heaps
<1>2. /\ h2.car = [p \in Pairs |-> IF p \in new THEN elems[p - h.fresh + 1] ELSE h.car[p]]
      /\ h2.cdr = [p \in Pairs |-> IF p \notin new THEN h.cdr[p]
                                   ELSE IF p = h.fresh + n - 1 THEN tail ELSE p + 1]
      /\ h2.fresh = h.fresh + n
      /\ h2 = [car |-> h2.car, cdr |-> h2.cdr, fresh |-> h2.fresh]
  BY DEF Push
<1> HIDE DEF n
<1>3. \A p \in new : p \in Pairs /\ p - h.fresh + 1 \in 1..n
  BY <1>1 DEF Pairs, n
<1>4. \A p \in new : elems[p - h.fresh + 1] \in Objects
  BY <1>3 DEF n
<1>5. \A p \in new : p # h.fresh + n - 1 => p + 1 \in Objects
  BY <1>1 DEF n, Pairs, Objects
<1>6. h2.car \in [Pairs -> Objects]
  BY <1>1, <1>2, <1>4
<1>7. h2.cdr \in [Pairs -> Objects]
  BY <1>1, <1>2, <1>5
<1>8. h2.fresh \in 1..(MaxPair + 1)
  BY <1>1, <1>2 DEF n
<1>9. h2 \in Heaps
  BY <1>2, <1>6, <1>7, <1>8 DEF Heaps
<1>10. Made(h) \subseteq Pairs /\ \A p \in Made(h) : p \notin new
  BY <1>1 DEF Made, Pairs
<1>11. \A p \in Made(h2) \ Made(h) : p \in new
  BY <1>1, <1>2 DEF Made
<1>12. \A p \in Made(h) : h2.car[p] = h.car[p] /\ h2.cdr[p] = h.cdr[p]
  BY <1>2, <1>10
<1>13. ASSUME NEW p \in Made(h2) \ Made(h)
       PROVE  /\ p - h.fresh + 1 \in 1..n
              /\ h2.car[p] = elems[p - h.fresh + 1]
              /\ h2.cdr[p] = IF p = h2.fresh - 1 THEN tail ELSE p + 1
  <2>1. p \in new
    BY <1>11
  <2>2. p \in Pairs /\ p - h.fresh + 1 \in 1..n
    BY <1>3, <2>1
  <2>3. h2.car[p] = elems[p - h.fresh + 1]
    BY <1>2, <2>1, <2>2
  <2>4. h2.cdr[p] = IF p = h.fresh + n - 1 THEN tail ELSE p + 1
    BY <1>2, <2>1, <2>2
  <2>5. h2.fresh = h.fresh + n
    BY <1>2
  <2>6. h2.fresh - 1 = h.fresh + n - 1
    BY <1>1, <2>5
  <2> QED
    BY <2>2, <2>3, <2>4, <2>6
<1>14. h.fresh <= h2.fresh
  BY <1>1, <1>2
<1> QED
  BY <1>2, <1>9, <1>12, <1>13, <1>14 DEF n

\* What the pairs of a new list must be for the heap to stay laid out.
Fits(h, kind, rank, owner, elems, tail, K, O) ==
  /\ elems \in Seq(Objects) /\ K \in Kinds
  /\ h.fresh + Len(elems) <= MaxPair + 1
  /\ Known(h, tail) /\ \A k \in 1..Len(elems) : Known(h, elems[k])
  /\ K \in Listed => IsOf(h, kind, tail, K)
  /\ K = "value" => ~UsesApply /\ OwnedBy(owner, tail, O)
  /\ K = "env" => /\ Len(elems) = 1
                  /\ elems[1] \in Made(h) /\ kind[elems[1]] = "frame"
                  /\ owner[elems[1]] = h.fresh
  /\ K = "frame" => /\ Len(elems) = 1
                    /\ IsOf(h, kind, elems[1], "name")
                    /\ IsOf(h, kind, tail, Given)
                    /\ SameSize(rank, elems[1], tail)
                    /\ UsesApply \/ OwnedBy(owner, tail, h.fresh)
  /\ K = "data" /\ UsesApply => IsOf(h, kind, tail, "data")

\* The old heap, as part of the new one.
Extends_(h, kind, rank, owner, h2, kind2, rank2, owner2) ==
  /\ h2 \in Heaps /\ h.fresh <= h2.fresh /\ Made(h) \subseteq Made(h2)
  /\ \A p \in Made(h) : /\ h2.car[p] = h.car[p] /\ h2.cdr[p] = h.cdr[p]
                        /\ kind2[p] = kind[p] /\ rank2[p] = rank[p] /\ owner2[p] = owner[p]

\* A list that fits can be consed.
LEMMA PushKeeps ==
  ASSUME NEW h, NEW kind, NEW rank, NEW owner, Laid(h, kind, rank, owner),
         NEW elems, NEW tail, NEW K, NEW O, Fits(h, kind, rank, owner, elems, tail, K, O),
         NEW h2, h2 = Push(h, elems, tail),
         NEW kind2, kind2 = PushedKind(h, kind, h2, K),
         NEW rank2, rank2 = PushedRank(h, rank, h2, tail, K),
         NEW owner2, owner2 = PushedOwner(h, owner, h2, O)
  PROVE  /\ Laid(h2, kind2, rank2, owner2)
         /\ Extends_(h, kind, rank, owner, h2, kind2, rank2, owner2)
         /\ h2.fresh = h.fresh + Len(elems)
         /\ \A p \in Made(h2) \ Made(h) : kind2[p] = K /\ owner2[p] = O
<1>1. /\ h \in Heaps /\ h.fresh \in 1..(MaxPair + 1)
      /\ kind \in [Made(h) -> Kinds] /\ rank \in [Made(h) -> Made(h)]
      /\ \A p \in Made(h) : CellOK(h, kind, rank, owner, p)
  BY DEF Laid, Heaps
<1>2. elems \in Seq(Objects) /\ tail \in Objects /\ K \in Kinds /\ Len(elems) \in Nat
  BY DEF Fits, Known
<1>3. /\ h2 \in Heaps /\ h2.fresh = h.fresh + Len(elems) /\ h.fresh <= h2.fresh
      /\ \A p \in Made(h) : h2.car[p] = h.car[p] /\ h2.cdr[p] = h.cdr[p]
      /\ \A p \in Made(h2) \ Made(h) :
            /\ p - h.fresh + 1 \in 1..Len(elems)
            /\ h2.car[p] = elems[p - h.fresh + 1]
            /\ h2.cdr[p] = IF p = h2.fresh - 1 THEN tail ELSE p + 1
  <2>1. h.fresh + Len(elems) <= MaxPair + 1
    BY DEF Fits
  <2> QED
    BY <1>1, <1>2, <2>1, PushFacts
<1>4. h2.fresh \in 1..(MaxPair + 1) /\ Made(h) \subseteq Made(h2)
  BY <1>1, <1>3 DEF Heaps, Made
<1>5. /\ \A p \in Made(h) : kind2[p] = kind[p] /\ rank2[p] = rank[p] /\ owner2[p] = owner[p]
      /\ \A p \in Made(h2) \ Made(h) :
            /\ kind2[p] = K /\ owner2[p] = O
            /\ K \in Listed => rank2[p] = Size(rank, tail) + (h2.fresh - p)
  BY <1>4 DEF PushedKind, PushedRank, PushedOwner
<1>6. Extends_(h, kind, rank, owner, h2, kind2, rank2, owner2)
  BY <1>3, <1>4, <1>5 DEF Extends_
<1>7. kind2 \in [Made(h2) -> Kinds]
  <2> SUFFICES ASSUME NEW p \in Made(h2)
               PROVE  (IF p \in Made(h) THEN kind[p] ELSE K) \in Kinds
    BY DEF PushedKind
  <2> QED
    BY <1>1, <1>2
<1>8. K \in Listed => Size(rank, tail) \in 0..(h.fresh - 1)
  <2> SUFFICES ASSUME K \in Listed PROVE Size(rank, tail) \in 0..(h.fresh - 1)
    OBVIOUS
  <2>1. IsOf(h, kind, tail, K)
    BY DEF Fits
  <2>2. tail # nil => rank[tail] \in Made(h)
    BY <1>1, <2>1 DEF IsOf
  <2> QED
    BY <1>1, <2>2 DEF Size, Made
<1>9. rank2 \in [Made(h2) -> Made(h2)]
  <2> DEFINE r(p) == IF p \in Made(h) THEN rank[p]
                     ELSE IF K \in Listed THEN Size(rank, tail) + (h2.fresh - p) ELSE 1
  <2> SUFFICES ASSUME NEW p \in Made(h2) PROVE r(p) \in Made(h2)
    BY DEF PushedRank
  <2>1. CASE p \in Made(h)
    BY <1>1, <1>4, <2>1
  <2>2. CASE p \notin Made(h) /\ K \in Listed
    <3>1. p \in h.fresh..(h2.fresh - 1)
      BY <1>1, <1>4, <2>2 DEF Made
    <3>2. Size(rank, tail) + (h2.fresh - p) \in 1..(h2.fresh - 1)
      BY <1>1, <1>4, <1>8, <2>2, <3>1
    <3> QED
      BY <2>2, <3>2 DEF Made
  <2>3. CASE p \notin Made(h) /\ K \notin Listed
    <3>1. 1 \in Made(h2)
      BY <1>4 DEF Made
    <3> QED
      BY <2>3, <3>1
  <2> QED
    BY <2>1, <2>2, <2>3
<1>10. ASSUME NEW p \in Made(h) PROVE CellOK(h2, kind2, rank2, owner2, p)
  <2>1. CellOK(h, kind, rank, owner, p) /\ h2.car[p] = h.car[p] /\ h2.cdr[p] = h.cdr[p]
    BY <1>1, <1>3
  <2>2. h \in Heaps /\ h2 \in Heaps /\ h.fresh <= h2.fresh
    BY <1>1, <1>3
  <2>3. \A q \in Made(h) : kind2[q] = kind[q] /\ rank2[q] = rank[q] /\ owner2[q] = owner[q]
    BY <1>5
  <2> QED
    BY <2>1, <2>2, <2>3, CellKept
<1>11. ASSUME NEW p \in Made(h2) \ Made(h) PROVE CellOK(h2, kind2, rank2, owner2, p)
  <2> DEFINE k == p - h.fresh + 1
  <2>1. /\ k \in 1..Len(elems) /\ h2.car[p] = elems[k]
        /\ h2.cdr[p] = IF p = h2.fresh - 1 THEN tail ELSE p + 1
        /\ kind2[p] = K /\ owner2[p] = O
        /\ K \in Listed => rank2[p] = Size(rank, tail) + (h2.fresh - p)
    BY <1>3, <1>5
  <2>2. /\ Known(h, tail) /\ Known(h, elems[k])
        /\ K = "value" => ~UsesApply /\ OwnedBy(owner, tail, O)
        /\ K = "env" => /\ Len(elems) = 1
                        /\ elems[1] \in Made(h) /\ kind[elems[1]] = "frame"
                        /\ owner[elems[1]] = h.fresh
        /\ K = "frame" => /\ Len(elems) = 1
                          /\ IsOf(h, kind, elems[1], "name")
                          /\ IsOf(h, kind, tail, Given)
                          /\ SameSize(rank, elems[1], tail)
                          /\ UsesApply \/ OwnedBy(owner, tail, h.fresh)
        /\ K = "data" /\ UsesApply => IsOf(h, kind, tail, "data")
        /\ K \in Listed => IsOf(h, kind, tail, K)
    BY <2>1 DEF Fits
  <2>3. p \in h.fresh..(h2.fresh - 1) /\ p \in Pairs
    BY <1>1, <1>4 DEF Made, Pairs
  <2> HIDE DEF k
  <2>4. ASSUME NEW o, NEW J, IsOf(h, kind, o, J)
        PROVE  /\ IsOf(h2, kind2, o, J) /\ Size(rank2, o) = Size(rank, o)
               /\ \A f : OwnedBy(owner, o, f) => OwnedBy(owner2, o, f)
    <3>1. CASE o = nil
      BY <3>1 DEF IsOf, Size, OwnedBy
    <3>2. CASE o # nil
      <4>1. o \in Made(h) /\ kind[o] = J
        BY <2>4, <3>2 DEF IsOf
      <4> QED
        BY <1>4, <1>5, <3>2, <4>1 DEF IsOf, Size, OwnedBy
    <3> QED
      BY <3>1, <3>2
  <2>5. CASE p = h2.fresh - 1
    <3>1. h2.cdr[p] = tail
      BY <2>1, <2>5
    <3>2. Known(h2, h2.cdr[p]) /\ Known(h2, h2.car[p])
      BY <1>1, <1>3, <2>1, <2>2, <3>1, KnownKept
    <3>3. K \in Listed => IsOf(h2, kind2, tail, K) /\ rank2[p] = Size(rank2, tail) + 1
      <4>1. h2.fresh - p = 1
        BY <1>4, <2>5
      <4> QED
        BY <2>1, <2>2, <2>4, <4>1
    <3>4. K = "env" => /\ h2.car[p] \in Made(h2) /\ kind2[h2.car[p]] = "frame"
                       /\ owner2[h2.car[p]] = p
      <4> SUFFICES ASSUME K = "env" PROVE /\ h2.car[p] \in Made(h2) /\ kind2[h2.car[p]] = "frame"
                                          /\ owner2[h2.car[p]] = p
        OBVIOUS
      <4>0. k \in 1..Len(elems) /\ h2.car[p] = elems[k] /\ Len(elems) = 1
        BY <2>1, <2>2
      <4>1. k = 1 /\ h2.car[p] = elems[1] /\ p = h.fresh
        BY <1>1, <1>3, <2>5, <4>0
      <4>2. elems[1] \in Made(h) /\ kind[elems[1]] = "frame" /\ owner[elems[1]] = h.fresh
        BY <2>2
      <4> QED
        BY <1>4, <1>5, <4>1, <4>2
    <3>7. K = "value" => OwnedBy(owner2, tail, owner2[p])
      BY <2>1, <2>2, <2>4 DEF Listed
    <3>5. K = "frame" => /\ IsOf(h2, kind2, h2.car[p], "name")
                         /\ IsOf(h2, kind2, tail, Given)
                         /\ SameSize(rank2, h2.car[p], tail)
                         /\ UsesApply \/ OwnedBy(owner2, tail, p)
      <4> SUFFICES ASSUME K = "frame"
                   PROVE  /\ IsOf(h2, kind2, h2.car[p], "name")
                          /\ IsOf(h2, kind2, tail, Given)
                          /\ SameSize(rank2, h2.car[p], tail)
                          /\ UsesApply \/ OwnedBy(owner2, tail, p)
        OBVIOUS
      <4>0. k \in 1..Len(elems) /\ h2.car[p] = elems[k] /\ Len(elems) = 1
        BY <2>1, <2>2
      <4>1. k = 1 /\ h2.car[p] = elems[1] /\ p = h.fresh
        BY <1>1, <1>3, <2>5, <4>0
      <4>2. /\ IsOf(h, kind, elems[1], "name") /\ IsOf(h, kind, tail, Given)
            /\ SameSize(rank, elems[1], tail)
            /\ UsesApply \/ OwnedBy(owner, tail, h.fresh)
        BY <2>2
      <4> QED
        BY <2>4, <4>1, <4>2 DEF SameSize
    <3>6. K = "data" /\ UsesApply => IsOf(h2, kind2, tail, "data")
      BY <2>2, <2>4
    <3> QED
      BY <2>1, <2>2, <3>1, <3>2, <3>3, <3>4, <3>5, <3>6, <3>7 DEF CellOK
  <2>6. CASE p # h2.fresh - 1
    <3>0. h2.cdr[p] = p + 1
      BY <2>1, <2>6
    <3>1. h2.cdr[p] = p + 1 /\ p + 1 \in h.fresh..(h2.fresh - 1) /\ p + 1 \in Made(h2)
      BY <1>1, <1>4, <2>3, <2>6, <3>0 DEF Made
    <3>2. p + 1 \notin Made(h) /\ p + 1 \in Pairs /\ p + 1 # nil
      BY <1>1, <1>4, <3>1 DEF Made, Pairs
    <3>3. Known(h2, p + 1)
      BY <1>4, <3>1, <3>2 DEF Known, Objects
    <3>4. Known(h2, h2.car[p])
      BY <1>1, <1>3, <2>1, <2>2, KnownKept
    <3>5. kind2[p + 1] = K /\ owner2[p + 1] = O /\ (K \in Listed => rank2[p + 1] = Size(rank, tail) + (h2.fresh - (p + 1)))
      BY <1>5, <3>1, <3>2
    <3>6. IsOf(h2, kind2, p + 1, K)
      BY <3>1, <3>5 DEF IsOf
    <3>7. K \in Listed => rank2[p] = Size(rank2, p + 1) + 1
      <4> SUFFICES ASSUME K \in Listed PROVE rank2[p] = rank2[p + 1] + 1
        BY <3>2 DEF Size
      <4>1. Size(rank, tail) \in Int /\ h2.fresh \in Int /\ p \in Int
        BY <1>4, <1>8, <2>3
      <4> DEFINE z == Size(rank, tail)
      <4> HIDE DEF z
      <4>2. rank2[p] = z + (h2.fresh - p) /\ rank2[p + 1] = z + (h2.fresh - (p + 1)) /\ z \in Int
        BY <2>1, <3>5, <4>1 DEF z
      <4> QED
        BY <4>1, <4>2
    <3>8. K = "value" => OwnedBy(owner2, p + 1, owner2[p])
      BY <2>1, <3>5 DEF OwnedBy
    <3>9. K # "frame" /\ K # "env"
      <4> SUFFICES ASSUME K = "frame" \/ K = "env" PROVE FALSE
        OBVIOUS
      <4>1. Len(elems) = 1
        BY <2>2
      <4> QED
        BY <1>1, <1>3, <2>3, <2>6, <4>1
    <3> QED
      BY <2>1, <2>2, <3>1, <3>3, <3>4, <3>6, <3>7, <3>8, <3>9 DEF CellOK
  <2> QED
    BY <2>5, <2>6
<1>12. Laid(h2, kind2, rank2, owner2)
  BY <1>3, <1>7, <1>9, <1>10, <1>11 DEF Laid
<1> QED
  BY <1>3, <1>5, <1>6, <1>12

-----------------------------------------------------------------------------
(* What is written into pairs that are there.                               *)

\* set_car writes the car of one pair, and no cdr.
LEMMA SetCarFacts ==
  ASSUME NEW h \in Heaps, NEW p \in Pairs, NEW o \in Objects, NEW h2, h2 = SetCar(h, p, o)
  PROVE  /\ h2 \in Heaps /\ h2.fresh = h.fresh /\ h2.cdr = h.cdr /\ h2.car[p] = o
         /\ \A q \in Pairs : q # p => h2.car[q] = h.car[q]
BY DEF SetCar, Heaps

\* set_cdr writes the cdr of one pair, and no car.
LEMMA SetCdrFacts ==
  ASSUME NEW h \in Heaps, NEW p \in Pairs, NEW o \in Objects, NEW h2, h2 = SetCdr(h, p, o)
  PROVE  /\ h2 \in Heaps /\ h2.fresh = h.fresh /\ h2.car = h.car /\ h2.cdr[p] = o
         /\ \A q \in Pairs : q # p => h2.cdr[q] = h.cdr[q]
BY DEF SetCdr, Heaps

\* Nothing depends on what a value is.
LEMMA SetCarKeeps ==
  ASSUME NEW h, NEW kind, NEW rank, NEW owner, Laid(h, kind, rank, owner),
         NEW p \in Made(h), kind[p] \in {"value", "data"}, NEW o, Known(h, o),
         NEW h2, h2 = SetCar(h, p, o)
  PROVE  Laid(h2, kind, rank, owner) /\ Made(h2) = Made(h) /\ h2.fresh = h.fresh
<1>1. /\ h \in Heaps /\ kind \in [Made(h) -> Kinds] /\ rank \in [Made(h) -> Made(h)]
      /\ \A q \in Made(h) : CellOK(h, kind, rank, owner, q)
  BY DEF Laid
<1>2. p \in Pairs /\ o \in Objects /\ Made(h) \subseteq Pairs
  BY <1>1, NotPairs DEF Known
<1>3. /\ h2 \in Heaps /\ h2.fresh = h.fresh /\ h2.cdr = h.cdr /\ h2.car[p] = o
      /\ \A q \in Pairs : q # p => h2.car[q] = h.car[q]
  BY <1>1, <1>2, SetCarFacts
<1>4. Made(h2) = Made(h) /\ h.fresh <= h2.fresh /\ \A v : Known(h, v) => Known(h2, v)
  BY <1>1, <1>3 DEF Made, Known, Heaps
<1>5. ASSUME NEW q \in Made(h) PROVE CellOK(h2, kind, rank, owner, q)
  <2>1. CASE q # p
    <3>1. h2.car[q] = h.car[q] /\ h2.cdr[q] = h.cdr[q] /\ CellOK(h, kind, rank, owner, q)
      BY <1>1, <1>2, <1>3, <2>1
    <3> QED
      BY <1>1, <1>3, <1>4, <3>1, CellKept
  <2>2. CASE q = p
    <3>1. CellOK(h, kind, rank, owner, p) /\ \A x, K : IsOf(h2, kind, x, K) <=> IsOf(h, kind, x, K)
      BY <1>1, <1>4 DEF IsOf
    <3> QED
      BY <1>3, <1>4, <2>2, <3>1 DEF CellOK
  <2> QED
    BY <2>1, <2>2
<1> QED
  BY <1>1, <1>3, <1>4, <1>5 DEF Laid

\* Nor, without apply, on where a list of data ends.
LEMMA SetCdrKeeps ==
  ASSUME NEW h, NEW kind, NEW rank, NEW owner, Laid(h, kind, rank, owner),
         NEW p \in Made(h), kind[p] = "data", NEW o, Known(h, o),
         UsesApply => IsOf(h, kind, o, "data"),
         NEW h2, h2 = SetCdr(h, p, o)
  PROVE  Laid(h2, kind, rank, owner) /\ Made(h2) = Made(h) /\ h2.fresh = h.fresh
<1>1. /\ h \in Heaps /\ kind \in [Made(h) -> Kinds] /\ rank \in [Made(h) -> Made(h)]
      /\ \A q \in Made(h) : CellOK(h, kind, rank, owner, q)
  BY DEF Laid
<1>2. p \in Pairs /\ o \in Objects /\ Made(h) \subseteq Pairs
  BY <1>1, NotPairs DEF Known
<1>3. /\ h2 \in Heaps /\ h2.fresh = h.fresh /\ h2.car = h.car /\ h2.cdr[p] = o
      /\ \A q \in Pairs : q # p => h2.cdr[q] = h.cdr[q]
  BY <1>1, <1>2, SetCdrFacts
<1>4. Made(h2) = Made(h) /\ h.fresh <= h2.fresh /\ \A v : Known(h, v) => Known(h2, v)
  BY <1>1, <1>3 DEF Made, Known, Heaps
<1>5. ASSUME NEW q \in Made(h) PROVE CellOK(h2, kind, rank, owner, q)
  <2>1. CASE q # p
    <3>1. h2.car[q] = h.car[q] /\ h2.cdr[q] = h.cdr[q] /\ CellOK(h, kind, rank, owner, q)
      BY <1>1, <1>2, <1>3, <2>1
    <3> QED
      BY <1>1, <1>3, <1>4, <3>1, CellKept
  <2>2. CASE q = p
    <3>1. CellOK(h, kind, rank, owner, p) /\ \A x, K : IsOf(h2, kind, x, K) <=> IsOf(h, kind, x, K)
      BY <1>1, <1>4 DEF IsOf
    <3>2. kind[p] \notin Listed
      BY DEF Listed
    <3> QED
      BY <1>3, <1>4, <2>2, <3>1, <3>2 DEF CellOK
  <2> QED
    BY <2>1, <2>2
<1> QED
  BY <1>1, <1>3, <1>4, <1>5 DEF Laid

\* A frame can be given other names and values, if they are equally many.
LEMMA SetFrameKeeps ==
  ASSUME NEW h, NEW kind, NEW rank, NEW owner, Laid(h, kind, rank, owner),
         NEW f \in Made(h), kind[f] = "frame",
         NEW xs, IsOf(h, kind, xs, "name"), NEW vs, IsOf(h, kind, vs, Given),
         SameSize(rank, xs, vs), UsesApply \/ OwnedBy(owner, vs, f),
         NEW h2, h2 = SetCdr(SetCar(h, f, xs), f, vs)
  PROVE  Laid(h2, kind, rank, owner) /\ Made(h2) = Made(h) /\ h2.fresh = h.fresh
<1>1. /\ h \in Heaps /\ kind \in [Made(h) -> Kinds] /\ rank \in [Made(h) -> Made(h)]
      /\ \A q \in Made(h) : CellOK(h, kind, rank, owner, q)
  BY DEF Laid
<1>2. \A o, K : IsOf(h, kind, o, K) => Known(h, o)
  BY <1>1, OfKindKnown
<1>3. f \in Pairs /\ xs \in Objects /\ vs \in Objects /\ Made(h) \subseteq Pairs
  BY <1>1, <1>2, NotPairs DEF Known
<1> DEFINE h1 == SetCar(h, f, xs)
<1>4. /\ h1 \in Heaps /\ h1.fresh = h.fresh /\ h1.cdr = h.cdr /\ h1.car[f] = xs
      /\ \A q \in Pairs : q # f => h1.car[q] = h.car[q]
  BY <1>1, <1>3, SetCarFacts
<1> HIDE DEF h1
<1>5. /\ h2 \in Heaps /\ h2.fresh = h1.fresh /\ h2.car = h1.car /\ h2.cdr[f] = vs
      /\ \A q \in Pairs : q # f => h2.cdr[q] = h1.cdr[q]
  BY <1>3, <1>4, SetCdrFacts DEF h1
<1>6. /\ h2.fresh = h.fresh /\ h2.car[f] = xs /\ h2.cdr[f] = vs
      /\ \A q \in Pairs : q # f => h2.car[q] = h.car[q] /\ h2.cdr[q] = h.cdr[q]
  BY <1>4, <1>5
<1>7. Made(h2) = Made(h) /\ h.fresh <= h2.fresh /\ \A v : Known(h, v) => Known(h2, v)
  BY <1>1, <1>6 DEF Made, Known, Heaps
<1>8. ASSUME NEW q \in Made(h) PROVE CellOK(h2, kind, rank, owner, q)
  <2>1. CASE q # f
    <3>1. h2.car[q] = h.car[q] /\ h2.cdr[q] = h.cdr[q] /\ CellOK(h, kind, rank, owner, q)
      BY <1>1, <1>3, <1>6, <2>1
    <3> QED
      BY <1>1, <1>5, <1>7, <3>1, CellKept
  <2>2. CASE q = f
    <3>1. \A x, K : IsOf(h2, kind, x, K) <=> IsOf(h, kind, x, K)
      BY <1>7 DEF IsOf
    <3>2. Known(h2, xs) /\ Known(h2, vs)
      BY <1>2, <1>7
    <3> QED
      BY <1>6, <2>2, <3>1, <3>2 DEF CellOK, Listed
  <2> QED
    BY <2>1, <2>2
<1> QED
  BY <1>1, <1>5, <1>6, <1>7, <1>8 DEF Laid

\* The kinds, ranks and owners after some data has become the values of a frame.
Retyped(kind, R)        == [p \in DOMAIN kind |-> IF p \in R THEN "value" ELSE kind[p]]
Reranked(rank, R, left) == [p \in DOMAIN rank |-> IF p \in R THEN left[p] ELSE rank[p]]
Reowned(kind, owner, R, O) == [p \in DOMAIN kind |-> IF p \in R THEN O ELSE owner[p]]

\* Without apply, pairs of data that make up a whole list can become values.
LEMMA RetypeKeeps ==
  ASSUME NEW h, NEW kind, NEW rank, NEW owner, Laid(h, kind, rank, owner), ~UsesApply,
         NEW R \in SUBSET Made(h), \A p \in R : kind[p] = "data",
         NEW left \in [R -> Made(h)],
         \A p \in R : /\ h.cdr[p] = nil \/ h.cdr[p] \in R
                      /\ left[p] = Size(left, h.cdr[p]) + 1,
         NEW O,
         NEW kind2, kind2 = Retyped(kind, R), NEW rank2, rank2 = Reranked(rank, R, left),
         NEW owner2, owner2 = Reowned(kind, owner, R, O)
  PROVE  /\ Laid(h, kind2, rank2, owner2)
         /\ \A p \in Made(h) : p \notin R => kind2[p] = kind[p] /\ rank2[p] = rank[p] /\ owner2[p] = owner[p]
         /\ \A p \in R : kind2[p] = "value" /\ rank2[p] = left[p] /\ owner2[p] = O
<1>1. /\ h \in Heaps /\ kind \in [Made(h) -> Kinds] /\ rank \in [Made(h) -> Made(h)]
      /\ \A q \in Made(h) : CellOK(h, kind, rank, owner, q)
  BY DEF Laid
<1>2. /\ kind2 \in [Made(h) -> Kinds] /\ rank2 \in [Made(h) -> Made(h)]
      /\ \A p \in Made(h) : p \notin R => kind2[p] = kind[p] /\ rank2[p] = rank[p] /\ owner2[p] = owner[p]
      /\ \A p \in R : kind2[p] = "value" /\ rank2[p] = left[p] /\ owner2[p] = O
  <2>1. "value" \in Kinds
    BY DEF Kinds
  <2> QED
    BY <1>1, <2>1 DEF Retyped, Reranked, Reowned
<1>3. nil \notin Made(h)
  BY <1>1, NotPairs
<1>4. ASSUME NEW o, NEW K, K # "data", IsOf(h, kind, o, K)
      PROVE  /\ IsOf(h, kind2, o, K) /\ Size(rank2, o) = Size(rank, o)
             /\ \A f : OwnedBy(owner, o, f) => OwnedBy(owner2, o, f)
  <2>1. CASE o = nil
    BY <2>1 DEF IsOf, Size, OwnedBy
  <2>2. CASE o # nil
    <3>1. o \in Made(h) /\ kind[o] = K /\ o \notin R
      BY <1>4, <2>2 DEF IsOf
    <3> QED
      BY <1>2, <2>2, <3>1 DEF IsOf, Size, OwnedBy
  <2> QED
    BY <2>1, <2>2
<1>5. ASSUME NEW p \in Made(h) PROVE CellOK(h, kind2, rank2, owner2, p)
  <2>1. /\ Known(h, h.car[p]) /\ Known(h, h.cdr[p])
        /\ kind[p] \in Listed =>
              IsOf(h, kind, h.cdr[p], kind[p]) /\ rank[p] = Size(rank, h.cdr[p]) + 1
        /\ kind[p] = "value" => OwnedBy(owner, h.cdr[p], owner[p])
        /\ kind[p] = "env" => /\ h.car[p] \in Made(h) /\ kind[h.car[p]] = "frame"
                              /\ owner[h.car[p]] = p
        /\ kind[p] = "frame" => /\ IsOf(h, kind, h.car[p], "name")
                                /\ IsOf(h, kind, h.cdr[p], Given)
                                /\ SameSize(rank, h.car[p], h.cdr[p])
                                /\ OwnedBy(owner, h.cdr[p], p)
    BY <1>1 DEF CellOK
  <2>2. CASE p \in R
    <3>1. /\ kind2[p] = "value" /\ rank2[p] = left[p] /\ owner2[p] = O
          /\ left[p] = Size(left, h.cdr[p]) + 1
      BY <1>2, <2>2
    <3>2. CASE h.cdr[p] = nil
      BY <2>1, <3>1, <3>2 DEF CellOK, IsOf, Size, OwnedBy
    <3>3. CASE h.cdr[p] \in R
      <4>1. /\ kind2[h.cdr[p]] = "value" /\ rank2[h.cdr[p]] = left[h.cdr[p]]
            /\ owner2[h.cdr[p]] = O /\ h.cdr[p] # nil
        BY <1>2, <1>3, <3>3
      <4>2. IsOf(h, kind2, h.cdr[p], "value") /\ Size(rank2, h.cdr[p]) = Size(left, h.cdr[p])
        BY <3>3, <4>1 DEF IsOf, Size
      <4> QED
        BY <2>1, <3>1, <4>1, <4>2 DEF CellOK, OwnedBy
    <3> QED
      BY <2>2, <3>2, <3>3
  <2>3. CASE p \notin R
    <3>1. kind2[p] = kind[p] /\ rank2[p] = rank[p] /\ owner2[p] = owner[p]
      BY <1>2, <2>3
    <3>2. kind[p] \in Listed =>
            IsOf(h, kind2, h.cdr[p], kind[p]) /\ rank[p] = Size(rank2, h.cdr[p]) + 1
      BY <1>4, <2>1 DEF Listed
    <3>5. kind[p] = "value" => OwnedBy(owner2, h.cdr[p], owner[p])
      BY <1>4, <2>1 DEF Listed
    <3>3. kind[p] = "env" => kind2[h.car[p]] = "frame" /\ owner2[h.car[p]] = p
      <4> SUFFICES ASSUME kind[p] = "env" PROVE kind2[h.car[p]] = "frame" /\ owner2[h.car[p]] = p
        OBVIOUS
      <4>1. /\ h.car[p] \in Made(h) /\ kind[h.car[p]] = "frame" /\ h.car[p] \notin R
            /\ owner[h.car[p]] = p
        BY <2>1
      <4> QED
        BY <1>2, <4>1
    <3>4. kind[p] = "frame" => /\ IsOf(h, kind2, h.car[p], "name")
                               /\ IsOf(h, kind2, h.cdr[p], Given)
                               /\ SameSize(rank2, h.car[p], h.cdr[p])
                               /\ OwnedBy(owner2, h.cdr[p], p)
      <4>1. Given = "value"
        BY DEF Given
      <4> QED
        BY <1>4, <2>1, <4>1 DEF SameSize
    <3> QED
      BY <2>1, <3>1, <3>2, <3>3, <3>4, <3>5 DEF CellOK
  <2> QED
    BY <2>2, <2>3
<1> QED
  BY <1>1, <1>2, <1>5 DEF Laid

-----------------------------------------------------------------------------
(* The text of the program: its parameter lists, one after the other.       *)

\* What FormalsAssumption says of each parameter list.
LEMMA FormalsTyped ==
  /\ Len(Formals) \in Nat
  /\ \A i \in 1..Len(Formals) :
        /\ Formals[i].names \in Seq(Vars) /\ Tail_(i) \in Vars \cup {nil}
        /\ (Tail_(i) = nil <=> Formals[i].rest = NoRest)
<1> DEFINE R == [names : Seq(Vars), rest : Vars \cup {NoRest}]
<1>0. Formals \in Seq(R)
  BY FormalsAssumption
<1> HIDE DEF R
<1>1. Len(Formals) \in Nat
  BY <1>0
<1>2. ASSUME NEW i \in 1..Len(Formals)
      PROVE  /\ Formals[i].names \in Seq(Vars) /\ Tail_(i) \in Vars \cup {nil}
             /\ (Tail_(i) = nil <=> Formals[i].rest = NoRest)
  <2>1. Formals[i] \in R
    BY <1>0
  <2> QED
    BY <2>1, FormalsAssumption DEF Tail_, R
<1> QED
  BY <1>1, <1>2

\* What Text is before it is known that there is room.
LEMMA TextDefined ==
  /\ Text[0] = [car |-> [p \in Pairs |-> nil], cdr |-> [p \in Pairs |-> nil], fresh |-> 1]
  /\ \A i \in 1..Len(Formals) : Text[i] = Push(Text[i - 1], Formals[i].names, Tail_(i))
  /\ \A i \in 0..Len(Formals) : Text[i].fresh \in Nat \ {0}
<1> DEFINE N == Len(Formals)
           S == [car : [Pairs -> Objects], cdr : [Pairs -> Objects \cup Nat], fresh : Nat \ {0}]
           base == [car |-> [p \in Pairs |-> nil], cdr |-> [p \in Pairs |-> nil], fresh |-> 1]
           next(i, t) == Push(t, Formals[i].names, Tail_(i))
           F == [it \in Nat \X S |-> IF it[1] \in 1..N THEN next(it[1], it[2]) ELSE it[2]]
<1>1. N \in Nat /\ \A i \in 1..N : Formals[i].names \in Seq(Vars) /\ Tail_(i) \in Vars \cup {nil}
  BY FormalsTyped
<1>2. base \in S
  BY DEF Objects
<1>3. ASSUME NEW i \in 1..N, NEW t \in S PROVE next(i, t) \in S
  <2> DEFINE elems == Formals[i].names
             n == Len(elems)
             new == t.fresh..(t.fresh + n - 1)
  <2>1. elems \in Seq(Vars) /\ n \in Nat /\ Tail_(i) \in Objects
    BY <1>1 DEF Objects
  <2>2. t.fresh \in Nat \ {0} /\ t.car \in [Pairs -> Objects] /\ t.cdr \in [Pairs -> Objects \cup Nat]
    OBVIOUS
  <2> HIDE DEF elems
  <2>3. \A p \in new : p - t.fresh + 1 \in 1..n
    BY <2>1, <2>2
  <2>4. \A p \in new : elems[p - t.fresh + 1] \in Objects
    BY <2>1, <2>3 DEF Objects
  <2>5. [p \in Pairs |-> IF p \in new THEN elems[p - t.fresh + 1] ELSE t.car[p]] \in [Pairs -> Objects]
    BY <2>2, <2>4
  <2>6. [p \in Pairs |-> IF p \notin new THEN t.cdr[p]
                         ELSE IF p = t.fresh + n - 1 THEN Tail_(i) ELSE p + 1]
          \in [Pairs -> Objects \cup Nat]
    BY <2>1, <2>2 DEF Pairs
  <2>7. t.fresh + n \in Nat \ {0}
    BY <2>1, <2>2
  <2> QED
    BY <2>5, <2>6, <2>7 DEF Push, elems
<1>4. F \in [Nat \X S -> S]
  <2> SUFFICES ASSUME NEW i \in Nat, NEW t \in S
               PROVE  (IF i \in 1..N THEN next(i, t) ELSE t) \in S
    OBVIOUS
  <2> HIDE DEF S, next, N
  <2> QED
    BY <1>3
<1> HIDE DEF S, base
<1>5. PICK g : DefinedBy(S, base, F, N, g)
  <2> HIDE DEF F, N
  <2> QED
    BY <1>1, <1>2, <1>4, Recursion
<1>6. ASSUME NEW i \in 0..N PROVE g[i] = IF i = 0 THEN base ELSE next(i, g[i - 1])
  <2>1. CASE i = 0
    BY <1>5, <2>1 DEF DefinedBy
  <2>2. CASE i # 0
    <3>1. g[i - 1] \in S /\ i \in Nat /\ i \in 1..N
      BY <1>1, <1>5, <2>2 DEF DefinedBy
    <3>2. g[i] = F[<<i, g[i - 1]>>]
      BY <1>5, <2>2 DEF DefinedBy
    <3>3. F[<<i, g[i - 1]>>] = next(i, g[i - 1])
      <4> HIDE DEF next, N
      <4> QED
        BY <3>1
    <3> QED
      BY <2>2, <3>2, <3>3
  <2> QED
    BY <2>1, <2>2
<1>7. g = [i \in 0..N |-> IF i = 0 THEN base ELSE next(i, g[i - 1])]
  <2> HIDE DEF next, N
  <2> QED
    BY <1>5, <1>6 DEF DefinedBy
<1>8. Text = [i \in 0..N |-> IF i = 0 THEN base ELSE next(i, Text[i - 1])]
  BY <1>7 DEF Text, base
<1> HIDE DEF next
<1>9. Text[0] = base /\ \A i \in 1..N : Text[i] = next(i, Text[i - 1])
  <2> DEFINE T == Text
  <2> HIDE DEF T, N
  <2>1. T = [i \in 0..N |-> IF i = 0 THEN base ELSE next(i, T[i - 1])]
    BY <1>8 DEF T
  <2>2. T[0] = base /\ \A i \in 1..N : T[i] = next(i, T[i - 1])
    BY <1>1, <2>1
  <2> QED
    BY <2>2 DEF T
<1> DEFINE A == {i \in Nat : i <= N => Text[i] \in S}
<1>10. 0 \in A
  BY <1>2, <1>9
<1>11. ASSUME NEW i \in Nat, i \in A PROVE i + 1 \in A
  <2> SUFFICES ASSUME i + 1 <= N PROVE Text[i + 1] \in S
    OBVIOUS
  <2>1. i + 1 \in 1..N /\ (i + 1) - 1 = i /\ Text[i] \in S
    BY <1>1, <1>11
  <2>2. Text[i + 1] = next(i + 1, Text[i])
    BY <1>9, <2>1
  <2> QED
    BY <1>3, <2>1, <2>2
<1> HIDE DEF A
<1>12. Nat \subseteq A
  BY <1>10, <1>11, SetInduction
<1>13. \A i \in 0..N : Text[i] \in S
  BY <1>1, <1>12 DEF A
<1>14. \A i \in 0..N : Text[i].fresh \in Nat \ {0}
  BY <1>13 DEF S
<1> QED
  BY <1>9, <1>14 DEF base, next

\* Parameter list j stands in the heap as it was read.
ParametersOK(h, kind, rank, owner, j) ==
  \A k \in 1..Len(Formals[j].names) :
     \A p \in {Text[j - 1].fresh + k - 1} :
        /\ p \in Made(h)
        /\ h.car[p] = Formals[j].names[k]
        /\ h.cdr[p] = IF k = Len(Formals[j].names) THEN Tail_(j) ELSE p + 1
        /\ kind[p] = IF Tail_(j) = nil THEN "name" ELSE "text"
        /\ Tail_(j) = nil => rank[p] = Len(Formals[j].names) - k + 1

\* The names of h are in h2 as well.
SameNames(h, kind, rank, owner, h2, kind2, rank2, owner2) ==
  \A p \in Made(h) : kind[p] \in {"name", "text"} =>
     /\ p \in Made(h2) /\ h2.car[p] = h.car[p] /\ h2.cdr[p] = h.cdr[p]
     /\ kind2[p] = kind[p] /\ rank2[p] = rank[p] /\ owner2[p] = owner[p]

\* A parameter list of the text is there after a step that keeps its pairs.
LEMMA ParametersKept ==
  ASSUME NEW h, NEW kind, NEW rank, NEW owner, NEW h2, NEW kind2, NEW rank2, NEW owner2, NEW j,
         SameNames(h, kind, rank, owner, h2, kind2, rank2, owner2), ParametersOK(h, kind, rank, owner, j)
  PROVE  ParametersOK(h2, kind2, rank2, owner2, j)
<1> SUFFICES ASSUME NEW k \in 1..Len(Formals[j].names), NEW p, p = Text[j - 1].fresh + k - 1
             PROVE  /\ p \in Made(h2)
                    /\ h2.car[p] = Formals[j].names[k]
                    /\ h2.cdr[p] = IF k = Len(Formals[j].names) THEN Tail_(j) ELSE p + 1
                    /\ kind2[p] = IF Tail_(j) = nil THEN "name" ELSE "text"
                    /\ Tail_(j) = nil => rank2[p] = Len(Formals[j].names) - k + 1
  BY DEF ParametersOK
<1>1. /\ p \in Made(h)
      /\ h.car[p] = Formals[j].names[k]
      /\ h.cdr[p] = IF k = Len(Formals[j].names) THEN Tail_(j) ELSE p + 1
      /\ kind[p] = IF Tail_(j) = nil THEN "name" ELSE "text"
      /\ Tail_(j) = nil => rank[p] = Len(Formals[j].names) - k + 1
  BY DEF ParametersOK
<1>2. /\ p \in Made(h2) /\ h2.car[p] = h.car[p] /\ h2.cdr[p] = h.cdr[p]
      /\ kind2[p] = kind[p] /\ rank2[p] = rank[p] /\ owner2[p] = owner[p]
  BY <1>1 DEF SameNames
<1> QED
  BY <1>1, <1>2

\* There is room for each parameter list.
LEMMA TextFits ==
  \A i \in 0..Len(Formals) : Text[i].fresh <= Text[Len(Formals)].fresh
<1> DEFINE N == Len(Formals)
           f == [i \in 0..N |-> Text[i].fresh]
           B == {d \in Nat : d <= N => f[N - d] <= f[N]}
<1>1. N \in Nat
  BY FormalsTyped
<1>2. \A i \in 0..N : f[i] \in Nat
  BY TextDefined
<1>3. ASSUME NEW i \in 1..N PROVE f[i - 1] <= f[i]
  <2>1. Text[i].fresh = Text[i - 1].fresh + Len(Formals[i].names)
    <3>1. Text[i] = Push(Text[i - 1], Formals[i].names, Tail_(i))
      BY TextDefined
    <3>2. \A h, elems, tail : Push(h, elems, tail).fresh = h.fresh + Len(elems)
      BY DEF Push
    <3> QED
      BY <3>1, <3>2
  <2>2. Len(Formals[i].names) \in Nat
    BY FormalsTyped
  <2>3. i - 1 \in 0..N /\ i \in 0..N
    BY <1>1
  <2> QED
    BY <1>2, <2>1, <2>2, <2>3
<1> HIDE DEF f, N
<1>4. 0 \in B
  BY <1>1, <1>2
<1>5. ASSUME NEW d \in Nat, d \in B PROVE d + 1 \in B
  <2> SUFFICES ASSUME d + 1 <= N PROVE f[N - (d + 1)] <= f[N]
    OBVIOUS
  <2>1. f[N - d] <= f[N]
    BY <1>1, <1>5
  <2>2. N - d \in 1..N /\ (N - d) - 1 = N - (d + 1) /\ N - d \in 0..N /\ N - (d + 1) \in 0..N /\ N \in 0..N
    BY <1>1
  <2>3. f[N - (d + 1)] <= f[N - d]
    BY <1>3, <2>2
  <2>4. f[N] \in Nat /\ f[N - d] \in Nat /\ f[N - (d + 1)] \in Nat
    BY <1>2, <2>2
  <2> QED
    BY <2>1, <2>3, <2>4
<1> HIDE DEF B
<1>6. Nat \subseteq B
  BY <1>4, <1>5, SetInduction
<1>7. ASSUME NEW i \in 0..N PROVE f[i] <= f[N]
  <2>1. N - i \in Nat /\ N - i <= N /\ N - (N - i) = i
    BY <1>1
  <2>2. N - i \in B
    BY <1>6, <2>1
  <2> QED
    BY <2>1, <2>2 DEF B
<1> QED
  BY <1>1, <1>7 DEF f, N

\* A symbol is known anywhere.
LEMMA SymbolsKnown ==
  ASSUME NEW h \in Heaps, NEW o \in Vars \cup Vals \cup {nil}
  PROVE  Known(h, o)
<1>1. \A q \in h.fresh..MaxPair : q \in Pairs
  BY DEF Heaps, Pairs
<1> QED
  BY <1>1 DEF Known, Objects

\* The first i parameter lists are all there is.
TextOK(i, h, kind, rank, owner) ==
  /\ Laid(h, kind, rank, owner)
  /\ \A j \in 1..i : ParametersOK(h, kind, rank, owner, j)
  /\ \A p \in Made(h) : kind[p] \in {"name", "text"}

\* The text is laid out as lists of names and other text.
LEMMA TextLaid ==
  \E kind, rank, owner : TextOK(Len(Formals), Text[Len(Formals)], kind, rank, owner)
<1> DEFINE N == Len(Formals)
           Good(i, kind, rank, owner) == TextOK(i, Text[i], kind, rank, owner)
           A == {i \in Nat : i <= N => \E kind, rank, owner : Good(i, kind, rank, owner)}
<1>1. N \in Nat
  BY FormalsTyped
<1>2. 0 \in A
  <2> DEFINE h == Text[0]
  <2>1. h = [car |-> [p \in Pairs |-> nil], cdr |-> [p \in Pairs |-> nil], fresh |-> 1]
    BY TextDefined
  <2>2. h \in Heaps /\ Made(h) = {}
    BY <2>1 DEF Heaps, Made, Objects
  <2> HIDE DEF h
  <2> DEFINE e == [p \in {} |-> 1]
  <2>3. e \in [Made(h) -> Kinds] /\ e \in [Made(h) -> Made(h)]
    BY <2>2
  <2>4. Good(0, e, e, e)
    BY <2>2, <2>3 DEF Laid, TextOK, h
  <2> HIDE DEF Good
  <2> QED
    BY <2>4
<1>3. ASSUME NEW i \in Nat, i \in A PROVE i + 1 \in A
  <2> SUFFICES ASSUME i + 1 <= N PROVE \E kind, rank, owner : Good(i + 1, kind, rank, owner)
    OBVIOUS
  <2>1. i \in 0..N /\ i + 1 \in 1..N /\ i + 1 \in 0..N /\ (i + 1) - 1 = i /\ i <= N
    BY <1>1
  <2>2. PICK kind, rank, owner : Good(i, kind, rank, owner)
    BY <1>3, <2>1
  <2> DEFINE h == Text[i]
             h2 == Text[i + 1]
             elems == Formals[i + 1].names
             tail == Tail_(i + 1)
             K == IF tail = nil THEN "name" ELSE "text"
             kind2 == PushedKind(h, kind, h2, K)
             rank2 == PushedRank(h, rank, h2, tail, K)
             owner2 == PushedOwner(h, owner, h2, nil)
             n == Len(elems)
  <2>3. elems \in Seq(Vars) /\ tail \in Vars \cup {nil} /\ n \in Nat
    BY <2>1, FormalsTyped
  <2>4. h2 = Push(h, elems, tail)
    BY <2>1, TextDefined
  <2>5. Laid(h, kind, rank, owner) /\ \A p \in Made(h) : kind[p] \in {"name", "text"}
    BY <2>2 DEF TextOK
  <2>6. h.fresh \in Nat \ {0} /\ h2.fresh = h.fresh + n /\ h2.fresh <= MaxPair + 1
    <3>1. h.fresh \in Nat \ {0} /\ h2.fresh = h.fresh + n
      BY <2>1, <2>4, TextDefined DEF Push
    <3>2. h2.fresh <= Text[N].fresh /\ h2.fresh \in Nat /\ Text[N].fresh \in Nat
      BY <1>1, <2>1, TextDefined, TextFits
    <3> QED
      BY <3>1, <3>2, RoomAssumption
  <2>7. h \in Heaps
    BY <2>5 DEF Laid
  <2> HIDE DEF h, h2, elems, tail, Good
  <2>8. Fits(h, kind, rank, owner, elems, tail, K, nil)
    <3>1. elems \in Seq(Objects)
      BY <2>3 DEF Objects
    <3>2. Known(h, tail) /\ \A k \in 1..Len(elems) : Known(h, elems[k])
      BY <2>3, <2>7, SymbolsKnown
    <3>3. K \in Kinds /\ K \notin {"value", "env", "frame", "data"} /\ (K \in Listed => tail = nil)
      BY DEF Kinds, Listed
    <3> QED
      BY <2>6, <3>1, <3>2, <3>3 DEF Fits, IsOf
  <2>9. /\ Laid(h2, kind2, rank2, owner2)
        /\ Extends_(h, kind, rank, owner, h2, kind2, rank2, owner2)
        /\ \A p \in Made(h2) \ Made(h) : kind2[p] = K
    BY <2>4, <2>5, <2>8, PushKeeps
  <2>10. SameNames(h, kind, rank, owner, h2, kind2, rank2, owner2)
    BY <2>9 DEF Extends_, SameNames
  <2>11. ASSUME NEW j \in 1..i PROVE ParametersOK(h2, kind2, rank2, owner2, j)
    <3>1. ParametersOK(h, kind, rank, owner, j)
      BY <2>2 DEF Good, TextOK, h
    <3> QED
      BY <2>10, <3>1, ParametersKept
  <2>12. ParametersOK(h2, kind2, rank2, owner2, i + 1)
    <3> SUFFICES ASSUME NEW k \in 1..n, NEW p, p = h.fresh + k - 1
                 PROVE  /\ p \in Made(h2)
                        /\ h2.car[p] = elems[k]
                        /\ h2.cdr[p] = IF k = n THEN tail ELSE p + 1
                        /\ kind2[p] = IF tail = nil THEN "name" ELSE "text"
                        /\ tail = nil => rank2[p] = n - k + 1
      BY <2>1 DEF ParametersOK, h, elems, tail
    <3>1. p \in Made(h2) \ Made(h) /\ p - h.fresh + 1 = k
      BY <2>3, <2>6 DEF Made
    <3>2. /\ h2.car[p] = elems[k]
          /\ h2.cdr[p] = IF p = h2.fresh - 1 THEN tail ELSE p + 1
      <4>1. elems \in Seq(Objects) /\ tail \in Objects /\ h.fresh + Len(elems) <= MaxPair + 1
        BY <2>8 DEF Fits, Known
      <4> QED
        BY <2>4, <2>7, <3>1, <4>1, PushFacts
    <3>3. p = h2.fresh - 1 <=> k = n
      BY <2>3, <2>6
    <3>4. tail = nil => rank2[p] = n - k + 1
      <4> SUFFICES ASSUME tail = nil PROVE rank2[p] = n - k + 1
        OBVIOUS
      <4>1. rank2[p] = Size(rank, tail) + (h2.fresh - p)
        BY <3>1 DEF PushedRank, Listed
      <4>2. Size(rank, tail) = 0
        BY DEF Size
      <4>3. h2.fresh - p = n - k + 1
        BY <2>3, <2>6
      <4> HIDE DEF rank2, n
      <4> QED
        BY <2>3, <4>1, <4>2, <4>3
    <3> QED
      BY <2>9, <3>1, <3>2, <3>3, <3>4
  <2>13. \A p \in Made(h2) : kind2[p] \in {"name", "text"}
    BY <2>5, <2>9 DEF Extends_
  <2>14. \A j \in 1..(i + 1) : j \in 1..i \/ j = i + 1
    OBVIOUS
  <2>15. Good(i + 1, kind2, rank2, owner2)
    <3> HIDE DEF kind2, rank2, owner2, K
    <3> QED
      BY <2>9, <2>11, <2>12, <2>13, <2>14 DEF Good, TextOK, h2
  <2> HIDE DEF kind2, rank2, owner2
  <2> QED
    BY <2>15
<1> HIDE DEF A, Good
<1>4. Nat \subseteq A
  BY <1>2, <1>3, SetInduction
<1>5. \E kind, rank, owner : Good(N, kind, rank, owner)
  BY <1>1, <1>4 DEF A
<1> QED
  BY <1>5 DEF Good

-----------------------------------------------------------------------------
(* What the layout says of the lists in it.                                 *)

OfKind(h, kind, K) == {p \in Made(h) : kind[p] = K}

\* A list of a kind that is counted is proper, and as long as is said.
LEMMA ListOfKind ==
  ASSUME NEW h, NEW kind, NEW rank, NEW owner, Laid(h, kind, rank, owner),
         NEW K \in Listed, NEW l, IsOf(h, kind, l, K)
  PROVE  /\ is_list(h, l) /\ length(h, l) = Size(rank, l)
         /\ Spine(h, l) \in Seq(Made(h))
         /\ \A k \in 1..Len(Spine(h, l)) : Spine(h, l)[k] \in OfKind(h, kind, K)
         /\ \A j, k \in 1..Len(Spine(h, l)) : j # k => Spine(h, l)[j] # Spine(h, l)[k]
<1>1. /\ h \in Heaps /\ kind \in [Made(h) -> Kinds] /\ rank \in [Made(h) -> Made(h)]
      /\ \A q \in Made(h) : CellOK(h, kind, rank, owner, q)
  BY DEF Laid
<1>2. nil \notin Made(h) /\ \A o : is_pair(h, o) <=> o \in Made(h)
  BY <1>1, NotPairs
<1>3. CASE l = nil
  <2>1. Spine(h, l) = << >>
    BY <1>1, <1>2, <1>3, SpineFacts
  <2> QED
    BY <1>3, <2>1 DEF is_list, End, length, Size
<1>4. CASE l # nil
  <2> DEFINE C == OfKind(h, kind, K)
  <2>1. l \in C
    BY <1>4 DEF IsOf, OfKind
  <2>2. Made(h) \subseteq 1..MaxPair
    BY <1>1 DEF Made, Heaps
  <2>3. ASSUME NEW p \in C
        PROVE  /\ is_pair(h, p) /\ rank[p] \in 1..MaxPair
               /\ \/ ~is_pair(h, h.cdr[p]) /\ rank[p] = 1
                  \/ h.cdr[p] \in C /\ rank[p] = rank[h.cdr[p]] + 1
               /\ h.cdr[p] = nil \/ is_pair(h, h.cdr[p])
    <3>1. p \in Made(h) /\ kind[p] = K
      BY DEF OfKind
    <3>2. IsOf(h, kind, h.cdr[p], K) /\ rank[p] = Size(rank, h.cdr[p]) + 1
      BY <1>1, <3>1 DEF CellOK
    <3>3. is_pair(h, p) /\ rank[p] \in 1..MaxPair
      BY <1>1, <1>2, <2>2, <3>1
    <3>4. CASE h.cdr[p] = nil
      BY <1>2, <3>2, <3>3, <3>4 DEF Size
    <3>5. CASE h.cdr[p] # nil
      BY <1>2, <3>2, <3>3, <3>5 DEF Size, IsOf, OfKind
    <3> QED
      BY <3>4, <3>5
  <2> HIDE DEF C
  <2>4. Ranked(h, rank, C)
    BY <2>3 DEF Ranked
  <2>5. /\ Spine(h, l) \in Seq(Made(h))
        /\ \A k \in 1..Len(Spine(h, l)) : Spine(h, l)[k] \in C
        /\ length(h, l) = rank[l]
        /\ ~is_pair(h, End(h, l))
        /\ \E p \in C : End(h, l) = h.cdr[p]
        /\ \A j, k \in 1..Len(Spine(h, l)) : j # k => Spine(h, l)[j] # Spine(h, l)[k]
    BY <1>1, <2>1, <2>4, RankedSpine
  <2>6. End(h, l) = nil
    BY <2>3, <2>5
  <2> QED
    BY <1>4, <2>5, <2>6 DEF is_list, Size, C
<1> QED
  BY <1>3, <1>4

\* The pairs of the values of a frame are what is given to frames.
LEMMA ListGiven ==
  ASSUME NEW h, NEW kind, NEW rank, NEW owner, Laid(h, kind, rank, owner), NEW l, IsOf(h, kind, l, Given)
  PROVE  /\ Spine(h, l) \in Seq(Made(h))
         /\ \A k \in 1..Len(Spine(h, l)) : Spine(h, l)[k] \in OfKind(h, kind, Given)
<1>1. CASE ~UsesApply
  <2>1. Given \in Listed
    BY <1>1 DEF Given, Listed
  <2> QED
    BY <2>1, ListOfKind
<1>2. CASE UsesApply
  <2>1. Given = "data"
    BY <1>2 DEF Given
  <2>2. h \in Heaps /\ \A q \in Made(h) : CellOK(h, kind, rank, owner, q)
    BY DEF Laid
  <2>3. nil \notin Made(h) /\ \A o : is_pair(h, o) <=> o \in Made(h)
    BY <2>2, NotPairs
  <2>4. Closed(h, OfKind(h, kind, Given))
    BY <1>2, <2>1, <2>2, <2>3 DEF Closed, OfKind, CellOK, IsOf
  <2>5. is_pair(h, l) => l \in OfKind(h, kind, Given)
    BY <2>3 DEF IsOf, OfKind
  <2> QED
    BY <2>2, <2>4, <2>5, ClosedSpine
<1> QED
  BY <1>1, <1>2

\* n pairs consed one after the other, from b on, in front of tail.
Block(h, b, n, tail) ==
  \A k \in 1..n : b + k - 1 \in Made(h) /\ h.cdr[b + k - 1] = IF k = n THEN tail ELSE b + k

\* Such a list has these pairs.
LEMMA BlockSpine ==
  ASSUME NEW h \in Heaps, NEW b \in Nat, NEW n \in Nat, NEW tail, ~is_pair(h, tail),
         Block(h, b, n, tail), NEW l, l = IF n = 0 THEN tail ELSE b
  PROVE  /\ Spine(h, l) = [k \in 1..n |-> b + k - 1] /\ Len(Spine(h, l)) = n
         /\ End(h, l) = tail
<1>1. CASE n = 0
  <2>1. l = tail /\ Spine(h, l) = << >>
    BY <1>1, SpineFacts
  <2>2. [k \in 1..n |-> b + k - 1] = << >>
    BY <1>1
  <2> QED
    BY <1>1, <2>1, <2>2 DEF End
<1>2. CASE n # 0
  <2> DEFINE s == [k \in 1..n |-> b + k - 1]
  <2>1. l = b /\ 1 \in 1..n /\ n \in 1..n
    BY <1>2
  <2>2. s \in Seq(Made(h)) /\ Len(s) = n
    <3>1. \A k \in 1..n : b + k - 1 \in Made(h)
      BY DEF Block
    <3> QED
      BY <3>1
  <2>3. s # << >> /\ s[1] = l
    BY <2>1, <2>2
  <2>4. ASSUME NEW k \in 1..(Len(s) - 1) PROVE s[k + 1] = h.cdr[s[k]]
    <3>1. k \in 1..(n - 1)
      <4> HIDE DEF s
      <4> QED
        BY <2>2
    <3>2. k \in 1..n /\ k + 1 \in 1..n /\ k # n
      BY <3>1
    <3>3. s[k] = b + k - 1 /\ s[k + 1] = b + (k + 1) - 1
      BY <3>2
    <3>4. h.cdr[s[k]] = b + k
      BY <3>2, <3>3 DEF Block
    <3>5. b + (k + 1) - 1 = b + k
      BY <3>1
    <3> QED
      BY <3>3, <3>4, <3>5
  <2>5. s[n] = b + n - 1 /\ h.cdr[s[n]] = tail
    BY <2>1 DEF Block
  <2>6. Len(s) <= MaxPair
    <3>1. b + 1 - 1 \in Made(h) /\ b + n - 1 \in Made(h)
      BY <2>1 DEF Block
    <3>2. 1 <= b /\ b + n - 1 <= MaxPair
      BY <3>1 DEF Made, Heaps
    <3>3. n <= MaxPair
      BY <3>2
    <3> QED
      BY <2>2, <3>3
  <2>7. Chain(h, l, s)
    BY <2>2, <2>3, <2>4 DEF Chain
  <2>8. ~is_pair(h, h.cdr[s[Len(s)]]) /\ h.cdr[s[Len(s)]] = tail
    BY <2>2, <2>5
  <2> HIDE DEF s
  <2>9. Spine(h, l) = s /\ End(h, l) = tail
    BY <2>6, <2>7, <2>8, ChainIsSpine
  <2> QED
    BY <2>2, <2>9 DEF s
<1> QED
  BY <1>1, <1>2

\* A parameter list is the list of its names, and ends in its rest.
LEMMA ParametersSpine ==
  ASSUME NEW h, NEW kind, NEW rank, NEW owner, Laid(h, kind, rank, owner),
         NEW j \in 1..Len(Formals), ParametersOK(h, kind, rank, owner, j),
         NEW l, l = procedure_parameters(j)
  PROVE  /\ length(h, l) = Len(Formals[j].names)
         /\ Elements(h, l) = Formals[j].names
         /\ End(h, l) = Tail_(j)
         /\ Tail_(j) = nil => IsOf(h, kind, l, "name") /\ Size(rank, l) = Len(Formals[j].names)
<1> DEFINE names == Formals[j].names
           n == Len(names)
           b == Text[j - 1].fresh
<1>1. h \in Heaps
  BY DEF Laid
<1>2. nil \notin Made(h) /\ \A o : is_pair(h, o) <=> o \in Made(h)
  BY <1>1, NotPairs
<1>3. /\ names \in Seq(Vars) /\ n \in Nat /\ names \in Seq(Objects)
      /\ Tail_(j) \in Vars \cup {nil}
  BY FormalsTyped DEF Objects
<1>4. b \in Nat \ {0}
  <2>1. j - 1 \in 0..Len(Formals)
    BY FormalsTyped
  <2> QED
    BY <2>1, TextDefined
<1>5. ~is_pair(h, Tail_(j))
  <2>1. Tail_(j) \notin Pairs
    BY <1>3
  <2> QED
    BY <1>1, <1>2, <2>1, NotPairs
<1>6. l = IF names = << >> THEN Tail_(j) ELSE b
  BY DEF procedure_parameters, ListOn
<1>7. \A k \in 1..n : /\ b + k - 1 \in Made(h)
                      /\ h.car[b + k - 1] = names[k]
                      /\ h.cdr[b + k - 1] = IF k = n THEN Tail_(j) ELSE (b + k - 1) + 1
                      /\ Tail_(j) = nil => kind[b + k - 1] = "name" /\ rank[b + k - 1] = n - k + 1
  BY DEF ParametersOK
<1> HIDE DEF names, b
<1>8. l = IF n = 0 THEN Tail_(j) ELSE b
  BY <1>3, <1>6
<1>9. Block(h, b, n, Tail_(j))
  <2>1. \A k \in 1..n : (b + k - 1) + 1 = b + k
    BY <1>3, <1>4
  <2> QED
    BY <1>7, <2>1 DEF Block
<1> HIDE DEF n
<1> DEFINE s == [k \in 1..n |-> b + k - 1]
<1>10. Spine(h, l) = s /\ Len(Spine(h, l)) = n /\ End(h, l) = Tail_(j)
  BY <1>1, <1>3, <1>4, <1>5, <1>8, <1>9, BlockSpine
<1>11. Elements(h, l) = names
  <2> DEFINE t == [k \in 1..n |-> h.car[s[k]]]
  <2>1. DOMAIN s = 1..n
    OBVIOUS
  <2>2. Elements(h, l) = t
    BY <1>10, <2>1 DEF Elements
  <2>3. \A k \in 1..n : h.car[s[k]] = names[k]
    BY <1>7
  <2>4. \A k \in 1..n : names[k] \in Objects
    BY <1>3 DEF n
  <2> HIDE DEF s
  <2>5. t \in Seq(Objects) /\ Len(t) = n /\ \A k \in 1..n : t[k] = names[k]
    <3>1. n \in Nat /\ \A k \in 1..n : h.car[s[k]] \in Objects
      BY <1>3, <2>3, <2>4 DEF n
    <3> QED
      BY <2>3, <3>1
  <2> HIDE DEF t
  <2>6. t = names
    BY <1>3, <2>5, SeqEqual DEF n
  <2> QED
    BY <2>2, <2>6
<1>12. ASSUME Tail_(j) = nil
       PROVE  IsOf(h, kind, l, "name") /\ Size(rank, l) = n
  <2>1. CASE n = 0
    BY <1>8, <1>12, <2>1 DEF IsOf, Size
  <2>2. CASE n # 0
    <3>1. 1 \in 1..n /\ b + 1 - 1 = b /\ n - 1 + 1 = n /\ l = b
      BY <1>3, <1>4, <1>8, <2>2
    <3>2. l \in Made(h) /\ kind[l] = "name" /\ rank[l] = n
      BY <1>7, <1>12, <3>1
    <3> QED
      BY <1>2, <3>2 DEF IsOf, Size
  <2> QED
    BY <2>1, <2>2
<1> QED
  BY <1>10, <1>11, <1>12 DEF length, names, n

-----------------------------------------------------------------------------
(* The inductive invariant: the heap can be laid out so that the            *)
(* parameter lists stand there, the environments are what envs says, and    *)
(* what the user holds is data.                                             *)

StateOK(h, es, ds, kind, rank, owner) ==
  /\ Laid(h, kind, rank, owner)
  /\ \A j \in 1..Len(Formals) : ParametersOK(h, kind, rank, owner, j)
  /\ es = OfKind(h, kind, "env") /\ ds \subseteq OfKind(h, kind, "data")

IInv == \E kind, rank, owner : StateOK(heap, envs, held, kind, rank, owner)

\* All that is no data is in h2 as it is in h.
Kept(h, kind, rank, owner, h2, kind2, rank2, owner2) ==
  /\ h.fresh <= h2.fresh
  /\ \A p \in Made(h) : kind[p] # "data" =>
        /\ p \in Made(h2) /\ h2.car[p] = h.car[p] /\ h2.cdr[p] = h.cdr[p]
        /\ kind2[p] = kind[p] /\ rank2[p] = rank[p] /\ owner2[p] = owner[p]

\* A step that keeps all but data keeps the names.
LEMMA KeptNames ==
  ASSUME NEW h, NEW kind, NEW rank, NEW owner, NEW h2, NEW kind2, NEW rank2, NEW owner2,
         Kept(h, kind, rank, owner, h2, kind2, rank2, owner2)
  PROVE  SameNames(h, kind, rank, owner, h2, kind2, rank2, owner2)
BY DEF Kept, SameNames

Single(elems, o) == Len(elems) = 1 /\ elems[1] = o

\* A pair of kind K was consed.
OneMore(h, kind, rank, owner, o, tail, K, O, h2, kind2, rank2, owner2) ==
  /\ Laid(h2, kind2, rank2, owner2)
  /\ Extends_(h, kind, rank, owner, h2, kind2, rank2, owner2)
  /\ h2.fresh = h.fresh + 1 /\ Made(h2) = Made(h) \cup {h.fresh}
  /\ h2.car[h.fresh] = o /\ h2.cdr[h.fresh] = tail
  /\ kind2[h.fresh] = K /\ owner2[h.fresh] = O
  /\ K \in Listed => rank2[h.fresh] = Size(rank, tail) + 1

\* cons makes one pair, of a kind its contents allow; the others are as they
\* were.
LEMMA PushOne ==
  ASSUME NEW h, NEW kind, NEW rank, NEW owner, Laid(h, kind, rank, owner),
         NEW o, NEW tail, NEW K, NEW O,
         NEW elems, Single(elems, o), Fits(h, kind, rank, owner, elems, tail, K, O),
         NEW h2, h2 = Push(h, elems, tail)
  PROVE  \E kind2, rank2, owner2 :
            OneMore(h, kind, rank, owner, o, tail, K, O, h2, kind2, rank2, owner2)
<1>1. h \in Heaps /\ h.fresh \in Nat \ {0}
  BY DEF Laid, Heaps
<1>2. elems \in Seq(Objects) /\ tail \in Objects /\ h.fresh + Len(elems) <= MaxPair + 1
  BY DEF Fits, Known
<1>3. Len(elems) = 1 /\ elems[1] = o
  BY DEF Single
<1> DEFINE k2 == PushedKind(h, kind, h2, K)
           r2 == PushedRank(h, rank, h2, tail, K)
           o2 == PushedOwner(h, owner, h2, O)
<1>4. /\ Laid(h2, k2, r2, o2)
      /\ Extends_(h, kind, rank, owner, h2, k2, r2, o2)
      /\ h2.fresh = h.fresh + Len(elems)
      /\ \A p \in Made(h2) \ Made(h) : k2[p] = K /\ o2[p] = O
  BY PushKeeps
<1>5. Made(h2) = Made(h) \cup {h.fresh} /\ h.fresh \in Made(h2) \ Made(h)
  BY <1>1, <1>3, <1>4 DEF Made
<1>6. h.fresh - h.fresh + 1 = 1 /\ h.fresh = h2.fresh - 1 /\ h2.fresh - h.fresh = 1
  BY <1>1, <1>3, <1>4
<1>7. h2.car[h.fresh] = o /\ h2.cdr[h.fresh] = tail
  <2>1. \A p \in Made(h2) \ Made(h) :
          /\ h2.car[p] = elems[p - h.fresh + 1]
          /\ h2.cdr[p] = IF p = h2.fresh - 1 THEN tail ELSE p + 1
    BY <1>1, <1>2, PushFacts
  <2> QED
    BY <1>3, <1>5, <1>6, <2>1
<1>8. K \in Listed => r2[h.fresh] = Size(rank, tail) + 1
  BY <1>5, <1>6 DEF PushedRank
<1>9. OneMore(h, kind, rank, owner, o, tail, K, O, h2, k2, r2, o2)
  <2> HIDE DEF k2, r2, o2
  <2> QED
    BY <1>3, <1>4, <1>5, <1>7, <1>8 DEF OneMore
<1> HIDE DEF k2, r2, o2
<1> QED
  BY <1>9

\* The new frame xs, vs on env, and the new environment.
Entered(h, xs, vs, env, h2, kind2, rank2, owner2) ==
  /\ h2.fresh = h.fresh + 2
  /\ h.fresh \in Made(h2) /\ h.fresh + 1 \in Made(h2)
  /\ h2.car[h.fresh] = xs /\ h2.cdr[h.fresh] = vs /\ kind2[h.fresh] = "frame"
  /\ h2.car[h.fresh + 1] = h.fresh /\ h2.cdr[h.fresh + 1] = env /\ kind2[h.fresh + 1] = "env"

\* extend_environment keeps the layout, if the frame's names and values are
\* equally many and nobody else has the values.
LEMMA ExtendKeeps ==
  ASSUME NEW h, NEW kind, NEW rank, NEW owner, Laid(h, kind, rank, owner),
         NEW xs, IsOf(h, kind, xs, "name"), NEW vs, IsOf(h, kind, vs, Given),
         SameSize(rank, xs, vs), UsesApply \/ OwnedBy(owner, vs, h.fresh),
         NEW env, IsOf(h, kind, env, "env"),
         h.fresh + 2 <= MaxPair + 1,
         NEW h2, h2 = ExtendEnvironment(h, xs, vs, env)
  PROVE  \E kind2, rank2, owner2 :
            /\ Laid(h2, kind2, rank2, owner2)
            /\ Extends_(h, kind, rank, owner, h2, kind2, rank2, owner2)
            /\ Entered(h, xs, vs, env, h2, kind2, rank2, owner2)
<1>1. h \in Heaps /\ h.fresh \in Nat \ {0}
  BY DEF Laid, Heaps
<1>2. Known(h, xs) /\ Known(h, vs) /\ Known(h, env) /\ env \in Objects /\ xs \in Objects /\ vs \in Objects
  BY <1>1, OfKindKnown DEF Known
<1> DEFINE a == h.fresh
           e1 == <<xs>>
           h1 == Push(h, e1, vs)
           e2 == <<a>>
<1>3. /\ Len(e1) = 1 /\ e1[1] = xs /\ e1 \in Seq(Objects) /\ Len(e2) = 1 /\ e2[1] = a
      /\ a \in Objects => e2 \in Seq(Objects)
  BY <1>2
<1>4. h2 = Push(h1, e2, env)
  BY DEF ExtendEnvironment
<1>5. h1 = Push(h, e1, vs) /\ a = h.fresh
  OBVIOUS
<1> HIDE DEF e1, e2, h1, a
<1>6. Fits(h, kind, rank, owner, e1, vs, "frame", a + 1)
  BY <1>1, <1>2, <1>3, <1>5 DEF Fits, Kinds, Listed
<1>7. PICK k1, r1, o1 :
        OneMore(h, kind, rank, owner, xs, vs, "frame", a + 1, h1, k1, r1, o1)
  BY <1>3, <1>5, <1>6, PushOne DEF Single
<1>8. /\ Laid(h1, k1, r1, o1)
      /\ Extends_(h, kind, rank, owner, h1, k1, r1, o1)
      /\ h1.fresh = a + 1 /\ Made(h1) = Made(h) \cup {a}
      /\ h1.car[a] = xs /\ h1.cdr[a] = vs
      /\ k1[a] = "frame" /\ o1[a] = a + 1
  BY <1>5, <1>7 DEF OneMore
<1>9. h1 \in Heaps /\ Known(h1, env) /\ Known(h1, a) /\ IsOf(h1, k1, env, "env")
  <2>1. h1 \in Heaps
    BY <1>8 DEF Laid
  <2>2. IsOf(h1, k1, env, "env")
    BY <1>8 DEF IsOf, Extends_
  <2>3. IsOf(h1, k1, a, "frame")
    BY <1>8 DEF IsOf
  <2> QED
    BY <2>1, <2>2, <2>3, OfKindKnown
<1>10. Fits(h1, k1, r1, o1, e2, env, "env", nil)
  <2>1. e2 \in Seq(Objects) /\ h1.fresh + Len(e2) <= MaxPair + 1
    BY <1>1, <1>3, <1>5, <1>8, <1>9 DEF Known
  <2>2. a \in Made(h1) /\ k1[a] = "frame" /\ o1[a] = h1.fresh
    BY <1>8
  <2> QED
    BY <1>3, <1>9, <2>1, <2>2 DEF Fits, Kinds, Listed
<1>11. PICK k2, r2, o2 : OneMore(h1, k1, r1, o1, a, env, "env", nil, h2, k2, r2, o2)
  BY <1>3, <1>4, <1>8, <1>10, PushOne DEF Single
<1>12. /\ Laid(h2, k2, r2, o2)
       /\ Extends_(h1, k1, r1, o1, h2, k2, r2, o2)
       /\ h2.fresh = (a + 1) + 1 /\ Made(h2) = Made(h1) \cup {a + 1}
       /\ h2.car[a + 1] = a /\ h2.cdr[a + 1] = env /\ k2[a + 1] = "env"
  BY <1>8, <1>11 DEF OneMore
<1>13. h2.fresh = a + 2 /\ h.fresh <= h2.fresh
  BY <1>1, <1>5, <1>12
<1>14. Extends_(h, kind, rank, owner, h2, k2, r2, o2)
  BY <1>8, <1>12, <1>13 DEF Extends_
<1>15. Entered(h, xs, vs, env, h2, k2, r2, o2)
  <2>1. a \in Made(h2) /\ h2.car[a] = xs /\ h2.cdr[a] = vs /\ k2[a] = "frame"
    BY <1>8, <1>12 DEF Extends_
  <2> QED
    BY <1>5, <1>12, <1>13, <2>1 DEF Entered
<1> QED
  BY <1>12, <1>14, <1>15

\* The new environment is the only one, and no pair there was becomes data.
LEMMA EnteredKinds ==
  ASSUME NEW h, NEW kind, NEW rank, NEW owner, NEW xs, NEW vs, NEW env,
         NEW h2, NEW kind2, NEW rank2, NEW owner2, h \in Heaps,
         Extends_(h, kind, rank, owner, h2, kind2, rank2, owner2),
         Entered(h, xs, vs, env, h2, kind2, rank2, owner2)
  PROVE  /\ OfKind(h2, kind2, "env") = OfKind(h, kind, "env") \cup {h2.fresh - 1}
         /\ OfKind(h2, kind2, "data") = OfKind(h, kind, "data")
<1>1. h.fresh \in Nat \ {0} /\ h2.fresh = h.fresh + 2 /\ h2.fresh - 1 = h.fresh + 1
  BY DEF Entered, Heaps
<1>2. \A p : p \in Made(h2) <=> p \in Made(h) \/ p = h.fresh \/ p = h.fresh + 1
  BY <1>1 DEF Made
<1>3. \A p \in Made(h) : kind2[p] = kind[p]
  BY DEF Extends_
<1>4. kind2[h.fresh] = "frame" /\ kind2[h.fresh + 1] = "env"
  BY DEF Entered
<1> QED
  BY <1>1, <1>2, <1>3, <1>4 DEF OfKind

\* The program begins so.
LEMMA Initially == Init => IInv
<1> SUFFICES ASSUME Init PROVE IInv
  OBVIOUS
<1> DEFINE h == Text[Len(Formals)]
<1>1. PICK kind, rank, owner :
        /\ Laid(h, kind, rank, owner)
        /\ \A j \in 1..Len(Formals) : ParametersOK(h, kind, rank, owner, j)
        /\ \A p \in Made(h) : kind[p] \in {"name", "text"}
  <2>1. PICK k, r, o : TextOK(Len(Formals), h, k, r, o)
    BY TextLaid
  <2> QED
    BY <2>1 DEF TextOK
<1>2. heap = ExtendEnvironment(h, nil, nil, nil) /\ envs = {heap.fresh - 1} /\ held = {}
  BY DEF Init
<1>3. h.fresh + 2 <= MaxPair + 1
  BY RoomAssumption
<1> HIDE DEF h
<1>4. h \in Heaps
  BY <1>1 DEF Laid
<1>5. \A K : IsOf(h, kind, nil, K)
  BY DEF IsOf
<1>6. SameSize(rank, nil, nil) /\ OwnedBy(owner, nil, h.fresh)
  BY DEF SameSize, OwnedBy
<1>7. PICK kind2, rank2, owner2 :
        /\ Laid(heap, kind2, rank2, owner2)
        /\ Extends_(h, kind, rank, owner, heap, kind2, rank2, owner2)
        /\ Entered(h, nil, nil, nil, heap, kind2, rank2, owner2)
  BY <1>1, <1>2, <1>3, <1>5, <1>6, ExtendKeeps
<1>8. envs = OfKind(heap, kind2, "env")
  <2>1. OfKind(h, kind, "env") = {}
    BY <1>1 DEF OfKind
  <2> QED
    BY <1>2, <1>4, <1>7, <2>1, EnteredKinds
<1>9. SameNames(h, kind, rank, owner, heap, kind2, rank2, owner2)
  BY <1>7 DEF Extends_, SameNames
<1>10. \A j \in 1..Len(Formals) : ParametersOK(heap, kind2, rank2, owner2, j)
  BY <1>1, <1>9, ParametersKept
<1>11. StateOK(heap, envs, held, kind2, rank2, owner2)
  BY <1>2, <1>7, <1>8, <1>10 DEF StateOK
<1> QED
  BY <1>11 DEF IInv

-----------------------------------------------------------------------------
(* A call.                                                                  *)

\* The data of h is data in h2, but for what has become the values of a frame.
DataKept(h, kind, h2, kind2, R) ==
  \A p \in OfKind(h, kind, "data") : p \notin R => p \in OfKind(h2, kind2, "data")

\* A new environment, on env.
EnvAdded(h, kind, env, h2, kind2) ==
  /\ OfKind(h2, kind2, "env") = OfKind(h, kind, "env") \cup {h2.fresh - 1}
  /\ h2.fresh - 1 \in Made(h2) \ Made(h)
  /\ h2.cdr[h2.fresh - 1] = env

\* Without apply, only the pairs of R are written.
Untouched(h, h2, R) ==
  UsesApply \/ \A p \in Made(h) : p \notin R => h2.car[p] = h.car[p] /\ h2.cdr[p] = h.cdr[p]

\* What a call has made of heap h.
CallDone(h, kind, rank, owner, env, R, h2) ==
  \E kind2, rank2, owner2 :
     /\ Laid(h2, kind2, rank2, owner2)
     /\ Kept(h, kind, rank, owner, h2, kind2, rank2, owner2)
     /\ EnvAdded(h, kind, env, h2, kind2)
     /\ DataKept(h, kind, h2, kind2, R)
     /\ Untouched(h, h2, R)

\* The pairs of R can be a frame's values vs: they are data, and with apply
\* they stay so; without, they are a whole list, counted by left.
CanTake(h, kind, rank, xs, vs, R, left) ==
  \/ UsesApply /\ R = {} /\ IsOf(h, kind, vs, "data")
  \/ /\ ~UsesApply /\ R \in SUBSET Made(h) /\ \A p \in R : kind[p] = "data"
     /\ left \in [R -> Made(h)]
     /\ \A p \in R : /\ h.cdr[p] = nil \/ h.cdr[p] \in R
                     /\ left[p] = Size(left, h.cdr[p]) + 1
     /\ vs = nil \/ vs \in R
     /\ Size(left, vs) = Size(rank, xs)

\* extend_environment on values that are data so far.
LEMMA EnterKeeps ==
  ASSUME NEW h, NEW kind, NEW rank, NEW owner, Laid(h, kind, rank, owner),
         NEW xs, IsOf(h, kind, xs, "name"), NEW vs, NEW R, NEW left,
         CanTake(h, kind, rank, xs, vs, R, left),
         NEW env, IsOf(h, kind, env, "env"), h.fresh + 2 <= MaxPair + 1,
         NEW h2, h2 = ExtendEnvironment(h, xs, vs, env)
  PROVE  CallDone(h, kind, rank, owner, env, R, h2)
<1>1. h \in Heaps /\ h.fresh \in Nat \ {0} /\ nil \notin Made(h)
  BY NotPairs DEF Laid, Heaps
\* The layout after the values have changed hands.
<1>2. PICK k1, r1, o1 :
        /\ Laid(h, k1, r1, o1)
        /\ \A p \in Made(h) : kind[p] # "data" \/ p \notin R =>
              k1[p] = kind[p] /\ r1[p] = rank[p] /\ o1[p] = owner[p]
        /\ \A p \in R : k1[p] = "value"
        /\ IsOf(h, k1, vs, Given) /\ SameSize(r1, xs, vs)
        /\ UsesApply \/ OwnedBy(o1, vs, h.fresh)
  <2>1. CASE UsesApply /\ R = {} /\ IsOf(h, kind, vs, "data")
    BY <2>1 DEF Given, SameSize
  <2>2. CASE /\ ~UsesApply /\ R \in SUBSET Made(h) /\ \A p \in R : kind[p] = "data"
             /\ left \in [R -> Made(h)]
             /\ \A p \in R : /\ h.cdr[p] = nil \/ h.cdr[p] \in R
                             /\ left[p] = Size(left, h.cdr[p]) + 1
             /\ vs = nil \/ vs \in R
             /\ Size(left, vs) = Size(rank, xs)
    <3> DEFINE k1 == Retyped(kind, R)
               r1 == Reranked(rank, R, left)
               o1 == Reowned(kind, owner, R, h.fresh)
    <3>1. /\ Laid(h, k1, r1, o1)
          /\ \A p \in Made(h) : p \notin R => k1[p] = kind[p] /\ r1[p] = rank[p] /\ o1[p] = owner[p]
          /\ \A p \in R : k1[p] = "value" /\ r1[p] = left[p] /\ o1[p] = h.fresh
      BY <2>2, RetypeKeeps
    <3> HIDE DEF k1, r1, o1
    <3>2. Given = "value"
      BY <2>2 DEF Given
    <3>3. IsOf(h, k1, vs, Given) /\ OwnedBy(o1, vs, h.fresh) /\ Size(r1, vs) = Size(left, vs)
      BY <1>1, <2>2, <3>1, <3>2 DEF IsOf, OwnedBy, Size
    <3>4. Size(r1, xs) = Size(rank, xs)
      <4>1. CASE xs = nil
        BY <4>1 DEF Size
      <4>2. CASE xs # nil
        <5>1. xs \in Made(h) /\ xs \notin R
          BY <2>2, <4>2 DEF IsOf
        <5> QED
          BY <3>1, <4>2, <5>1 DEF Size
      <4> QED
        BY <4>1, <4>2
    <3> QED
      BY <2>2, <3>1, <3>3, <3>4 DEF SameSize
  <2> QED
    BY <2>1, <2>2 DEF CanTake
<1>3. \A p \in R : p \in Made(h) => kind[p] = "data"
  BY DEF CanTake
<1>4. ASSUME NEW o, NEW K, K # "data", IsOf(h, kind, o, K)
      PROVE  IsOf(h, k1, o, K)
  BY <1>2, <1>4 DEF IsOf
<1>5. IsOf(h, k1, xs, "name") /\ IsOf(h, k1, env, "env")
  BY <1>4
<1>6. PICK k2, r2, o2 :
        /\ Laid(h2, k2, r2, o2)
        /\ Extends_(h, k1, r1, o1, h2, k2, r2, o2)
        /\ Entered(h, xs, vs, env, h2, k2, r2, o2)
  BY <1>2, <1>5, ExtendKeeps
<1>7. Kept(h, kind, rank, owner, h2, k2, r2, o2)
  BY <1>2, <1>6 DEF Kept, Extends_
<1>8. /\ OfKind(h2, k2, "env") = OfKind(h, k1, "env") \cup {h2.fresh - 1}
      /\ OfKind(h2, k2, "data") = OfKind(h, k1, "data")
  BY <1>1, <1>6, EnteredKinds
<1>9. OfKind(h, k1, "env") = OfKind(h, kind, "env")
  BY <1>2, <1>3 DEF OfKind
<1>10. DataKept(h, kind, h2, k2, R)
  BY <1>2, <1>8 DEF DataKept, OfKind
<1>11. EnvAdded(h, kind, env, h2, k2)
  <2>1. h2.fresh - 1 = h.fresh + 1 /\ h.fresh + 1 \in Made(h2) /\ h2.cdr[h.fresh + 1] = env
    BY <1>1, <1>6 DEF Entered
  <2>2. h.fresh + 1 \notin Made(h)
    BY <1>1 DEF Made
  <2> QED
    BY <1>8, <1>9, <2>1, <2>2 DEF EnvAdded
<1>12. Untouched(h, h2, R)
  BY <1>6 DEF Untouched, Extends_
<1> QED
  BY <1>6, <1>7, <1>10, <1>11, <1>12 DEF CallDone

\* Arguments that were consed for the call, m pairs from b on.
NewArgs(h, kind, args, b, m) ==
  /\ b \in Nat /\ m \in Nat /\ Block(h, b, m, nil)
  /\ \A k \in 1..m : kind[b + k - 1] = "data"
  /\ args = IF m = 0 THEN nil ELSE b

\* A call of lambda i with arguments args, on heap h, is within the rules.
Applicable(h, kind, rank, owner, i, env, args, b, m) ==
  /\ Laid(h, kind, rank, owner)
  /\ i \in 1..Len(Formals) /\ ParametersOK(h, kind, rank, owner, i)
  /\ IsOf(h, kind, env, "env") /\ IsOf(h, kind, args, "data")
  /\ UsesApply \/ NewArgs(h, kind, args, b, m)

\* The first n arguments become values.
Taken(b, n) == IF UsesApply THEN {} ELSE {b + k - 1 : k \in 1..n}

\* The spine of new arguments.
LEMMA NewArgsSpine ==
  ASSUME NEW h \in Heaps, NEW kind, NEW args, NEW b, NEW m, NewArgs(h, kind, args, b, m)
  PROVE  Spine(h, args) = [k \in 1..m |-> b + k - 1] /\ length(h, args) = m
<1>1. ~is_pair(h, nil)
  BY NotPairs
<1> QED
  BY <1>1, BlockSpine DEF NewArgs, length

\* The arguments are data.
LEMMA ArgsAreData ==
  ASSUME NEW h, NEW kind, NEW rank, NEW owner, NEW i, NEW env, NEW args, NEW b, NEW m,
         Applicable(h, kind, rank, owner, i, env, args, b, m)
  PROVE  /\ length(h, args) \in Nat
         /\ \A k \in 1..length(h, args) : Spine(h, args)[k] \in OfKind(h, kind, "data")
<1>1. h \in Heaps
  BY DEF Applicable, Laid
<1>2. CASE UsesApply
  <2>1. Given = "data"
    BY <1>2 DEF Given
  <2>2. /\ Spine(h, args) \in Seq(Made(h))
        /\ \A k \in 1..Len(Spine(h, args)) : Spine(h, args)[k] \in OfKind(h, kind, "data")
    BY <2>1, ListGiven DEF Applicable
  <2> QED
    BY <2>2 DEF length
<1>3. CASE ~UsesApply
  <2>1. NewArgs(h, kind, args, b, m)
    BY <1>3 DEF Applicable
  <2>2. Spine(h, args) = [k \in 1..m |-> b + k - 1] /\ length(h, args) = m /\ m \in Nat
    <3>1. m \in Nat
      BY <2>1 DEF NewArgs
    <3> QED
      BY <1>1, <2>1, <3>1, NewArgsSpine
  <2>3. \A k \in 1..m : b + k - 1 \in Made(h) /\ kind[b + k - 1] = "data"
    BY <2>1 DEF NewArgs, Block
  <2> QED
    BY <2>2, <2>3 DEF OfKind
<1> QED
  BY <1>2, <1>3

\* A call without a rest parameter uses the arguments as they are.
LEMMA ProperCall ==
  ASSUME NEW h, NEW kind, NEW rank, NEW owner, NEW i, NEW env, NEW args, NEW b, NEW m,
         Applicable(h, kind, rank, owner, i, env, args, b, m),
         Tail_(i) = nil,
         NEW n, n = Len(Formals[i].names), length(h, args) = n,
         NEW h2, h2 = ExtendEnvironment(h, procedure_parameters(i), args, env),
         h.fresh + 2 <= MaxPair + 1
  PROVE  CallDone(h, kind, rank, owner, env, Taken(b, n), h2)
<1> DEFINE xs == procedure_parameters(i)
<1>1. /\ Laid(h, kind, rank, owner) /\ IsOf(h, kind, env, "env") /\ IsOf(h, kind, args, "data")
      /\ UsesApply \/ NewArgs(h, kind, args, b, m)
      /\ h \in Heaps
  BY DEF Applicable, Laid
<1>2. IsOf(h, kind, xs, "name") /\ Size(rank, xs) = n
  BY <1>1, ParametersSpine DEF Applicable
<1> DEFINE R == Taken(b, n)
           left == [p \in R |-> b + n - p]
<1>3. CanTake(h, kind, rank, xs, args, R, left)
  <2>1. CASE UsesApply
    BY <1>1, <2>1 DEF CanTake, Taken
  <2>2. CASE ~UsesApply
    <3>1. b \in Nat /\ n \in Nat /\ m = n /\ Block(h, b, n, nil)
          /\ (\A k \in 1..n : kind[b + k - 1] = "data") /\ args = IF n = 0 THEN nil ELSE b
      <4>1. NewArgs(h, kind, args, b, m)
        BY <1>1, <2>2
      <4>2. m = n
        BY <1>1, <4>1, NewArgsSpine
      <4> QED
        BY <4>1, <4>2 DEF NewArgs
    <3>2. R = {b + k - 1 : k \in 1..n}
      BY <2>2 DEF Taken
    <3>3. nil \notin Made(h) /\ h.fresh \in Nat
      BY <1>1, NotPairs DEF Heaps
    <3>4. \A k \in 1..n : b + k - 1 \in Made(h) /\ h.cdr[b + k - 1] = IF k = n THEN nil ELSE b + k
      BY <3>1 DEF Block
    <3> HIDE DEF R
    <3>5. R \in SUBSET Made(h) /\ \A p \in R : kind[p] = "data"
      BY <3>1, <3>2, <3>4
    <3>6. left \in [R -> Made(h)]
      <4> SUFFICES ASSUME NEW k \in 1..n PROVE b + n - (b + k - 1) \in Made(h)
        BY <3>2
      <4>1. b + 1 - 1 \in Made(h) /\ b + n - 1 \in Made(h)
        <5>1. 1 \in 1..n /\ n \in 1..n
          BY <3>1
        <5> QED
          BY <3>4, <5>1
      <4>2. b >= 1 /\ b + n - 1 <= h.fresh - 1
        BY <3>1, <3>3, <4>1 DEF Made
      <4>3. b + n - (b + k - 1) = n - k + 1
        BY <3>1
      <4> QED
        BY <3>1, <3>3, <4>2, <4>3 DEF Made
    <3>7. ASSUME NEW p \in R
          PROVE  /\ h.cdr[p] = nil \/ h.cdr[p] \in R
                 /\ left[p] = Size(left, h.cdr[p]) + 1
      <4>1. PICK k \in 1..n : p = b + k - 1
        BY <3>2
      <4>2. CASE k = n
        <5>1. h.cdr[p] = nil /\ b + n - p = 1
          BY <3>1, <3>4, <4>1, <4>2
        <5> QED
          BY <5>1 DEF Size
      <4>3. CASE k # n
        <5>1. k + 1 \in 1..n /\ b + (k + 1) - 1 = b + k
          BY <3>1, <4>3
        <5>2. h.cdr[p] = b + k /\ b + k \in Made(h) /\ b + k \in R
          BY <3>2, <3>4, <4>1, <4>3, <5>1
        <5>3. left[b + k] = b + n - (b + k) /\ left[p] = b + n - (b + k - 1) /\ b + k # nil
          BY <3>3, <4>1, <5>2
        <5>4. b + n - (b + k - 1) = b + n - (b + k) + 1
          BY <3>1
        <5> QED
          BY <5>2, <5>3, <5>4 DEF Size
      <4> QED
        BY <4>2, <4>3
    <3>8. (args = nil \/ args \in R) /\ Size(left, args) = n
      <4>1. CASE n = 0
        BY <3>1, <4>1 DEF Size
      <4>2. CASE n # 0
        <5>1. 1 \in 1..n /\ b + 1 - 1 = b /\ args = b /\ b + n - b = n
          BY <3>1, <4>2
        <5>2. b \in R /\ b \in Made(h) /\ b # nil
          BY <3>2, <3>3, <3>4, <5>1
        <5>3. left[b] = n
          BY <5>1, <5>2
        <5> HIDE DEF left
        <5> QED
          BY <5>1, <5>2, <5>3 DEF Size
      <4> QED
        BY <4>1, <4>2
    <3> HIDE DEF left
    <3> QED
      BY <1>2, <2>2, <3>5, <3>6, <3>7, <3>8 DEF CanTake
  <2> QED
    BY <2>1, <2>2
<1> HIDE DEF R, left, xs
<1> QED
  BY <1>1, <1>2, <1>3, EnterKeeps DEF R, xs

\* Where a list ends is known.
LEMMA EndKnown ==
  ASSUME NEW h, NEW kind, NEW rank, NEW owner, Laid(h, kind, rank, owner),
         NEW l, Known(h, l), Spine(h, l) \in Seq(Made(h))
  PROVE  Known(h, End(h, l))
<1>1. h \in Heaps /\ \A q \in Made(h) : CellOK(h, kind, rank, owner, q)
  BY DEF Laid
<1>2. CASE ~is_pair(h, l)
  BY <1>1, <1>2, SpineEnd
<1>3. CASE is_pair(h, l)
  <2> DEFINE s == Spine(h, l)
  <2>1. s # << >> /\ s \in Seq(Made(h)) /\ End(h, l) = h.cdr[s[Len(s)]]
    BY <1>1, <1>3, SpineFacts, SpineEnd DEF Walked, Chain
  <2> HIDE DEF s
  <2>2. s[Len(s)] \in Made(h)
    BY <2>1
  <2> QED
    BY <1>1, <2>1, <2>2 DEF CellOK
<1> QED
  BY <1>2, <1>3

\* The copy of the names with the rest at their end, on heap h.
RestNames(h, i, h1) ==
  h1 = Push(h, Append(Formals[i].names, Tail_(i)), nil)

\* The list of variables that fixup_varargs makes, with the rest parameter last.
LEMMA RestNamesKeep ==
  ASSUME NEW h, NEW kind, NEW rank, NEW owner, Laid(h, kind, rank, owner),
         NEW i \in 1..Len(Formals), Tail_(i) # nil,
         NEW n, n = Len(Formals[i].names), h.fresh + (n + 1) <= MaxPair + 1,
         NEW h1, RestNames(h, i, h1)
  PROVE  \E k1, r1, o1 :
            /\ Laid(h1, k1, r1, o1)
            /\ Extends_(h, kind, rank, owner, h1, k1, r1, o1)
            /\ h1.fresh = h.fresh + (n + 1)
            /\ IsOf(h1, k1, h.fresh, "name") /\ Size(r1, h.fresh) = n + 1
            /\ \A p \in Made(h1) \ Made(h) : k1[p] = "name"
<1> DEFINE e == Append(Formals[i].names, Tail_(i))
           k1 == PushedKind(h, kind, h1, "name")
           r1 == PushedRank(h, rank, h1, nil, "name")
           o1 == PushedOwner(h, owner, h1, nil)
<1>1. h \in Heaps /\ h.fresh \in Nat \ {0}
  BY DEF Laid, Heaps
<1>2. n \in Nat /\ e \in Seq(Vars) /\ Len(e) = n + 1
  BY FormalsTyped
<1>3. h1 = Push(h, e, nil)
  BY DEF RestNames
<1> HIDE DEF e
<1>4. e \in Seq(Objects) /\ \A k \in 1..Len(e) : Known(h, e[k])
  <2>1. \A k \in 1..Len(e) : e[k] \in Vars
    BY <1>2
  <2> QED
    BY <1>1, <1>2, <2>1, SymbolsKnown DEF Objects
<1>5. Known(h, nil) /\ IsOf(h, kind, nil, "name")
  BY <1>1, SymbolsKnown DEF IsOf
<1>6. Fits(h, kind, rank, owner, e, nil, "name", nil)
  BY <1>2, <1>4, <1>5 DEF Fits, Kinds, Listed
<1>7. /\ Laid(h1, k1, r1, o1)
      /\ Extends_(h, kind, rank, owner, h1, k1, r1, o1)
      /\ h1.fresh = h.fresh + Len(e)
      /\ \A p \in Made(h1) \ Made(h) : k1[p] = "name" /\ o1[p] = nil
  BY <1>3, <1>6, PushKeeps
<1>8. h.fresh \in Made(h1) \ Made(h) /\ h.fresh # nil
  <2>1. h.fresh \in Made(h1) \ Made(h)
    BY <1>1, <1>2, <1>7 DEF Made
  <2>2. h1 \in Heaps
    BY <1>7 DEF Laid
  <2> QED
    BY <2>1, <2>2, NotPairs
<1>9. r1[h.fresh] = n + 1
  <2>1. r1[h.fresh] = Size(rank, nil) + (h1.fresh - h.fresh)
    BY <1>8 DEF PushedRank, Listed
  <2>2. Size(rank, nil) = 0 /\ h1.fresh - h.fresh = n + 1
    BY <1>1, <1>2, <1>7 DEF Size
  <2> HIDE DEF r1
  <2> QED
    BY <1>2, <2>1, <2>2
<1> HIDE DEF k1, r1, o1
<1>10. IsOf(h1, k1, h.fresh, "name") /\ Size(r1, h.fresh) = n + 1
  BY <1>7, <1>8, <1>9 DEF IsOf, Size
<1> QED
  BY <1>2, <1>7, <1>10

\* fixup_varargs keeps the layout: the names are copied, and the arguments
\* beyond them wrapped in a pair, so that there is one value for each name.
LEMMA FixupKeeps ==
  ASSUME NEW h, NEW kind, NEW rank, NEW owner, NEW i, NEW env, NEW args, NEW b, NEW m,
         Applicable(h, kind, rank, owner, i, env, args, b, m),
         Tail_(i) # nil,
         NEW n, n = Len(Formals[i].names), length(h, args) >= n,
         NEW fixed, fixed = FixupVarargs(h, procedure_parameters(i), args),
         fixed.heap.fresh <= MaxPair + 1
  PROVE  \E kind2, rank2, owner2, w :
            /\ Laid(fixed.heap, kind2, rank2, owner2)
            /\ Kept(h, kind, rank, owner, fixed.heap, kind2, rank2, owner2)
            /\ OfKind(fixed.heap, kind2, "env") = OfKind(h, kind, "env")
            /\ DataKept(h, kind, fixed.heap, kind2, {})
            /\ IsOf(fixed.heap, kind2, fixed.vars, "name") /\ Size(rank2, fixed.vars) = n + 1
            /\ w \in OfKind(fixed.heap, kind2, "data") /\ w \notin Made(h)
            /\ fixed.heap.cdr[w] = nil
            /\ n # 0 => fixed.heap.cdr[Spine(h, args)[n]] = w
            /\ \A p \in Made(h) : fixed.heap.car[p] = h.car[p]
            /\ \A p \in Made(h) : n = 0 \/ p # Spine(h, args)[n] =>
                  fixed.heap.cdr[p] = h.cdr[p]
            /\ fixed.vals = IF n = 0 THEN w ELSE args
<1> DEFINE vs == procedure_parameters(i)
<1>1. /\ Laid(h, kind, rank, owner) /\ i \in 1..Len(Formals)
      /\ ParametersOK(h, kind, rank, owner, i) /\ IsOf(h, kind, args, "data")
  BY DEF Applicable
<1>2. h \in Heaps /\ h.fresh \in Nat \ {0} /\ nil \notin Made(h)
  BY <1>1, NotPairs DEF Laid, Heaps
<1>3. Elements(h, vs) = Formals[i].names /\ End(h, vs) = Tail_(i)
  BY <1>1, ParametersSpine
<1> HIDE DEF vs
<1>4. n \in Nat
  BY <1>1, FormalsTyped
<1> DEFINE h1 == Push(h, Append(Formals[i].names, Tail_(i)), nil)
           lst == ListTail(h, args, n)
           e == <<lst>>
           h2 == Push(h1, e, nil)
           w == h1.fresh
           q == Spine(h, args)[n]
           h3 == IF n = 0 THEN h2 ELSE SetCdr(h2, q, w)
<1>5. fixed.heap = h3 /\ fixed.vars = h.fresh /\ fixed.vals = IF n = 0 THEN w ELSE args
  BY <1>3 DEF FixupVarargs, vs
<1>6. h2.fresh = h1.fresh + Len(e) /\ Len(e) = 1 /\ h3.fresh = h2.fresh
      /\ h1.fresh = h.fresh + Len(Append(Formals[i].names, Tail_(i)))
  BY DEF Push, SetCdr
<1>7. Len(Append(Formals[i].names, Tail_(i))) = n + 1
  BY <1>1, FormalsTyped
<1>8. RestNames(h, i, h1) /\ h2 = Push(h1, e, nil) /\ w = h1.fresh /\ e[1] = lst
  BY DEF RestNames
<1>9. lst = (IF n < Len(Spine(h, args)) THEN Spine(h, args)[n + 1] ELSE End(h, args))
  BY DEF ListTail
<1>10. h3 = (IF n = 0 THEN h2 ELSE SetCdr(h2, q, w))
  OBVIOUS
<1>11. lst \in Objects => e \in Seq(Objects)
  OBVIOUS
<1> HIDE DEF h1, lst, e, h2, w, h3
<1>12. h.fresh + (n + 1) <= MaxPair + 1 /\ h1.fresh + 1 <= MaxPair + 1
       /\ h1.fresh = h.fresh + (n + 1) /\ h2.fresh = h1.fresh + 1
  <2>1. h3.fresh <= MaxPair + 1
    BY <1>5
  <2>2. h1.fresh = h.fresh + (n + 1)
    BY <1>6, <1>7
  <2>3. h1.fresh \in Nat
    BY <1>2, <1>4, <2>2
  <2>4. h2.fresh = h1.fresh + 1 /\ h3.fresh = h1.fresh + 1
    BY <1>6
  <2>5. h1.fresh + 1 <= MaxPair + 1 /\ h1.fresh <= MaxPair + 1
    BY <2>1, <2>3, <2>4
  <2> QED
    BY <2>2, <2>4, <2>5
<1>13. PICK k1, r1, o1 :
         /\ Laid(h1, k1, r1, o1)
         /\ Extends_(h, kind, rank, owner, h1, k1, r1, o1)
         /\ h1.fresh = h.fresh + (n + 1)
         /\ IsOf(h1, k1, h.fresh, "name") /\ Size(r1, h.fresh) = n + 1
         /\ \A p \in Made(h1) \ Made(h) : k1[p] = "name"
  <2>1. /\ Laid(h, kind, rank, owner) /\ i \in 1..Len(Formals) /\ Tail_(i) # nil
        /\ n = Len(Formals[i].names)
    BY <1>1
  <2>2. RestNames(h, i, h1) /\ h.fresh + (n + 1) <= MaxPair + 1
    BY <1>8, <1>12
  <2> QED
    BY ONLY <2>1, <2>2, RestNamesKeep
<1>14. /\ length(h, args) \in Nat
       /\ \A k \in 1..length(h, args) : Spine(h, args)[k] \in OfKind(h, kind, "data")
  BY ArgsAreData
<1>15. Known(h, lst)
  <2>1. CASE n < length(h, args)
    <3>1. n + 1 \in 1..length(h, args) /\ lst = Spine(h, args)[n + 1]
      BY <1>4, <1>9, <1>14, <2>1 DEF length
    <3>2. IsOf(h, kind, lst, "data")
      BY <1>14, <3>1 DEF IsOf, OfKind
    <3> QED
      BY <1>2, <3>2, OfKindKnown
  <2>2. CASE ~(n < length(h, args))
    <3>1. lst = End(h, args)
      BY <1>9, <2>2 DEF length
    <3>2. Known(h, args) /\ Spine(h, args) \in Seq(Made(h))
      BY <1>1, <1>2, OfKindKnown, SpineTyped
    <3> QED
      BY <1>1, <3>1, <3>2, EndKnown
  <2> QED
    BY <2>1, <2>2
<1>16. h1 \in Heaps /\ Known(h1, lst) /\ Known(h1, nil) /\ IsOf(h1, k1, nil, "data")
  <2>1. h1 \in Heaps
    BY <1>13 DEF Laid
  <2>2. h.fresh <= h1.fresh
    BY <1>13 DEF Extends_
  <2> QED
    BY <1>2, <1>15, <2>1, <2>2, KnownKept, SymbolsKnown DEF IsOf
<1>17. Fits(h1, k1, r1, o1, e, nil, "data", nil)
  <2>1. Len(e) = 1 /\ e[1] = lst /\ e \in Seq(Objects)
    BY <1>6, <1>8, <1>11, <1>16 DEF Known
  <2> QED
    BY <1>12, <1>16, <2>1 DEF Fits, Kinds, Listed
<1>18. PICK k2, r2, o2 : OneMore(h1, k1, r1, o1, lst, nil, "data", nil, h2, k2, r2, o2)
  BY <1>6, <1>8, <1>13, <1>17, PushOne DEF Single
<1>19. /\ Laid(h2, k2, r2, o2)
       /\ Extends_(h1, k1, r1, o1, h2, k2, r2, o2)
       /\ Made(h2) = Made(h1) \cup {w}
       /\ h2.cdr[w] = nil /\ k2[w] = "data"
  BY <1>8, <1>18 DEF OneMore
<1>20. h2 \in Heaps /\ w \in Made(h2) /\ w \notin Made(h1) /\ w \notin Made(h)
  <2>1. h2 \in Heaps /\ w \in Made(h2)
    BY <1>19 DEF Laid
  <2>2. w \notin Made(h1) /\ Made(h) \subseteq Made(h1)
    BY <1>8, <1>12, <1>13 DEF Made, Extends_
  <2> QED
    BY <2>1, <2>2
<1>21. Extends_(h, kind, rank, owner, h2, k2, r2, o2)
  <2>1. h.fresh <= h2.fresh
    BY <1>2, <1>4, <1>12
  <2> QED
    BY <1>13, <1>19, <2>1 DEF Extends_
<1>22. n # 0 => q \in Made(h) /\ kind[q] = "data" /\ k2[q] = "data" /\ q \in Made(h2) /\ q \in Pairs
  <2> SUFFICES ASSUME n # 0
               PROVE  q \in Made(h) /\ kind[q] = "data" /\ k2[q] = "data" /\ q \in Made(h2) /\ q \in Pairs
    OBVIOUS
  <2>1. n \in 1..length(h, args)
    BY <1>4, <1>14
  <2>2. q \in OfKind(h, kind, "data")
    BY <1>14, <2>1
  <2> QED
    BY <1>2, <1>21, <2>2, NotPairs DEF OfKind, Extends_
\* The last argument is linked to the wrapping pair.
<1>23. /\ Laid(h3, k2, r2, o2) /\ Made(h3) = Made(h2)
       /\ h3.fresh = h2.fresh /\ h3.car = h2.car
       /\ n # 0 => h3.cdr[q] = w
       /\ \A p \in Pairs : n = 0 \/ p # q => h3.cdr[p] = h2.cdr[p]
  <2>1. CASE n = 0
    BY <1>10, <1>19, <2>1
  <2>2. CASE n # 0
    <3>1. h3 = SetCdr(h2, q, w)
      BY <1>10, <2>2
    <3>2. IsOf(h2, k2, w, "data")
      BY <1>19, <1>20 DEF IsOf
    <3>3. Known(h2, w) /\ w \in Objects
      BY <1>20, <3>2, OfKindKnown DEF Known
    <3> HIDE DEF q
    <3>4. Laid(h3, k2, r2, o2) /\ Made(h3) = Made(h2)
      BY <1>19, <1>22, <2>2, <3>1, <3>2, <3>3, SetCdrKeeps
    <3>5. h3.fresh = h2.fresh /\ h3.car = h2.car /\ h3.cdr[q] = w
          /\ \A p \in Pairs : p # q => h3.cdr[p] = h2.cdr[p]
      BY <1>20, <1>22, <2>2, <3>1, <3>3, SetCdrFacts
    <3> QED
      BY <2>2, <3>4, <3>5
  <2> QED
    BY <2>1, <2>2
<1>24. Made(h) \subseteq Pairs /\ w \in Pairs
  BY <1>2, <1>20, NotPairs
<1> HIDE DEF q
<1>25. Kept(h, kind, rank, owner, h3, k2, r2, o2)
  <2> SUFFICES ASSUME NEW p \in Made(h), kind[p] # "data"
               PROVE  /\ p \in Made(h3) /\ h3.car[p] = h.car[p] /\ h3.cdr[p] = h.cdr[p]
                      /\ k2[p] = kind[p] /\ r2[p] = rank[p] /\ o2[p] = owner[p]
    BY <1>21, <1>23 DEF Kept, Extends_
  <2>1. n = 0 \/ p # q
    BY <1>22
  <2> QED
    BY <1>21, <1>23, <1>24, <2>1 DEF Extends_
<1>26. ASSUME NEW p \in Made(h2), p \notin Made(h)
       PROVE  k2[p] \in {"name", "data"}
  <2>1. CASE p = w
    BY <1>19, <2>1
  <2>2. CASE p # w
    BY <1>13, <1>19, <1>26, <2>2 DEF Extends_
  <2> QED
    BY <2>1, <2>2
<1>27. OfKind(h3, k2, "env") = OfKind(h, kind, "env")
  BY <1>21, <1>23, <1>26 DEF OfKind, Extends_
<1>28. DataKept(h, kind, h3, k2, {})
  BY <1>21, <1>23 DEF DataKept, OfKind, Extends_
<1>29. IsOf(h3, k2, h.fresh, "name") /\ Size(r2, h.fresh) = n + 1
  <2>1. h.fresh # nil /\ h.fresh \in Made(h1) /\ k1[h.fresh] = "name"
    <3>1. h.fresh \in Made(h1)
      BY <1>2, <1>4, <1>12 DEF Made
    <3> QED
      BY <1>13, <1>16, <3>1, NotPairs DEF IsOf
  <2> QED
    BY <1>13, <1>19, <1>23, <2>1 DEF IsOf, Size, Extends_
<1>30. w \in OfKind(h3, k2, "data") /\ h3.cdr[w] = nil
  <2>1. n = 0 \/ w # q
    BY <1>20, <1>22
  <2> QED
    BY <1>19, <1>20, <1>23, <1>24, <2>1 DEF OfKind
<1>31. \A p \in Made(h) : n = 0 \/ p # q => h3.cdr[p] = h.cdr[p]
  BY <1>21, <1>23, <1>24 DEF Extends_
<1>32. \A p \in Made(h) : h3.car[p] = h.car[p]
  BY <1>21, <1>23 DEF Extends_
<1> QED
  BY <1>5, <1>32, <1>20, <1>23, <1>25, <1>27, <1>28, <1>29, <1>30, <1>31 DEF q

\* What is kept twice is kept.
LEMMA KeptTwice ==
  ASSUME NEW h, NEW kind, NEW rank, NEW owner, NEW h1, NEW k1, NEW r1, NEW o1,
         NEW h2, NEW k2, NEW r2, NEW o2,
         h \in Heaps, h1 \in Heaps, h2 \in Heaps,
         Kept(h, kind, rank, owner, h1, k1, r1, o1), Kept(h1, k1, r1, o1, h2, k2, r2, o2)
  PROVE  Kept(h, kind, rank, owner, h2, k2, r2, o2)
<1>1. h.fresh <= h2.fresh
  BY DEF Kept, Heaps
<1> QED
  BY <1>1 DEF Kept

\* After a first part that makes no environment, the second makes the new one.
LEMMA CallAfter ==
  ASSUME NEW h, NEW kind, NEW rank, NEW owner, NEW h1, NEW k1, NEW r1, NEW o1,
         h \in Heaps, h1 \in Heaps,
         Kept(h, kind, rank, owner, h1, k1, r1, o1),
         OfKind(h1, k1, "env") = OfKind(h, kind, "env"),
         DataKept(h, kind, h1, k1, {}),
         NEW env, NEW R1, NEW R, \A p \in Made(h) : p \in R1 => p \in R,
         Untouched(h, h1, R),
         NEW h2, CallDone(h1, k1, r1, o1, env, R1, h2)
  PROVE  CallDone(h, kind, rank, owner, env, R, h2)
<1>1. PICK k2, r2, o2 :
        /\ Laid(h2, k2, r2, o2)
        /\ Kept(h1, k1, r1, o1, h2, k2, r2, o2)
        /\ EnvAdded(h1, k1, env, h2, k2)
        /\ DataKept(h1, k1, h2, k2, R1)
        /\ Untouched(h1, h2, R1)
  BY DEF CallDone
<1>2. Kept(h, kind, rank, owner, h2, k2, r2, o2)
  BY <1>1, KeptTwice DEF Laid
<1>3. EnvAdded(h, kind, env, h2, k2)
  <2>1. Made(h) \subseteq Made(h1)
    BY DEF Kept, Made, Heaps
  <2> QED
    BY <1>1, <2>1 DEF EnvAdded
<1>4. DataKept(h, kind, h2, k2, R)
  BY <1>1 DEF DataKept, OfKind
<1>5. Untouched(h, h2, R)
  <2>1. Made(h) \subseteq Made(h1)
    BY DEF Kept, Made, Heaps
  <2> QED
    BY <1>1, <2>1 DEF Untouched
<1> QED
  BY <1>1, <1>2, <1>3, <1>4, <1>5 DEF CallDone

\* extend_environment makes two pairs, fixup_varargs one for each name and two.
LEMMA FreshAfter ==
  ASSUME NEW h, NEW xs, NEW vs, NEW env
  PROVE  ExtendEnvironment(h, xs, vs, env).fresh = h.fresh + 1 + 1
<1> DEFINE e1 == <<xs>>
           h1 == Push(h, e1, vs)
           e2 == <<h.fresh>>
           h2 == Push(h1, e2, env)
<1>1. Len(e1) = 1 /\ Len(e2) = 1
  OBVIOUS
<1> HIDE DEF e1, e2
<1>2. h1.fresh = h.fresh + 1
  BY <1>1 DEF Push
<1> HIDE DEF h1
<1>3. h2.fresh = h1.fresh + 1
  BY <1>1 DEF Push
<1> HIDE DEF h2
<1>4. ExtendEnvironment(h, xs, vs, env) = h2
  BY DEF ExtendEnvironment, h1, h2, e1, e2
<1> QED
  BY <1>2, <1>3, <1>4

\* fixup_varargs makes no more pairs than there are numbers for.
LEMMA FreshFixed ==
  ASSUME NEW h, NEW kind, NEW rank, NEW owner, NEW i, NEW env, NEW args, NEW b, NEW m,
         Applicable(h, kind, rank, owner, i, env, args, b, m),
         NEW fixed, fixed = FixupVarargs(h, procedure_parameters(i), args)
  PROVE  fixed.heap.fresh \in Nat
<1> DEFINE e1 == Append(Formals[i].names, Tail_(i))
           h1 == Push(h, e1, nil)
           n  == Len(Formals[i].names)
           e2 == <<ListTail(h, args, n)>>
           h2 == Push(h1, e2, nil)
           h3 == IF n = 0 THEN h2 ELSE SetCdr(h2, Spine(h, args)[n], h1.fresh)
<1>1. h.fresh \in Nat /\ i \in 1..Len(Formals)
  BY DEF Applicable, Laid, Heaps
<1>2. Elements(h, procedure_parameters(i)) = Formals[i].names /\ End(h, procedure_parameters(i)) = Tail_(i)
  BY ParametersSpine DEF Applicable
<1>3. fixed.heap = h3
  BY <1>2 DEF FixupVarargs
<1>4. Len(e1) \in Nat /\ Len(e2) = 1
  BY <1>1, FormalsTyped
<1> HIDE DEF e1, e2
<1>5. h1.fresh = h.fresh + Len(e1) /\ h2.fresh = h1.fresh + Len(e2) /\ h3.fresh = h2.fresh
  BY DEF Push, SetCdr
<1> HIDE DEF h1, h2, h3
<1> QED
  BY <1>1, <1>3, <1>4, <1>5

\* A call with a rest parameter, which becomes the list of the arguments beyond
\* the others.
LEMMA RestCall ==
  ASSUME NEW h, NEW kind, NEW rank, NEW owner, NEW i, NEW env, NEW args, NEW b, NEW m,
         Applicable(h, kind, rank, owner, i, env, args, b, m),
         Tail_(i) # nil,
         NEW n, n = Len(Formals[i].names), length(h, args) >= n,
         NEW fixed, fixed = FixupVarargs(h, procedure_parameters(i), args),
         NEW h2, h2 = ExtendEnvironment(fixed.heap, fixed.vars, fixed.vals, env),
         h2.fresh <= MaxPair + 1
  PROVE  CallDone(h, kind, rank, owner, env, Taken(b, n), h2)
<1>1. /\ Laid(h, kind, rank, owner) /\ IsOf(h, kind, env, "env") /\ IsOf(h, kind, args, "data")
      /\ UsesApply \/ NewArgs(h, kind, args, b, m)
      /\ h \in Heaps
  BY DEF Applicable, Laid
<1> DEFINE h1 == fixed.heap
           q == Spine(h, args)[n]
<1>2. h1.fresh \in Nat
  BY FreshFixed
<1>3. h1.fresh + 2 <= MaxPair + 1 /\ h1.fresh <= MaxPair + 1
  <2>1. h2.fresh = h1.fresh + 1 + 1
    BY FreshAfter
  <2>2. MaxPair \in Nat
    BY BoundsAssumption
  <2> QED
    BY <1>2, <2>1, <2>2
<1>4. PICK k1, r1, o1, w :
        /\ Laid(h1, k1, r1, o1)
        /\ Kept(h, kind, rank, owner, h1, k1, r1, o1)
        /\ OfKind(h1, k1, "env") = OfKind(h, kind, "env")
        /\ DataKept(h, kind, h1, k1, {})
        /\ IsOf(h1, k1, fixed.vars, "name") /\ Size(r1, fixed.vars) = n + 1
        /\ w \in OfKind(h1, k1, "data") /\ w \notin Made(h)
        /\ h1.cdr[w] = nil
        /\ n # 0 => h1.cdr[q] = w
        /\ \A p \in Made(h) : h1.car[p] = h.car[p]
        /\ \A p \in Made(h) : n = 0 \/ p # q => h1.cdr[p] = h.cdr[p]
        /\ fixed.vals = IF n = 0 THEN w ELSE args
  BY <1>3, FixupKeeps
<1>5. n \in Nat
  BY FormalsTyped DEF Applicable
<1>6. h1 \in Heaps /\ nil \notin Made(h1) /\ h1.fresh \in Nat /\ w \in Made(h1) /\ k1[w] = "data"
  BY <1>4, NotPairs DEF Laid, Heaps, OfKind
<1> DEFINE vals == fixed.vals
           xs == fixed.vars
<1> HIDE DEF h1, q, vals, xs
<1>7. IsOf(h1, k1, env, "env")
  <2>1. CASE env = nil
    BY <2>1 DEF IsOf
  <2>2. CASE env # nil
    BY <1>1, <1>4, <2>2 DEF IsOf, Kept
  <2> QED
    BY <2>1, <2>2
<1>8. \E R, left : CanTake(h1, k1, r1, xs, vals, R, left) /\ \A p \in Made(h) : p \in R => p \in Taken(b, n)
  <2>1. CASE UsesApply
    <3>1. IsOf(h1, k1, args, "data") /\ IsOf(h1, k1, w, "data")
      <4>1. args # nil => args \in OfKind(h, kind, "data")
        BY <1>1 DEF IsOf, OfKind
      <4>2. args # nil => args \in OfKind(h1, k1, "data")
        BY <1>4, <4>1 DEF DataKept
      <4> QED
        BY <1>6, <4>2 DEF IsOf, OfKind
    <3>2. IsOf(h1, k1, vals, "data")
      BY <1>4, <3>1 DEF vals
    <3>3. CanTake(h1, k1, r1, xs, vals, {}, {})
      BY <2>1, <3>2 DEF CanTake
    <3> QED
      BY <3>3
  <2>2. CASE ~UsesApply
    <3>1. NewArgs(h, kind, args, b, m)
      BY <1>1, <2>2
    <3>2. Spine(h, args) = [k \in 1..m |-> b + k - 1] /\ length(h, args) = m
      BY <1>1, <3>1, NewArgsSpine
    <3>3. /\ b \in Nat /\ m \in Nat /\ m >= n
          /\ (\A k \in 1..m : /\ b + k - 1 \in Made(h) /\ kind[b + k - 1] = "data"
                              /\ h.cdr[b + k - 1] = IF k = m THEN nil ELSE b + k)
          /\ args = IF m = 0 THEN nil ELSE b
      BY <3>1, <3>2 DEF NewArgs, Block
    <3>4. n # 0 => q = b + n - 1
      BY <1>5, <3>2, <3>3 DEF q
    \* The first n arguments, in their places, and then the pair with the rest.
    <3>5. \A k \in 1..n : /\ b + k - 1 \in Made(h) /\ b + k - 1 \in Made(h1)
                          /\ k1[b + k - 1] = "data" /\ b + k - 1 # w
                          /\ h1.cdr[b + k - 1] = IF k = n THEN w ELSE b + k
      <4> SUFFICES ASSUME NEW k \in 1..n
                   PROVE  /\ b + k - 1 \in Made(h) /\ b + k - 1 \in Made(h1)
                          /\ k1[b + k - 1] = "data" /\ b + k - 1 # w
                          /\ h1.cdr[b + k - 1] = IF k = n THEN w ELSE b + k
        OBVIOUS
      <4>1. k \in 1..m /\ (k # n => k # m)
        BY <1>5, <3>3
      <4>2. b + k - 1 \in OfKind(h, kind, "data")
        BY <3>3, <4>1 DEF OfKind
      <4>3. b + k - 1 \in OfKind(h1, k1, "data")
        BY <1>4, <4>2 DEF DataKept
      <4>4. b + k - 1 \in Made(h) /\ b + k - 1 \in Made(h1) /\ k1[b + k - 1] = "data" /\ b + k - 1 # w
        BY <1>4, <4>2, <4>3 DEF OfKind
      <4>5. CASE k = n
        <5>1. n # 0 /\ b + k - 1 = q
          BY <3>4, <4>5
        <5> QED
          BY <1>4, <4>4, <4>5, <5>1
      <4>6. CASE k # n
        <5>3. n # 0 /\ b + k - 1 # b + n - 1
          BY <1>5, <3>3, <4>6
        <5>1. n # 0 /\ b + k - 1 # q
          BY <3>4, <5>3
        <5>2. h1.cdr[b + k - 1] = h.cdr[b + k - 1]
          BY <1>4, <4>4, <5>1
        <5> QED
          BY <3>3, <4>1, <4>4, <4>6, <5>2
      <4> QED
        BY <4>5, <4>6
    <3> DEFINE R == {b + k - 1 : k \in 1..n} \cup {w}
               left == [p \in R |-> IF p = w THEN 1 ELSE b + n - p + 1]
    <3>6. R \in SUBSET Made(h1) /\ \A p \in R : k1[p] = "data"
      BY <1>6, <3>5
    <3>7. left[w] = 1
      OBVIOUS
    <3>8. \A k \in 1..n : b + k - 1 \in R /\ left[b + k - 1] = n - k + 1 + 1
      <4> SUFFICES ASSUME NEW k \in 1..n PROVE b + k - 1 \in R /\ left[b + k - 1] = n - k + 1 + 1
        OBVIOUS
      <4>1. b + n - (b + k - 1) + 1 = n - k + 1 + 1
        BY <1>5, <3>3
      <4> QED
        BY <3>5, <4>1
    <3>9. DOMAIN left = R
      OBVIOUS
    <3> HIDE DEF left
    <3>10. left \in [R -> Made(h1)]
      <4>1. left = [p \in R |-> left[p]]
        BY DEF left
      <4>2. 1 \in Made(h1)
        BY <1>6 DEF Made
      <4>3. ASSUME NEW k \in 1..n PROVE left[b + k - 1] \in Made(h1)
        <5>1. 1 \in 1..n /\ n \in 1..n
          BY <1>5
        <5>2. b + 1 - 1 \in Made(h) /\ b + n - 1 \in Made(h)
          BY <3>5, <5>1
        <5>3. b >= 1 /\ b + n - 1 <= h.fresh - 1 /\ h.fresh \in Nat
          BY <1>1, <1>5, <3>3, <5>2 DEF Made, Heaps
        <5>4. n + 1 <= h1.fresh - 1
          <6>1. w \in 1..(h1.fresh - 1) /\ w \notin 1..(h.fresh - 1)
            BY <1>4, <1>6 DEF Made
          <6>2. n + 1 <= h.fresh
            BY <1>5, <3>3, <5>3
          <6>3. w \in Int /\ w >= h.fresh /\ w <= h1.fresh - 1
            BY <1>6, <5>3, <6>1
          <6> HIDE DEF R
          <6> QED
            BY <1>5, <1>6, <5>3, <6>2, <6>3
        <5>5. left[b + k - 1] \in 1..(n + 1)
          <6>1. n - k + 1 + 1 \in 1..(n + 1)
            BY <1>5
          <6> QED
            BY <3>8, <6>1
        <5> QED
          BY <1>5, <1>6, <5>4, <5>5 DEF Made
      <4>4. \A p \in R : left[p] \in Made(h1)
        BY <3>7, <4>2, <4>3
      <4> QED
        BY <4>1, <4>4
    <3>11. ASSUME NEW p \in R
           PROVE  /\ h1.cdr[p] = nil \/ h1.cdr[p] \in R
                  /\ left[p] = Size(left, h1.cdr[p]) + 1
      <4>1. CASE p = w
        BY <1>4, <3>7, <4>1 DEF Size
      <4>2. CASE p # w
        <5>1. PICK k \in 1..n : p = b + k - 1
          BY <4>2
        <5>2. CASE k = n
          <6>1. h1.cdr[p] = w /\ w # nil /\ w \in R
            BY <1>6, <3>5, <5>1, <5>2
          <6>2. left[p] = 1 + 1
            <7>1. n - n + 1 + 1 = 1 + 1
              BY <1>5
            <7> QED
              BY <3>8, <5>1, <5>2, <7>1
          <6> QED
            BY <3>7, <6>1, <6>2 DEF Size
        <5>3. CASE k # n
          <6>4. b \in Nat /\ k \in Nat
            BY <1>5, <3>3
          <6>5. b + (k + 1) - 1 = b + k
            BY <6>4
          <6>6. k + 1 \in 1..n
            BY <1>5, <5>3
          <6>1. k + 1 \in 1..n /\ b + (k + 1) - 1 = b + k
            BY <6>5, <6>6
          <6>2. h1.cdr[p] = b + k /\ b + k \in R /\ b + k \in Made(h1) /\ left[b + k] = n - (k + 1) + 1 + 1
            BY <3>5, <3>8, <5>1, <5>3, <6>1
          <6>3. left[p] = n - (k + 1) + 1 + 1 + 1
            <7>1. n - k + 1 + 1 = n - (k + 1) + 1 + 1 + 1
              BY <1>5
            <7> QED
              BY <3>8, <5>1, <7>1
          <6> QED
            BY <1>6, <6>2, <6>3 DEF Size
        <5> QED
          BY <5>2, <5>3
      <4> QED
        BY <4>1, <4>2
    <3>12. vals \in R /\ Size(left, vals) = n + 1
      <4>1. CASE n = 0
        BY <1>4, <1>6, <3>7, <4>1 DEF Size, vals
      <4>2. CASE n # 0
        <5>1. 1 \in 1..n /\ b + 1 - 1 = b /\ m # 0 /\ n - 1 + 1 + 1 = n + 1
          BY <1>5, <3>3, <4>2
        <5>2. vals = b /\ b \in R /\ b \in Made(h1) /\ left[b] = n + 1
          BY <1>4, <3>3, <3>5, <3>8, <4>2, <5>1 DEF vals
        <5> QED
          BY <1>6, <5>2 DEF Size
      <4> QED
        BY <4>1, <4>2
    <3>13. Size(r1, xs) = n + 1
      BY <1>4 DEF xs
    <3>14. \A p \in Made(h) : p \in R => p \in Taken(b, n)
      BY <1>4, <2>2 DEF Taken
    <3> HIDE DEF R
    <3>15. CanTake(h1, k1, r1, xs, vals, R, left)
      BY <2>2, <3>6, <3>10, <3>11, <3>12, <3>13 DEF CanTake
    <3> QED
      BY <3>14, <3>15
  <2> QED
    BY <2>1, <2>2
<1>9. PICK R, left : /\ CanTake(h1, k1, r1, xs, vals, R, left)
                     /\ \A p \in Made(h) : p \in R => p \in Taken(b, n)
  BY <1>8
<1>10. h2 = ExtendEnvironment(h1, xs, vals, env) /\ IsOf(h1, k1, xs, "name") /\ h1.fresh + 2 <= MaxPair + 1
  BY <1>3, <1>4 DEF h1, xs, vals
<1>11. CallDone(h1, k1, r1, o1, env, R, h2)
  BY <1>4, <1>7, <1>9, <1>10, EnterKeeps
<1>12. Untouched(h, h1, Taken(b, n))
  <2>1. CASE UsesApply
    BY <2>1 DEF Untouched
  <2>2. CASE ~UsesApply
    <3>1. NewArgs(h, kind, args, b, m)
      BY <1>1, <2>2
    <3>2. Spine(h, args) = [k \in 1..m |-> b + k - 1] /\ length(h, args) = m
      BY <1>1, <3>1, NewArgsSpine
    <3>3. m \in Nat /\ m >= n
      BY <3>1, <3>2 DEF NewArgs
    <3>4. n # 0 => q = b + n - 1 /\ n \in 1..n
      BY <1>5, <3>2, <3>3 DEF q
    <3>5. n # 0 => q \in Taken(b, n)
      BY <2>2, <3>4 DEF Taken
    <3> QED
      BY <1>4, <3>5 DEF Untouched
  <2> QED
    BY <2>1, <2>2
<1> QED
  BY <1>1, <1>4, <1>6, <1>9, <1>11, <1>12, CallAfter

\* The frame of a call, whatever the kind of its parameter list.
LEMMA BoundKeeps ==
  ASSUME NEW h, NEW kind, NEW rank, NEW owner, NEW i, NEW env, NEW args, NEW b, NEW m,
         Applicable(h, kind, rank, owner, i, env, args, b, m),
         NEW ps, ps = procedure_parameters(i),
         NEW fixed, fixed = FixupVarargs(h, ps, args),
         IF is_list(h, ps) THEN length(h, args) = length(h, ps)
                           ELSE length(h, args) >= length(h, ps),
         NEW h2, h2 = IF is_list(h, ps)
                      THEN ExtendEnvironment(h, ps, args, env)
                      ELSE ExtendEnvironment(fixed.heap, fixed.vars, fixed.vals, env),
         h2.fresh <= MaxPair + 1
  PROVE  CallDone(h, kind, rank, owner, env, Taken(b, Len(Formals[i].names)), h2)
<1> DEFINE n == Len(Formals[i].names)
<1>1. length(h, ps) = n /\ End(h, ps) = Tail_(i)
  BY ParametersSpine DEF Applicable
<1>2. is_list(h, ps) <=> Tail_(i) = nil
  BY <1>1 DEF is_list
<1>3. CASE Tail_(i) = nil
  <2>1. h2 = ExtendEnvironment(h, procedure_parameters(i), args, env) /\ length(h, args) = n
    BY <1>1, <1>2, <1>3
  <2>2. h.fresh \in Nat /\ MaxPair \in Nat
    BY BoundsAssumption DEF Applicable, Laid, Heaps
  <2>3. h.fresh + 2 <= MaxPair + 1
    <3>1. h2.fresh = h.fresh + 1 + 1
      BY <2>1, FreshAfter
    <3> QED
      BY <2>2, <3>1
  <2> HIDE DEF n
  <2> QED
    BY <1>3, <2>1, <2>3, ProperCall DEF n
<1>4. CASE Tail_(i) # nil
  <2>1. /\ h2 = ExtendEnvironment(fixed.heap, fixed.vars, fixed.vals, env) /\ length(h, args) >= n
        /\ fixed = FixupVarargs(h, procedure_parameters(i), args)
    BY <1>1, <1>2, <1>4
  <2> HIDE DEF n
  <2> QED
    BY <1>4, <2>1, RestCall DEF n
<1> QED
  BY <1>3, <1>4

\* What a call made on heap h has made of the whole state.
Called(h, kind, rank, owner, env, R, h2, es2, ds2) ==
  \E kind2, rank2, owner2 :
     /\ StateOK(h2, es2, ds2, kind2, rank2, owner2)
     /\ Kept(h, kind, rank, owner, h2, kind2, rank2, owner2)
     /\ EnvAdded(h, kind, env, h2, kind2)
     /\ Untouched(h, h2, R)

\* The pairs of the arguments beyond the first n.
Beyond(h, args, n) == {Spine(h, args)[k] : k \in (n + 1)..length(h, args)}

\* None of the m pairs from b on is in ds.
Unheld(ds, b, m) == UsesApply \/ \A k \in 1..m : b + k - 1 \notin ds

\* Nobody else holds the arguments that are taken.
LEMMA Applying ==
  ASSUME NEW h, NEW kind, NEW rank, NEW owner, NEW i, NEW env, NEW args, NEW b, NEW m,
         Applicable(h, kind, rank, owner, i, env, args, b, m),
         \A j \in 1..Len(Formals) : ParametersOK(h, kind, rank, owner, j),
         NEW es, es = OfKind(h, kind, "env"),
         NEW ds, ds \subseteq OfKind(h, kind, "data"),
         NEW n, n = Len(Formals[i].names), length(h, args) >= n,
         Unheld(ds, b, m),
         NEW h2, CallDone(h, kind, rank, owner, env, Taken(b, n), h2),
         NEW es2, es2 = es \cup {h2.fresh - 1},
         NEW ds2, ds2 = ds \cup Beyond(h, args, n)
  PROVE  Called(h, kind, rank, owner, env, Taken(b, n), h2, es2, ds2)
<1> DEFINE R == Taken(b, n)
<1>1. PICK k2, r2, o2 :
        /\ Laid(h2, k2, r2, o2)
        /\ Kept(h, kind, rank, owner, h2, k2, r2, o2)
        /\ EnvAdded(h, kind, env, h2, k2)
        /\ DataKept(h, kind, h2, k2, R)
        /\ Untouched(h, h2, R)
  BY DEF CallDone
<1>2. \A j \in 1..Len(Formals) : ParametersOK(h2, k2, r2, o2, j)
  <2>1. SameNames(h, kind, rank, owner, h2, k2, r2, o2)
    BY <1>1, KeptNames
  <2> QED
    BY <2>1, ParametersKept
<1>3. es2 = OfKind(h2, k2, "env")
  BY <1>1 DEF EnvAdded
<1>4. n \in Nat /\ h \in Heaps
  BY FormalsTyped DEF Applicable, Laid
<1>5. /\ length(h, args) \in Nat
      /\ \A k \in 1..length(h, args) : Spine(h, args)[k] \in OfKind(h, kind, "data")
  BY ArgsAreData
<1>6. CASE UsesApply
  <2>1. R = {}
    BY <1>6 DEF Taken
  <2>2. ds2 \subseteq OfKind(h, kind, "data")
    BY <1>4, <1>5 DEF Beyond
  <2>3. ds2 \subseteq OfKind(h2, k2, "data")
    BY <1>1, <2>1, <2>2 DEF DataKept
  <2> HIDE DEF R
  <2> QED
    BY <1>1, <1>2, <1>3, <2>3 DEF Called, StateOK, R
<1>7. CASE ~UsesApply
  <2>1. NewArgs(h, kind, args, b, m)
    BY <1>7 DEF Applicable
  <2>2. Spine(h, args) = [k \in 1..m |-> b + k - 1] /\ length(h, args) = m
    BY <1>4, <2>1, NewArgsSpine
  <2>3. b \in Nat /\ m \in Nat /\ n <= m
    BY <1>4, <2>1, <2>2 DEF NewArgs
  <2>4. R = {b + k - 1 : k \in 1..n}
    BY <1>7 DEF Taken
  <2>5. \A p \in ds : p \notin R
    <3>1. 1..n \subseteq 1..m
      BY <1>4, <2>3
    <3> QED
      BY <1>7, <2>4, <3>1 DEF Unheld
  <2>6. \A k \in (n + 1)..m : Spine(h, args)[k] \notin R /\ Spine(h, args)[k] \in OfKind(h, kind, "data")
    <3> SUFFICES ASSUME NEW k \in (n + 1)..m
                 PROVE  Spine(h, args)[k] \notin R /\ Spine(h, args)[k] \in OfKind(h, kind, "data")
      OBVIOUS
    <3>1. k \in 1..m
      BY <1>4, <2>3
    <3>2. Spine(h, args)[k] = b + k - 1
      BY <2>2, <3>1
    <3>3. \A l \in 1..n : b + l - 1 # b + k - 1
      <4> HIDE DEF R
      <4> SUFFICES ASSUME NEW l \in 1..n PROVE b + l - 1 # b + k - 1
        OBVIOUS
      <4>1. l \in Int /\ k \in Int /\ l < k
        BY <1>4, <2>3
      <4> QED
        BY <2>3, <4>1
    <3> QED
      BY <1>5, <2>2, <2>4, <3>1, <3>2, <3>3
  <2>7. ds2 \subseteq OfKind(h2, k2, "data")
    BY <1>1, <2>2, <2>5, <2>6 DEF DataKept, Beyond
  <2> HIDE DEF R
  <2> QED
    BY <1>1, <1>2, <1>3, <2>7 DEF Called, StateOK, R
<1> QED
  BY <1>6, <1>7

\* A list of data was consed in front of tail.
Consed(h, kind, rank, owner, vals, tail, h2, kind2, rank2, owner2) ==
  /\ Laid(h2, kind2, rank2, owner2)
  /\ Extends_(h, kind, rank, owner, h2, kind2, rank2, owner2)
  /\ \A j \in 1..Len(Formals) : ParametersOK(h2, kind2, rank2, owner2, j)
  /\ OfKind(h2, kind2, "env") = OfKind(h, kind, "env")
  /\ OfKind(h2, kind2, "data") = OfKind(h, kind, "data") \cup h.fresh..(h2.fresh - 1)
  /\ h2.fresh = h.fresh + Len(vals)
  /\ \A p \in h.fresh..(h2.fresh - 1) :
        p \in Made(h2) /\ h2.cdr[p] = IF p = h2.fresh - 1 THEN tail ELSE p + 1

\* Values can always be consed into data, as list_of_values and list do.
LEMMA ConsData ==
  ASSUME NEW h, NEW kind, NEW rank, NEW owner, Laid(h, kind, rank, owner),
         \A j \in 1..Len(Formals) : ParametersOK(h, kind, rank, owner, j),
         NEW vals \in Seq(Vals), NEW tail, IsOf(h, kind, tail, "data"),
         NEW h2, h2 = Push(h, vals, tail), h2.fresh <= MaxPair + 1
  PROVE  \E kind2, rank2, owner2 : Consed(h, kind, rank, owner, vals, tail, h2, kind2, rank2, owner2)
<1>1. h \in Heaps /\ h.fresh \in Nat \ {0} /\ h.fresh \in 1..(MaxPair + 1)
  BY DEF Laid, Heaps
<1>2. h2.fresh = h.fresh + Len(vals) /\ Len(vals) \in Nat
  BY DEF Push
<1>3. vals \in Seq(Objects) /\ \A k \in 1..Len(vals) : Known(h, vals[k])
  <2>1. \A k \in 1..Len(vals) : vals[k] \in Vals
    OBVIOUS
  <2> QED
    BY <1>1, <2>1, SymbolsKnown DEF Objects
<1>4. Known(h, tail) /\ tail \in Objects
  BY <1>1, OfKindKnown DEF Known
<1>5. Fits(h, kind, rank, owner, vals, tail, "data", nil)
  BY <1>2, <1>3, <1>4 DEF Fits, Kinds, Listed
<1> DEFINE k2 == PushedKind(h, kind, h2, "data")
           r2 == PushedRank(h, rank, h2, tail, "data")
           o2 == PushedOwner(h, owner, h2, nil)
<1>6. /\ Laid(h2, k2, r2, o2)
      /\ Extends_(h, kind, rank, owner, h2, k2, r2, o2)
      /\ \A p \in Made(h2) \ Made(h) : k2[p] = "data"
  BY <1>5, PushKeeps
<1> HIDE DEF k2, r2, o2
<1>7. \A j \in 1..Len(Formals) : ParametersOK(h2, k2, r2, o2, j)
  <2>1. SameNames(h, kind, rank, owner, h2, k2, r2, o2)
    BY <1>6 DEF Extends_, SameNames
  <2> QED
    BY <2>1, ParametersKept
<1>8. \A p : p \in Made(h2) \ Made(h) <=> p \in h.fresh..(h2.fresh - 1)
  BY <1>1, <1>2 DEF Made
<1>9. Made(h) \subseteq Made(h2) /\ \A p \in Made(h) : k2[p] = kind[p]
  BY <1>6 DEF Extends_
<1>10. OfKind(h2, k2, "env") = OfKind(h, kind, "env")
  BY <1>6, <1>9 DEF OfKind
<1>11. OfKind(h2, k2, "data") = OfKind(h, kind, "data") \cup h.fresh..(h2.fresh - 1)
  BY <1>6, <1>8, <1>9 DEF OfKind
<1>12. \A p \in Made(h2) \ Made(h) : h2.cdr[p] = IF p = h2.fresh - 1 THEN tail ELSE p + 1
  BY <1>1, <1>2, <1>3, <1>4, PushFacts
<1>13. Consed(h, kind, rank, owner, vals, tail, h2, k2, r2, o2)
  BY <1>2, <1>6, <1>7, <1>8, <1>10, <1>11, <1>12 DEF Consed
<1> QED
  BY <1>13

\* The arguments of an ordinary call are new.
LEMMA ConsedArgs ==
  ASSUME NEW h \in Heaps, NEW kind, NEW rank, NEW owner, NEW vals \in Seq(Vals),
         NEW h2, NEW kind2, NEW rank2, NEW owner2,
         Consed(h, kind, rank, owner, vals, nil, h2, kind2, rank2, owner2),
         NEW args, args = ListOn(h, vals, nil)
  PROVE  NewArgs(h2, kind2, args, h.fresh, Len(vals))
<1> DEFINE b == h.fresh
           m == Len(vals)
<1>1. b \in Nat /\ m \in Nat /\ h2.fresh = b + m
  BY DEF Heaps, Consed
<1>2. \A p \in b..(h2.fresh - 1) : /\ p \in Made(h2) /\ kind2[p] = "data"
                                   /\ h2.cdr[p] = IF p = h2.fresh - 1 THEN nil ELSE p + 1
  BY DEF Consed, OfKind
<1>3. args = IF m = 0 THEN nil ELSE b
  BY DEF ListOn
<1> HIDE DEF b, m
<1>4. ASSUME NEW k \in 1..m
      PROVE  /\ b + k - 1 \in Made(h2) /\ kind2[b + k - 1] = "data"
             /\ h2.cdr[b + k - 1] = IF k = m THEN nil ELSE b + k
  <2>1. b + k - 1 \in b..(h2.fresh - 1) /\ (b + k - 1 = h2.fresh - 1 <=> k = m) /\ b + k - 1 + 1 = b + k
    BY <1>1
  <2> QED
    BY <1>2, <2>1
<1>5. Block(h2, b, m, nil)
  BY <1>4 DEF Block
<1> QED
  BY <1>1, <1>3, <1>4, <1>5 DEF NewArgs, b, m

\* A call consed its arguments and then bound them: Call and Apply.
LEMMA CallStep ==
  ASSUME NEW kind, NEW rank, NEW owner, StateOK(heap, envs, held, kind, rank, owner),
         NEW env \in envs, NEW i \in 1..Len(Formals), NEW vals \in Seq(Vals),
         NEW tail, tail = nil \/ (UsesApply /\ tail \in held),
         NEW h, h = Push(heap, vals, tail), h.fresh <= MaxPair + 1,
         NEW args, args = ListOn(heap, vals, tail),
         ApplyProcedure(h, i, env, args)
  PROVE  Called(heap, kind, rank, owner, env, {}, heap', envs', held')
<1> DEFINE b == heap.fresh
           m == Len(vals)
           n == Len(Formals[i].names)
           ps == procedure_parameters(i)
           fixed == FixupVarargs(h, ps, args)
<1>1. /\ Laid(heap, kind, rank, owner) /\ heap \in Heaps
      /\ \A j \in 1..Len(Formals) : ParametersOK(heap, kind, rank, owner, j)
      /\ envs = OfKind(heap, kind, "env") /\ held \subseteq OfKind(heap, kind, "data")
  BY DEF StateOK, Laid
<1>2. IsOf(heap, kind, tail, "data")
  BY <1>1 DEF IsOf, OfKind
<1>3. PICK k1, r1, o1 : Consed(heap, kind, rank, owner, vals, tail, h, k1, r1, o1)
  BY <1>1, <1>2, ConsData
<1>4. /\ Laid(h, k1, r1, o1) /\ h \in Heaps
      /\ Extends_(heap, kind, rank, owner, h, k1, r1, o1)
      /\ \A j \in 1..Len(Formals) : ParametersOK(h, k1, r1, o1, j)
      /\ OfKind(h, k1, "env") = OfKind(heap, kind, "env")
      /\ OfKind(h, k1, "data") = OfKind(heap, kind, "data") \cup b..(h.fresh - 1)
      /\ h.fresh = b + m
      /\ \A p \in b..(h.fresh - 1) : p \in Made(h)
  BY <1>3 DEF Consed, Laid
<1>5. b \in Nat /\ m \in Nat
  BY <1>1 DEF Heaps
<1>6. IsOf(h, k1, env, "env")
  BY <1>1, <1>4 DEF IsOf, OfKind
<1>7. IsOf(h, k1, args, "data")
  <2>1. CASE vals = << >>
    <3>1. args = tail
      BY <2>1 DEF ListOn
    <3> QED
      BY <1>2, <1>4, <3>1 DEF IsOf, Extends_
  <2>2. CASE vals # << >>
    <3>1. args = b /\ b \in b..(h.fresh - 1)
      BY <1>4, <1>5, <2>2 DEF ListOn
    <3> QED
      BY <1>4, <3>1 DEF IsOf, OfKind
  <2> QED
    BY <2>1, <2>2
<1>8. UsesApply \/ NewArgs(h, k1, args, b, m)
  BY <1>1, <1>3, ConsedArgs
<1> HIDE DEF b, m, n, ps, fixed
<1>9. Applicable(h, k1, r1, o1, i, env, args, b, m)
  BY <1>4, <1>6, <1>7, <1>8 DEF Applicable
<1>10. /\ IF is_list(h, ps) THEN length(h, args) = length(h, ps)
                            ELSE length(h, args) >= length(h, ps)
       /\ heap' = (IF is_list(h, ps)
                   THEN ExtendEnvironment(h, ps, args, env)
                   ELSE ExtendEnvironment(fixed.heap, fixed.vars, fixed.vals, env))
       /\ heap'.fresh <= MaxPair + 1
       /\ envs' = envs \cup {heap'.fresh - 1}
       /\ held' = held \cup {Spine(h, args)[k] : k \in (length(h, ps) + 1)..length(h, args)}
  BY DEF ApplyProcedure, ps, fixed
<1>11. length(h, ps) = n
  BY <1>4, ParametersSpine DEF ps, n
<1>12. CallDone(h, k1, r1, o1, env, Taken(b, n), heap')
  BY <1>9, <1>10, BoundKeeps DEF ps, fixed, n
<1>13. held \subseteq OfKind(h, k1, "data") /\ envs = OfKind(h, k1, "env")
  BY <1>1, <1>4
<1>14. \A p \in Made(heap) : \A k \in Nat \ {0} : b + k - 1 # p
  BY <1>5 DEF Made, b
<1>15. \A k \in 1..m : b + k - 1 \notin held
  <2>1. held \subseteq Made(heap)
    BY <1>1 DEF OfKind
  <2>2. 1..m \subseteq Nat \ {0}
    BY <1>5
  <2> QED
    BY <1>14, <2>1, <2>2
<1>16. length(h, args) >= n /\ n \in Nat
  <2>1. length(h, args) \in Nat /\ n \in Nat
    BY <1>9, ArgsAreData, FormalsTyped DEF n
  <2> QED
    BY <1>10, <1>11, <2>1
<1>17. Called(h, k1, r1, o1, env, Taken(b, n), heap', envs', held')
  <2>1. held' = held \cup Beyond(h, args, n)
    BY <1>10, <1>11 DEF Beyond
  <2>4. Unheld(held, b, m)
    BY <1>15 DEF Unheld
  <2>2. envs' = envs \cup {heap'.fresh - 1} /\ \A j \in 1..Len(Formals) : ParametersOK(h, k1, r1, o1, j)
    BY <1>4, <1>10
  <2>3. n = Len(Formals[i].names)
    BY DEF n
  <2> QED
    BY <1>9, <1>12, <1>13, <1>16, <2>1, <2>2, <2>3, <2>4, Applying
<1>18. PICK k2, r2, o2 :
        /\ StateOK(heap', envs', held', k2, r2, o2)
        /\ Kept(h, k1, r1, o1, heap', k2, r2, o2)
        /\ EnvAdded(h, k1, env, heap', k2)
        /\ Untouched(h, heap', Taken(b, n))
  BY <1>17 DEF Called
<1>19. Kept(heap, kind, rank, owner, heap', k2, r2, o2)
  <2>1. Kept(heap, kind, rank, owner, h, k1, r1, o1)
    BY <1>4 DEF Kept, Extends_
  <2> QED
    BY <1>1, <1>4, <1>18, <2>1, KeptTwice DEF StateOK, Laid
<1>20. EnvAdded(heap, kind, env, heap', k2)
  BY <1>4, <1>18 DEF EnvAdded, Extends_
<1>21. Untouched(heap, heap', {})
  <2>1. \A p \in Made(heap) : p \notin Taken(b, n)
    BY <1>14, <1>16 DEF Taken
  <2> QED
    BY <1>4, <1>18, <2>1 DEF Untouched, Extends_
<1> QED
  BY <1>18, <1>19, <1>20, <1>21 DEF Called

-----------------------------------------------------------------------------
(* The other operations.                                                    *)

\* A state stays laid out when no name and no parameter list is written.
LEMMA Written ==
  ASSUME NEW h, NEW es, NEW ds, NEW kind, NEW rank, NEW owner,
         StateOK(h, es, ds, kind, rank, owner),
         NEW h2, Laid(h2, kind, rank, owner), Made(h2) = Made(h),
         \A q \in Made(h) : kind[q] \in {"name", "text"} =>
            h2.car[q] = h.car[q] /\ h2.cdr[q] = h.cdr[q]
  PROVE  StateOK(h2, es, ds, kind, rank, owner)
<1>1. SameNames(h, kind, rank, owner, h2, kind, rank, owner)
  BY DEF SameNames
<1>2. \A j \in 1..Len(Formals) : ParametersOK(h2, kind, rank, owner, j)
  BY <1>1, ParametersKept DEF StateOK
<1> QED
  BY <1>2 DEF StateOK, OfKind

\* Writing the car of a value or of a pair of data.
LEMMA CarWritten ==
  ASSUME NEW h, NEW es, NEW ds, NEW kind, NEW rank, NEW owner,
         StateOK(h, es, ds, kind, rank, owner),
         NEW p \in Made(h), kind[p] \in {"value", "data"}, NEW o \in Vals,
         NEW h2, h2 = SetCar(h, p, o)
  PROVE  StateOK(h2, es, ds, kind, rank, owner)
<1>1. Laid(h, kind, rank, owner) /\ h \in Heaps
  BY DEF StateOK, Laid
<1>2. Known(h, o) /\ o \in Objects /\ p \in Pairs /\ Made(h) \subseteq Pairs
  BY <1>1, SymbolsKnown, NotPairs DEF Objects
<1>3. Laid(h2, kind, rank, owner) /\ Made(h2) = Made(h)
  BY <1>1, <1>2, SetCarKeeps
<1>4. h2.cdr = h.cdr /\ \A q \in Pairs : q # p => h2.car[q] = h.car[q]
  BY <1>1, <1>2, SetCarFacts
<1>5. \A q \in Made(h) : kind[q] \in {"name", "text"} => h2.car[q] = h.car[q] /\ h2.cdr[q] = h.cdr[q]
  BY <1>2, <1>4
<1> QED
  BY <1>3, <1>5, Written

\* (set-cdr! p o) on the user's data.
LEMMA CdrWritten ==
  ASSUME NEW h, NEW es, NEW ds, NEW kind, NEW rank, NEW owner,
         StateOK(h, es, ds, kind, rank, owner),
         NEW p \in ds, NEW o \in ds \cup {nil},
         NEW h2, h2 = SetCdr(h, p, o)
  PROVE  StateOK(h2, es, ds, kind, rank, owner)
<1>1. Laid(h, kind, rank, owner) /\ h \in Heaps /\ ds \subseteq OfKind(h, kind, "data")
  BY DEF StateOK, Laid
<1>2. p \in Made(h) /\ kind[p] = "data" /\ IsOf(h, kind, o, "data")
  BY <1>1 DEF OfKind, IsOf
<1>3. Known(h, o) /\ o \in Objects /\ p \in Pairs /\ Made(h) \subseteq Pairs
  BY <1>1, <1>2, OfKindKnown, NotPairs DEF Known
<1>4. Laid(h2, kind, rank, owner) /\ Made(h2) = Made(h)
  BY <1>1, <1>2, <1>3, SetCdrKeeps
<1>5. h2.car = h.car /\ \A q \in Pairs : q # p => h2.cdr[q] = h.cdr[q]
  BY <1>1, <1>3, SetCdrFacts
<1>6. \A q \in Made(h) : kind[q] \in {"name", "text"} => h2.car[q] = h.car[q] /\ h2.cdr[q] = h.cdr[q]
  BY <1>2, <1>3, <1>5
<1> QED
  BY <1>4, <1>6, Written

\* The frames of an environment are frames, each its own environment's.
LEMMA FramesAre ==
  ASSUME NEW h, NEW kind, NEW rank, NEW owner, Laid(h, kind, rank, owner),
         NEW e \in OfKind(h, kind, "env")
  PROVE  /\ is_list(h, e) /\ Spine(h, e) \in Seq(Made(h)) /\ Spine(h, e) # << >>
         /\ DOMAIN Frames(h, e) = 1..Len(Spine(h, e))
         /\ \A k \in 1..Len(Spine(h, e)) :
               /\ Spine(h, e)[k] \in OfKind(h, kind, "env")
               /\ Frames(h, e)[k] = first_frame(h, Spine(h, e)[k])
               /\ Frames(h, e)[k] \in OfKind(h, kind, "frame")
<1>1. /\ h \in Heaps /\ kind \in [Made(h) -> Kinds] /\ rank \in [Made(h) -> Made(h)]
      /\ \A q \in Made(h) : CellOK(h, kind, rank, owner, q)
  BY DEF Laid
<1>2. "env" \in Listed /\ IsOf(h, kind, e, "env") /\ e \in Made(h)
  BY DEF Listed, IsOf, OfKind
<1>3. /\ is_list(h, e) /\ Spine(h, e) \in Seq(Made(h))
      /\ \A k \in 1..Len(Spine(h, e)) : Spine(h, e)[k] \in OfKind(h, kind, "env")
  BY <1>2, ListOfKind
<1>4. Spine(h, e) # << >>
  BY <1>1, <1>2, SpineFacts, NotPairs DEF Walked, Chain
<1>5. DOMAIN Spine(h, e) = 1..Len(Spine(h, e))
  BY <1>3
<1>6. DOMAIN Frames(h, e) = 1..Len(Spine(h, e))
      /\ \A k \in 1..Len(Spine(h, e)) : Frames(h, e)[k] = first_frame(h, Spine(h, e)[k])
  BY <1>5 DEF Frames, Elements, first_frame
<1>7. \A q \in OfKind(h, kind, "env") : first_frame(h, q) \in OfKind(h, kind, "frame")
  BY <1>1 DEF OfKind, first_frame, CellOK
<1> QED
  BY <1>3, <1>4, <1>6, <1>7

\* A binding's pair is one of the values of its frame.
LEMMA CellGiven ==
  ASSUME NEW h, NEW kind, NEW rank, NEW owner, Laid(h, kind, rank, owner),
         NEW f \in OfKind(h, kind, "frame"), NEW var, NEW p, Cell(h, f, var, p)
  PROVE  p \in Made(h) /\ kind[p] \in {"value", "data"}
<1>1. IsOf(h, kind, h.cdr[f], Given)
  BY DEF Laid, CellOK, OfKind
<1>2. \A k \in 1..Len(Spine(h, h.cdr[f])) : Spine(h, h.cdr[f])[k] \in OfKind(h, kind, Given)
  BY <1>1, ListGiven
<1>3. p \in OfKind(h, kind, Given)
  BY <1>2 DEF Cell, frame_values, length
<1> QED
  BY <1>3 DEF OfKind, Given

\* set! keeps the layout.
LEMMA SetStep ==
  ASSUME NEW kind, NEW rank, NEW owner, StateOK(heap, envs, held, kind, rank, owner),
         NEW env \in envs, NEW var \in Vars, NEW val \in Vals, SetVariable(env, var, val)
  PROVE  StateOK(heap', envs', held', kind, rank, owner)
<1>1. Laid(heap, kind, rank, owner) /\ env \in OfKind(heap, kind, "env")
  BY DEF StateOK
<1>2. PICK p \in Pairs : Seen(heap, env, var, p) /\ heap' = SetCar(heap, p, val)
  BY DEF SetVariable
<1>3. envs' = envs /\ held' = held
  BY DEF SetVariable
<1>4. PICK k \in DOMAIN Frames(heap, env) : Cell(heap, Frames(heap, env)[k], var, p)
  BY <1>2 DEF Seen
<1>5. Frames(heap, env)[k] \in OfKind(heap, kind, "frame")
  BY <1>1, <1>4, FramesAre
<1>6. p \in Made(heap) /\ kind[p] \in {"value", "data"}
  BY <1>1, <1>4, <1>5, CellGiven
<1>7. StateOK(heap', envs, held, kind, rank, owner)
  BY <1>2, <1>6, CarWritten
<1> QED
  BY <1>3, <1>7

\* One pair consed: where it is, and what is in it.
LEMMA PushPair ==
  ASSUME NEW h, NEW a, h.fresh = a, NEW elems, Len(elems) = 1, NEW tail
  PROVE  Push(h, elems, tail) =
           [car   |-> [p \in Pairs |-> IF p \in a..(a + 1 - 1) THEN elems[p - a + 1] ELSE h.car[p]],
            cdr   |-> [p \in Pairs |-> IF p \notin a..(a + 1 - 1) THEN h.cdr[p]
                                       ELSE IF p = a + 1 - 1 THEN tail ELSE p + 1],
            fresh |-> a + 1]
BY DEF Push

\* add_binding_to_frame conses both pairs and then writes the frame.
LEMMA AddBindingIs ==
  ASSUME NEW h \in Heaps, NEW f \in Made(h), NEW var \in Vars, NEW val \in Vals,
         h.fresh + 2 <= MaxPair + 1
  PROVE  AddBinding(h, f, var, val) =
           SetCdr(SetCar(Push(Push(h, <<var>>, h.car[f]), <<val>>, h.cdr[f]), f, h.fresh),
                  f, h.fresh + 1)
<1> DEFINE a  == h.fresh
           e1 == <<var>>
           e2 == <<val>>
           h1 == Push(h, e1, h.car[f])
           g  == Push(h1, e2, h.cdr[f])
           h2 == SetCar(h1, f, a)
           h3 == Push(h2, e2, frame_values(h2, f))
<1>1. AddBinding(h, f, var, val) = SetCdr(h3, f, h2.fresh)
  BY DEF AddBinding, frame_variables
<1>12. SetCdr(SetCar(Push(Push(h, <<var>>, h.car[f]), <<val>>, h.cdr[f]), f, h.fresh), f, h.fresh + 1)
         = SetCdr(SetCar(g, f, a), f, a + 1)
  OBVIOUS
<1>2. /\ e1 \in Seq(Objects) /\ Len(e1) = 1 /\ e2 \in Seq(Objects) /\ Len(e2) = 1
      /\ h.car[f] \in Objects /\ h.cdr[f] \in Objects
      /\ f \in Pairs /\ Made(h) \subseteq Pairs /\ a \in Nat /\ f # a /\ f # a + 1
  BY NotPairs DEF Heaps, Objects, Made
<1> HIDE DEF a, e1, e2, h1, g
<1>3. h.fresh + Len(e1) <= MaxPair + 1
  <2>1. h.fresh \in Nat /\ MaxPair \in Nat
    BY BoundsAssumption DEF Heaps
  <2> QED
    BY <1>2, <2>1
<1>4. /\ h1 \in Heaps /\ h1.fresh = a + 1
      /\ h1.car[f] = h.car[f] /\ h1.cdr[f] = h.cdr[f]
  <2> DEFINE xs == h.car[f]
  <2>1. h1 = Push(h, e1, xs) /\ xs \in Objects /\ e1 \in Seq(Objects)
    BY <1>2 DEF h1
  <2> HIDE DEF xs
  <2>2. /\ h1 \in Heaps /\ h1.fresh = h.fresh + Len(e1)
        /\ \A p \in Made(h) : h1.car[p] = h.car[p] /\ h1.cdr[p] = h.cdr[p]
    BY <1>3, <2>1, PushFacts
  <2> QED
    BY <1>2, <2>2 DEF a
<1>5. h2 = [car |-> [h1.car EXCEPT ![f] = a], cdr |-> h1.cdr, fresh |-> a + 1]
  BY <1>4 DEF SetCar, Heaps
<1> HIDE DEF h2
<1>6. h2.fresh = a + 1 /\ frame_values(h2, f) = h.cdr[f]
  BY <1>4, <1>5 DEF frame_values
<1> DEFINE new == (a + 1)..(a + 1 + 1 - 1)
           cdrs == [p \in Pairs |-> IF p \notin new THEN h1.cdr[p]
                                    ELSE IF p = a + 1 + 1 - 1 THEN h.cdr[f] ELSE p + 1]
<1>7. h3 = [car   |-> [p \in Pairs |-> IF p \in new THEN e2[p - (a + 1) + 1] ELSE h2.car[p]],
            cdr   |-> cdrs,
            fresh |-> a + 1 + 1]
  <2> DEFINE tl == h.cdr[f]
             b == a + 1
  <2>1. h3 = Push(h2, e2, tl) /\ h2.fresh = b /\ Len(e2) = 1 /\ h2.cdr = h1.cdr
    BY <1>2, <1>5, <1>6
  <2> HIDE DEF tl, h3, b
  <2>2. Push(h2, e2, tl) =
           [car   |-> [p \in Pairs |-> IF p \in b..(b + 1 - 1) THEN e2[p - b + 1] ELSE h2.car[p]],
            cdr   |-> [p \in Pairs |-> IF p \notin b..(b + 1 - 1) THEN h2.cdr[p]
                                       ELSE IF p = b + 1 - 1 THEN tl ELSE p + 1],
            fresh |-> b + 1]
    BY <2>1, PushPair
  <2> QED
    BY <2>1, <2>2 DEF tl, b
<1>8. g = [car   |-> [p \in Pairs |-> IF p \in new THEN e2[p - (a + 1) + 1] ELSE h1.car[p]],
           cdr   |-> cdrs,
           fresh |-> a + 1 + 1]
  <2> DEFINE tl == h.cdr[f]
             b == a + 1
  <2>1. g = Push(h1, e2, tl) /\ h1.fresh = b /\ Len(e2) = 1
    BY <1>2, <1>4 DEF g
  <2> HIDE DEF tl, b
  <2>2. Push(h1, e2, tl) =
           [car   |-> [p \in Pairs |-> IF p \in b..(b + 1 - 1) THEN e2[p - b + 1] ELSE h1.car[p]],
            cdr   |-> [p \in Pairs |-> IF p \notin b..(b + 1 - 1) THEN h1.cdr[p]
                                       ELSE IF p = b + 1 - 1 THEN tl ELSE p + 1],
            fresh |-> b + 1]
    BY <2>1, PushPair
  <2> QED
    BY <2>1, <2>2 DEF tl, b
<1>9. f \notin new
  BY <1>2
<1> HIDE DEF new, cdrs
<1>10. \A p \in Pairs : h2.car[p] = IF p = f THEN a ELSE h1.car[p]
  BY <1>4, <1>5 DEF Heaps
<1> HIDE DEF h3
<1>11. h3 = SetCar(g, f, a)
  <2> DEFINE cars == [p \in Pairs |-> IF p \in new THEN e2[p - (a + 1) + 1] ELSE h1.car[p]]
  <2>1. [cars EXCEPT ![f] = a] = [p \in Pairs |-> IF p \in new THEN e2[p - (a + 1) + 1] ELSE h2.car[p]]
    BY <1>2, <1>9, <1>10
  <2> HIDE DEF cars
  <2>2. g = [car |-> cars, cdr |-> cdrs, fresh |-> a + 1 + 1]
    BY <1>8 DEF cars
  <2>3. SetCar(g, f, a) = [car |-> [cars EXCEPT ![f] = a], cdr |-> cdrs, fresh |-> a + 1 + 1]
    BY <2>2 DEF SetCar
  <2> QED
    BY <1>7, <2>1, <2>3
<1> QED
  BY <1>1, <1>6, <1>11, <1>12

\* A frame was given one more variable, on one more value.
Widened(h, kind, rank, owner, f, var, val, h2, kind2, rank2, owner2) ==
  /\ h2.fresh = h.fresh + 2 /\ Made(h2) = Made(h) \cup {h.fresh, h.fresh + 1}
  /\ h2.car[f] = h.fresh /\ h2.cdr[f] = h.fresh + 1
  /\ h2.car[h.fresh] = var /\ h2.cdr[h.fresh] = h.car[f] /\ kind2[h.fresh] = "name"
  /\ h2.car[h.fresh + 1] = val /\ h2.cdr[h.fresh + 1] = h.cdr[f] /\ kind2[h.fresh + 1] = Given
  /\ \A p \in Made(h) : kind2[p] = kind[p] /\ rank2[p] = rank[p] /\ owner2[p] = owner[p]
  /\ \A p \in Made(h) : p # f => h2.car[p] = h.car[p] /\ h2.cdr[p] = h.cdr[p]

\* define of a new variable keeps the layout.
LEMMA BindingAdded ==
  ASSUME NEW h, NEW es, NEW ds, NEW kind, NEW rank, NEW owner,
         StateOK(h, es, ds, kind, rank, owner),
         NEW f \in OfKind(h, kind, "frame"), NEW var \in Vars, NEW val \in Vals,
         h.fresh + 2 <= MaxPair + 1,
         NEW h2, h2 = AddBinding(h, f, var, val)
  PROVE  \E kind2, rank2, owner2 :
            /\ StateOK(h2, es, ds, kind2, rank2, owner2)
            /\ Widened(h, kind, rank, owner, f, var, val, h2, kind2, rank2, owner2)
<1>1. /\ Laid(h, kind, rank, owner) /\ h \in Heaps /\ f \in Made(h) /\ kind[f] = "frame"
      /\ \A j \in 1..Len(Formals) : ParametersOK(h, kind, rank, owner, j)
      /\ es = OfKind(h, kind, "env") /\ ds \subseteq OfKind(h, kind, "data")
      /\ CellOK(h, kind, rank, owner, f)
  BY DEF StateOK, Laid, OfKind
<1> DEFINE a  == h.fresh
           xs == h.car[f]
           vs == h.cdr[f]
           e1 == <<var>>
           e2 == <<val>>
           h1 == Push(h, e1, xs)
           g  == Push(h1, e2, vs)
<1>2. /\ e1 \in Seq(Objects) /\ Single(e1, var) /\ e2 \in Seq(Objects) /\ Single(e2, val)
      /\ h1 = Push(h, e1, xs) /\ g = Push(h1, e2, vs)
  BY DEF Single, Objects
<1>3. h2 = SetCdr(SetCar(g, f, a), f, a + 1)
  BY <1>1, AddBindingIs
<1> HIDE DEF e1, e2, h1, g
<1>4. /\ IsOf(h, kind, xs, "name") /\ IsOf(h, kind, vs, Given)
      /\ SameSize(rank, xs, vs) /\ (UsesApply \/ OwnedBy(owner, vs, f))
  BY <1>1 DEF CellOK
<1>5. /\ Known(h, var) /\ Known(h, xs) /\ Known(h, vs)
      /\ Len(e1) = 1 /\ Len(e2) = 1 /\ e1[1] = var /\ e2[1] = val
  BY <1>1, <1>2, <1>4, SymbolsKnown, OfKindKnown DEF Single
<1>6. a \in Nat \ {0} /\ MaxPair \in Nat /\ a + 1 + 1 <= MaxPair + 1 /\ a + 1 <= MaxPair + 1
  <2>1. a \in Nat \ {0} /\ MaxPair \in Nat /\ a + 2 <= MaxPair + 1
    BY <1>1, BoundsAssumption DEF Heaps
  <2> HIDE DEF a
  <2> QED
    BY <2>1
<1>7. Fits(h, kind, rank, owner, e1, xs, "name", nil)
  <2>1. \A k \in 1..Len(e1) : Known(h, e1[k])
    BY <1>5
  <2> QED
    BY <1>2, <1>4, <1>5, <1>6, <2>1 DEF Fits, Kinds, Listed
<1>8. PICK k1, r1, o1 : OneMore(h, kind, rank, owner, var, xs, "name", nil, h1, k1, r1, o1)
  BY <1>1, <1>2, <1>7, PushOne
<1>9. /\ Laid(h1, k1, r1, o1) /\ h1 \in Heaps
      /\ Extends_(h, kind, rank, owner, h1, k1, r1, o1)
      /\ h1.fresh = a + 1 /\ Made(h1) = Made(h) \cup {a}
      /\ h1.car[a] = var /\ h1.cdr[a] = xs /\ k1[a] = "name"
      /\ r1[a] = Size(rank, xs) + 1
  BY <1>8 DEF OneMore, Laid, Listed
<1>10. /\ IsOf(h1, k1, vs, Given) /\ Known(h1, vs) /\ Known(h1, val)
       /\ (UsesApply \/ OwnedBy(o1, vs, f)) /\ Size(r1, vs) = Size(rank, vs)
  <2>1. IsOf(h1, k1, vs, Given) /\ Size(r1, vs) = Size(rank, vs) /\ (OwnedBy(owner, vs, f) => OwnedBy(o1, vs, f))
    <3>1. CASE vs = nil
      BY <3>1 DEF IsOf, Size, OwnedBy
    <3>2. CASE vs # nil
      BY <1>4, <1>9, <3>2 DEF IsOf, Size, OwnedBy, Extends_
    <3> QED
      BY <3>1, <3>2
  <2> QED
    BY <1>4, <1>9, <2>1, OfKindKnown, SymbolsKnown
<1>11. Fits(h1, k1, r1, o1, e2, vs, Given, f)
  <2>1. \A k \in 1..Len(e2) : Known(h1, e2[k])
    BY <1>5, <1>10
  <2>2. h1.fresh + Len(e2) <= MaxPair + 1
    BY <1>5, <1>6, <1>9
  <2>3. CASE UsesApply
    BY <1>2, <1>10, <2>1, <2>2, <2>3 DEF Fits, Kinds, Listed, Given
  <2>4. CASE ~UsesApply
    BY <1>2, <1>10, <2>1, <2>2, <2>4 DEF Fits, Kinds, Listed, Given
  <2> QED
    BY <2>3, <2>4
<1>12. PICK k2, r2, o2 : OneMore(h1, k1, r1, o1, val, vs, Given, f, g, k2, r2, o2)
  BY <1>2, <1>9, <1>11, PushOne
<1>13. /\ Laid(g, k2, r2, o2) /\ g \in Heaps
       /\ Extends_(h1, k1, r1, o1, g, k2, r2, o2)
       /\ g.fresh = a + 1 + 1 /\ Made(g) = Made(h1) \cup {a + 1}
       /\ g.car[a + 1] = val /\ g.cdr[a + 1] = vs /\ k2[a + 1] = Given /\ o2[a + 1] = f
       /\ Given \in Listed => r2[a + 1] = Size(r1, vs) + 1
  BY <1>9, <1>12 DEF OneMore, Laid
<1>14. Made(g) = Made(h) \cup {a, a + 1} /\ Made(h) \subseteq Made(g) /\ Made(g) \subseteq Pairs
       /\ nil \notin Made(g) /\ a \notin Made(h) /\ a + 1 \notin Made(h) /\ a + 1 # a
  BY <1>6, <1>9, <1>13, NotPairs DEF Made
<1>15. \A p \in Made(h) : /\ g.car[p] = h.car[p] /\ g.cdr[p] = h.cdr[p]
                          /\ k2[p] = kind[p] /\ r2[p] = rank[p] /\ o2[p] = owner[p]
  BY <1>9, <1>13 DEF Extends_
<1>16. g.car[a] = var /\ g.cdr[a] = xs /\ k2[a] = "name" /\ r2[a] = Size(rank, xs) + 1
  BY <1>9, <1>13 DEF Extends_
<1> HIDE DEF a, xs, vs
<1>17. IsOf(g, k2, a, "name") /\ IsOf(g, k2, a + 1, Given) /\ OwnedBy(o2, a + 1, f)
  BY <1>13, <1>14, <1>16 DEF IsOf, OwnedBy
<1>18. SameSize(r2, a, a + 1)
  <2>1. CASE UsesApply
    BY <2>1 DEF SameSize
  <2>2. CASE ~UsesApply
    <3>1. Given \in Listed
      BY <2>2 DEF Given, Listed
    <3>2. Size(rank, xs) = Size(rank, vs)
      BY <1>4, <2>2 DEF SameSize
    <3>3. r2[a] = r2[a + 1]
      BY <1>10, <1>13, <1>16, <3>1, <3>2
    <3> QED
      BY <1>14, <3>3 DEF SameSize, Size
  <2> QED
    BY <2>1, <2>2
<1>19. f \in Made(g) /\ k2[f] = "frame" /\ f \in Pairs /\ a \in Objects /\ a + 1 \in Objects
  BY <1>1, <1>14, <1>15 DEF Objects
<1>20. Laid(h2, k2, r2, o2) /\ Made(h2) = Made(g) /\ h2.fresh = g.fresh
  BY <1>3, <1>13, <1>17, <1>18, <1>19, SetFrameKeeps
<1>21. /\ h2.car[f] = a /\ h2.cdr[f] = a + 1
       /\ \A p \in Pairs : p # f => h2.car[p] = g.car[p] /\ h2.cdr[p] = g.cdr[p]
  <2> DEFINE g1 == SetCar(g, f, a)
  <2>1. /\ g1 \in Heaps /\ g1.cdr = g.cdr /\ g1.car[f] = a
        /\ \A q \in Pairs : q # f => g1.car[q] = g.car[q]
    BY <1>13, <1>19, SetCarFacts
  <2>2. h2 = SetCdr(g1, f, a + 1)
    BY <1>3
  <2> HIDE DEF g1
  <2>3. h2.car = g1.car /\ h2.cdr[f] = a + 1 /\ \A q \in Pairs : q # f => h2.cdr[q] = g1.cdr[q]
    BY <1>19, <2>1, <2>2, SetCdrFacts
  <2> QED
    BY <2>1, <2>3
<1>22. a # f /\ a + 1 # f /\ a \in Pairs /\ a + 1 \in Pairs
  BY <1>1, <1>14
<1>23. Widened(h, kind, rank, owner, f, var, val, h2, k2, r2, o2)
  <2>1. h2.fresh = a + 2
    BY <1>6, <1>13, <1>20
  <2>2. \A p \in Made(h) : p # f => h2.car[p] = h.car[p] /\ h2.cdr[p] = h.cdr[p]
    BY <1>14, <1>15, <1>21
  <2>3. h2.car[a] = var /\ h2.cdr[a] = xs /\ h2.car[a + 1] = val /\ h2.cdr[a + 1] = vs
    BY <1>13, <1>16, <1>21, <1>22
  <2> QED
    BY <1>13, <1>14, <1>15, <1>16, <1>20, <1>21, <2>1, <2>2, <2>3 DEF Widened, a, xs, vs
<1>24. StateOK(h2, es, ds, k2, r2, o2)
  <2>1. SameNames(h, kind, rank, owner, h2, k2, r2, o2)
    BY <1>1, <1>14, <1>15, <1>20, <1>21 DEF SameNames
  <2>2. \A j \in 1..Len(Formals) : ParametersOK(h2, k2, r2, o2, j)
    BY <1>1, <2>1, ParametersKept
  <2>3. Given # "env"
    BY DEF Given
  <2>4. OfKind(h2, k2, "env") = OfKind(h, kind, "env")
    BY <1>13, <1>14, <1>15, <1>16, <1>20, <2>3 DEF OfKind
  <2>5. OfKind(h, kind, "data") \subseteq OfKind(h2, k2, "data")
    BY <1>14, <1>15, <1>20 DEF OfKind
  <2> QED
    BY <1>1, <1>20, <2>2, <2>4, <2>5 DEF StateOK
<1> QED
  BY <1>23, <1>24

\* The frame that define works on.
LEMMA InnerFrame ==
  ASSUME NEW h, NEW es, NEW ds, NEW kind, NEW rank, NEW owner,
         StateOK(h, es, ds, kind, rank, owner), NEW env \in es
  PROVE  /\ first_frame(h, env) \in OfKind(h, kind, "frame")
         /\ owner[first_frame(h, env)] = env
BY DEF StateOK, Laid, CellOK, OfKind, first_frame

\* define writes the value that is there, or adds a binding.
LEMMA DefineCases ==
  ASSUME NEW kind, NEW rank, NEW owner, StateOK(heap, envs, held, kind, rank, owner),
         NEW env \in envs, NEW var \in Vars, NEW val \in Vals, DefineVariable(env, var, val),
         NEW f, f = first_frame(heap, env)
  PROVE  \/ \E p \in Pairs : /\ Cell(heap, f, var, p) /\ heap' = SetCar(heap, p, val)
                             /\ StateOK(heap', envs', held', kind, rank, owner)
         \/ /\ Places(heap, f, var) = {}
            /\ \E kind2, rank2, owner2 :
                 /\ StateOK(heap', envs', held', kind2, rank2, owner2)
                 /\ Widened(heap, kind, rank, owner, f, var, val, heap', kind2, rank2, owner2)
<1>1. f \in OfKind(heap, kind, "frame") /\ Laid(heap, kind, rank, owner)
  BY InnerFrame DEF StateOK
<1>2. envs' = envs /\ held' = held
  BY DEF DefineVariable
<1>3. CASE \E p \in Pairs : Cell(heap, f, var, p) /\ heap' = SetCar(heap, p, val)
  <2>1. PICK p \in Pairs : Cell(heap, f, var, p) /\ heap' = SetCar(heap, p, val)
    BY <1>3
  <2>2. p \in Made(heap) /\ kind[p] \in {"value", "data"}
    BY <1>1, <2>1, CellGiven
  <2>3. StateOK(heap', envs, held, kind, rank, owner)
    BY <2>1, <2>2, CarWritten
  <2> QED
    BY <1>2, <2>1, <2>3
<1>4. CASE /\ Places(heap, f, var) = {} /\ heap.fresh + 2 <= MaxPair + 1
           /\ heap' = AddBinding(heap, f, var, val)
  <2>1. PICK k2, r2, o2 :
          /\ StateOK(heap', envs, held, k2, r2, o2)
          /\ Widened(heap, kind, rank, owner, f, var, val, heap', k2, r2, o2)
    BY <1>1, <1>4, BindingAdded
  <2> QED
    BY <1>2, <1>4, <2>1
<1> QED
  BY <1>3, <1>4 DEF DefineVariable, Passed

\* The argument lists are sequences of values.
LEMMA ValListsTyped ==
  ASSUME NEW k \in Nat, NEW vals \in ValLists(k)
  PROVE  vals \in Seq(Vals)
BY DEF ValLists

\* Every step keeps the layout.
LEMMA StepKeeps == IInv /\ [Next]_vars => IInv'
<1> SUFFICES ASSUME IInv, [Next]_vars PROVE IInv'
  OBVIOUS
<1>1. PICK kind, rank, owner : StateOK(heap, envs, held, kind, rank, owner)
  BY DEF IInv
<1>2. DOMAIN Formals = 1..Len(Formals)
  BY FormalsAssumption
<1>3. \A vals \in ArgLists : vals \in Seq(Vals)
  BY ValListsTyped, BoundsAssumption DEF ArgLists
<1>4. ASSUME NEW env \in envs, NEW i \in DOMAIN Formals, NEW vals \in ArgLists, Call(i, env, vals)
      PROVE  IInv'
  <2> DEFINE h == Push(heap, vals, nil)
             args == ListOn(heap, vals, nil)
  <2>1. h.fresh <= MaxPair + 1 /\ ApplyProcedure(h, i, env, args)
    BY <1>4 DEF Call
  <2> HIDE DEF h, args
  <2>2. h = Push(heap, vals, nil) /\ args = ListOn(heap, vals, nil) /\ vals \in Seq(Vals) /\ i \in 1..Len(Formals)
    BY <1>2, <1>3 DEF h, args
  <2>3. Called(heap, kind, rank, owner, env, {}, heap', envs', held')
    BY <1>1, <2>1, <2>2, CallStep
  <2> QED
    BY <2>3 DEF Called, IInv
<1>5. ASSUME NEW env \in envs, NEW i \in DOMAIN Formals, NEW vals \in ArgLists, NEW lst \in held,
             Apply(i, env, vals, lst)
      PROVE  IInv'
  <2> DEFINE h == Push(heap, vals, lst)
             args == ListOn(heap, vals, lst)
  <2>1. h.fresh <= MaxPair + 1 /\ ApplyProcedure(h, i, env, args) /\ UsesApply
    BY <1>5 DEF Apply
  <2> HIDE DEF h, args
  <2>2. h = Push(heap, vals, lst) /\ args = ListOn(heap, vals, lst) /\ vals \in Seq(Vals) /\ i \in 1..Len(Formals)
    BY <1>2, <1>3 DEF h, args
  <2>3. Called(heap, kind, rank, owner, env, {}, heap', envs', held')
    BY <1>1, <2>1, <2>2, CallStep
  <2> QED
    BY <2>3 DEF Called, IInv
<1>6. ASSUME NEW env \in envs, NEW var \in Vars, NEW val \in Vals, SetVariable(env, var, val)
      PROVE  IInv'
  BY <1>1, <1>6, SetStep DEF IInv
<1>7. ASSUME NEW env \in envs, NEW var \in Vars, NEW val \in Vals, DefineVariable(env, var, val)
      PROVE  IInv'
  BY <1>1, <1>7, DefineCases DEF IInv
<1>8. ASSUME NEW vals \in ValLists(MaxData), MakeList(vals) PROVE IInv'
  <2>1. /\ heap' = Push(heap, vals, nil) /\ heap'.fresh <= MaxPair + 1
        /\ held' = held \cup heap.fresh..(heap'.fresh - 1) /\ envs' = envs
    BY <1>8 DEF MakeList
  <2>2. vals \in Seq(Vals)
    BY ValListsTyped, BoundsAssumption
  <2>3. /\ Laid(heap, kind, rank, owner) /\ IsOf(heap, kind, nil, "data")
        /\ \A j \in 1..Len(Formals) : ParametersOK(heap, kind, rank, owner, j)
        /\ envs = OfKind(heap, kind, "env") /\ held \subseteq OfKind(heap, kind, "data")
    BY <1>1 DEF StateOK, IsOf
  <2>4. PICK k2, r2, o2 : Consed(heap, kind, rank, owner, vals, nil, heap', k2, r2, o2)
    BY <2>1, <2>2, <2>3, ConsData
  <2>5. StateOK(heap', envs', held', k2, r2, o2)
    BY <2>1, <2>3, <2>4 DEF Consed, StateOK
  <2> QED
    BY <2>5 DEF IInv
<1>9. ASSUME NEW p \in held, NEW val \in Vals, UserSetCar(p, val) PROVE IInv'
  <2>1. heap' = SetCar(heap, p, val) /\ envs' = envs /\ held' = held
    BY <1>9 DEF UserSetCar
  <2>2. p \in Made(heap) /\ kind[p] \in {"value", "data"}
    BY <1>1 DEF StateOK, OfKind
  <2>3. StateOK(heap', envs, held, kind, rank, owner)
    BY <1>1, <2>1, <2>2, CarWritten
  <2> QED
    BY <2>1, <2>3 DEF IInv
<1>10. ASSUME NEW p \in held, NEW o \in held \cup {nil}, UserSetCdr(p, o) PROVE IInv'
  <2>1. heap' = SetCdr(heap, p, o) /\ envs' = envs /\ held' = held
    BY <1>10 DEF UserSetCdr
  <2>2. StateOK(heap', envs, held, kind, rank, owner)
    BY <1>1, <2>1, CdrWritten
  <2> QED
    BY <2>1, <2>2 DEF IInv
<1>11. CASE UNCHANGED vars
  BY <1>1, <1>11 DEF vars, IInv
<1> QED
  BY <1>4, <1>5, <1>6, <1>7, <1>8, <1>9, <1>10, <1>11 DEF Next

\* So it is always laid out.
THEOREM Invariance == Spec => []IInv
BY Initially, StepKeeps, PTL DEF Spec

-----------------------------------------------------------------------------
(* What follows for the code.                                               *)

\* Objects are what they should be, and no pair holds one not made yet.
THEOREM TypeCorrect == Spec => []TypeOK
<1>1. IInv => TypeOK
  <2> SUFFICES ASSUME NEW kind, NEW rank, NEW owner, StateOK(heap, envs, held, kind, rank, owner)
               PROVE  TypeOK
    BY DEF IInv
  <2>1. heap \in Heaps /\ \A p \in Made(heap) : CellOK(heap, kind, rank, owner, p)
    BY DEF StateOK, Laid
  <2>2. \A p \in 1..(heap.fresh - 1) :
          heap.car[p] \notin heap.fresh..MaxPair /\ heap.cdr[p] \notin heap.fresh..MaxPair
    BY <2>1 DEF CellOK, Known, Made
  <2>3. envs \subseteq 1..(heap.fresh - 1) /\ held \subseteq 1..(heap.fresh - 1)
    BY DEF StateOK, OfKind, Made
  <2> QED
    BY <2>1, <2>2, <2>3 DEF TypeOK, Heaps
<1> QED
  BY <1>1, Invariance, PTL

\* The names and the values of a frame.
LEMMA FrameLists ==
  ASSUME NEW h, NEW kind, NEW rank, NEW owner, Laid(h, kind, rank, owner),
         NEW f \in OfKind(h, kind, "frame")
  PROVE  /\ is_list(h, frame_variables(h, f))
         /\ Spine(h, frame_variables(h, f)) \in Seq(Made(h))
         /\ \A k \in 1..length(h, frame_variables(h, f)) :
               Spine(h, frame_variables(h, f))[k] \in OfKind(h, kind, "name")
         /\ Spine(h, frame_values(h, f)) \in Seq(Made(h))
         /\ \A k \in 1..length(h, frame_values(h, f)) :
               Spine(h, frame_values(h, f))[k] \in OfKind(h, kind, Given)
         /\ ~UsesApply => /\ is_list(h, frame_values(h, f))
                          /\ length(h, frame_values(h, f)) = length(h, frame_variables(h, f))
<1>1. /\ IsOf(h, kind, h.car[f], "name") /\ IsOf(h, kind, h.cdr[f], Given)
      /\ SameSize(rank, h.car[f], h.cdr[f])
  BY DEF Laid, CellOK, OfKind
<1>2. /\ is_list(h, h.car[f]) /\ length(h, h.car[f]) = Size(rank, h.car[f])
      /\ Spine(h, h.car[f]) \in Seq(Made(h))
      /\ \A k \in 1..Len(Spine(h, h.car[f])) : Spine(h, h.car[f])[k] \in OfKind(h, kind, "name")
  BY <1>1, ListOfKind DEF Listed
<1>3. /\ Spine(h, h.cdr[f]) \in Seq(Made(h))
      /\ \A k \in 1..Len(Spine(h, h.cdr[f])) : Spine(h, h.cdr[f])[k] \in OfKind(h, kind, Given)
  BY <1>1, ListGiven
<1>4. ASSUME ~UsesApply
      PROVE  is_list(h, h.cdr[f]) /\ length(h, h.cdr[f]) = length(h, h.car[f])
  <2>1. Given \in Listed
    BY <1>4 DEF Given, Listed
  <2>2. is_list(h, h.cdr[f]) /\ length(h, h.cdr[f]) = Size(rank, h.cdr[f])
    BY <1>1, <2>1, ListOfKind
  <2> QED
    BY <1>1, <1>2, <1>4, <2>2 DEF SameSize
<1> QED
  BY <1>2, <1>3, <1>4 DEF frame_variables, frame_values, length

\* Every walk of environments.c ends, with apply and set-cdr! or without: the
\* frames of an environment, and the variables of a frame, are finite lists.
THEOREM WalksTerminate == Spec => []WalksEnd
<1>1. IInv => WalksEnd
  <2> SUFFICES ASSUME NEW kind, NEW rank, NEW owner, StateOK(heap, envs, held, kind, rank, owner),
                      NEW e \in envs
               PROVE  /\ is_list(heap, e)
                      /\ \A i \in DOMAIN Frames(heap, e) :
                            is_list(heap, frame_variables(heap, Frames(heap, e)[i]))
    BY DEF IInv, WalksEnd
  <2>1. Laid(heap, kind, rank, owner) /\ e \in OfKind(heap, kind, "env")
    BY DEF StateOK
  <2>2. is_list(heap, e) /\ \A i \in DOMAIN Frames(heap, e) : Frames(heap, e)[i] \in OfKind(heap, kind, "frame")
    BY <2>1, FramesAre
  <2> QED
    BY <2>1, <2>2, FrameLists
<1> QED
  BY <1>1, Invariance, PTL

\* No frame, define or rest parameter ever writes into a parameter list.
THEOREM TextStays == Spec => []TextIntact
<1>1. IInv => TextIntact
  <2> SUFFICES ASSUME NEW kind, NEW rank, NEW owner, StateOK(heap, envs, held, kind, rank, owner),
                      NEW i \in DOMAIN Formals
               PROVE  /\ Elements(heap, procedure_parameters(i)) = Formals[i].names
                      /\ End(heap, procedure_parameters(i)) = Tail_(i)
    BY DEF IInv, TextIntact
  <2>1. i \in 1..Len(Formals)
    BY FormalsAssumption
  <2>2. Laid(heap, kind, rank, owner) /\ ParametersOK(heap, kind, rank, owner, i)
    BY <2>1 DEF StateOK
  <2> QED
    BY <2>1, <2>2, ParametersSpine
<1> QED
  BY <1>1, Invariance, PTL

\* While no apply shares a user's list with a frame, every frame keeps as many
\* values as variables.
THEOREM FramesStayAligned ==
  ASSUME ~UsesApply PROVE Spec => []FramesAligned
<1>1. IInv => FramesAligned
  <2> SUFFICES ASSUME NEW kind, NEW rank, NEW owner, StateOK(heap, envs, held, kind, rank, owner),
                      NEW e \in envs, NEW f, f = first_frame(heap, e)
               PROVE  /\ is_list(heap, frame_values(heap, f))
                      /\ length(heap, frame_values(heap, f)) = length(heap, frame_variables(heap, f))
    BY DEF IInv, FramesAligned
  <2>1. f \in OfKind(heap, kind, "frame") /\ Laid(heap, kind, rank, owner)
    BY InnerFrame DEF StateOK
  <2> QED
    BY <2>1, FrameLists
<1> QED
  BY <1>1, Invariance, PTL

\* "It's safe to mutate args" is true of a program without apply: no call
\* changes a pair of the user's data.
THEOREM OnlyApplyWritesData ==
  ASSUME ~UsesApply PROVE Spec => CallsLeaveDataAlone
<1>1. IInv /\ [Next]_vars =>
        [envs' # envs => \A p \in held : heap'.car[p] = heap.car[p] /\ heap'.cdr[p] = heap.cdr[p]]_vars
  <2> SUFFICES ASSUME IInv, Next, envs' # envs, NEW p \in held
               PROVE  heap'.car[p] = heap.car[p] /\ heap'.cdr[p] = heap.cdr[p]
    BY DEF vars
  <2>1. PICK kind, rank, owner : StateOK(heap, envs, held, kind, rank, owner)
    BY DEF IInv
  <2>2. PICK env \in envs, i \in DOMAIN Formals, vals \in ArgLists : Call(i, env, vals)
    BY DEF Next, Apply, SetVariable, DefineVariable, MakeList, UserSetCar, UserSetCdr
  <2>3. i \in 1..Len(Formals) /\ vals \in Seq(Vals)
    BY <2>2, FormalsAssumption, ValListsTyped, BoundsAssumption DEF ArgLists
  <2> DEFINE h == Push(heap, vals, nil)
             args == ListOn(heap, vals, nil)
  <2>4. h.fresh <= MaxPair + 1 /\ ApplyProcedure(h, i, env, args)
    BY <2>2 DEF Call
  <2>5. h = Push(heap, vals, nil) /\ args = ListOn(heap, vals, nil)
    OBVIOUS
  <2> HIDE DEF h, args
  <2>6. Called(heap, kind, rank, owner, env, {}, heap', envs', held')
    BY <2>1, <2>2, <2>3, <2>4, <2>5, CallStep
  <2>7. Untouched(heap, heap', {}) /\ p \in Made(heap)
    BY <2>1, <2>6 DEF Called, StateOK, OfKind
  <2> QED
    BY <2>7 DEF Untouched
<1> QED
  BY <1>1, Invariance, PTL DEF Spec, CallsLeaveDataAlone

-----------------------------------------------------------------------------
(***************************************************************************)
(* Environments.tla implements Scopes.tla, as long as no list of the       *)
(* user's is shared with a frame by apply: the pairs of each environment   *)
(* are followed through every step, and what they mean is compared: each   *)
(* step is one of the scopes (PairsImplementScopes), and the one that its  *)
(* call, its set! or its define names (OperationsMeanWhatTheySay).         *)
(***************************************************************************)
HIDE ObjectsAssumption
HIDE BoundsAssumption
-----------------------------------------------------------------------------
(* What a list of pairs is after a step.                                    *)

\* A list is as it was when its cdrs are.
LEMMA SpineStays ==
  ASSUME NEW h \in Heaps, NEW h2 \in Heaps, Made(h) \subseteq Made(h2),
         NEW l, is_list(h, l), length(h, l) <= MaxPair,
         \A k \in 1..length(h, l) : h2.cdr[Spine(h, l)[k]] = h.cdr[Spine(h, l)[k]]
  PROVE  Spine(h2, l) = Spine(h, l) /\ is_list(h2, l)
<1>1. End(h, l) = nil /\ ~is_pair(h, nil) /\ ~is_pair(h2, nil)
  BY NotPairs DEF is_list
<1>2. CASE ~is_pair(h, l)
  <2>1. l = nil
    BY <1>1, <1>2, SpineEnd
  <2>2. Spine(h, l) = << >> /\ Spine(h2, l) = << >>
    BY <1>1, <2>1, SpineFacts
  <2> QED
    BY <1>1, <2>1, <2>2, SpineEnd DEF is_list
<1>3. CASE is_pair(h, l)
  <2> DEFINE s == Spine(h, l)
  <2>1. Walked(h, MaxPair, l, s) /\ h.cdr[s[Len(s)]] = nil
    BY <1>1, <1>3, SpineFacts, SpineEnd
  <2>2. \A k \in 1..Len(s) : h2.cdr[s[k]] = h.cdr[s[k]]
    BY DEF length
  <2>3. Len(s) <= MaxPair
    BY DEF length
  <2> HIDE DEF s
  <2>4. /\ s \in Seq(Made(h)) /\ s # << >> /\ s[1] = l /\ Len(s) \in Nat /\ Len(s) # 0
        /\ \A k \in 1..(Len(s) - 1) : s[k + 1] = h.cdr[s[k]]
    BY <2>1 DEF Walked, Chain
  <2>5. s \in Seq(Made(h2))
    BY <2>4
  <2>6. \A k \in 1..(Len(s) - 1) : s[k + 1] = h2.cdr[s[k]]
    BY <2>2, <2>4
  <2>7. h2.cdr[s[Len(s)]] = nil
    BY <2>1, <2>2, <2>4
  <2>8. Chain(h2, l, s)
    BY <2>4, <2>5, <2>6 DEF Chain
  <2>9. Spine(h2, l) = s /\ End(h2, l) = nil
    BY <1>1, <2>3, <2>7, <2>8, ChainIsSpine
  <2> QED
    BY <2>9 DEF s, is_list
<1> QED
  BY <1>2, <1>3

\* And it holds what it held when its cars are.
LEMMA ElementsStay ==
  ASSUME NEW h \in Heaps, NEW h2, NEW l, Spine(h2, l) = Spine(h, l),
         \A k \in 1..length(h, l) : h2.car[Spine(h, l)[k]] = h.car[Spine(h, l)[k]]
  PROVE  Elements(h2, l) = Elements(h, l)
<1> DEFINE s == Spine(h, l)
<1>1. s \in Seq(Made(h)) /\ \A k \in 1..Len(s) : h2.car[s[k]] = h.car[s[k]]
  BY SpineTyped DEF length
<1>2. Elements(h2, l) = [k \in DOMAIN s |-> h2.car[s[k]]] /\ Elements(h, l) = [k \in DOMAIN s |-> h.car[s[k]]]
  BY DEF Elements
<1> HIDE DEF s
<1>3. DOMAIN s = 1..Len(s)
  BY <1>1
<1> QED
  BY <1>1, <1>2, <1>3

\* The elements of a list, one for each pair.
LEMMA ElementsAre ==
  ASSUME NEW h \in Heaps, NEW l
  PROVE  /\ length(h, l) \in Nat
         /\ Elements(h, l) = [k \in 1..length(h, l) |-> h.car[Spine(h, l)[k]]]
<1>1. Spine(h, l) \in Seq(Made(h))
  BY SpineTyped
<1>2. DOMAIN Spine(h, l) = 1..Len(Spine(h, l)) /\ Len(Spine(h, l)) \in Nat
  BY <1>1
<1> QED
  BY <1>2 DEF Elements, length

\* A pair in front of a list.
LEMMA SpineGrows ==
  ASSUME NEW h \in Heaps, NEW p \in Made(h), NEW l, l = h.cdr[p],
         is_list(h, l), length(h, l) < MaxPair
  PROVE  /\ Spine(h, p) = <<p>> \o Spine(h, l) /\ is_list(h, p)
         /\ length(h, p) = length(h, l) + 1
<1>1. End(h, l) = nil /\ ~is_pair(h, nil) /\ is_pair(h, p)
  BY NotPairs DEF is_list
<1> DEFINE s == Spine(h, l)
           t == <<p>> \o s
<1>2. s \in Seq(Made(h))
  BY SpineTyped
<1>3. /\ t \in Seq(Made(h)) /\ t # << >> /\ Len(s) \in Nat /\ Len(t) = Len(s) + 1
      /\ t[1] = p /\ \A i \in 1..Len(s) : t[i + 1] = s[i]
  BY <1>2, Pushed DEF Sequential
<1>4. Len(s) < MaxPair
  BY DEF length
<1>5. CASE ~is_pair(h, l)
  <2>1. l = nil /\ s = << >>
    BY <1>1, <1>5, SpineEnd, SpineFacts
  <2> HIDE DEF s, t
  <2>2. Len(t) = 1 /\ t[Len(t)] = p
    BY <1>3, <2>1
  <2>3. 1..(Len(t) - 1) = {}
    BY <2>2
  <2>5. Chain(h, p, t)
    BY <1>3, <2>3 DEF Chain
  <2>6. Len(t) <= MaxPair /\ h.cdr[t[Len(t)]] = nil /\ ~is_pair(h, h.cdr[t[Len(t)]])
    <3>1. Len(t) <= MaxPair
      BY <1>3, <1>4, BoundsAssumption
    <3> QED
      BY <1>1, <2>1, <2>2, <3>1
  <2>4. Spine(h, p) = t /\ End(h, p) = nil
    BY <2>5, <2>6, ChainIsSpine
  <2> QED
    BY <1>3, <2>4 DEF t, s, is_list, length
<1>6. CASE is_pair(h, l)
  <2>1. Walked(h, MaxPair, l, s) /\ h.cdr[s[Len(s)]] = nil
    BY <1>1, <1>6, SpineFacts, SpineEnd
  <2> HIDE DEF s
  <2>2. Walked(h, MaxPair + 1, p, t)
    BY <1>6, <2>1, ChainPushed, BoundsAssumption
  <2> HIDE DEF t
  <2>3. Len(s) # 0
    BY <2>1 DEF Walked, Chain
  <2>4. t[Len(t)] = s[Len(s)]
    BY <1>3, <2>3
  <2>5. Len(t) <= MaxPair
    BY <1>3, <1>4, BoundsAssumption
  <2>6. Chain(h, p, t) /\ ~is_pair(h, h.cdr[t[Len(t)]]) /\ h.cdr[t[Len(t)]] = nil
    BY <1>1, <2>1, <2>2, <2>4 DEF Walked
  <2>7. Spine(h, p) = t /\ End(h, p) = nil
    BY <2>5, <2>6, ChainIsSpine
  <2> QED
    BY <1>3, <2>7 DEF t, s, is_list, length
<1> QED
  BY <1>5, <1>6

-----------------------------------------------------------------------------
(* What a list of variables and a list of values bind.                      *)

\* xs has n elements.
Upto(xs, n) == n \in Nat /\ DOMAIN xs = 1..n

\* k is the first place of x in xs.
IsFirst(xs, x, k) ==
  /\ \E n : Upto(xs, n)
  /\ k \in DOMAIN xs /\ xs[k] = x /\ \A j \in 1..(k - 1) : xs[j] # x

\* Bindings b bind x to v.
Gives(b, x, v) == x \in DOMAIN b /\ b[x] = v

NamesOf(xs) == {xs[k] : k \in DOMAIN xs}

FirstOf(xs, x) == CHOOSE k \in DOMAIN xs : xs[k] = x /\ \A j \in 1..(k-1) : xs[j] # x

BindOf(xs, vs) == [x \in NamesOf(xs) |-> vs[FirstOf(xs, x)]]

\* A variable that is there has a first place.
LEMMA FirstExists ==
  ASSUME NEW n, NEW xs, Upto(xs, n), NEW x \in NamesOf(xs)
  PROVE  \E k \in 1..n : IsFirst(xs, x, k)
<1>0. n \in Nat /\ \E m \in 1..n : xs[m] = x
  BY DEF Upto, NamesOf
<1> DEFINE B == {k \in Nat : k \in 1..n /\ xs[k] = x}
<1>1. \E m : m \in B
  BY <1>0
<1>2. IsWellFoundedOn(Less, Nat)
  BY NatLessThanWellFounded DEF OpToRel, Less
<1> HIDE DEF B
<1>3. B \subseteq Nat
  BY DEF B
<1>4. PICK k \in B : \A y \in B : <<y, k>> \notin Less
  BY <1>1, <1>2, <1>3, WFMin, Zenon
<1>5. k \in 1..n /\ xs[k] = x
  BY DEF B
<1>6. ASSUME NEW j \in 1..(k - 1) PROVE xs[j] # x
  <2>1. j \in Nat /\ j < k /\ j \in 1..n /\ k \in Nat
    BY <1>0, <1>5
  <2>2. <<j, k>> \in Less
    BY <2>1 DEF Less
  <2>3. j \notin B
    BY <1>4, <2>2
  <2> QED
    BY <2>1, <2>3 DEF B
<1>7. IsFirst(xs, x, k)
  BY <1>5, <1>6 DEF IsFirst, Upto
<1> QED
  BY <1>5, <1>7

\* There is one such place, and the variable is bound to the value there.
LEMMA BindAt ==
  ASSUME NEW xs, NEW vs, NEW x, NEW k, IsFirst(xs, x, k)
  PROVE  Gives(BindOf(xs, vs), x, vs[k])
<1>0. PICK n : Upto(xs, n)
  BY DEF IsFirst
<1>1. x \in NamesOf(xs)
  BY DEF IsFirst, NamesOf
<1> DEFINE c == FirstOf(xs, x)
<1>2. c \in DOMAIN xs /\ xs[c] = x /\ \A i \in 1..(c - 1) : xs[i] # x
  BY DEF IsFirst, FirstOf
<1>3. BindOf(xs, vs)[x] = vs[c]
  BY <1>1 DEF BindOf
<1> HIDE DEF c
<1>4. c = k
  <2>1. c \in 1..n /\ k \in 1..n /\ xs[k] = x /\ \A j \in 1..(k - 1) : xs[j] # x
    BY <1>0, <1>2 DEF IsFirst, Upto
  <2>2. ~(c < k) /\ ~(k < c)
    <3>1. c < k => c \in 1..(k - 1)
      BY <2>1
    <3>2. k < c => k \in 1..(c - 1)
      BY <2>1
    <3> QED
      BY <1>2, <2>1, <3>1, <3>2
  <2> QED
    BY <2>1, <2>2
<1> QED
  BY <1>1, <1>3, <1>4 DEF BindOf, Gives

\* The variables bound are those of the list.
LEMMA BindDomain ==
  ASSUME NEW xs, NEW vs
  PROVE  DOMAIN BindOf(xs, vs) = NamesOf(xs)
BY DEF BindOf

-----------------------------------------------------------------------------
(* What an environment means.                                               *)

\* ScopeOf, on any heap.
ScopeAt(h, e) ==
  [bind  |-> BindOf(Elements(h, frame_variables(h, first_frame(h, e))),
                    Elements(h, frame_values(h, first_frame(h, e)))),
   chain |-> Spine(h, e)]

ScopesAt(h, es) == [e \in es |-> ScopeAt(h, e)]

\* The scopes of the refinement mapping are read off the heap,
LEMMA ScopesNow == [e \in envs |-> ScopeOf(e)] = ScopesAt(heap, envs)
BY DEF ScopeOf, ScopeAt, ScopesAt, BindOf, NamesOf, FirstOf

\* before a step and after it.
LEMMA ScopesNext == [e \in envs |-> ScopeOf(e)]' = ScopesAt(heap', envs')
BY DEF ScopeOf, ScopeAt, ScopesAt, BindOf, NamesOf, FirstOf, first_frame, frame_variables, frame_values, Elements

\* The parts of an environment: its chain, its frame's variables and values.
LEMMA EnvParts ==
  ASSUME ~UsesApply, NEW h, NEW kind, NEW rank, NEW owner, Laid(h, kind, rank, owner),
         NEW e \in OfKind(h, kind, "env"), NEW f, f = first_frame(h, e)
  PROVE  /\ f \in OfKind(h, kind, "frame") /\ owner[f] = e
         /\ is_list(h, e) /\ length(h, e) <= MaxPair /\ length(h, e) < h.fresh
         /\ \A k \in 1..length(h, e) : Spine(h, e)[k] \in OfKind(h, kind, "env")
         /\ is_list(h, h.car[f]) /\ length(h, h.car[f]) <= MaxPair /\ length(h, h.car[f]) < h.fresh
         /\ \A k \in 1..length(h, h.car[f]) : Spine(h, h.car[f])[k] \in OfKind(h, kind, "name")
         /\ is_list(h, h.cdr[f]) /\ length(h, h.cdr[f]) = length(h, h.car[f])
         /\ \A k \in 1..length(h, h.cdr[f]) :
               /\ Spine(h, h.cdr[f])[k] \in OfKind(h, kind, "value")
               /\ owner[Spine(h, h.cdr[f])[k]] = f
         /\ \A j, k \in 1..length(h, h.cdr[f]) : j # k => Spine(h, h.cdr[f])[j] # Spine(h, h.cdr[f])[k]
<1>1. /\ h \in Heaps /\ kind \in [Made(h) -> Kinds] /\ rank \in [Made(h) -> Made(h)]
      /\ \A q \in Made(h) : CellOK(h, kind, rank, owner, q)
  BY DEF Laid
<1>2. /\ Made(h) \subseteq 1..MaxPair /\ MaxPair \in Nat /\ nil \notin Made(h)
      /\ \A o : is_pair(h, o) <=> o \in Made(h)
  <2>1. nil \notin Made(h) /\ Made(h) \subseteq Pairs /\ \A o : is_pair(h, o) <=> o \in Made(h)
    BY <1>1, NotPairs
  <2>2. Pairs = 1..MaxPair /\ MaxPair \in Nat
    BY BoundsAssumption DEF Pairs
  <2> QED
    BY <2>1, <2>2
<1>3. \A o, K : IsOf(h, kind, o, K) => Size(rank, o) <= MaxPair /\ Size(rank, o) < h.fresh
  <2> SUFFICES ASSUME NEW o, NEW K, IsOf(h, kind, o, K)
               PROVE  Size(rank, o) <= MaxPair /\ Size(rank, o) < h.fresh
    OBVIOUS
  <2>0. h.fresh \in Nat /\ h.fresh >= 1 /\ Made(h) = 1..(h.fresh - 1)
    BY <1>1 DEF Heaps, Made
  <2>1. CASE o = nil
    BY <1>2, <2>0, <2>1 DEF Size
  <2>2. CASE o # nil
    <3>1. o \in Made(h) /\ rank[o] \in Made(h)
      BY <1>1, <2>2 DEF IsOf
    <3>2. rank[o] \in 1..MaxPair /\ rank[o] < h.fresh
      BY <1>2, <2>0, <3>1
    <3> QED
      BY <1>2, <2>2, <3>2 DEF Size
  <2> QED
    BY <2>1, <2>2
<1>4. f \in Made(h) /\ kind[f] = "frame" /\ owner[f] = e
  BY <1>1 DEF OfKind, CellOK, first_frame
<1>5. /\ IsOf(h, kind, h.car[f], "name") /\ IsOf(h, kind, h.cdr[f], "value")
      /\ SameSize(rank, h.car[f], h.cdr[f]) /\ OwnedBy(owner, h.cdr[f], f)
  BY <1>1, <1>4 DEF CellOK, Given
<1>6. IsOf(h, kind, e, "env")
  BY DEF IsOf, OfKind
<1>7. "env" \in Listed /\ "name" \in Listed /\ "value" \in Listed
  BY DEF Listed
<1>8. /\ is_list(h, e) /\ length(h, e) = Size(rank, e)
      /\ \A k \in 1..Len(Spine(h, e)) : Spine(h, e)[k] \in OfKind(h, kind, "env")
  BY <1>6, <1>7, ListOfKind
<1>9. /\ is_list(h, h.car[f]) /\ length(h, h.car[f]) = Size(rank, h.car[f])
      /\ \A k \in 1..Len(Spine(h, h.car[f])) : Spine(h, h.car[f])[k] \in OfKind(h, kind, "name")
  BY <1>5, <1>7, ListOfKind
<1>10. /\ is_list(h, h.cdr[f]) /\ length(h, h.cdr[f]) = Size(rank, h.cdr[f])
       /\ \A j, k \in 1..Len(Spine(h, h.cdr[f])) : j # k => Spine(h, h.cdr[f])[j] # Spine(h, h.cdr[f])[k]
  BY <1>5, <1>7, ListOfKind
<1>11. \A k \in 1..Len(Spine(h, h.cdr[f])) :
          Spine(h, h.cdr[f])[k] \in OfKind(h, kind, "value") /\ owner[Spine(h, h.cdr[f])[k]] = f
  <2> DEFINE C == {p \in OfKind(h, kind, "value") : owner[p] = f}
             vs == h.cdr[f]
  <2>1. Closed(h, C)
    <3> SUFFICES ASSUME NEW p \in C, is_pair(h, h.cdr[p]) PROVE h.cdr[p] \in C
      BY DEF Closed
    <3>1. p \in Made(h) /\ kind[p] = "value" /\ owner[p] = f
      BY DEF OfKind
    <3>2. IsOf(h, kind, h.cdr[p], "value") /\ OwnedBy(owner, h.cdr[p], owner[p]) /\ h.cdr[p] \in Made(h)
      BY <1>1, <1>2, <1>7, <3>1 DEF CellOK
    <3> QED
      BY <1>2, <3>1, <3>2 DEF OfKind, IsOf, OwnedBy
  <2>2. is_pair(h, vs) => vs \in C
    BY <1>2, <1>5 DEF OfKind, IsOf, OwnedBy
  <2> HIDE DEF C, vs
  <2>3. \A k \in 1..Len(Spine(h, vs)) : Spine(h, vs)[k] \in C
    BY <1>1, <2>1, <2>2, ClosedSpine
  <2> QED
    BY <2>3 DEF C, vs
<1>12. length(h, h.cdr[f]) = length(h, h.car[f])
  BY <1>5, <1>9, <1>10 DEF SameSize
<1>13. /\ length(h, e) <= MaxPair /\ length(h, h.car[f]) <= MaxPair
       /\ length(h, e) < h.fresh /\ length(h, h.car[f]) < h.fresh
  BY <1>3, <1>5, <1>6, <1>8, <1>9
<1> QED
  BY <1>4, <1>8, <1>9, <1>10, <1>11, <1>12, <1>13 DEF OfKind, length

\* The pairs environment e with frame f is made of: the environments, the names,
\* the frame and its values.
PartOf(kind, owner, f, p) ==
  kind[p] \in {"env", "name"} \/ p = f \/ (kind[p] = "value" /\ owner[p] = f)

\* An environment means what it meant when its parts are as they were.
LEMMA ScopeStays ==
  ASSUME ~UsesApply, NEW h, NEW kind, NEW rank, NEW owner, Laid(h, kind, rank, owner),
         NEW e \in OfKind(h, kind, "env"), NEW f, f = first_frame(h, e),
         NEW h2 \in Heaps, Made(h) \subseteq Made(h2),
         \A p \in Made(h) : PartOf(kind, owner, f, p) => h2.car[p] = h.car[p] /\ h2.cdr[p] = h.cdr[p]
  PROVE  ScopeAt(h2, e) = ScopeAt(h, e)
<1>1. h \in Heaps /\ e \in Made(h) /\ kind[e] = "env"
  BY DEF Laid, OfKind
<1>2. /\ f \in OfKind(h, kind, "frame")
      /\ is_list(h, e) /\ length(h, e) <= MaxPair
      /\ \A k \in 1..length(h, e) : Spine(h, e)[k] \in OfKind(h, kind, "env")
      /\ is_list(h, h.car[f]) /\ length(h, h.car[f]) <= MaxPair
      /\ \A k \in 1..length(h, h.car[f]) : Spine(h, h.car[f])[k] \in OfKind(h, kind, "name")
      /\ is_list(h, h.cdr[f]) /\ length(h, h.cdr[f]) = length(h, h.car[f])
      /\ \A k \in 1..length(h, h.cdr[f]) :
            /\ Spine(h, h.cdr[f])[k] \in OfKind(h, kind, "value")
            /\ owner[Spine(h, h.cdr[f])[k]] = f
  BY EnvParts
<1>3. h2.car[e] = f /\ h2.car[f] = h.car[f] /\ h2.cdr[f] = h.cdr[f]
  BY <1>1, <1>2 DEF PartOf, OfKind, first_frame
<1>4. \A k \in 1..length(h, e) : h2.cdr[Spine(h, e)[k]] = h.cdr[Spine(h, e)[k]]
  BY <1>2 DEF PartOf, OfKind
<1>5. \A k \in 1..length(h, h.car[f]) : /\ h2.cdr[Spine(h, h.car[f])[k]] = h.cdr[Spine(h, h.car[f])[k]]
                                        /\ h2.car[Spine(h, h.car[f])[k]] = h.car[Spine(h, h.car[f])[k]]
  BY <1>2 DEF PartOf, OfKind
<1>6. \A k \in 1..length(h, h.cdr[f]) : /\ h2.cdr[Spine(h, h.cdr[f])[k]] = h.cdr[Spine(h, h.cdr[f])[k]]
                                        /\ h2.car[Spine(h, h.cdr[f])[k]] = h.car[Spine(h, h.cdr[f])[k]]
  BY <1>2 DEF PartOf, OfKind
<1> DEFINE xs == h.car[f]
           vs == h.cdr[f]
<1> HIDE DEF xs, vs
<1>7. Spine(h2, e) = Spine(h, e)
  BY <1>1, <1>2, <1>4, SpineStays
<1>8. Spine(h2, xs) = Spine(h, xs) /\ Spine(h2, vs) = Spine(h, vs)
  BY <1>1, <1>2, <1>5, <1>6, SpineStays DEF xs, vs
<1>9. Elements(h2, xs) = Elements(h, xs) /\ Elements(h2, vs) = Elements(h, vs)
  BY <1>1, <1>5, <1>6, <1>8, ElementsStay DEF xs, vs
<1>10. /\ frame_variables(h2, first_frame(h2, e)) = xs /\ frame_values(h2, first_frame(h2, e)) = vs
       /\ frame_variables(h, first_frame(h, e)) = xs /\ frame_values(h, first_frame(h, e)) = vs
  BY <1>3 DEF xs, vs, first_frame, frame_variables, frame_values
<1> QED
  BY <1>7, <1>9, <1>10 DEF ScopeAt

-----------------------------------------------------------------------------
(* Changing one binding.                                                    *)

\* The bindings c are the bindings b with x bound to v.
Rebinds(b, c, x, v) ==
  /\ DOMAIN c = DOMAIN b \cup {x} /\ c[x] = v
  /\ \A y \in DOMAIN b \ {x} : c[y] = b[y]

\* ws and vs differ in place k at most.
AgreeBut(n, k, vs, ws) == \A j \in 1..n : j # k => ws[j] = vs[j]

\* ys is xs with x in front.
InFront(n, x, xs, ys) == ys[1] = x /\ \A j \in 1..n : ys[j + 1] = xs[j]

\* The first of a variable's values is written: its binding changes.
LEMMA BindChanged ==
  ASSUME NEW n, NEW xs, Upto(xs, n), NEW vs, NEW ws, NEW x, NEW k, IsFirst(xs, x, k),
         AgreeBut(n, k, vs, ws)
  PROVE  Rebinds(BindOf(xs, vs), BindOf(xs, ws), x, ws[k])
<1>1. DOMAIN BindOf(xs, ws) = DOMAIN BindOf(xs, vs) \cup {x}
  <2>1. Gives(BindOf(xs, vs), x, vs[k])
    BY BindAt
  <2> QED
    BY <2>1, BindDomain DEF Gives
<1>2. Gives(BindOf(xs, ws), x, ws[k])
  BY BindAt
<1>3. ASSUME NEW y \in DOMAIN BindOf(xs, vs) \ {x} PROVE BindOf(xs, ws)[y] = BindOf(xs, vs)[y]
  <2>1. y \in NamesOf(xs)
    BY <1>3, BindDomain
  <2>2. PICK i \in 1..n : IsFirst(xs, y, i)
    BY <2>1, FirstExists
  <2> HIDE <1>3
  <2>3. Gives(BindOf(xs, ws), y, ws[i])
    BY <2>2, BindAt
  <2>5. Gives(BindOf(xs, vs), y, vs[i])
    BY <2>2, BindAt
  <2>4. i # k
    BY <1>3, <2>2 DEF IsFirst
  <2> QED
    BY <2>2, <2>3, <2>4, <2>5 DEF AgreeBut, Gives
<1> QED
  BY <1>1, <1>2, <1>3 DEF Rebinds, Gives

\* A variable that was not there and a value are put in front: it is bound.
LEMMA BindPushed ==
  ASSUME NEW n, NEW xs, Upto(xs, n), NEW vs, NEW x, x \notin NamesOf(xs),
         NEW ys, Upto(ys, n + 1), InFront(n, x, xs, ys),
         NEW ws, NEW v, InFront(n, v, vs, ws)
  PROVE  Rebinds(BindOf(xs, vs), BindOf(ys, ws), x, v)
<1>0. /\ n \in Nat /\ DOMAIN xs = 1..n /\ DOMAIN ys = 1..(n + 1)
      /\ ys[1] = x /\ \A j \in 1..n : ys[j + 1] = xs[j]
      /\ ws[1] = v /\ \A j \in 1..n : ws[j + 1] = vs[j]
  BY DEF Upto, InFront
<1>1. DOMAIN BindOf(ys, ws) = NamesOf(ys) /\ DOMAIN BindOf(xs, vs) = NamesOf(xs)
  BY BindDomain
<1>2. NamesOf(ys) = NamesOf(xs) \cup {x}
  <2>1. \A j \in 1..(n + 1) : j = 1 \/ (j - 1 \in 1..n /\ ys[j] = xs[j - 1])
    <3> SUFFICES ASSUME NEW j \in 1..(n + 1), j # 1 PROVE j - 1 \in 1..n /\ ys[j] = xs[j - 1]
      OBVIOUS
    <3>1. j - 1 \in 1..n /\ (j - 1) + 1 = j
      BY <1>0
    <3> QED
      BY <1>0, <3>1
  <2>2. 1 \in 1..(n + 1) /\ \A j \in 1..n : j + 1 \in 1..(n + 1)
    BY <1>0
  <2>3. ASSUME NEW z \in NamesOf(ys) PROVE z \in NamesOf(xs) \cup {x}
    <3>1. PICK j \in 1..(n + 1) : z = ys[j]
      BY <1>0, <2>3 DEF NamesOf
    <3>2. CASE j = 1
      BY <1>0, <3>1, <3>2
    <3>3. CASE j # 1
      <4>1. j - 1 \in 1..n /\ z = xs[j - 1]
        BY <2>1, <3>1, <3>3
      <4> QED
        BY <1>0, <4>1 DEF NamesOf
    <3> QED
      BY <3>2, <3>3
  <2>4. x \in NamesOf(ys)
    BY <1>0, <2>2 DEF NamesOf
  <2>5. ASSUME NEW z \in NamesOf(xs) PROVE z \in NamesOf(ys)
    BY <1>0, <2>2 DEF NamesOf
  <2> QED
    BY <2>3, <2>4, <2>5
<1>3. IsFirst(ys, x, 1)
  BY <1>0 DEF IsFirst, Upto
<1>4. Gives(BindOf(ys, ws), x, ws[1])
  BY <1>3, BindAt
<1>5. ASSUME NEW y \in DOMAIN BindOf(xs, vs) \ {x} PROVE BindOf(ys, ws)[y] = BindOf(xs, vs)[y]
  <2>1. y \in NamesOf(xs)
    BY <1>5, BindDomain
  <2>2. PICK i \in 1..n : IsFirst(xs, y, i)
    BY <2>1, FirstExists
  <2>3. i \in 1..n /\ n \in Nat /\ \A j \in 1..(i - 1) : xs[j] # y
    BY <1>0, <2>2 DEF IsFirst
  <2>4. \A j \in 1..i : ys[j] # y
    <3> SUFFICES ASSUME NEW j \in 1..i PROVE ys[j] # y
      OBVIOUS
    <3>1. CASE j = 1
      BY <1>0, <1>5, <3>1
    <3>2. CASE j # 1
      <4>1. j - 1 \in 1..(i - 1) /\ j - 1 \in 1..n /\ (j - 1) + 1 = j
        BY <2>3, <3>2
      <4>2. ys[(j - 1) + 1] = xs[j - 1] /\ xs[j - 1] # y
        BY <1>0, <2>3, <4>1
      <4> QED
        BY <4>1, <4>2
    <3> QED
      BY <3>1, <3>2
  <2>5. ys[i + 1] = y /\ i + 1 \in 1..(n + 1) /\ (i + 1) - 1 = i
    BY <1>0, <2>2, <2>3 DEF IsFirst
  <2>6. IsFirst(ys, y, i + 1)
    BY <1>0, <2>4, <2>5 DEF IsFirst, Upto
  <2>9. ws[i + 1] = vs[i]
    BY <1>0, <2>3
  <2> HIDE <1>5
  <2>7. Gives(BindOf(ys, ws), y, ws[i + 1])
    BY <2>6, BindAt
  <2>8. Gives(BindOf(xs, vs), y, vs[i])
    BY <2>2, BindAt
  <2> QED
    BY <2>7, <2>8, <2>9 DEF Gives
<1> QED
  BY <1>0, <1>1, <1>2, <1>4, <1>5 DEF Rebinds, Gives

\* What the scopes say when one binding of one environment changes.
LEMMA ScopeBound ==
  ASSUME NEW h, NEW h2, NEW es, NEW o \in es, NEW var, NEW val,
         \A e \in es : e # o => ScopeAt(h2, e) = ScopeAt(h, e),
         ScopeAt(h2, o).chain = ScopeAt(h, o).chain,
         Rebinds(ScopeAt(h, o).bind, ScopeAt(h2, o).bind, var, val)
  PROVE  Scoping!Bound(ScopesAt(h, es), ScopesAt(h2, es), o, var, val)
<1>1. /\ DOMAIN ScopesAt(h, es) = es /\ DOMAIN ScopesAt(h2, es) = es
      /\ \A e \in es : ScopesAt(h, es)[e] = ScopeAt(h, e) /\ ScopesAt(h2, es)[e] = ScopeAt(h2, e)
  BY DEF ScopesAt
<1> QED
  BY <1>1 DEF Scoping!Bound, Rebinds

\* A cell of o's frame is written: one binding of o changes, and no other.
LEMMA CellAssigned ==
  ASSUME ~UsesApply, NEW h, NEW kind, NEW rank, NEW owner, Laid(h, kind, rank, owner),
         NEW es, es = OfKind(h, kind, "env"), NEW o \in es,
         NEW f, f = first_frame(h, o), NEW var, NEW val \in Objects,
         NEW p \in Pairs, Cell(h, f, var, p), NEW h2, h2 = SetCar(h, p, val)
  PROVE  Scoping!Bound(ScopesAt(h, es), ScopesAt(h2, es), o, var, val)
<1>1. h \in Heaps /\ o \in OfKind(h, kind, "env") /\ kind \in [Made(h) -> Kinds]
  BY DEF Laid
<1>2. /\ h2 \in Heaps /\ h2.fresh = h.fresh /\ h2.cdr = h.cdr /\ h2.car[p] = val
      /\ \A q \in Pairs : q # p => h2.car[q] = h.car[q]
  BY <1>1, SetCarFacts
<1>3. Made(h2) = Made(h) /\ Made(h) \subseteq Pairs
  BY <1>1, <1>2, NotPairs DEF Made
<1> DEFINE xs == h.car[f]
           vs == h.cdr[f]
           n  == length(h, xs)
<1>4. /\ f \in OfKind(h, kind, "frame") /\ owner[f] = o
      /\ is_list(h, o) /\ length(h, o) <= MaxPair
      /\ is_list(h, xs) /\ n <= MaxPair
      /\ \A k \in 1..n : Spine(h, xs)[k] \in OfKind(h, kind, "name")
      /\ is_list(h, vs) /\ length(h, vs) = n
      /\ \A k \in 1..length(h, vs) : Spine(h, vs)[k] \in OfKind(h, kind, "value") /\ owner[Spine(h, vs)[k]] = f
      /\ \A j, k \in 1..length(h, vs) : j # k => Spine(h, vs)[j] # Spine(h, vs)[k]
  BY <1>1, EnvParts
<1>5. PICK k \in 1..length(h, vs) : At(h, f, var, k) /\ p = Spine(h, vs)[k]
  BY DEF Cell, frame_values
<1>6. kind[p] = "value" /\ owner[p] = f /\ p \in Made(h)
  BY <1>4, <1>5 DEF OfKind
<1>7. ASSUME NEW e \in es, e # o PROVE ScopeAt(h2, e) = ScopeAt(h, e)
  <2> DEFINE g == first_frame(h, e)
  <2>1. e \in OfKind(h, kind, "env") /\ owner[g] = e /\ g = first_frame(h, e) /\ g \in OfKind(h, kind, "frame")
    BY <1>7, EnvParts
  <2> HIDE DEF g
  <2>2. g # f /\ p # g
    BY <1>4, <1>6, <1>7, <2>1 DEF OfKind
  <2>3. ASSUME NEW q \in Made(h), PartOf(kind, owner, g, q)
        PROVE  h2.car[q] = h.car[q] /\ h2.cdr[q] = h.cdr[q]
    <3>1. q # p
      BY <1>6, <2>2, <2>3 DEF PartOf
    <3> QED
      BY <1>2, <1>3, <3>1
  <2>4. Made(h) \subseteq Made(h2)
    BY <1>3
  <2> QED
    BY <1>2, <2>1, <2>3, <2>4, ScopeStays
<1>8. Spine(h2, o) = Spine(h, o) /\ Spine(h2, xs) = Spine(h, xs) /\ Spine(h2, vs) = Spine(h, vs)
  <2>1. length(h, vs) <= MaxPair /\ Made(h) \subseteq Made(h2)
    BY <1>3, <1>4
  <2>2. \A l : \A j \in 1..length(h, l) : h2.cdr[Spine(h, l)[j]] = h.cdr[Spine(h, l)[j]]
    BY <1>2
  <2> HIDE DEF xs, vs, n
  <2>3. n = length(h, xs)
    BY DEF n
  <2> QED
    BY <1>1, <1>2, <1>4, <2>1, <2>2, <2>3, SpineStays
<1>9. h2.car[f] = xs /\ h2.cdr[f] = vs /\ h2.car[o] = f
  <2>1. f # p /\ o # p /\ f \in Pairs /\ o \in Pairs
    BY <1>1, <1>3, <1>4, <1>6 DEF OfKind
  <2> QED
    BY <1>2, <2>1 DEF first_frame
<1>10. \A j \in 1..n : Spine(h, xs)[j] # p
  BY <1>4, <1>6 DEF OfKind
<1>11. Elements(h2, xs) = Elements(h, xs)
  <2>1. \A j \in 1..length(h, xs) : h2.car[Spine(h, xs)[j]] = h.car[Spine(h, xs)[j]]
    BY <1>2, <1>3, <1>4, <1>10 DEF OfKind
  <2> HIDE DEF xs, vs, n
  <2> QED
    BY <1>1, <1>8, <2>1, ElementsStay
<1>12. /\ ScopeAt(h, o) = [bind |-> BindOf(Elements(h, xs), Elements(h, vs)), chain |-> Spine(h, o)]
       /\ ScopeAt(h2, o) = [bind |-> BindOf(Elements(h, xs), Elements(h2, vs)), chain |-> Spine(h, o)]
  BY <1>8, <1>9, <1>11 DEF ScopeAt, first_frame, frame_variables, frame_values
<1>13. /\ n \in Nat /\ DOMAIN Elements(h, xs) = 1..n
       /\ Elements(h, vs) = [j \in 1..n |-> h.car[Spine(h, vs)[j]]]
  BY <1>1, <1>4, ElementsAre
<1>14. Elements(h2, vs) = [j \in 1..n |-> h2.car[Spine(h, vs)[j]]]
  BY <1>2, <1>4, <1>8, ElementsAre DEF length
<1>15. IsFirst(Elements(h, xs), var, k)
  <2>1. k \in Places(h, f, var) /\ \A j \in Places(h, f, var) : k <= j
    BY <1>5 DEF At
  <2>2. Places(h, f, var) = {j \in DOMAIN Elements(h, xs) : Elements(h, xs)[j] = var}
    BY DEF Places, frame_variables
  <2>3. k \in 1..n /\ n \in Nat
    BY <1>4, <1>5, <1>13
  <2>4. ASSUME NEW j \in 1..(k - 1) PROVE Elements(h, xs)[j] # var
    <3>1. j \in 1..n /\ ~(k <= j)
      BY <2>3
    <3> QED
      BY <1>13, <2>1, <2>2, <3>1
  <2> QED
    BY <1>13, <2>1, <2>2, <2>4 DEF IsFirst, Upto
<1>16. \A j \in 1..n : j # k => Elements(h2, vs)[j] = Elements(h, vs)[j]
  <2> SUFFICES ASSUME NEW j \in 1..n, j # k PROVE Elements(h2, vs)[j] = Elements(h, vs)[j]
    OBVIOUS
  <2>1. Spine(h, vs)[j] # p /\ Spine(h, vs)[j] \in Made(h)
    BY <1>4, <1>5 DEF OfKind
  <2> QED
    BY <1>2, <1>3, <1>13, <1>14, <2>1
<1>17. Elements(h2, vs)[k] = val
  <2>1. k \in 1..n /\ p = Spine(h, vs)[k]
    BY <1>4, <1>5
  <2> HIDE DEF n
  <2>2. Elements(h2, vs)[k] = h2.car[Spine(h, vs)[k]]
    BY ONLY <1>14, <2>1
  <2> QED
    BY <1>2, <2>1, <2>2
<1> DEFINE names == Elements(h, xs)
           olds  == Elements(h, vs)
           news  == Elements(h2, vs)
<1>18. /\ ScopeAt(h, o).bind = BindOf(names, olds) /\ ScopeAt(h2, o).bind = BindOf(names, news)
       /\ ScopeAt(h2, o).chain = ScopeAt(h, o).chain
  BY <1>12
<1>19. Upto(names, n) /\ IsFirst(names, var, k) /\ AgreeBut(n, k, olds, news)
  BY <1>13, <1>15, <1>16 DEF Upto, AgreeBut
<1> HIDE DEF names, olds, news, n, xs, vs
<1>20. Rebinds(BindOf(names, olds), BindOf(names, news), var, news[k])
  BY <1>19, BindChanged
<1>21. news[k] = val
  BY <1>17 DEF news
<1> QED
  BY <1>7, <1>18, <1>20, <1>21, ScopeBound

\* A frame was given one more variable, on one more value: one binding is added.
LEMMA BindingNew ==
  ASSUME ~UsesApply, NEW h, NEW kind, NEW rank, NEW owner, Laid(h, kind, rank, owner),
         NEW es, es = OfKind(h, kind, "env"), NEW o \in es,
         NEW f, f = first_frame(h, o), NEW var, NEW val, Places(h, f, var) = {},
         NEW h2 \in Heaps, NEW kind2, NEW rank2, NEW owner2,
         Widened(h, kind, rank, owner, f, var, val, h2, kind2, rank2, owner2)
  PROVE  Scoping!Bound(ScopesAt(h, es), ScopesAt(h2, es), o, var, val)
<1>1. h \in Heaps /\ o \in OfKind(h, kind, "env") /\ kind \in [Made(h) -> Kinds]
  BY DEF Laid
<1> DEFINE a  == h.fresh
           b  == h.fresh + 1
           xs == h.car[f]
           vs == h.cdr[f]
           n  == length(h, xs)
<1>2. /\ h2.fresh = h.fresh + 2 /\ Made(h2) = Made(h) \cup {a, b}
      /\ h2.car[f] = a /\ h2.cdr[f] = b
      /\ h2.car[a] = var /\ h2.cdr[a] = xs /\ h2.car[b] = val /\ h2.cdr[b] = vs
      /\ \A p \in Made(h) : p # f => h2.car[p] = h.car[p] /\ h2.cdr[p] = h.cdr[p]
  BY DEF Widened
<1>3. /\ f \in OfKind(h, kind, "frame") /\ owner[f] = o
      /\ is_list(h, o) /\ length(h, o) <= MaxPair
      /\ \A k \in 1..length(h, o) : Spine(h, o)[k] \in OfKind(h, kind, "env")
      /\ is_list(h, xs) /\ n <= MaxPair /\ n < h.fresh
      /\ \A k \in 1..n : Spine(h, xs)[k] \in OfKind(h, kind, "name")
      /\ is_list(h, vs) /\ length(h, vs) = n
      /\ \A k \in 1..length(h, vs) : Spine(h, vs)[k] \in OfKind(h, kind, "value")
  BY <1>1, EnvParts
<1>4. \A p \in Made(h) : kind[p] # "frame" => h2.car[p] = h.car[p] /\ h2.cdr[p] = h.cdr[p]
  BY <1>2, <1>3 DEF OfKind
<1>5. ASSUME NEW e \in es, e # o PROVE ScopeAt(h2, e) = ScopeAt(h, e)
  <2> DEFINE g == first_frame(h, e)
  <2>1. e \in OfKind(h, kind, "env") /\ owner[g] = e /\ g = first_frame(h, e) /\ g \in OfKind(h, kind, "frame")
    BY <1>5, EnvParts
  <2> HIDE DEF g
  <2>2. g # f
    BY <1>3, <1>5, <2>1
  <2>3. ASSUME NEW q \in Made(h), PartOf(kind, owner, g, q)
        PROVE  h2.car[q] = h.car[q] /\ h2.cdr[q] = h.cdr[q]
    <3>1. q # f
      BY <1>3, <2>2, <2>3 DEF PartOf, OfKind
    <3> QED
      BY <1>2, <3>1
  <2>4. Made(h) \subseteq Made(h2)
    BY <1>2
  <2> QED
    BY <2>1, <2>3, <2>4, ScopeStays
<1>6. /\ Spine(h2, o) = Spine(h, o)
      /\ Spine(h2, xs) = Spine(h, xs) /\ is_list(h2, xs)
      /\ Spine(h2, vs) = Spine(h, vs) /\ is_list(h2, vs)
  <2>1. length(h, vs) <= MaxPair /\ Made(h) \subseteq Made(h2)
    BY <1>2, <1>3
  <2>2. /\ \A j \in 1..length(h, o) : h2.cdr[Spine(h, o)[j]] = h.cdr[Spine(h, o)[j]]
        /\ \A j \in 1..length(h, xs) : h2.cdr[Spine(h, xs)[j]] = h.cdr[Spine(h, xs)[j]]
        /\ \A j \in 1..length(h, vs) : h2.cdr[Spine(h, vs)[j]] = h.cdr[Spine(h, vs)[j]]
    BY <1>3, <1>4 DEF OfKind
  <2>3. is_list(h, xs) /\ length(h, xs) <= MaxPair /\ is_list(h, vs)
    BY <1>3
  <2> HIDE DEF xs, vs, n
  <2> QED
    BY <1>1, <1>3, <2>1, <2>2, <2>3, SpineStays
<1>7. h2.car[o] = f
  BY <1>1, <1>4 DEF OfKind, first_frame
<1>8. n \in Nat /\ n < MaxPair /\ length(h2, xs) = n /\ length(h2, vs) = n
  <2>1. n \in Nat
    BY <1>1, ElementsAre
  <2>2. h2.fresh \in 1..(MaxPair + 1) /\ h.fresh \in Nat /\ MaxPair \in Nat
    BY <1>1, BoundsAssumption DEF Heaps
  <2>3. n < MaxPair
    BY <1>2, <1>3, <2>1, <2>2
  <2> QED
    BY <1>3, <1>6, <2>1, <2>3 DEF length
<1>9. /\ Spine(h2, a) = <<a>> \o Spine(h, xs) /\ length(h2, a) = n + 1
      /\ Spine(h2, b) = <<b>> \o Spine(h, vs) /\ length(h2, b) = n + 1
  <2>1. a \in Made(h2) /\ b \in Made(h2) /\ xs = h2.cdr[a] /\ vs = h2.cdr[b]
    BY <1>2
  <2> HIDE DEF a, b, xs, vs, n
  <2> QED
    BY <1>6, <1>8, <2>1, SpineGrows
<1> DEFINE names == Elements(h, xs)
           olds  == Elements(h, vs)
           more  == Elements(h2, a)
           news  == Elements(h2, b)
<1>10. /\ ScopeAt(h, o).bind = BindOf(names, olds) /\ ScopeAt(h2, o).bind = BindOf(more, news)
       /\ ScopeAt(h2, o).chain = ScopeAt(h, o).chain
  BY <1>2, <1>6, <1>7 DEF ScopeAt, first_frame, frame_variables, frame_values
<1>11. /\ names = [k \in 1..n |-> h.car[Spine(h, xs)[k]]]
       /\ olds = [k \in 1..n |-> h.car[Spine(h, vs)[k]]]
  <2>1. length(h, xs) = n /\ length(h, vs) = n
    BY <1>3
  <2> HIDE DEF n, xs, vs
  <2>2. names = [k \in 1..length(h, xs) |-> h.car[Spine(h, xs)[k]]]
    BY <1>1, ElementsAre
  <2>3. olds = [k \in 1..length(h, vs) |-> h.car[Spine(h, vs)[k]]]
    BY <1>1, ElementsAre
  <2> QED
    BY <2>1, <2>2, <2>3
<1>12. /\ more = [k \in 1..(n + 1) |-> h2.car[Spine(h2, a)[k]]]
       /\ news = [k \in 1..(n + 1) |-> h2.car[Spine(h2, b)[k]]]
  <2>1. length(h2, a) = n + 1 /\ length(h2, b) = n + 1
    BY <1>9
  <2> HIDE DEF n, xs, vs, a, b
  <2>2. more = [k \in 1..length(h2, a) |-> h2.car[Spine(h2, a)[k]]]
    BY ElementsAre
  <2>3. news = [k \in 1..length(h2, b) |-> h2.car[Spine(h2, b)[k]]]
    BY ElementsAre
  <2> QED
    BY <2>1, <2>2, <2>3
<1>13. /\ Spine(h2, a)[1] = a /\ \A j \in 1..n : Spine(h2, a)[j + 1] = Spine(h, xs)[j]
       /\ Spine(h2, b)[1] = b /\ \A j \in 1..n : Spine(h2, b)[j + 1] = Spine(h, vs)[j]
  <2>1. Spine(h, xs) \in Seq(Made(h)) /\ Spine(h, vs) \in Seq(Made(h))
    BY <1>1, SpineTyped
  <2>2. Len(Spine(h, xs)) = n /\ Len(Spine(h, vs)) = n
    BY <1>3 DEF length
  <2> HIDE DEF a, b, xs, vs, n
  <2> QED
    BY <1>9, <2>1, <2>2
<1>14. /\ \A j \in 1..n : h2.car[Spine(h, xs)[j]] = h.car[Spine(h, xs)[j]]
       /\ \A j \in 1..n : h2.car[Spine(h, vs)[j]] = h.car[Spine(h, vs)[j]]
  BY <1>3, <1>4 DEF OfKind
<1>15. var \notin NamesOf(names)
  BY DEF Places, frame_variables, NamesOf
<1> HIDE DEF xs, vs, n, a, b
<1>17. 1 \in 1..(n + 1) /\ \A j \in 1..n : j + 1 \in 1..(n + 1)
  BY <1>8
<1>16. InFront(n, var, names, more) /\ InFront(n, val, olds, news)
  <2>1. more[1] = var /\ news[1] = val
    BY <1>2, <1>12, <1>13, <1>17
  <2>2. ASSUME NEW j \in 1..n PROVE more[j + 1] = names[j] /\ news[j + 1] = olds[j]
    BY <1>11, <1>12, <1>13, <1>14, <1>17
  <2> QED
    BY <2>1, <2>2 DEF InFront
<1>18. Upto(names, n) /\ Upto(more, n + 1)
  BY <1>8, <1>11, <1>12 DEF Upto
<1> HIDE DEF names, olds, more, news
<1>19. Rebinds(BindOf(names, olds), BindOf(more, news), var, val)
  BY <1>15, <1>16, <1>18, BindPushed
<1> QED
  BY <1>5, <1>10, <1>19, ScopeBound

-----------------------------------------------------------------------------
(* What the operations do to the scopes.                                    *)

\* The chain of an environment, and where it binds a variable.
LEMMA ScopeReads ==
  ASSUME NEW h, NEW kind, NEW rank, NEW owner, Laid(h, kind, rank, owner),
         NEW es, es = OfKind(h, kind, "env"), NEW e \in es, NEW var
  PROVE  /\ ScopesAt(h, es)[e].chain = Spine(h, e)
         /\ DOMAIN Spine(h, e) = 1..Len(Spine(h, e)) /\ Len(Spine(h, e)) \in Nat
         /\ \A k \in 1..Len(Spine(h, e)) : Spine(h, e)[k] \in es
         /\ Scoping!Binds(ScopesAt(h, es), e, var) <=> Places(h, first_frame(h, e), var) # {}
<1>1. ScopesAt(h, es)[e] = ScopeAt(h, e)
  BY DEF ScopesAt
<1>2. DOMAIN ScopeAt(h, e).bind = NamesOf(Elements(h, frame_variables(h, first_frame(h, e))))
  BY BindDomain DEF ScopeAt
<1>3. Spine(h, e) \in Seq(Made(h)) /\ \A k \in 1..Len(Spine(h, e)) : Spine(h, e)[k] \in es
  BY FramesAre
<1> QED
  BY <1>1, <1>2, <1>3 DEF Scoping!Binds, ScopeAt, NamesOf, Places

\* set! writes the binding that is seen.
LEMMA SetMeans ==
  ASSUME ~UsesApply, NEW kind, NEW rank, NEW owner, StateOK(heap, envs, held, kind, rank, owner),
         NEW env \in envs, NEW var \in Vars, NEW val \in Vals, SetVariable(env, var, val)
  PROVE  Scoping!Assigns(ScopesAt(heap, envs), ScopesAt(heap', envs'), env, var, val)
<1>1. Laid(heap, kind, rank, owner) /\ envs = OfKind(heap, kind, "env")
  BY DEF StateOK
<1>2. PICK p \in Pairs : Seen(heap, env, var, p) /\ heap' = SetCar(heap, p, val)
  BY DEF SetVariable
<1>3. envs' = envs /\ val \in Objects
  BY DEF SetVariable, Objects
<1>4. PICK i \in DOMAIN Frames(heap, env) :
        /\ Cell(heap, Frames(heap, env)[i], var, p)
        /\ \A j \in 1..(i - 1) : Passed(heap, Frames(heap, env)[j], var)
  BY <1>2 DEF Seen
<1> DEFINE s == Spine(heap, env)
           o == s[i]
           S == ScopesAt(heap, envs)
<1>5. /\ DOMAIN Frames(heap, env) = 1..Len(s) /\ Len(s) \in Nat
      /\ \A k \in 1..Len(s) : Frames(heap, env)[k] = first_frame(heap, s[k]) /\ s[k] \in envs
  BY <1>1, FramesAre
<1>6. o \in envs /\ i \in 1..Len(s) /\ Cell(heap, first_frame(heap, o), var, p)
  BY <1>4, <1>5
<1>7. \A j \in 1..(i - 1) : s[j] \in envs /\ Places(heap, first_frame(heap, s[j]), var) = {}
  <2> SUFFICES ASSUME NEW j \in 1..(i - 1)
               PROVE  s[j] \in envs /\ Places(heap, first_frame(heap, s[j]), var) = {}
    OBVIOUS
  <2>1. j \in 1..Len(s)
    BY <1>5, <1>6
  <2> QED
    BY <1>4, <1>5, <2>1 DEF Passed
<1>8. Places(heap, first_frame(heap, o), var) # {}
  BY <1>6 DEF Cell, At
<1>9. S[env].chain = s /\ DOMAIN s = 1..Len(s) /\ DOMAIN S = envs
  BY <1>1, ScopeReads DEF ScopesAt
<1> HIDE DEF s, S
<1>10. \A e \in envs : Scoping!Binds(S, e, var) <=> Places(heap, first_frame(heap, e), var) # {}
  BY <1>1, ScopeReads DEF S
<1>11. Scoping!Owner(S, env, var, o)
  BY <1>6, <1>7, <1>8, <1>9, <1>10 DEF Scoping!Owner
<1>12. Scoping!Bound(S, ScopesAt(heap', envs), o, var, val)
  BY <1>1, <1>2, <1>3, <1>6, CellAssigned DEF S
<1> QED
  BY <1>3, <1>6, <1>9, <1>11, <1>12 DEF Scoping!Assigns, S

\* define writes or adds a binding of the innermost scope.
LEMMA DefineMeans ==
  ASSUME ~UsesApply, NEW kind, NEW rank, NEW owner, StateOK(heap, envs, held, kind, rank, owner),
         NEW env \in envs, NEW var \in Vars, NEW val \in Vals, DefineVariable(env, var, val)
  PROVE  Scoping!Defines(ScopesAt(heap, envs), ScopesAt(heap', envs'), env, var, val)
<1>1. Laid(heap, kind, rank, owner) /\ envs = OfKind(heap, kind, "env")
  BY DEF StateOK
<1>2. envs' = envs /\ val \in Objects
  BY DEF DefineVariable, Objects
<1> DEFINE f == first_frame(heap, env)
<1>3. f = first_frame(heap, env)
  OBVIOUS
<1> HIDE DEF f
<1>4. \/ \E p \in Pairs : Cell(heap, f, var, p) /\ heap' = SetCar(heap, p, val)
      \/ /\ Places(heap, f, var) = {}
         /\ \E kind2, rank2, owner2 :
              /\ StateOK(heap', envs', held', kind2, rank2, owner2)
              /\ Widened(heap, kind, rank, owner, f, var, val, heap', kind2, rank2, owner2)
  BY <1>3, DefineCases
<1>5. CASE \E p \in Pairs : Cell(heap, f, var, p) /\ heap' = SetCar(heap, p, val)
  <2>1. PICK p \in Pairs : Cell(heap, f, var, p) /\ heap' = SetCar(heap, p, val)
    BY <1>5
  <2>2. Scoping!Bound(ScopesAt(heap, envs), ScopesAt(heap', envs), env, var, val)
    BY <1>1, <1>2, <1>3, <2>1, CellAssigned
  <2> QED
    BY <1>2, <2>2 DEF Scoping!Defines
<1>6. CASE /\ Places(heap, f, var) = {}
           /\ \E kind2, rank2, owner2 :
                /\ StateOK(heap', envs', held', kind2, rank2, owner2)
                /\ Widened(heap, kind, rank, owner, f, var, val, heap', kind2, rank2, owner2)
  <2>1. PICK k2, r2, o2 :
          /\ StateOK(heap', envs', held', k2, r2, o2)
          /\ Widened(heap, kind, rank, owner, f, var, val, heap', k2, r2, o2)
    BY <1>6
  <2>2. heap' \in Heaps
    BY <2>1 DEF StateOK, Laid
  <2>3. Scoping!Bound(ScopesAt(heap, envs), ScopesAt(heap', envs), env, var, val)
    BY <1>1, <1>3, <1>6, <2>1, <2>2, BindingNew
  <2> QED
    BY <1>2, <2>3 DEF Scoping!Defines
<1> QED
  BY <1>4, <1>5, <1>6

\* Writing and making data changes no scope.
LEMMA DataMeansNothing ==
  ASSUME ~UsesApply, NEW h, NEW kind, NEW rank, NEW owner, Laid(h, kind, rank, owner),
         NEW es, es = OfKind(h, kind, "env"), NEW h2 \in Heaps, Made(h) \subseteq Made(h2),
         \A p \in Made(h) : kind[p] # "data" => h2.car[p] = h.car[p] /\ h2.cdr[p] = h.cdr[p]
  PROVE  \A e \in es : ScopeAt(h2, e) = ScopeAt(h, e)
<1> SUFFICES ASSUME NEW e \in es PROVE ScopeAt(h2, e) = ScopeAt(h, e)
  OBVIOUS
<1> DEFINE f == first_frame(h, e)
<1>1. f = first_frame(h, e) /\ f \in OfKind(h, kind, "frame") /\ e \in OfKind(h, kind, "env")
  BY EnvParts
<1> HIDE DEF f
<1>2. \A p \in Made(h) : PartOf(kind, owner, f, p) => h2.car[p] = h.car[p] /\ h2.cdr[p] = h.cdr[p]
  BY <1>1 DEF PartOf, OfKind
<1> QED
  BY <1>1, <1>2, ScopeStays

\* A call adds one scope, inside that of the procedure.
LEMMA CallMeans ==
  ASSUME ~UsesApply, NEW h, NEW es, NEW ds, NEW kind, NEW rank, NEW owner,
         StateOK(h, es, ds, kind, rank, owner), NEW env \in es,
         NEW h2, NEW es2, NEW ds2, Called(h, kind, rank, owner, env, {}, h2, es2, ds2)
  PROVE  /\ h2.fresh - 1 \in es2 \ es /\ es2 = es \cup {h2.fresh - 1}
         /\ Scoping!Enters(ScopesAt(h, es), ScopesAt(h2, es2), env, ScopeAt(h2, h2.fresh - 1).bind)
<1>1. Laid(h, kind, rank, owner) /\ es = OfKind(h, kind, "env") /\ h \in Heaps
  BY DEF StateOK, Laid
<1>2. PICK k2, r2, o2 :
        /\ StateOK(h2, es2, ds2, k2, r2, o2)
        /\ Kept(h, kind, rank, owner, h2, k2, r2, o2)
        /\ EnvAdded(h, kind, env, h2, k2)
  BY DEF Called
<1> DEFINE e == h2.fresh - 1
<1>3. h2 \in Heaps /\ es2 = OfKind(h2, k2, "env") /\ Laid(h2, k2, r2, o2)
  BY <1>2 DEF StateOK, Laid
<1>4. es2 = es \cup {e} /\ e \in Made(h2) \ Made(h) /\ h2.cdr[e] = env
  BY <1>1, <1>2, <1>3 DEF EnvAdded
<1>5. e \notin es
  BY <1>1, <1>4 DEF OfKind
<1>6. /\ h.fresh \in Nat /\ h2.fresh \in Nat /\ h.fresh <= h2.fresh
      /\ h2.fresh <= MaxPair + 1 /\ MaxPair \in Nat
      /\ Made(h) = 1..(h.fresh - 1) /\ Made(h2) = 1..(h2.fresh - 1)
  BY <1>1, <1>2, <1>3, BoundsAssumption DEF Kept, Heaps, Made
<1>7. Made(h) \subseteq Made(h2)
  BY <1>6
<1>8. \A p \in Made(h) : kind[p] # "data" => h2.car[p] = h.car[p] /\ h2.cdr[p] = h.cdr[p]
  BY <1>2 DEF Kept
<1>9. \A d \in es : ScopeAt(h2, d) = ScopeAt(h, d)
  BY <1>1, <1>3, <1>7, <1>8, DataMeansNothing
<1>10. Spine(h2, env) = Spine(h, env)
  BY <1>9 DEF ScopeAt
<1>11. length(h, env) \in Nat /\ length(h, env) < h.fresh /\ is_list(h2, env)
  <2>1. length(h, env) < h.fresh
    BY <1>1, EnvParts
  <2>2. length(h, env) \in Nat
    BY <1>1, ElementsAre
  <2>3. env \in OfKind(h2, k2, "env")
    BY <1>3, <1>4
  <2>4. is_list(h2, env)
    BY <1>3, <2>3, EnvParts
  <2> QED
    BY <2>1, <2>2, <2>4
<1>12. length(h2, env) < MaxPair
  <2>1. length(h2, env) = length(h, env)
    BY <1>10 DEF length
  <2>2. h.fresh <= h2.fresh - 1
    BY <1>4, <1>6
  <2> QED
    BY <1>6, <1>11, <2>1, <2>2
<1> HIDE DEF e
<1>13. Spine(h2, e) = <<e>> \o Spine(h, env)
  BY <1>3, <1>4, <1>10, <1>11, <1>12, SpineGrows
<1> DEFINE s == ScopesAt(h, es)
           t == ScopesAt(h2, es2)
<1>14. /\ DOMAIN s = es /\ DOMAIN t = es2
       /\ \A d \in es : t[d] = s[d]
       /\ t[e] = ScopeAt(h2, e) /\ s[env].chain = Spine(h, env)
  BY <1>4, <1>9 DEF ScopesAt, ScopeAt
<1>15. t[e] = [bind |-> ScopeAt(h2, e).bind, chain |-> <<e>> \o s[env].chain]
  BY <1>13, <1>14 DEF ScopeAt
<1> HIDE DEF s, t
<1>16. Scoping!Enters(s, t, env, ScopeAt(h2, e).bind)
  BY <1>4, <1>5, <1>14, <1>15 DEF Scoping!Enters
<1> QED
  BY <1>4, <1>5, <1>16 DEF e, s, t

\* What a step does to the scopes.
LEMMA StepMeans ==
  ASSUME ~UsesApply
  PROVE  IInv /\ [Next]_vars =>
           ScopesAt(heap', envs') = ScopesAt(heap, envs)
             \/ Scoping!Step(ScopesAt(heap, envs), ScopesAt(heap', envs'))
<1> DEFINE s == ScopesAt(heap, envs)
           t == ScopesAt(heap', envs')
<1> SUFFICES ASSUME IInv, [Next]_vars PROVE t = s \/ Scoping!Step(s, t)
  OBVIOUS
<1>1. PICK kind, rank, owner : StateOK(heap, envs, held, kind, rank, owner)
  BY DEF IInv
<1>2. DOMAIN Formals = 1..Len(Formals)
  BY FormalsAssumption
<1>3. \A vals \in ArgLists : vals \in Seq(Vals)
  BY ValListsTyped, BoundsAssumption DEF ArgLists
<1>4. Laid(heap, kind, rank, owner) /\ heap \in Heaps /\ envs = OfKind(heap, kind, "env")
      /\ held \subseteq OfKind(heap, kind, "data")
  BY <1>1 DEF StateOK, Laid
<1>5. DOMAIN s = envs /\ DOMAIN t = envs' /\ \A e \in envs' : t[e] = ScopeAt(heap', e)
  BY DEF ScopesAt
<1>6. ASSUME NEW e \in envs, NEW var, NEW val, Scoping!Bound(s, t, e, var, val)
      PROVE  Scoping!Step(s, t)
  <2>1. var \in DOMAIN t[e].bind /\ val = t[e].bind[var]
    BY <1>6 DEF Scoping!Bound
  <2> HIDE DEF s, t
  <2>2. Scoping!Bound(s, t, e, var, t[e].bind[var])
    BY <1>6, <2>1
  <2> QED
    BY <1>5, <2>1, <2>2 DEF Scoping!Step
<1>7. ASSUME envs' = envs, heap' \in Heaps, Made(heap) \subseteq Made(heap'),
             \A p \in Made(heap) : kind[p] # "data" => heap'.car[p] = heap.car[p] /\ heap'.cdr[p] = heap.cdr[p]
      PROVE  t = s
  <2>1. \A e \in envs : ScopeAt(heap', e) = ScopeAt(heap, e)
    BY <1>4, <1>7, DataMeansNothing
  <2> QED
    BY <1>7, <2>1 DEF ScopesAt
<1>8. ASSUME NEW env \in envs, NEW i \in DOMAIN Formals, NEW vals \in ArgLists, Call(i, env, vals)
      PROVE  Scoping!Step(s, t)
  <2> DEFINE h == Push(heap, vals, nil)
             args == ListOn(heap, vals, nil)
             e == heap'.fresh - 1
  <2>1. h.fresh <= MaxPair + 1 /\ ApplyProcedure(h, i, env, args)
    BY <1>8 DEF Call
  <2> HIDE DEF h, args
  <2>2. h = Push(heap, vals, nil) /\ args = ListOn(heap, vals, nil) /\ vals \in Seq(Vals) /\ i \in 1..Len(Formals)
    BY <1>2, <1>3 DEF h, args
  <2>3. Called(heap, kind, rank, owner, env, {}, heap', envs', held')
    BY <1>1, <2>1, <2>2, CallStep
  <2>4. e \in envs' \ envs /\ envs' = envs \cup {e} /\ Scoping!Enters(s, t, env, ScopeAt(heap', e).bind)
    BY <1>1, <2>3, CallMeans
  <2> HIDE DEF e, s, t
  <2>5. Scoping!Enters(s, t, env, t[e].bind) /\ e \in DOMAIN t \ DOMAIN s /\ env \in DOMAIN s
    BY <1>5, <2>4
  <2> QED
    BY <2>5 DEF Scoping!Step
<1>9. ASSUME NEW env \in envs, NEW i \in DOMAIN Formals, NEW vals \in ArgLists, NEW lst \in held,
             Apply(i, env, vals, lst)
      PROVE  FALSE
  BY <1>9 DEF Apply
<1>10. ASSUME NEW env \in envs, NEW var \in Vars, NEW val \in Vals, SetVariable(env, var, val)
       PROVE  Scoping!Step(s, t)
  <2>1. Scoping!Assigns(s, t, env, var, val)
    BY <1>1, <1>10, SetMeans
  <2>2. PICK o \in DOMAIN s : Scoping!Bound(s, t, o, var, val)
    BY <2>1 DEF Scoping!Assigns
  <2>3. o \in envs
    BY <1>5, <2>2
  <2> QED
    BY <1>6, <2>2, <2>3
<1>11. ASSUME NEW env \in envs, NEW var \in Vars, NEW val \in Vals, DefineVariable(env, var, val)
       PROVE  Scoping!Step(s, t)
  <2>1. Scoping!Bound(s, t, env, var, val)
    BY <1>1, <1>11, DefineMeans DEF Scoping!Defines
  <2> QED
    BY <1>6, <2>1
<1>12. ASSUME NEW vals \in ValLists(MaxData), MakeList(vals) PROVE t = s
  <2>1. heap' = Push(heap, vals, nil) /\ heap'.fresh <= MaxPair + 1 /\ envs' = envs
    BY <1>12 DEF MakeList
  <2>2. vals \in Seq(Vals)
    BY ValListsTyped, BoundsAssumption
  <2>3. IsOf(heap, kind, nil, "data") /\ \A j \in 1..Len(Formals) : ParametersOK(heap, kind, rank, owner, j)
    BY <1>1 DEF StateOK, IsOf
  <2>4. PICK k2, r2, o2 : Consed(heap, kind, rank, owner, vals, nil, heap', k2, r2, o2)
    BY <1>4, <2>1, <2>2, <2>3, ConsData
  <2>5. Extends_(heap, kind, rank, owner, heap', k2, r2, o2)
    BY <2>4 DEF Consed
  <2>6. /\ heap' \in Heaps /\ Made(heap) \subseteq Made(heap')
        /\ \A p \in Made(heap) : heap'.car[p] = heap.car[p] /\ heap'.cdr[p] = heap.cdr[p]
    BY <2>5 DEF Extends_
  <2> QED
    BY <1>7, <2>1, <2>6
<1>13. ASSUME NEW p \in held, NEW val \in Vals, UserSetCar(p, val) PROVE t = s
  <2>1. heap' = SetCar(heap, p, val) /\ envs' = envs
    BY <1>13 DEF UserSetCar
  <2>2. p \in Made(heap) /\ kind[p] = "data" /\ val \in Objects /\ Made(heap) \subseteq Pairs
    BY <1>4, NotPairs DEF OfKind, Objects
  <2>3. /\ heap' \in Heaps /\ heap'.fresh = heap.fresh /\ heap'.cdr = heap.cdr
        /\ \A q \in Pairs : q # p => heap'.car[q] = heap.car[q]
    BY <1>4, <2>1, <2>2, SetCarFacts
  <2>4. Made(heap') = Made(heap)
    BY <2>3 DEF Made
  <2>5. \A q \in Made(heap) : kind[q] # "data" => heap'.car[q] = heap.car[q] /\ heap'.cdr[q] = heap.cdr[q]
    BY <2>2, <2>3
  <2> QED
    BY <1>7, <2>1, <2>3, <2>4, <2>5
<1>14. ASSUME NEW p \in held, NEW o \in held \cup {nil}, UserSetCdr(p, o) PROVE t = s
  <2>1. heap' = SetCdr(heap, p, o) /\ envs' = envs
    BY <1>14 DEF UserSetCdr
  <2>2. p \in Made(heap) /\ kind[p] = "data" /\ o \in Objects /\ Made(heap) \subseteq Pairs
    BY <1>4, NotPairs DEF OfKind, Objects
  <2>3. /\ heap' \in Heaps /\ heap'.fresh = heap.fresh /\ heap'.car = heap.car
        /\ \A q \in Pairs : q # p => heap'.cdr[q] = heap.cdr[q]
    BY <1>4, <2>1, <2>2, SetCdrFacts
  <2>4. Made(heap') = Made(heap)
    BY <2>3 DEF Made
  <2>5. \A q \in Made(heap) : kind[q] # "data" => heap'.car[q] = heap.car[q] /\ heap'.cdr[q] = heap.cdr[q]
    BY <2>2, <2>3
  <2> QED
    BY <1>7, <2>1, <2>3, <2>4, <2>5
<1>15. CASE UNCHANGED vars
  BY <1>15 DEF vars
<1> QED
  BY <1>8, <1>9, <1>10, <1>11, <1>12, <1>13, <1>14, <1>15 DEF Next

\* At first there is the global scope, on its own.
LEMMA FirstScope == Init => \A e \in envs : Spine(heap, e) = <<e>>
<1> SUFFICES ASSUME Init, NEW e \in envs PROVE Spine(heap, e) = <<e>>
  OBVIOUS
<1>1. IInv
  BY Initially
<1>2. PICK kind, rank, owner : StateOK(heap, envs, held, kind, rank, owner)
  BY <1>1 DEF IInv
<1>3. heap \in Heaps /\ e = heap.fresh - 1 /\ e \in Made(heap)
  BY <1>2 DEF Init, StateOK, Laid, OfKind
<1>4. heap.cdr[e] = nil
  <2> DEFINE h == Text[Len(Formals)]
  <2>1. PICK k, r, o : TextOK(Len(Formals), h, k, r, o)
    BY TextLaid
  <2>2. heap = ExtendEnvironment(h, nil, nil, nil) /\ h.fresh + 2 <= MaxPair + 1
    BY RoomAssumption DEF Init
  <2> HIDE DEF h
  <2>3. Laid(h, k, r, o) /\ \A K : IsOf(h, k, nil, K)
    BY <2>1 DEF TextOK, IsOf
  <2>4. SameSize(r, nil, nil) /\ OwnedBy(o, nil, h.fresh)
    BY DEF SameSize, OwnedBy
  <2>5. PICK k2, r2, o2 : Entered(h, nil, nil, nil, heap, k2, r2, o2)
    BY <2>2, <2>3, <2>4, ExtendKeeps
  <2>6. h.fresh \in Nat
    BY <2>3 DEF Laid, Heaps
  <2>7. heap.fresh = h.fresh + 2 /\ heap.cdr[h.fresh + 1] = nil
    BY <2>5 DEF Entered
  <2>8. e = h.fresh + 1
    BY <1>3, <2>6, <2>7
  <2> QED
    BY <2>7, <2>8
<1>5. nil \notin Made(heap) /\ \A o : is_pair(heap, o) <=> o \in Made(heap)
  BY <1>3, NotPairs
<1> DEFINE s == <<e>>
<1>6. MaxPair \in Nat /\ MaxPair >= 1
  BY <1>3, BoundsAssumption DEF Heaps, Made
<1>7. Walked(heap, MaxPair, e, s)
  BY <1>3, <1>4, <1>5, <1>6, ChainOfOne
<1>8. Len(s) = 1 /\ s[Len(s)] = e
  OBVIOUS
<1> HIDE DEF s
<1>9. Chain(heap, e, s) /\ Len(s) <= MaxPair /\ ~is_pair(heap, heap.cdr[s[Len(s)]])
  BY <1>4, <1>5, <1>6, <1>7, <1>8 DEF Walked
<1>10. Spine(heap, e) = s
  BY <1>3, <1>9, ChainIsSpine
<1> QED
  BY <1>10 DEF s

-----------------------------------------------------------------------------
\* Frames on pairs implement lexical scopes, as long as no apply shares a
\* user's list with a frame: set! and define change one binding, a call makes
\* one scope inside that of its procedure, and nothing done to data changes a
\* binding.
THEOREM PairsImplementScopes ==
  ASSUME ~UsesApply PROVE Spec => ImplementsScopes
<1> DEFINE S == [e \in envs |-> ScopeOf(e)]
<1>1. Init => Scoping!Init
  <2>1. ASSUME Init, NEW e \in envs PROVE ScopeOf(e).chain = <<e>>
    BY <2>1, FirstScope DEF ScopeOf
  <2>2. DOMAIN S = envs /\ \A e \in envs : S[e] = ScopeOf(e)
    OBVIOUS
  <2> QED
    BY <2>1, <2>2 DEF Scoping!Init
<1>2. IInv /\ [Next]_vars => [Scoping!Next]_S
  <2> SUFFICES ASSUME IInv, [Next]_vars PROVE S' = S \/ Scoping!Next
    OBVIOUS
  <2>1. S = ScopesAt(heap, envs)
    BY ScopesNow
  <2>2. S' = ScopesAt(heap', envs')
    BY ScopesNext
  <2>3. ScopesAt(heap', envs') = ScopesAt(heap, envs) \/ Scoping!Step(ScopesAt(heap, envs), ScopesAt(heap', envs'))
    BY StepMeans
  <2>4. S' = S \/ Scoping!Step(S, S')
    BY <2>1, <2>2, <2>3
  <2> QED
    BY <2>4 DEF Scoping!Next
<1> QED
  BY <1>1, <1>2, Invariance, PTL DEF Spec, ImplementsScopes, Scoping!Spec

-----------------------------------------------------------------------------
(* What a call binds.                                                       *)

\* The pairs from b on are the list of e that ends in tail.
Listing(h, b, e, tail) ==
  /\ Block(h, b, Len(e), tail)
  /\ \A k \in 1..Len(e) : h.car[b + k - 1] = e[k]

\* Such a list has these elements.
LEMMA ListingIs ==
  ASSUME NEW h \in Heaps, NEW b \in Nat, NEW e \in Seq(Objects), NEW tail, ~is_pair(h, tail),
         Listing(h, b, e, tail), NEW l, l = IF e = << >> THEN tail ELSE b
  PROVE  Elements(h, l) = e /\ End(h, l) = tail
<1> DEFINE n == Len(e)
           s == [k \in 1..n |-> b + k - 1]
           t == [k \in 1..n |-> h.car[s[k]]]
<1>1. n \in Nat /\ (e = << >> <=> n = 0)
  OBVIOUS
<1>2. Block(h, b, n, tail) /\ \A k \in 1..n : h.car[b + k - 1] = e[k]
  BY DEF Listing
<1> HIDE DEF n
<1>3. Spine(h, l) = s /\ End(h, l) = tail
  BY <1>1, <1>2, BlockSpine
<1>4. Elements(h, l) = t
  <2>1. DOMAIN s = 1..n
    OBVIOUS
  <2> QED
    BY <1>3, <2>1 DEF Elements
<1>5. \A k \in 1..n : h.car[s[k]] = e[k] /\ e[k] \in Objects
  BY <1>2 DEF n
<1> HIDE DEF s
<1>6. t \in Seq(Objects) /\ Len(t) = n /\ \A k \in 1..n : t[k] = e[k]
  <2>1. \A k \in 1..n : h.car[s[k]] \in Objects
    BY <1>5
  <2> QED
    BY <1>1, <1>5, <2>1
<1> HIDE DEF t
<1>7. t = e
  BY <1>6, SeqEqual DEF n
<1> QED
  BY <1>3, <1>4, <1>7

\* It stays as long as nobody writes its pairs.
LEMMA ListingStays ==
  ASSUME NEW h \in Heaps, NEW h2 \in Heaps, NEW b, NEW e, NEW tail, Listing(h, b, e, tail),
         Made(h) \subseteq Made(h2),
         \A k \in 1..Len(e) : /\ h2.car[b + k - 1] = h.car[b + k - 1]
                              /\ h2.cdr[b + k - 1] = h.cdr[b + k - 1]
  PROVE  Listing(h2, b, e, tail)
BY DEF Listing, Block

\* What is consed is such a list.
LEMMA PushListing ==
  ASSUME NEW h \in Heaps, NEW e \in Seq(Objects), NEW tail \in Objects,
         h.fresh + Len(e) <= MaxPair + 1, NEW h2, h2 = Push(h, e, tail)
  PROVE  /\ h2 \in Heaps /\ h2.fresh = h.fresh + Len(e) /\ Made(h) \subseteq Made(h2)
         /\ \A p \in Made(h) : h2.car[p] = h.car[p] /\ h2.cdr[p] = h.cdr[p]
         /\ Listing(h2, h.fresh, e, tail)
<1> DEFINE n == Len(e)
           b == h.fresh
<1>1. /\ h2 \in Heaps /\ h2.fresh = b + n /\ b <= h2.fresh
      /\ \A p \in Made(h) : h2.car[p] = h.car[p] /\ h2.cdr[p] = h.cdr[p]
      /\ \A p \in Made(h2) \ Made(h) :
            /\ h2.car[p] = e[p - b + 1]
            /\ h2.cdr[p] = IF p = h2.fresh - 1 THEN tail ELSE p + 1
  BY PushFacts
<1>2. n \in Nat /\ b \in Nat \ {0}
  BY DEF Heaps
<1> HIDE DEF n, b
<1>3. b = h.fresh
  BY DEF b
<1>4. Made(h) \subseteq Made(h2)
  BY <1>1, <1>2, <1>3 DEF Made
<1>5. ASSUME NEW k \in 1..n
      PROVE  /\ b + k - 1 \in Made(h2) /\ h2.cdr[b + k - 1] = IF k = n THEN tail ELSE b + k
             /\ h2.car[b + k - 1] = e[k]
  <2>1. b + k - 1 \in Made(h2) \ Made(h)
    BY <1>1, <1>2, <1>3 DEF Made
  <2>2. (b + k - 1 = h2.fresh - 1 <=> k = n) /\ (b + k - 1) + 1 = b + k /\ (b + k - 1) - b + 1 = k
    BY <1>1, <1>2
  <2>3. h2.car[b + k - 1] = e[(b + k - 1) - b + 1]
    BY <1>1, <2>1
  <2>4. h2.cdr[b + k - 1] = IF b + k - 1 = h2.fresh - 1 THEN tail ELSE (b + k - 1) + 1
    BY <1>1, <2>1
  <2> QED
    BY <2>1, <2>2, <2>3, <2>4
<1>6. Listing(h2, b, e, tail)
  BY <1>5 DEF Listing, Block, n
<1> QED
  BY <1>1, <1>3, <1>4, <1>6 DEF n

\* extend_environment conses the frame and the environment.
LEMMA ExtendIs ==
  ASSUME NEW h \in Heaps, NEW xs \in Objects, NEW vs \in Objects, NEW env \in Objects,
         NEW h2, h2 = ExtendEnvironment(h, xs, vs, env), h2.fresh <= MaxPair + 1,
         NEW f, f = h.fresh
  PROVE  /\ h2 \in Heaps /\ h2.fresh = f + 2 /\ Made(h) \subseteq Made(h2)
         /\ \A p \in Made(h) : h2.car[p] = h.car[p] /\ h2.cdr[p] = h.cdr[p]
         /\ h2.car[f + 1] = f /\ h2.car[f] = xs /\ h2.cdr[f] = vs
<1> DEFINE e1 == <<xs>>
           e2 == <<f>>
           h1 == Push(h, e1, vs)
<1>1. /\ f \in Nat \ {0} /\ MaxPair \in Nat /\ Len(e1) = 1 /\ Len(e2) = 1
      /\ e1[1] = xs /\ e2[1] = f /\ e1 \in Seq(Objects)
  BY BoundsAssumption DEF Heaps
<1>2. h2 = Push(h1, e2, env) /\ h2.fresh = h.fresh + 1 + 1
  <2>1. h2.fresh = h.fresh + 1 + 1
    BY FreshAfter
  <2> QED
    BY <2>1 DEF ExtendEnvironment
<1>3. h2.fresh = f + 2 /\ f + 2 <= MaxPair + 1 /\ f \in Pairs
  BY <1>1, <1>2 DEF Pairs
<1>4. e2 \in Seq(Objects)
  BY <1>3 DEF Objects
<1>12. e1 \in Seq(Objects)
  OBVIOUS
<1> HIDE DEF e1, e2
<1>5. h1 = Push(h, e1, vs) /\ h.fresh + Len(e1) <= MaxPair + 1
  BY <1>1, <1>3
<1> HIDE DEF h1
<1>6. /\ h1 \in Heaps /\ h1.fresh = h.fresh + Len(e1) /\ Made(h) \subseteq Made(h1)
      /\ \A p \in Made(h) : h1.car[p] = h.car[p] /\ h1.cdr[p] = h.cdr[p]
      /\ Listing(h1, h.fresh, e1, vs)
  BY <1>5, <1>12, PushListing
<1>7. h1.fresh + Len(e2) <= MaxPair + 1
  BY <1>1, <1>3, <1>6
<1>8. /\ h2 \in Heaps /\ Made(h1) \subseteq Made(h2)
      /\ \A p \in Made(h1) : h2.car[p] = h1.car[p] /\ h2.cdr[p] = h1.cdr[p]
      /\ Listing(h2, h1.fresh, e2, env)
  BY <1>2, <1>4, <1>6, <1>7, PushListing
<1>9. 1 \in 1..1 /\ f + 1 - 1 = f /\ h1.fresh = f + 1 /\ (f + 1) + 1 - 1 = f + 1
  BY <1>1, <1>6
<1>10. f \in Made(h1) /\ h1.car[f] = xs /\ h1.cdr[f] = vs
  BY <1>1, <1>6, <1>9 DEF Listing, Block
<1>11. h2.car[f + 1] = f
  BY <1>1, <1>8, <1>9 DEF Listing
<1> QED
  BY <1>3, <1>6, <1>8, <1>10, <1>11

\* After fixup_varargs with arguments vals, n of them for names: the names
\* from a on, the first n values from b on and then w, which holds the list r
\* of the others.
Fixed(g, a, b, names, vals, n, w, r) ==
  /\ Listing(g, a, names, nil)
  /\ w \in Made(g) /\ g.car[w] = r /\ g.cdr[w] = nil /\ n + 1 <= MaxPair
  /\ \A k \in 1..Len(vals) :
        /\ b + k - 1 \in Made(g) /\ g.car[b + k - 1] = vals[k]
        /\ g.cdr[b + k - 1] = IF k = n THEN w ELSE IF k = Len(vals) THEN nil ELSE b + k

\* The pairs of arguments vals and the names before the values are wrapped.
LEMMA NamesCopied ==
  ASSUME NEW h \in Heaps, NEW names \in Seq(Objects),
         NEW vals \in Seq(Objects), NEW b \in Nat \ {0}, b + Len(vals) = h.fresh, Listing(h, b, vals, nil),
         NEW r \in Objects, NEW w, w = h.fresh + Len(names), w + 1 <= MaxPair + 1,
         NEW h1, h1 = Push(h, names, nil), NEW e2 \in Seq(Objects), Single(e2, r),
         NEW h2, h2 = Push(h1, e2, nil)
  PROVE  /\ h1.fresh = w
         /\ h2 \in Heaps /\ h2.fresh = w + 1 /\ Made(h) \subseteq Made(h2)
         /\ \A p \in Made(h) : h2.car[p] = h.car[p] /\ h2.cdr[p] = h.cdr[p]
         /\ Listing(h2, h.fresh, names, nil) /\ Listing(h2, b, vals, nil)
         /\ w \in Made(h2) /\ h2.car[w] = r /\ h2.cdr[w] = nil
<1> DEFINE m == Len(vals)
           n == Len(names)
           a == h.fresh
<1>1. /\ m \in Nat /\ n \in Nat /\ a \in Nat \ {0} /\ MaxPair \in Nat /\ w \in Nat
      /\ nil \in Objects /\ Len(e2) = 1 /\ e2[1] = r
  BY BoundsAssumption DEF Heaps, Objects, Single
<1>2. h.fresh + Len(names) <= MaxPair + 1
  BY <1>1
<1>3. /\ h1 \in Heaps /\ h1.fresh = w /\ Made(h) \subseteq Made(h1)
      /\ \A p \in Made(h) : h1.car[p] = h.car[p] /\ h1.cdr[p] = h.cdr[p]
      /\ Listing(h1, a, names, nil)
  BY <1>1, <1>2, PushListing
<1>4. h1.fresh + Len(e2) <= MaxPair + 1
  BY <1>1, <1>3
<1>5. /\ h2 \in Heaps /\ h2.fresh = h1.fresh + Len(e2) /\ Made(h1) \subseteq Made(h2)
      /\ \A p \in Made(h1) : h2.car[p] = h1.car[p] /\ h2.cdr[p] = h1.cdr[p]
      /\ Listing(h2, h1.fresh, e2, nil)
  <2>1. h1 \in Heaps /\ nil \in Objects
    BY <1>1, <1>3
  <2> QED
    BY <1>4, <2>1, PushListing
<1>6. Listing(h2, a, names, nil)
  <2>1. \A k \in 1..Len(names) : a + k - 1 \in Made(h1)
    BY <1>3 DEF Listing, Block
  <2>2. \A k \in 1..Len(names) : /\ h2.car[a + k - 1] = h1.car[a + k - 1]
                                 /\ h2.cdr[a + k - 1] = h1.cdr[a + k - 1]
    BY <1>5, <2>1
  <2> QED
    BY <1>3, <1>5, <2>2, ListingStays
<1>7. /\ Made(h) \subseteq Made(h2)
      /\ \A p \in Made(h) : h2.car[p] = h.car[p] /\ h2.cdr[p] = h.cdr[p]
  BY <1>3, <1>5
<1>8. Listing(h2, b, vals, nil)
  <2>1. \A k \in 1..Len(vals) : b + k - 1 \in Made(h)
    BY DEF Listing, Block
  <2>2. \A k \in 1..Len(vals) : /\ h2.car[b + k - 1] = h.car[b + k - 1]
                                /\ h2.cdr[b + k - 1] = h.cdr[b + k - 1]
    BY <1>7, <2>1
  <2> QED
    BY <1>5, <1>7, <2>2, ListingStays
<1>9. 1 \in 1..1 /\ w + 1 - 1 = w
  BY <1>1
<1>10. w \in Made(h2) /\ h2.car[w] = r /\ h2.cdr[w] = nil
  BY <1>1, <1>3, <1>5, <1>9 DEF Listing, Block
<1> QED
  BY <1>1, <1>3, <1>5, <1>6, <1>7, <1>8, <1>10

\* A call of fixup_varargs, with n variables before the rest variable, for
\* which r is left of the values.
Fixing(h, names, rest, ps, vals, b, args, n, fixed, r) ==
  /\ h \in Heaps /\ names \in Seq(Objects) /\ rest \in Objects
  /\ Elements(h, ps) = names /\ End(h, ps) = rest
  /\ vals \in Seq(Objects) /\ b \in Nat \ {0} /\ b + Len(vals) = h.fresh
  /\ Listing(h, b, vals, nil) /\ args = IF vals = << >> THEN nil ELSE b
  /\ n = Len(names) /\ n <= Len(vals) /\ fixed = FixupVarargs(h, ps, args)
  /\ fixed.heap.fresh <= MaxPair + 1 /\ r = IF n < Len(vals) THEN b + n ELSE nil

\* fixup_varargs, cell by cell.
LEMMA FixupIs ==
  ASSUME NEW h, NEW names, NEW rest, NEW ps, NEW vals, NEW b, NEW args, NEW n, NEW fixed, NEW r,
         Fixing(h, names, rest, ps, vals, b, args, n, fixed, r)
  PROVE  \E w \in Nat :
            /\ fixed.heap \in Heaps /\ Made(h) \subseteq Made(fixed.heap)
            /\ fixed.vars = h.fresh /\ fixed.vals = IF n = 0 THEN w ELSE args
            /\ w \in Objects /\ r \in Objects
            /\ Fixed(fixed.heap, h.fresh, b, Append(names, rest), vals, n, w, r)
<1> USE DEF Fixing
<1> DEFINE m == Len(vals)
           e1 == Append(names, rest)
           w == h.fresh + Len(e1)
           h1 == Push(h, e1, nil)
           e2 == <<r>>
           h2 == Push(h1, e2, nil)
           q == b + n - 1
           g == IF n = 0 THEN h2 ELSE SetCdr(h2, q, w)
<1>1. /\ m \in Nat /\ n \in Nat /\ h.fresh \in Nat \ {0} /\ MaxPair \in Nat
      /\ e1 \in Seq(Objects) /\ Len(e1) = n + 1 /\ w = h.fresh + (n + 1) /\ w \in Nat
      /\ Len(e2) = 1 /\ e2[1] = r /\ b \in Nat /\ n <= m
  BY BoundsAssumption DEF Heaps
<1>2. Spine(h, args) = [k \in 1..m |-> b + k - 1] /\ End(h, args) = nil
  <2>1. ~is_pair(h, nil) /\ Block(h, b, m, nil) /\ args = IF m = 0 THEN nil ELSE b
    BY NotPairs DEF Listing
  <2>2. m \in Nat /\ b \in Nat /\ h \in Heaps
    BY <1>1
  <2> HIDE DEF m
  <2> QED
    BY ONLY <2>1, <2>2, BlockSpine
<1>3. ListTail(h, args, n) = r
  <2>1. Len(Spine(h, args)) = m
    BY <1>1, <1>2
  <2>2. CASE n < m
    <3>1. n + 1 \in 1..m /\ b + (n + 1) - 1 = b + n
      BY <1>1, <2>2
    <3> QED
      BY <1>2, <2>1, <2>2, <3>1 DEF ListTail
  <2>3. CASE ~(n < m)
    BY <1>2, <2>1, <2>3 DEF ListTail
  <2> QED
    BY <2>2, <2>3
<1>4. n # 0 => Spine(h, args)[n] = q
  BY <1>1, <1>2
<1>5. h1.fresh = w
  BY DEF Push
<1>6. fixed.heap = g /\ fixed.vars = h.fresh /\ fixed.vals = IF n = 0 THEN w ELSE args
  <2> DEFINE f == FixupVarargs(h, ps, args)
  <2>1. /\ f.vars = h.fresh /\ f.vals = IF n = 0 THEN h1.fresh ELSE args
        /\ f.heap = IF n = 0 THEN h2 ELSE SetCdr(h2, Spine(h, args)[n], h1.fresh)
    BY <1>3 DEF FixupVarargs
  <2> HIDE DEF f, h1, h2, w, q
  <2> QED
    BY <1>4, <1>5, <2>1 DEF f
<1> HIDE DEF h1, h2, g, e1, e2, w, q, m
<1>7. g.fresh = h2.fresh /\ h2.fresh = w + 1
  <2>1. g.fresh = h2.fresh
    BY DEF g, SetCdr
  <2>2. h2.fresh = h1.fresh + Len(e2)
    BY DEF h2, Push
  <2> QED
    BY <1>1, <1>5, <2>1, <2>2
<1>8. w + 1 <= MaxPair + 1 /\ w \in Pairs
  <2>1. w + 1 <= MaxPair + 1
    BY <1>6, <1>7
  <2> QED
    BY <1>1, <2>1 DEF Pairs
<1>9. r \in Objects /\ w \in Objects
  <2>1. n < m => b + n \in Pairs
    BY <1>1, <1>8 DEF Pairs, m
  <2> QED
    BY <1>8, <2>1 DEF Objects, m
<1>10. e2 \in Seq(Objects) /\ Single(e2, r)
  BY <1>1, <1>9 DEF e2, Single
<1>11. /\ h2 \in Heaps /\ Made(h) \subseteq Made(h2)
       /\ Listing(h2, h.fresh, e1, nil) /\ Listing(h2, b, vals, nil)
       /\ w \in Made(h2) /\ h2.car[w] = r /\ h2.cdr[w] = nil
  <2>1. w = h.fresh + Len(e1) /\ h1 = Push(h, e1, nil) /\ h2 = Push(h1, e2, nil)
    BY DEF w, h1, h2
  <2>2. w + 1 <= MaxPair + 1 /\ e1 \in Seq(Objects) /\ r \in Objects
    BY <1>1, <1>8, <1>9
  <2> QED
    BY <1>10, <2>1, <2>2, NamesCopied
<1>12. n + 1 <= MaxPair
  BY <1>1, <1>8 DEF m
<1>13. \A k \in 1..m : /\ b + k - 1 \in Made(h2) /\ h2.car[b + k - 1] = vals[k]
                       /\ h2.cdr[b + k - 1] = IF k = m THEN nil ELSE b + k
  BY <1>11 DEF Listing, Block, m
<1>14. CASE n = 0
  <2>1. g = h2 /\ \A k \in 1..m : k # n
    BY <1>1, <1>14 DEF g
  <2>2. Fixed(g, h.fresh, b, e1, vals, n, w, r)
    BY <1>11, <1>12, <1>13, <2>1 DEF Fixed, m
  <2> QED
    BY <1>1, <1>6, <1>9, <1>11, <2>1, <2>2 DEF e1
<1>15. CASE n # 0
  <2>1. g = SetCdr(h2, q, w)
    BY <1>15 DEF g
  <2>2. n \in 1..m /\ q = b + n - 1 /\ \A k \in 1..m : (b + k - 1 = q <=> k = n)
    BY ONLY <1>1, <1>15 DEF q
  <2>3. q \in Made(h2) /\ q \in Pairs /\ Made(h2) \subseteq Pairs
    BY <1>11, <1>13, <2>2, NotPairs
  <2>4. /\ g \in Heaps /\ g.fresh = h2.fresh /\ g.car = h2.car /\ g.cdr[q] = w
        /\ \A p \in Pairs : p # q => g.cdr[p] = h2.cdr[p]
    <3>1. h2 \in Heaps /\ q \in Pairs /\ w \in Objects
      BY <1>9, <1>11, <2>3
    <3> QED
      BY ONLY <2>1, <3>1, SetCdrFacts
  <2>5. Made(g) = Made(h2)
    BY <2>4 DEF Made
  <2>6. Listing(g, h.fresh, e1, nil)
    <3>1. \A k \in 1..Len(e1) : h.fresh + k - 1 \in Made(h2) /\ h.fresh + k - 1 # q
      <4>1. \A k \in 1..Len(e1) : h.fresh + k - 1 \in Made(h2)
        BY <1>11 DEF Listing, Block
      <4>2. \A k \in 1..Len(e1) : h.fresh + k - 1 # q
        BY <1>1, <2>2 DEF m
      <4> QED
        BY <4>1, <4>2
    <3>2. \A k \in 1..Len(e1) : /\ g.car[h.fresh + k - 1] = h2.car[h.fresh + k - 1]
                                /\ g.cdr[h.fresh + k - 1] = h2.cdr[h.fresh + k - 1]
      BY <2>3, <2>4, <3>1
    <3> QED
      BY <1>11, <2>4, <2>5, <3>2, ListingStays
  <2>7. w # q /\ w \in Pairs
    BY <1>1, <1>8, <2>2 DEF m
  <2>8. w \in Made(g) /\ g.car[w] = r /\ g.cdr[w] = nil
    BY <1>11, <2>4, <2>5, <2>7
  <2>9. ASSUME NEW k \in 1..m
        PROVE  /\ b + k - 1 \in Made(g) /\ g.car[b + k - 1] = vals[k]
               /\ g.cdr[b + k - 1] = IF k = n THEN w ELSE IF k = m THEN nil ELSE b + k
    BY <1>13, <2>2, <2>3, <2>4, <2>5
  <2>10. Fixed(g, h.fresh, b, e1, vals, n, w, r)
    BY <1>12, <2>6, <2>8, <2>9 DEF Fixed, m
  <2>11. Made(h) \subseteq Made(g)
    BY <1>11, <2>5
  <2> QED
    BY <1>1, <1>6, <1>9, <2>4, <2>10, <2>11 DEF e1
<1> QED
  BY <1>14, <1>15

\* extend_environment leaves what fixup_varargs has made.
LEMMA FixedStays ==
  ASSUME NEW g \in Heaps, NEW h \in Heaps, Made(g) \subseteq Made(h),
         \A p \in Made(g) : h.car[p] = g.car[p] /\ h.cdr[p] = g.cdr[p],
         NEW a, NEW b, NEW names, NEW vals, NEW n, NEW w, NEW r, Fixed(g, a, b, names, vals, n, w, r)
  PROVE  Fixed(h, a, b, names, vals, n, w, r)
<1>1. Listing(g, a, names, nil)
  BY DEF Fixed
<1>2. \A k \in 1..Len(names) : a + k - 1 \in Made(g)
  BY <1>1 DEF Listing, Block
<1>3. \A k \in 1..Len(names) : h.car[a + k - 1] = g.car[a + k - 1] /\ h.cdr[a + k - 1] = g.cdr[a + k - 1]
  BY <1>2
<1>4. Listing(h, a, names, nil)
  BY <1>1, <1>3, ListingStays
<1> QED
  BY <1>4 DEF Fixed

\* The first n values, and then the list of the others.
WithRest(vals, n, r) == [k \in 1..(n + 1) |-> IF k <= n THEN vals[k] ELSE r]

\* The names, the values and the rest list of a call, as lists of pairs.
CallLists(h, a, names, l, vals, n, r) ==
  /\ Elements(h, a) = names
  /\ Elements(h, l) = WithRest(vals, n, r)
  /\ Elements(h, r) = SubSeq(vals, n + 1, Len(vals)) /\ End(h, r) = nil

\* The three lists fixup_varargs has made.
LEMMA FixedReads ==
  ASSUME NEW h \in Heaps, NEW a \in Nat, NEW b \in Nat \ {0}, NEW names \in Seq(Objects), names # << >>,
         NEW vals \in Seq(Objects), NEW n \in Nat, n <= Len(vals), NEW w \in Nat,
         NEW r, r = IF n < Len(vals) THEN b + n ELSE nil,
         Fixed(h, a, b, names, vals, n, w, r), NEW l, l = IF n = 0 THEN w ELSE b
  PROVE  CallLists(h, a, names, l, vals, n, r)
<1> DEFINE m == Len(vals)
<1>1. /\ Listing(h, a, names, nil)
      /\ w \in Made(h) /\ h.car[w] = r /\ h.cdr[w] = nil /\ n + 1 <= MaxPair
      /\ \A k \in 1..m :
            /\ b + k - 1 \in Made(h) /\ h.car[b + k - 1] = vals[k]
            /\ h.cdr[b + k - 1] = IF k = n THEN w ELSE IF k = m THEN nil ELSE b + k
  BY DEF Fixed
<1>2. ~is_pair(h, nil) /\ m \in Nat
  BY NotPairs
<1> HIDE DEF m
<1>3. Elements(h, a) = names
  BY <1>1, <1>2, ListingIs
<1> DEFINE s == [k \in 1..(n + 1) |-> IF k <= n THEN b + k - 1 ELSE w]
<1>4. n <= m /\ \A k \in 1..n : k \in 1..m
  BY <1>2 DEF m
<1>5. s \in Seq(Made(h)) /\ Len(s) = n + 1 /\ s[n + 1] = w
  <2>1. \A k \in 1..(n + 1) : (IF k <= n THEN b + k - 1 ELSE w) \in Made(h)
    <3>1. \A k \in 1..m : b + k - 1 \in Made(h)
      BY <1>1
    <3>2. \A k \in 1..(n + 1) : k <= n => k \in 1..m
      BY <1>4
    <3>3. w \in Made(h)
      BY <1>1
    <3> QED
      BY ONLY <3>1, <3>2, <3>3
  <2> QED
    BY <2>1
<1>6. s[1] = l
  <2>1. 1 \in 1..(n + 1) /\ b + 1 - 1 = b
    OBVIOUS
  <2> QED
    BY <2>1
<1>7. ASSUME NEW k \in 1..n PROVE s[k + 1] = h.cdr[s[k]]
  <2>1. k \in 1..m /\ k \in 1..(n + 1) /\ k + 1 \in 1..(n + 1) /\ b + (k + 1) - 1 = b + k
    BY <1>4
  <2>2. s[k] = b + k - 1 /\ s[k + 1] = IF k + 1 <= n THEN b + k ELSE w
    BY <2>1
  <2>3. h.cdr[b + k - 1] = IF k = n THEN w ELSE IF k = m THEN nil ELSE b + k
    BY <1>1, <2>1
  <2>4. (k = n <=> ~(k + 1 <= n)) /\ (k # n => k # m)
    BY <1>2, <1>4
  <2> HIDE DEF s
  <2> QED
    BY <2>2, <2>3, <2>4
<1> HIDE DEF s
<1>8. Chain(h, l, s)
  BY <1>5, <1>6, <1>7 DEF Chain
<1>9. Spine(h, l) = s
  <2>1. Len(s) <= MaxPair /\ ~is_pair(h, h.cdr[s[Len(s)]])
    BY <1>1, <1>2, <1>5
  <2> QED
    BY <1>8, <2>1, ChainIsSpine
<1>10. Elements(h, l) = WithRest(vals, n, r)
  <2>1. DOMAIN s = 1..(n + 1)
    BY DEF s
  <2>2. \A k \in 1..(n + 1) : h.car[s[k]] = IF k <= n THEN vals[k] ELSE r
    <3> SUFFICES ASSUME NEW k \in 1..(n + 1) PROVE h.car[s[k]] = IF k <= n THEN vals[k] ELSE r
      OBVIOUS
    <3>1. CASE k <= n
      <4>1. s[k] = b + k - 1 /\ k \in 1..m
        BY <1>4, <3>1 DEF s
      <4> QED
        BY <1>1, <3>1, <4>1
    <3>2. CASE ~(k <= n)
      <4>1. s[k] = w
        BY <3>2 DEF s
      <4> QED
        BY <1>1, <3>2, <4>1
    <3> QED
      BY <3>1, <3>2
  <2> QED
    BY <1>9, <2>1, <2>2 DEF Elements, WithRest
<1> DEFINE u == SubSeq(vals, n + 1, m)
<1>11. u \in Seq(Objects) /\ Len(u) = m - n /\ \A k \in 1..(m - n) : u[k] = vals[n + k]
  <2>1. \A k \in (n + 1)..m : vals[k] \in Objects
    BY DEF m
  <2>2. Len(u) = m - n
    BY <1>2, <1>4 DEF m
  <2>3. \A k \in 1..(m - n) : u[k] = vals[n + k]
    BY <1>2, <1>4 DEF m
  <2>4. u \in Seq(Objects)
    BY <1>2, <1>4 DEF m
  <2> QED
    BY <2>2, <2>3, <2>4
<1> HIDE DEF u
<1>12. Listing(h, b + n, u, nil)
  <2> SUFFICES ASSUME NEW k \in 1..(m - n)
               PROVE  /\ (b + n) + k - 1 \in Made(h) /\ h.car[(b + n) + k - 1] = u[k]
                      /\ h.cdr[(b + n) + k - 1] = IF k = m - n THEN nil ELSE (b + n) + k
    BY <1>11 DEF Listing, Block
  <2>1. n + k \in 1..m /\ (b + n) + k - 1 = b + (n + k) - 1 /\ (b + n) + k = b + (n + k)
    BY <1>2, <1>4
  <2>2. n + k # n /\ (n + k = m <=> k = m - n)
    BY <1>2, <1>4
  <2> QED
    BY <1>1, <1>11, <2>1, <2>2
<1>13. r = IF u = << >> THEN nil ELSE b + n
  <2>1. u = << >> <=> ~(n < m)
    BY <1>2, <1>4, <1>11
  <2> QED
    BY <2>1 DEF m
<1>14. Elements(h, r) = u /\ End(h, r) = nil
  <2>1. b + n \in Nat /\ u \in Seq(Objects) /\ h \in Heaps /\ ~is_pair(h, nil)
    BY <1>2, <1>11
  <2> QED
    BY ONLY <1>12, <1>13, <2>1, ListingIs
<1> QED
  BY <1>3, <1>10, <1>14 DEF u, m, CallLists

\* A lambda without a rest parameter binds its names to the arguments.
LEMMA BindPlain ==
  ASSUME NEW i \in 1..Len(Formals), Formals[i].rest = NoRest, NEW vals, NEW r
  PROVE  Binding(i, vals, r) = BindOf(Formals[i].names, vals)
<1> DEFINE names == Formals[i].names
           D == {names[k] : k \in DOMAIN names}
<1>1. D \cup ({Formals[i].rest} \ {NoRest}) = D
  OBVIOUS
<1> QED
  BY <1>1 DEF Binding, BindOf, NamesOf, FirstOf

\* With a rest parameter, that too is bound, unless it is one of the names.
LEMMA BindRest ==
  ASSUME NEW i \in 1..Len(Formals), Formals[i].rest # NoRest,
         NEW vals, NEW r, NEW n, n = Len(Formals[i].names),
         NEW xs, xs = Append(Formals[i].names, Formals[i].rest)
  PROVE  Binding(i, vals, r) = BindOf(xs, WithRest(vals, n, r))
<1> DEFINE names == Formals[i].names
           rest == Formals[i].rest
           D == {names[k] : k \in DOMAIN names}
           ws == WithRest(vals, n, r)
           first(x) == CHOOSE k \in DOMAIN names : names[k] = x /\ \A j \in 1..(k - 1) : names[j] # x
           B == Binding(i, vals, r)
<1>1. names \in Seq(Vars) /\ n \in Nat /\ n = Len(names)
  BY FormalsTyped
<1>2. DOMAIN names = 1..n /\ Upto(names, n)
  BY <1>1 DEF Upto
<1>3. /\ Upto(xs, n + 1) /\ xs[n + 1] = rest
      /\ \A k \in 1..n : xs[k] = names[k]
  <2> DEFINE T == Vars \cup {rest}
  <2>1. names \in Seq(T) /\ rest \in T
    BY <1>1
  <2> HIDE DEF names, rest, T
  <2>2. xs = Append(names, rest)
    BY DEF names, rest
  <2>3. Len(xs) = n + 1 /\ xs \in Seq(T) /\ xs[n + 1] = rest /\ \A k \in 1..n : xs[k] = names[k]
    BY <1>1, <2>1, <2>2
  <2> QED
    BY <1>1, <2>3 DEF Upto
<1>4. B = [x \in D \cup {rest} |-> IF x \notin D THEN r ELSE vals[first(x)]]
  <2>1. {rest} \ {NoRest} = {rest}
    OBVIOUS
  <2> QED
    BY <2>1 DEF Binding
<1>5. D = NamesOf(names)
  BY DEF NamesOf
<1> HIDE DEF names, rest, D, ws, first, B
<1>6. NamesOf(xs) = D \cup {rest}
  <2>1. DOMAIN xs = 1..(n + 1) /\ n + 1 \in 1..(n + 1) /\ 1..n \subseteq 1..(n + 1)
    BY <1>1, <1>3 DEF Upto
  <2>2. \A k \in 1..(n + 1) : k = n + 1 \/ k \in 1..n
    BY <1>1
  <2>3. ASSUME NEW x \in NamesOf(xs) PROVE x \in D \cup {rest}
    <3>1. PICK k \in 1..(n + 1) : x = xs[k]
      BY <2>1, <2>3 DEF NamesOf
    <3> QED
      BY <1>2, <1>3, <1>5, <2>2, <3>1 DEF NamesOf
  <2>4. rest \in NamesOf(xs)
    BY <1>3, <2>1 DEF NamesOf
  <2>5. ASSUME NEW x \in D PROVE x \in NamesOf(xs)
    <3>1. PICK k \in 1..n : x = names[k]
      BY <1>2, <1>5, <2>5 DEF NamesOf
    <3> QED
      BY <1>3, <2>1, <3>1 DEF NamesOf
  <2> QED
    BY <2>3, <2>4, <2>5
<1>7. ASSUME NEW x \in D \cup {rest} PROVE B[x] = BindOf(xs, ws)[x]
  <2>1. CASE x \in D
    <3>1. x \in NamesOf(names)
      BY <1>5, <2>1
    <3>2. PICK k \in 1..n : IsFirst(names, x, k)
      BY <1>2, <3>1, FirstExists
    <3>3. Gives(BindOf(names, vals), x, vals[k])
      BY ONLY <3>2, BindAt
    <3>4. BindOf(names, vals)[x] = vals[first(x)]
      BY <3>1 DEF BindOf, FirstOf, first
    <3>5. k \in 1..(n + 1) /\ k <= n /\ k - 1 \in Nat /\ \A j \in 1..(k - 1) : j \in 1..n
      BY <1>1
    <3>6. IsFirst(xs, x, k)
      <4>1. xs[k] = x /\ \A j \in 1..(k - 1) : xs[j] # x
        BY <1>3, <3>2, <3>5 DEF IsFirst
      <4> QED
        BY <1>3, <3>5, <4>1 DEF IsFirst, Upto
    <3>7. Gives(BindOf(xs, ws), x, ws[k])
      BY ONLY <3>6, BindAt
    <3>8. ws[k] = vals[k]
      BY <3>5 DEF ws, WithRest
    <3>9. B[x] = vals[first(x)]
      BY <1>4, <2>1
    <3> QED
      BY <3>3, <3>4, <3>7, <3>8, <3>9 DEF Gives
  <2>2. CASE x \notin D
    <3>1. x = rest /\ B[x] = r
      BY <1>4, <1>7, <2>2
    <3>2. IsFirst(xs, x, n + 1)
      <4>1. \A j \in 1..n : xs[j] # x
        BY <1>2, <1>3, <1>5, <2>2 DEF NamesOf
      <4>2. (n + 1) - 1 = n /\ n + 1 \in 1..(n + 1)
        BY <1>1
      <4> QED
        BY <1>3, <3>1, <4>1, <4>2 DEF IsFirst, Upto
    <3>3. Gives(BindOf(xs, ws), x, ws[n + 1])
      BY ONLY <3>2, BindAt
    <3>4. n + 1 \in 1..(n + 1) /\ ~(n + 1 <= n)
      BY <1>1
    <3>5. ws[n + 1] = r
      BY <3>4 DEF ws, WithRest
    <3> QED
      BY <3>1, <3>3, <3>5 DEF Gives
  <2> QED
    BY <2>1, <2>2
<1>8. BindOf(xs, ws) = [x \in D \cup {rest} |-> BindOf(xs, ws)[x]]
  <2>1. BindOf(xs, ws) = [x \in NamesOf(xs) |-> BindOf(xs, ws)[x]]
    BY DEF BindOf
  <2> QED
    BY ONLY <1>6, <2>1
<1>9. B = [x \in D \cup {rest} |-> B[x]]
  BY <1>4
<1>10. B = BindOf(xs, ws)
  BY <1>7, <1>8, <1>9
<1> QED
  BY <1>10 DEF B, ws

\* What the new scope binds: the names to the arguments, and the rest name to
\* the list of the others.
Binds(h, e, i, vals) ==
  \E r \in Objects :
     /\ ScopeAt(h, e).bind = Binding(i, vals, r)
     /\ Elements(h, r) = SubSeq(vals, Len(Formals[i].names) + 1, Len(vals))
     /\ End(h, r) = nil

\* A call without a rest parameter.
LEMMA PlainBinds ==
  ASSUME NEW h \in Heaps, NEW i \in 1..Len(Formals), Tail_(i) = nil,
         NEW vals \in Seq(Objects), NEW b \in Nat \ {0}, Listing(h, b, vals, nil),
         NEW args \in Objects, args = IF vals = << >> THEN nil ELSE b,
         NEW ps \in Objects, Len(vals) = Len(Formals[i].names), NEW env \in Objects,
         NEW h2, h2 = ExtendEnvironment(h, ps, args, env), h2.fresh <= MaxPair + 1,
         Elements(h2, ps) = Formals[i].names
  PROVE  Binds(h2, h2.fresh - 1, i, vals)
<1> DEFINE f == h.fresh
           e == h2.fresh - 1
<1>1. /\ h2 \in Heaps /\ h2.fresh = f + 2 /\ Made(h) \subseteq Made(h2)
      /\ \A p \in Made(h) : h2.car[p] = h.car[p] /\ h2.cdr[p] = h.cdr[p]
      /\ h2.car[f + 1] = f /\ h2.car[f] = ps /\ h2.cdr[f] = args
  BY ExtendIs
<1>2. e = f + 1 /\ f \in Nat
  BY <1>1 DEF Heaps
<1>3. Listing(h2, b, vals, nil)
  <2>1. \A k \in 1..Len(vals) : b + k - 1 \in Made(h)
    BY DEF Listing, Block
  <2>2. \A k \in 1..Len(vals) : /\ h2.car[b + k - 1] = h.car[b + k - 1]
                                /\ h2.cdr[b + k - 1] = h.cdr[b + k - 1]
    BY <1>1, <2>1
  <2> QED
    BY <1>1, <2>2, ListingStays
<1>4. Elements(h2, args) = vals
  <2>1. h2 \in Heaps /\ b \in Nat /\ vals \in Seq(Objects) /\ ~is_pair(h2, nil)
        /\ args = IF vals = << >> THEN nil ELSE b
    BY <1>1, NotPairs
  <2> QED
    BY ONLY <1>3, <2>1, ListingIs
<1>5. Formals[i].rest = NoRest
  BY FormalsTyped
<1> HIDE DEF e
<1>6. ScopeAt(h2, e).bind = BindOf(Formals[i].names, vals)
  BY <1>1, <1>2, <1>4 DEF ScopeAt, first_frame, frame_variables, frame_values
<1>7. ScopeAt(h2, e).bind = Binding(i, vals, nil)
  BY <1>5, <1>6, BindPlain
<1>8. Elements(h2, nil) = << >> /\ End(h2, nil) = nil
  <2>1. ~is_pair(h2, nil)
    BY <1>1, NotPairs
  <2>2. Spine(h2, nil) = << >>
    BY <2>1 DEF Spine
  <2> QED
    BY <2>2 DEF Elements, End
<1>9. SubSeq(vals, Len(Formals[i].names) + 1, Len(vals)) = << >>
  BY FormalsTyped
<1>10. nil \in Objects
  BY DEF Objects
<1> QED
  BY <1>7, <1>8, <1>9, <1>10 DEF Binds, e

\* A call with a rest parameter.
LEMMA RestBinds ==
  ASSUME NEW h \in Heaps, NEW i \in 1..Len(Formals), Tail_(i) # nil,
         NEW ps, Elements(h, ps) = Formals[i].names, End(h, ps) = Tail_(i),
         NEW vals \in Seq(Objects), NEW b \in Nat \ {0}, b + Len(vals) = h.fresh, Listing(h, b, vals, nil),
         NEW args \in Objects, args = IF vals = << >> THEN nil ELSE b,
         NEW n, n = Len(Formals[i].names), n <= Len(vals), NEW env \in Objects,
         NEW fixed, fixed = FixupVarargs(h, ps, args),
         NEW h2, h2 = ExtendEnvironment(fixed.heap, fixed.vars, fixed.vals, env), h2.fresh <= MaxPair + 1,
         fixed.heap.fresh \in Nat
  PROVE  Binds(h2, h2.fresh - 1, i, vals)
<1> DEFINE names == Formals[i].names
           rest == Tail_(i)
           xs == Append(names, rest)
           r == IF n < Len(vals) THEN b + n ELSE nil
           g == fixed.heap
           f == fixed.heap.fresh
           e == h2.fresh - 1
<1>1. /\ names \in Seq(Objects) /\ rest \in Objects /\ rest = Formals[i].rest /\ rest # NoRest
      /\ n \in Nat /\ xs \in Seq(Objects) /\ xs # << >>
  <2>1. names \in Seq(Vars) /\ rest \in Vars /\ Formals[i].rest # NoRest
    BY FormalsTyped
  <2>2. rest = Formals[i].rest /\ rest # NoRest
    BY <2>1, FormalsAssumption DEF Tail_
  <2>3. names \in Seq(Objects) /\ rest \in Objects /\ n \in Nat
    BY <2>1 DEF Objects
  <2> HIDE DEF names, rest
  <2>4. xs \in Seq(Objects) /\ xs # << >>
    BY <2>3
  <2> HIDE DEF xs
  <2> QED
    BY <2>2, <2>3, <2>4
<1>2. h2.fresh = f + 1 + 1 /\ MaxPair \in Nat
  BY FreshAfter, BoundsAssumption
<1>3. f <= MaxPair + 1 /\ h2.fresh = f + 2
  BY <1>2
<1>4. PICK w \in Nat :
        /\ g \in Heaps /\ Made(h) \subseteq Made(g)
        /\ fixed.vars = h.fresh /\ fixed.vals = IF n = 0 THEN w ELSE args
        /\ w \in Objects /\ r \in Objects
        /\ Fixed(g, h.fresh, b, xs, vals, n, w, r)
  <2>1. /\ h \in Heaps /\ names \in Seq(Objects) /\ rest \in Objects
        /\ Elements(h, ps) = names /\ End(h, ps) = rest
        /\ vals \in Seq(Objects) /\ b \in Nat \ {0} /\ b + Len(vals) = h.fresh
        /\ Listing(h, b, vals, nil) /\ args = IF vals = << >> THEN nil ELSE b
        /\ n = Len(names) /\ n <= Len(vals) /\ fixed = FixupVarargs(h, ps, args)
        /\ fixed.heap.fresh <= MaxPair + 1 /\ r = IF n < Len(vals) THEN b + n ELSE nil
    BY <1>1, <1>3
  <2> HIDE DEF names, rest, r
  <2>2. Fixing(h, names, rest, ps, vals, b, args, n, fixed, r)
    BY ONLY <2>1 DEF Fixing
  <2> HIDE DEF xs, g
  <2> QED
    BY <2>2, FixupIs DEF xs, g
<1>5. h.fresh \in Objects /\ h.fresh \in Nat
  <2>1. h.fresh + 1 - 1 \in Made(g)
    <3>1. Listing(g, h.fresh, xs, nil) /\ 1 \in 1..Len(xs)
      BY <1>1, <1>4 DEF Fixed
    <3> QED
      BY <3>1 DEF Listing, Block
  <2>2. h.fresh \in Nat
    BY DEF Heaps
  <2>3. g \in Heaps
    BY <1>4
  <2>4. Made(g) \subseteq Pairs
    BY ONLY <2>3, NotPairs
  <2>5. h.fresh + 1 - 1 = h.fresh
    BY <2>2
  <2> QED
    BY <2>1, <2>2, <2>4, <2>5 DEF Objects
<1>6. fixed.vars \in Objects /\ fixed.vals \in Objects
  BY <1>4, <1>5
<1> HIDE DEF g, f, r, xs, names, rest
<1>7. /\ h2 \in Heaps /\ Made(g) \subseteq Made(h2)
      /\ \A p \in Made(g) : h2.car[p] = g.car[p] /\ h2.cdr[p] = g.cdr[p]
      /\ h2.car[f + 1] = f /\ h2.car[f] = fixed.vars /\ h2.cdr[f] = fixed.vals
  <2>1. /\ g \in Heaps /\ fixed.vars \in Objects /\ fixed.vals \in Objects /\ env \in Objects
        /\ h2 = ExtendEnvironment(g, fixed.vars, fixed.vals, env) /\ h2.fresh <= MaxPair + 1
        /\ f = g.fresh
    BY <1>4, <1>6 DEF g, f
  <2> QED
    BY ONLY <2>1, ExtendIs
<1>8. Fixed(h2, h.fresh, b, xs, vals, n, w, r)
  BY <1>4, <1>7, FixedStays
<1> DEFINE l == fixed.vals
<1>9. l = IF n = 0 THEN w ELSE b
  <2>1. n # 0 => vals # << >>
    BY <1>1
  <2> QED
    BY <1>4, <2>1
<1> HIDE DEF l
<1>10. CallLists(h2, h.fresh, xs, l, vals, n, r)
  <2>1. /\ h2 \in Heaps /\ h.fresh \in Nat /\ b \in Nat \ {0} /\ xs \in Seq(Objects) /\ xs # << >>
        /\ vals \in Seq(Objects) /\ n \in Nat /\ n <= Len(vals) /\ w \in Nat
        /\ r = IF n < Len(vals) THEN b + n ELSE nil
    BY <1>1, <1>5, <1>7 DEF r
  <2> QED
    BY ONLY <1>8, <1>9, <2>1, FixedReads
<1>11. e = f + 1
  BY <1>3 DEF f
<1> HIDE DEF e
<1>12. ScopeAt(h2, e).bind = BindOf(xs, WithRest(vals, n, r))
  BY <1>4, <1>7, <1>10, <1>11 DEF CallLists, ScopeAt, first_frame, frame_variables, frame_values, l
<1>13. ScopeAt(h2, e).bind = Binding(i, vals, r)
  <2>1. xs = Append(Formals[i].names, Formals[i].rest) /\ Formals[i].rest # NoRest
        /\ n = Len(Formals[i].names) /\ i \in 1..Len(Formals)
    BY <1>1 DEF xs, names
  <2>2. Binding(i, vals, r) = BindOf(xs, WithRest(vals, n, r))
    BY ONLY <2>1, BindRest
  <2> QED
    BY <1>12, <2>2
<1> QED
  BY <1>4, <1>10, <1>13 DEF CallLists, Binds, e

\* A call binds its parameters.
LEMMA CallBinds ==
  ASSUME ~UsesApply, NEW kind, NEW rank, NEW owner, StateOK(heap, envs, held, kind, rank, owner),
         NEW env \in envs, NEW i \in 1..Len(Formals), NEW vals \in Seq(Vals),
         NEW h, h = Push(heap, vals, nil), h.fresh <= MaxPair + 1,
         NEW args, args = ListOn(heap, vals, nil), ApplyProcedure(h, i, env, args)
  PROVE  Binds(heap', heap'.fresh - 1, i, vals)
<1> DEFINE b == heap.fresh
           n == Len(Formals[i].names)
           ps == procedure_parameters(i)
           fixed == FixupVarargs(h, ps, args)
<1>1. /\ Laid(heap, kind, rank, owner) /\ heap \in Heaps
      /\ \A j \in 1..Len(Formals) : ParametersOK(heap, kind, rank, owner, j)
      /\ envs = OfKind(heap, kind, "env")
  BY DEF StateOK, Laid
<1>2. /\ b \in Nat \ {0} /\ Len(vals) \in Nat /\ n \in Nat /\ vals \in Seq(Objects)
      /\ nil \in Objects /\ h.fresh = b + Len(vals)
  <2>1. vals \in Seq(Objects)
    BY DEF Objects
  <2>2. h.fresh = b + Len(vals)
    BY DEF Push
  <2> QED
    BY <1>1, <2>1, <2>2, FormalsTyped DEF Heaps, Objects
<1>3. /\ h \in Heaps /\ Made(heap) \subseteq Made(h) /\ Listing(h, b, vals, nil)
  <2>1. heap.fresh + Len(vals) <= MaxPair + 1 /\ heap \in Heaps
    BY <1>1, <1>2
  <2> QED
    BY <1>2, <2>1, PushListing
<1>4. args = IF vals = << >> THEN nil ELSE b
  BY DEF ListOn
<1>5. PICK k1, r1, o1 : Consed(heap, kind, rank, owner, vals, nil, h, k1, r1, o1)
  <2>1. IsOf(heap, kind, nil, "data")
    BY DEF IsOf
  <2> QED
    BY <1>1, <2>1, ConsData
<1>6. /\ Laid(h, k1, r1, o1) /\ ParametersOK(h, k1, r1, o1, i)
      /\ OfKind(h, k1, "env") = OfKind(heap, kind, "env")
  BY <1>5 DEF Consed
<1>7. length(h, ps) = n /\ Elements(h, ps) = Formals[i].names /\ End(h, ps) = Tail_(i)
  BY <1>6, ParametersSpine
<1>8. /\ IF is_list(h, ps) THEN length(h, args) = length(h, ps)
                           ELSE length(h, args) >= length(h, ps)
      /\ heap' = (IF is_list(h, ps)
                  THEN ExtendEnvironment(h, ps, args, env)
                  ELSE ExtendEnvironment(fixed.heap, fixed.vars, fixed.vals, env))
      /\ heap'.fresh <= MaxPair + 1
  BY DEF ApplyProcedure
<1>9. NewArgs(h, k1, args, b, Len(vals))
  BY <1>1, <1>5, <1>3, ConsedArgs
<1>10. length(h, args) = Len(vals)
  BY <1>3, <1>9, NewArgsSpine
<1>11. args \in Objects /\ env \in Objects /\ IsOf(h, k1, env, "env") /\ IsOf(h, k1, args, "data")
  <2>1. env \in Made(heap) /\ Made(h) \subseteq Pairs /\ env \in OfKind(h, k1, "env")
    BY <1>1, <1>3, <1>6, NotPairs DEF OfKind
  <2>2. vals # << >> => b \in Made(h) /\ k1[b] = "data"
    <3>1. vals # << >> => 1 \in 1..Len(vals) /\ b + 1 - 1 = b
      BY <1>2
    <3> QED
      BY <1>9, <3>1 DEF NewArgs, Block
  <2>3. env \in Made(h)
    BY <2>1 DEF OfKind
  <2> QED
    BY <1>2, <1>4, <2>1, <2>2, <2>3 DEF Objects, IsOf, OfKind
<1>12. is_list(h, ps) <=> Tail_(i) = nil
  BY <1>7 DEF is_list
<1> HIDE DEF b, n, fixed
<1>13. CASE Tail_(i) = nil
  <2>1. heap' = ExtendEnvironment(h, ps, args, env) /\ Len(vals) = n
    BY <1>7, <1>8, <1>10, <1>12, <1>13
  <2>2. ps \in Objects
    <3>1. IsOf(h, k1, ps, "name")
      BY <1>6, <1>13, ParametersSpine
    <3> HIDE DEF ps
    <3>2. Known(h, ps)
      BY ONLY <1>3, <3>1, OfKindKnown
    <3> QED
      BY <3>2 DEF Known
  <2>3. Called(heap, kind, rank, owner, env, {}, heap', envs', held')
    BY CallStep
  <2>4. PICK k2, r2, o2 : StateOK(heap', envs', held', k2, r2, o2)
    BY <2>3 DEF Called
  <2>5. Elements(heap', ps) = Formals[i].names
    <3>1. Laid(heap', k2, r2, o2) /\ ParametersOK(heap', k2, r2, o2, i)
      BY <2>4 DEF StateOK
    <3> QED
      BY <3>1, ParametersSpine
  <2> HIDE DEF ps
  <2>6. Len(vals) = Len(Formals[i].names) /\ i \in 1..Len(Formals)
    BY <2>1 DEF n
  <2> QED
    BY ONLY <1>2, <1>3, <1>4, <1>8, <1>11, <1>13, <2>1, <2>2, <2>5, <2>6, PlainBinds
<1>14. CASE Tail_(i) # nil
  <2>1. /\ heap' = ExtendEnvironment(fixed.heap, fixed.vars, fixed.vals, env) /\ n <= Len(vals)
        /\ fixed = FixupVarargs(h, ps, args) /\ n = Len(Formals[i].names)
        /\ b + Len(vals) = h.fresh /\ i \in 1..Len(Formals)
    BY <1>2, <1>7, <1>8, <1>10, <1>12, <1>14 DEF fixed, n
  <2>2. fixed.heap.fresh \in Nat
    <3>1. Applicable(h, k1, r1, o1, i, env, args, b, Len(vals))
      BY <1>6, <1>9, <1>11 DEF Applicable
    <3> QED
      BY <3>1, FreshFixed DEF fixed
  <2> HIDE DEF ps
  <2> QED
    BY ONLY <1>2, <1>3, <1>4, <1>7, <1>8, <1>11, <1>14, <2>1, <2>2, RestBinds
<1> QED
  BY <1>13, <1>14

-----------------------------------------------------------------------------
\* Each operation has the effect its name has on lexical scopes, as long as no
\* apply shares a user's list with a frame: set! writes the innermost visible
\* binding, define one of its own scope, and a call binds exactly the
\* parameters to the arguments, the rest to a list of the others.
THEOREM OperationsMeanWhatTheySay ==
  ASSUME ~UsesApply PROVE Spec => OperationsMeanScopes
<1> DEFINE Means ==
      \E s \in {[e \in envs |-> ScopeOf(e)]}, t \in {[e \in envs |-> ScopeOf(e)]'} :
         \A env \in envs :
            IF envs' = envs
            THEN \A var \in Vars, val \in Vals :
                   /\ SetVariable(env, var, val) => Scoping!Assigns(s, t, env, var, val)
                   /\ DefineVariable(env, var, val) => Scoping!Defines(s, t, env, var, val)
            ELSE \A i \in DOMAIN Formals, vals \in ArgLists :
                   Call(i, env, vals) =>
                     \E r \in Objects :
                       /\ Scoping!Enters(s, t, env, Binding(i, vals, r))
                       /\ Elements(heap', r) = SubSeq(vals, Len(Formals[i].names) + 1, Len(vals))
                       /\ End(heap', r) = nil
<1>1. IInv => Means
  <2> SUFFICES ASSUME IInv PROVE Means
    OBVIOUS
  <2> DEFINE S == ScopesAt(heap, envs)
             T == ScopesAt(heap', envs')
  <2>1. PICK kind, rank, owner : StateOK(heap, envs, held, kind, rank, owner)
    BY DEF IInv
  <2>2. ASSUME NEW env \in envs, NEW var \in Vars, NEW val \in Vals
        PROVE  /\ SetVariable(env, var, val) => Scoping!Assigns(S, T, env, var, val)
               /\ DefineVariable(env, var, val) => Scoping!Defines(S, T, env, var, val)
    BY <2>1, SetMeans, DefineMeans
  <2>3. ASSUME NEW env \in envs, NEW i \in DOMAIN Formals, NEW vals \in ArgLists, Call(i, env, vals)
        PROVE  \E r \in Objects :
                 /\ Scoping!Enters(S, T, env, Binding(i, vals, r))
                 /\ Elements(heap', r) = SubSeq(vals, Len(Formals[i].names) + 1, Len(vals))
                 /\ End(heap', r) = nil
    <3> DEFINE h == Push(heap, vals, nil)
               args == ListOn(heap, vals, nil)
               e == heap'.fresh - 1
    <3>1. h.fresh <= MaxPair + 1 /\ ApplyProcedure(h, i, env, args)
      BY <2>3 DEF Call
    <3>2. vals \in Seq(Vals) /\ i \in 1..Len(Formals)
      BY FormalsAssumption, ValListsTyped, BoundsAssumption DEF ArgLists
    <3>3. h = Push(heap, vals, nil) /\ args = ListOn(heap, vals, nil)
      OBVIOUS
    <3> HIDE DEF h, args
    <3>4. Called(heap, kind, rank, owner, env, {}, heap', envs', held')
      BY <2>1, <3>1, <3>2, <3>3, CallStep
    <3>5. Scoping!Enters(S, T, env, ScopeAt(heap', e).bind)
      BY <2>1, <3>4, CallMeans
    <3>6. Binds(heap', e, i, vals)
      BY <2>1, <3>1, <3>2, <3>3, CallBinds
    <3> HIDE DEF S, T, e
    <3> QED
      BY <3>5, <3>6 DEF Binds
  <2>4. /\ [e \in envs |-> ScopeOf(e)] = S
        /\ [e \in envs |-> ScopeOf(e)]' = T
    BY ScopesNow, ScopesNext
  <2> HIDE DEF S, T
  <2> QED
    BY <2>2, <2>3, <2>4
<1> HIDE DEF Means
<1>2. IInv /\ [Next]_vars => [Means]_vars
  BY <1>1
<1>3. [][Means]_vars => OperationsMeanScopes
  BY PTL DEF Means, OperationsMeanScopes
<1> QED
  BY <1>2, <1>3, Invariance, PTL DEF Spec
=============================================================================
