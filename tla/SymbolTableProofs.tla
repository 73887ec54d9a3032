------------------------- MODULE SymbolTableProofs -------------------------
(***************************************************************************)
(* Proofs about SymbolTable.tla, for every set of texts, every hash        *)
(* function and every number of buckets and objects.                       *)
(***************************************************************************)
EXTENDS SymbolTable, TLAPS

\* The strings of symbols are never in the user's hands: symbol() copies the
\* bytes it is given and symbol->string copies the string it gives out.
Private == \A s \in Symbols : symbol_string(s) \notin held

\* What the histories record: the n-th gensym has the n-th name, and the
\* reader's symbols have names the reader can read.
Histories ==
  /\ Len(fromGensym) = gensym_counter - 1
  /\ Len(fromGensym) <= Len(GensymNames)
  /\ \A n \in DOMAIN fromGensym : Name(fromGensym[n]) = GensymNames[n]
  /\ \A s \in fromReader : Name(s) \in Identifiers

\* The inductive invariant.
IInv == TypeOK /\ UniqueNames /\ Findable /\ Private /\ Histories

-----------------------------------------------------------------------------
\* A text hashes to a bucket of the table.
LEMMA BucketType == \A t \in Texts : Bucket(t) \in 0..(nbuckets - 1)
<1>1. SUFFICES ASSUME NEW t \in Texts PROVE Hash[t] % nbuckets \in 0..(nbuckets - 1)
  BY DEF Bucket
<1>2. Hash[t] \in Nat /\ nbuckets \in Nat \ {0}
  BY HashAssumption
<1> QED BY <1>2

\* What interning t as s does to a table in order, if t was not there.
LEMMA InternFacts ==
  ASSUME TypeOK, UniqueNames, Findable,
         NEW t \in Texts, NEW s, Matches(t) = {}, Intern(t, s)
  PROVE  /\ fresh' \in Nat \ {0} /\ fresh < fresh'
         /\ s \notin Symbols /\ Symbols' = Symbols \cup {s}
         /\ fresh \notin DOMAIN text /\ DOMAIN text' = DOMAIN text \cup {fresh}
         /\ \A o \in DOMAIN text : text'[o] = text[o]
         /\ \A r \in Symbols : string'[r] = string[r]
         /\ string'[s] = fresh /\ text'[fresh] = t
         /\ text' \in [DOMAIN text' -> Texts] /\ DOMAIN text' \subseteq 1..(fresh' - 1)
         /\ string' \in [DOMAIN string' -> DOMAIN text'] /\ Symbols' \subseteq 1..(fresh' - 1)
         /\ buckets' \in [0..(nbuckets - 1) -> Seq(Symbols')]
         /\ UniqueNames' /\ Findable'
<1>1. /\ fresh \in Nat \ {0} /\ DOMAIN text \subseteq 1..(fresh - 1)
      /\ Symbols \subseteq 1..(fresh - 1)
      /\ text \in [DOMAIN text -> Texts] /\ string \in [Symbols -> DOMAIN text]
      /\ buckets \in [0..(nbuckets - 1) -> Seq(Symbols)]
  BY DEF TypeOK, Symbols
<1>2. /\ s = fresh + 1 /\ fresh' = fresh + 2
      /\ text' = Extend(text, fresh, t) /\ string' = Extend(string, s, fresh)
      /\ buckets' = [buckets EXCEPT ![Bucket(t)] = <<s>> \o @]
  BY DEF Intern
<1>3. fresh \notin DOMAIN text /\ s \notin Symbols
  BY <1>1, <1>2
<1>4. /\ DOMAIN text' = DOMAIN text \cup {fresh} /\ text'[fresh] = t
      /\ \A o \in DOMAIN text : text'[o] = text[o]
  BY <1>2, <1>3 DEF Extend
<1>5. /\ Symbols' = Symbols \cup {s} /\ string'[s] = fresh
      /\ \A r \in Symbols : string'[r] = string[r]
  BY <1>2, <1>3 DEF Symbols, Extend
<1>6. text' \in [DOMAIN text' -> Texts]
  BY <1>1, <1>2, <1>4 DEF Extend
<1>7. string' \in [DOMAIN string' -> DOMAIN text']
  BY <1>1, <1>2, <1>4, <1>5 DEF Extend, Symbols
<1>8. Bucket(t) \in 0..(nbuckets - 1)
  BY BucketType
<1>9. buckets' \in [0..(nbuckets - 1) -> Seq(Symbols')]
  <2>1. \A b \in 0..(nbuckets - 1) : buckets[b] \in Seq(Symbols')
    BY <1>1, <1>5
  <2>2. <<s>> \o buckets[Bucket(t)] \in Seq(Symbols')
    BY <1>5, <1>8, <2>1
  <2> QED BY <1>1, <1>2, <2>1, <2>2
<1>10. \A r \in Symbols : Name(r)' = Name(r) /\ Name(r) \in Texts
  BY <1>1, <1>4, <1>5 DEF Name, symbol_string
<1>11. Name(s)' = t
  BY <1>4, <1>5 DEF Name, symbol_string
<1>12. \A r \in Symbols : Name(r) # t
  <2>1. SUFFICES ASSUME NEW r \in Symbols, Name(r) = t PROVE FALSE
    OBVIOUS
  <2>2. PICK i \in DOMAIN buckets[Bucket(t)] : buckets[Bucket(t)][i] = r
    BY <2>1 DEF Findable
  <2>3. i \in Matches(t)
    BY <2>1, <2>2 DEF Matches
  <2> QED BY <2>3
<1>13. UniqueNames'
  BY <1>5, <1>10, <1>11, <1>12 DEF UniqueNames
<1>14. Findable'
  <2>1. SUFFICES ASSUME NEW r \in Symbols'
                 PROVE  \E i \in DOMAIN buckets'[Bucket(Name(r)')] : buckets'[Bucket(Name(r)')][i] = r
    BY DEF Findable, Bucket
  <2>2. CASE r = s
    <3>1. buckets'[Bucket(t)] = <<s>> \o buckets[Bucket(t)] /\ buckets[Bucket(t)] \in Seq(Symbols)
      BY <1>1, <1>2, <1>8
    <3>2. 1 \in DOMAIN buckets'[Bucket(t)] /\ buckets'[Bucket(t)][1] = s
      BY <3>1
    <3> QED BY <1>11, <2>2, <3>2
  <2>3. CASE r \in Symbols
    <3> DEFINE b == Bucket(Name(r))
    <3>1. b \in 0..(nbuckets - 1) /\ Name(r)' = Name(r)
      BY <1>10, <2>3, BucketType
    <3>2. PICK i \in DOMAIN buckets[b] : buckets[b][i] = r
      BY <2>3 DEF Findable
    <3>3. CASE b = Bucket(t)
      <4>1. buckets'[b] = <<s>> \o buckets[b] /\ buckets[b] \in Seq(Symbols)
        BY <1>1, <1>2, <1>8, <3>3
      <4>2. i + 1 \in DOMAIN buckets'[b] /\ buckets'[b][i + 1] = r
        BY <3>2, <4>1
      <4> QED BY <3>1, <4>2
    <3>4. CASE b # Bucket(t)
      <4>1. buckets'[b] = buckets[b]
        BY <1>1, <1>2, <3>1, <3>4
      <4> QED BY <3>1, <3>2, <4>1
    <3> QED BY <3>3, <3>4
  <2> QED BY <1>5, <2>1, <2>2, <2>3
<1>15. /\ fresh' \in Nat \ {0} /\ fresh < fresh'
       /\ DOMAIN text' \subseteq 1..(fresh' - 1) /\ Symbols' \subseteq 1..(fresh' - 1)
  BY <1>1, <1>2, <1>4, <1>5
<1> QED
  BY <1>3, <1>4, <1>5, <1>6, <1>7, <1>9, <1>13, <1>14, <1>15

\* What symbol() does, whether it finds t or interns it.
LEMMA SymbolFacts ==
  ASSUME TypeOK, UniqueNames, Findable, NEW t \in Texts, NEW s, Symbol(t, s)
  PROVE  /\ fresh' \in Nat \ {0}
         /\ text' \in [DOMAIN text' -> Texts] /\ DOMAIN text' \subseteq 1..(fresh' - 1)
         /\ string' \in [DOMAIN string' -> DOMAIN text'] /\ Symbols' \subseteq 1..(fresh' - 1)
         /\ buckets' \in [0..(nbuckets - 1) -> Seq(Symbols')]
         /\ DOMAIN text \subseteq DOMAIN text'
         /\ s \in Symbols' /\ Name(s)' = t
         /\ Symbols \subseteq Symbols'
         /\ \A r \in Symbols : string'[r] = string[r] /\ Name(r)' = Name(r)
         /\ \A r \in Symbols' \ Symbols : string'[r] \notin DOMAIN text
         /\ UniqueNames' /\ Findable'
<1>1. CASE \E i \in Matches(t) :
             /\ \A j \in Matches(t) : i <= j
             /\ s = buckets[Bucket(t)][i]
             /\ UNCHANGED <<fresh, text, string, buckets>>
  <2>1. PICK i \in Matches(t) :
               s = buckets[Bucket(t)][i] /\ UNCHANGED <<fresh, text, string, buckets>>
    BY <1>1
  <2>2. i \in DOMAIN buckets[Bucket(t)] /\ Name(s) = t
    BY <2>1 DEF Matches
  <2>3. s \in Symbols
    <3>1. buckets[Bucket(t)] \in Seq(Symbols)
      BY BucketType DEF TypeOK
    <3> QED BY <2>1, <2>2, <3>1
  <2>4. Symbols' = Symbols /\ \A r : Name(r)' = Name(r)
    BY <2>1 DEF Symbols, Name, symbol_string
  <2>5. UniqueNames' /\ Findable'
    BY <2>1, <2>4 DEF UniqueNames, Findable, Bucket
  <2> QED BY <2>1, <2>2, <2>3, <2>4, <2>5 DEF TypeOK, Symbols
<1>2. CASE Matches(t) = {} /\ Intern(t, s)
  <2>1. /\ Symbols' = Symbols \cup {s} /\ fresh \notin DOMAIN text
        /\ string'[s] = fresh /\ text'[fresh] = t
        /\ \A o \in DOMAIN text : text'[o] = text[o]
        /\ \A r \in Symbols : string'[r] = string[r]
    BY <1>2, InternFacts
  <2>2. \A r \in Symbols : string[r] \in DOMAIN text
    BY DEF TypeOK, Symbols
  <2>3. Name(s)' = t /\ \A r \in Symbols : Name(r)' = Name(r)
    BY <2>1, <2>2 DEF Name, symbol_string
  <2> QED BY <1>2, <2>1, <2>3, InternFacts
<1> QED BY <1>1, <1>2 DEF Symbol

\* symbol() on behalf of some primitive keeps the strings of symbols private.
LEMMA SymbolKeepsPrivate ==
  ASSUME TypeOK, UniqueNames, Findable, Private,
         NEW t \in Texts, NEW s, Symbol(t, s), UNCHANGED held
  PROVE  Private'
<1>1. SUFFICES ASSUME NEW r \in Symbols' PROVE string'[r] \notin held
  BY DEF Private, symbol_string
<1>2. CASE r \in Symbols
  BY <1>2, SymbolFacts DEF Private, symbol_string
<1>3. CASE r \notin Symbols
  BY <1>3, SymbolFacts DEF TypeOK
<1> QED BY <1>2, <1>3

\* The table as init_symbol_table leaves it.
LEMMA Initially == Init => IInv
<1>1. SUFFICES ASSUME Init PROVE IInv
  OBVIOUS
<1>2. Symbols = {}
  BY <1>1 DEF Init, Symbols
<1>3. TypeOK
  BY <1>1, <1>2 DEF Init, TypeOK, Symbols
<1>4. UniqueNames /\ Findable /\ Private
  BY <1>2 DEF UniqueNames, Findable, Private
<1>5. Histories
  <2>1. GensymNames \in Seq(Texts)
    BY TextsAssumption
  <2> QED BY <1>1, <2>1 DEF Init, Histories
<1> QED BY <1>3, <1>4, <1>5 DEF IInv

\* Each operation keeps the invariant: an identifier read,
LEMMA ReadIdentifierKeeps == IInv /\ ReadIdentifier => IInv'
<1>1. SUFFICES ASSUME IInv, NEW t \in Identifiers, NEW s, Symbol(t, s),
                      fromReader' = fromReader \cup {s},
                      UNCHANGED <<held, gensym_counter, fromGensym>>
               PROVE  IInv'
  BY DEF ReadIdentifier
<1>2. t \in Texts
  BY TextsAssumption
<1>3. TypeOK /\ UniqueNames /\ Findable /\ Private /\ Histories
  BY <1>1 DEF IInv
<1>4. TypeOK'
  BY <1>1, <1>2, <1>3, SymbolFacts DEF TypeOK, Symbols
<1>5. UniqueNames' /\ Findable' /\ Private'
  BY <1>1, <1>2, <1>3, SymbolFacts, SymbolKeepsPrivate
<1>6. Histories'
  <2>1. \A n \in DOMAIN fromGensym : fromGensym[n] \in Symbols
    BY <1>3 DEF TypeOK
  <2>2. fromReader \subseteq Symbols
    BY <1>3 DEF TypeOK
  <2>3. Name(s)' = t /\ \A r \in Symbols : Name(r)' = Name(r)
    BY <1>1, <1>2, <1>3, SymbolFacts
  <2> QED BY <1>1, <1>3, <2>1, <2>2, <2>3 DEF Histories
<1> QED BY <1>4, <1>5, <1>6 DEF IInv

\* a string of the program's made a symbol,
LEMMA StringToSymbolKeeps == IInv /\ StringToSymbol => IInv'
<1>1. SUFFICES ASSUME IInv, NEW o \in held, NEW s, Symbol(text[o], s),
                      UNCHANGED <<held, gensym_counter, fromReader, fromGensym>>
               PROVE  IInv'
  BY DEF StringToSymbol
<1>2. text[o] \in Texts
  BY <1>1 DEF IInv, TypeOK
<1>3. TypeOK /\ UniqueNames /\ Findable /\ Private /\ Histories
  BY <1>1 DEF IInv
<1>4. TypeOK'
  BY <1>1, <1>2, <1>3, SymbolFacts DEF TypeOK, Symbols
<1>5. UniqueNames' /\ Findable' /\ Private'
  BY <1>1, <1>2, <1>3, SymbolFacts, SymbolKeepsPrivate
<1>6. Histories'
  <2>1. \A n \in DOMAIN fromGensym : fromGensym[n] \in Symbols
    BY <1>3 DEF TypeOK
  <2>2. fromReader \subseteq Symbols
    BY <1>3 DEF TypeOK
  <2>3. \A r \in Symbols : Name(r)' = Name(r)
    BY <1>1, <1>2, <1>3, SymbolFacts
  <2> QED BY <1>1, <1>3, <2>1, <2>2, <2>3 DEF Histories
<1> QED BY <1>4, <1>5, <1>6 DEF IInv

\* a new symbol from the counter,
LEMMA GensymKeeps == IInv /\ Gensym => IInv'
<1>1. SUFFICES ASSUME IInv, gensym_counter \in DOMAIN GensymNames,
                      NEW s, Symbol(GensymNames[gensym_counter], s),
                      fromGensym' = Append(fromGensym, s),
                      gensym_counter' = gensym_counter + 1,
                      UNCHANGED <<held, fromReader>>
               PROVE  IInv'
  BY DEF Gensym
<1> DEFINE t == GensymNames[gensym_counter]
<1>2. t \in Texts /\ Len(GensymNames) \in Nat /\ gensym_counter <= Len(GensymNames)
  BY <1>1, TextsAssumption
<1>3. TypeOK /\ UniqueNames /\ Findable /\ Private /\ Histories
  BY <1>1 DEF IInv
<1>4. s \in Symbols' /\ Name(s)' = t /\ \A r \in Symbols : r \in Symbols' /\ Name(r)' = Name(r)
  BY <1>1, <1>2, <1>3, SymbolFacts
<1>5. fromGensym \in Seq(Symbols) /\ gensym_counter \in Nat \ {0}
  BY <1>3 DEF TypeOK
<1>6. fromGensym' \in Seq(Symbols') /\ gensym_counter' \in Nat \ {0}
  BY <1>1, <1>4, <1>5
<1>7. TypeOK'
  BY <1>1, <1>2, <1>3, <1>6, SymbolFacts DEF TypeOK, Symbols
<1>8. UniqueNames' /\ Findable' /\ Private'
  BY <1>1, <1>2, <1>3, SymbolFacts, SymbolKeepsPrivate
<1>9. Histories'
  <2>1. Len(fromGensym) = gensym_counter - 1
    BY <1>3 DEF Histories
  <2>2. Len(fromGensym') = gensym_counter' - 1 /\ Len(fromGensym') <= Len(GensymNames)
    BY <1>1, <1>2, <1>5, <2>1
  <2>3. \A n \in DOMAIN fromGensym' : text'[string'[fromGensym'[n]]] = GensymNames[n]
    <3>1. SUFFICES ASSUME NEW n \in DOMAIN fromGensym'
                   PROVE  text'[string'[fromGensym'[n]]] = GensymNames[n]
      OBVIOUS
    <3>2. CASE n = gensym_counter
      <4>1. fromGensym'[n] = s
        BY <1>1, <1>5, <2>1, <3>2
      <4> QED BY <1>4, <3>2, <4>1 DEF Name, symbol_string
    <3>3. CASE n # gensym_counter
      <4>1. n \in DOMAIN fromGensym /\ fromGensym'[n] = fromGensym[n]
        BY <1>1, <1>5, <2>1, <3>1, <3>3
      <4>2. fromGensym[n] \in Symbols
        BY <1>5, <4>1
      <4>3. Name(fromGensym[n]) = GensymNames[n]
        BY <1>3, <4>1 DEF Histories
      <4> QED BY <1>4, <4>1, <4>2, <4>3 DEF Name, symbol_string
    <3> QED BY <3>2, <3>3
  <2>4. \A r \in fromReader' : Name(r)' \in Identifiers
    BY <1>1, <1>3, <1>4 DEF TypeOK, Histories
  <2> QED BY <2>2, <2>3, <2>4 DEF Histories, Name, symbol_string
<1> QED BY <1>7, <1>8, <1>9 DEF IInv

\* a string made by the program,
LEMMA MakeStringKeeps == ASSUME IInv, NEW t \in Texts, MakeString(t) PROVE IInv'
<1>1. /\ fresh' = fresh + 1 /\ text' = Extend(text, fresh, t) /\ held' = held \cup {fresh}
      /\ UNCHANGED <<buckets, string, gensym_counter, fromReader, fromGensym>>
  BY DEF MakeString
<1>2. TypeOK /\ UniqueNames /\ Findable /\ Private /\ Histories
  BY DEF IInv
<1>3. fresh \in Nat \ {0} /\ fresh \notin DOMAIN text /\ \A s \in Symbols : string[s] \in DOMAIN text
  BY <1>2 DEF TypeOK, Symbols
<1>4. /\ DOMAIN text' = DOMAIN text \cup {fresh} /\ text' \in [DOMAIN text' -> Texts]
      /\ \A o \in DOMAIN text : text'[o] = text[o]
  BY <1>1, <1>2, <1>3 DEF Extend, TypeOK
<1>5. Symbols' = Symbols /\ \A s \in Symbols : Name(s)' = Name(s)
  BY <1>1, <1>3, <1>4 DEF Symbols, Name, symbol_string
<1>6. TypeOK'
  BY <1>1, <1>2, <1>3, <1>4 DEF TypeOK, Symbols
<1>7. UniqueNames' /\ Findable'
  BY <1>1, <1>2, <1>5 DEF UniqueNames, Findable, Bucket
<1>8. Private'
  BY <1>1, <1>2, <1>3, <1>5 DEF Private, symbol_string
<1>9. Histories'
  <2>1. (\A n \in DOMAIN fromGensym : fromGensym[n] \in Symbols) /\ fromReader \subseteq Symbols
    BY <1>2 DEF TypeOK
  <2> QED BY <1>1, <1>2, <1>5, <2>1 DEF Histories
<1> QED BY <1>6, <1>7, <1>8, <1>9 DEF IInv

\* a symbol's text copied to a new string,
LEMMA SymbolToStringKeeps == IInv /\ SymbolToString => IInv'
<1>1. SUFFICES ASSUME IInv, NEW s \in Symbols, MakeString(Name(s)) PROVE IInv'
  BY DEF SymbolToString, Symbols
<1>2. Name(s) \in Texts
  BY <1>1 DEF IInv, TypeOK, Symbols, Name, symbol_string
<1> QED BY <1>1, <1>2, MakeStringKeeps

\* a write to a string the program holds,
LEMMA MutateStringKeeps == IInv /\ MutateString => IInv'
<1>1. SUFFICES ASSUME IInv, NEW o \in held, NEW t \in SameLength[text[o]],
                      text' = [text EXCEPT ![o] = t],
                      UNCHANGED <<buckets, string, held, fresh, gensym_counter, answer,
                                  fromReader, fromGensym>>
               PROVE  IInv'
  BY DEF MutateString
<1>2. TypeOK /\ UniqueNames /\ Findable /\ Private /\ Histories
  BY <1>1 DEF IInv
<1>3. t \in Texts
  BY <1>1, <1>2, TextsAssumption DEF TypeOK
<1>4. Symbols' = Symbols /\ \A s \in Symbols : Name(s)' = Name(s)
  BY <1>1, <1>2 DEF Symbols, Name, symbol_string, Private, TypeOK
<1>5. TypeOK'
  BY <1>1, <1>2, <1>3 DEF TypeOK, Symbols
<1>6. UniqueNames' /\ Findable'
  BY <1>1, <1>2, <1>4 DEF UniqueNames, Findable, Bucket
<1>7. Private'
  BY <1>1, <1>2, <1>4 DEF Private, symbol_string
<1>8. Histories'
  <2>1. (\A n \in DOMAIN fromGensym : fromGensym[n] \in Symbols) /\ fromReader \subseteq Symbols
    BY <1>2 DEF TypeOK
  <2> QED BY <1>1, <1>2, <1>4, <2>1 DEF Histories
<1> QED BY <1>5, <1>6, <1>7, <1>8 DEF IInv

\* and no step at all.
LEMMA StutterKeeps == IInv /\ UNCHANGED vars => IInv'
BY DEF IInv, vars, TypeOK, UniqueNames, Findable, Private, Histories, Symbols,
       Name, symbol_string, Bucket

\* IInv is inductive.
THEOREM Invariance == Spec => []IInv
<1>1. IInv /\ [Next]_vars => IInv'
  BY ReadIdentifierKeeps, StringToSymbolKeeps, GensymKeeps, MakeStringKeeps,
     SymbolToStringKeeps, MutateStringKeeps, StutterKeeps DEF Next
<1> QED BY <1>1, Initially, PTL DEF Spec

-----------------------------------------------------------------------------
\* Every reference of the table is to an object made before.
THEOREM Typing == Spec => []TypeOK
<1>1. IInv => TypeOK
  BY DEF IInv
<1> QED BY <1>1, Invariance, PTL

\* There are never two symbols with the same text, whatever the program writes
\* into its own strings.
THEOREM Uniqueness == Spec => []UniqueNames
<1>1. IInv => UniqueNames
  BY DEF IInv
<1> QED BY <1>1, Invariance, PTL

\* A symbol is always on the chain its text hashes to.
THEOREM Findability == Spec => []Findable
<1>1. IInv => Findable
  BY DEF IInv
<1> QED BY <1>1, Invariance, PTL

\* gensym never returns a symbol twice, nor one the reader has returned.
THEOREM FreshGensyms == Spec => []GensymsDistinct
<1>1. IInv => GensymsDistinct
  <2>1. SUFFICES ASSUME Histories PROVE GensymsDistinct
    BY DEF IInv
  <2>2. ASSUME NEW m \in DOMAIN fromGensym, NEW n \in DOMAIN fromGensym,
               fromGensym[m] = fromGensym[n]
        PROVE  m = n
    BY <2>1, <2>2, GensymAssumption, TextsAssumption DEF Histories
  <2>3. ASSUME NEW n \in DOMAIN fromGensym PROVE fromGensym[n] \notin fromReader
    BY <2>1, GensymAssumption, TextsAssumption DEF Histories
  <2> QED BY <2>2, <2>3 DEF GensymsDistinct
<1> QED BY <1>1, Invariance, PTL

\* No step of the program changes the text of a symbol.
THEOREM Immutability == Spec => NamesNeverChange
<1>1. ASSUME IInv, Next, NEW s \in Symbols PROVE Name(s)' = Name(s)
  <2>1. TypeOK /\ UniqueNames /\ Findable /\ Private
    BY <1>1 DEF IInv
  <2>2. ASSUME NEW t \in Texts, NEW r, Symbol(t, r) PROVE Name(s)' = Name(s)
    BY <2>1, <2>2, SymbolFacts
  <2>3. CASE ReadIdentifier \/ StringToSymbol \/ Gensym
    BY <2>1, <2>2, <2>3, TextsAssumption DEF ReadIdentifier, StringToSymbol, Gensym, TypeOK
  <2>4. CASE (\E t \in Texts : MakeString(t)) \/ SymbolToString
    BY <2>1, <2>4 DEF SymbolToString, MakeString, Extend, TypeOK, Symbols, Name, symbol_string
  <2>5. CASE MutateString
    BY <2>1, <2>5 DEF MutateString, Private, TypeOK, Symbols, Name, symbol_string
  <2> QED BY <1>1, <2>3, <2>4, <2>5 DEF Next
<1>2. IInv /\ [Next]_vars => [\A s \in Symbols : Name(s)' = Name(s)]_vars
  BY <1>1
<1> QED BY <1>2, Invariance, PTL DEF Spec, NamesNeverChange

-----------------------------------------------------------------------------
\* Where texts have one symbol, SymbolOf inverts Name.
LEMMA SymbolOfFacts ==
  ASSUME UniqueNames
  PROVE  /\ DOMAIN SymbolOf = {Name(s) : s \in Symbols}
         /\ \A s \in Symbols : SymbolOf[Name(s)] = s
BY DEF SymbolOf, UniqueNames

\* A call of symbol() is a request to the abstract interner.
LEMMA SymbolAsks ==
  ASSUME IInv, IInv', NEW t \in Texts, NEW s, Symbol(t, s)
  PROVE  Abstract!Ask(t)
<1>1. TypeOK /\ UniqueNames /\ UniqueNames' /\ Findable
  BY DEF IInv
<1>2. /\ s \in Symbols' /\ Name(s)' = t
      /\ \A r \in Symbols : r \in Symbols' /\ Name(r)' = Name(r)
  BY <1>1, SymbolFacts
<1>3. Symbols' = Symbols \cup {s}
  <2>1. CASE Matches(t) = {}
    <3>1. Intern(t, s)
      BY <2>1 DEF Symbol
    <3> QED BY <1>1, <2>1, <3>1, InternFacts
  <2>2. CASE Matches(t) # {}
    <3>1. Symbols' = Symbols
      BY <2>2 DEF Symbol, Symbols
    <3> QED BY <1>2, <3>1
  <2> QED BY <2>1, <2>2
<1>4. /\ DOMAIN SymbolOf = {Name(r) : r \in Symbols}
      /\ \A r \in Symbols : SymbolOf[Name(r)] = r
  BY <1>1, SymbolOfFacts
<1>5. /\ (DOMAIN SymbolOf)' = {Name(r)' : r \in Symbols'}
      /\ \A r \in Symbols' : SymbolOf'[Name(r)'] = r
  BY <1>1 DEF SymbolOf, UniqueNames
<1>6. (DOMAIN SymbolOf)' = DOMAIN SymbolOf \cup {t}
  BY <1>2, <1>3, <1>4, <1>5
<1>7. \A u \in DOMAIN SymbolOf : SymbolOf'[u] = SymbolOf[u]
  BY <1>2, <1>4, <1>5
<1>8. SymbolOf'[t] = s
  BY <1>2, <1>5
<1>9. t \notin DOMAIN SymbolOf => s \notin Abstract!Taken
  <2>1. \A r \in Symbols : r = s => Name(r) = t
    BY <1>2
  <2>2. Abstract!Taken \subseteq Symbols
    BY <1>4 DEF Abstract!Taken
  <2> QED BY <1>4, <2>1, <2>2
<1>10. answer' = [text |-> t, symbol |-> s]
  BY DEF Symbol
<1> QED BY <1>6, <1>7, <1>8, <1>9, <1>10 DEF Abstract!Ask

\* The table implements the abstract interner.
THEOREM Refinement == Spec => ImplementsInterner
<1>1. Init => Abstract!Init
  BY DEF Init, Abstract!Init, SymbolOf, Symbols
<1>2. ASSUME IInv, IInv', Next
      PROVE  Abstract!Next \/ UNCHANGED <<SymbolOf, answer>>
  <2>1. TypeOK
    BY <1>2 DEF IInv
  <2>2. CASE ReadIdentifier
    BY <1>2, <2>2, SymbolAsks, TextsAssumption DEF ReadIdentifier, Abstract!Next
  <2>3. CASE StringToSymbol
    BY <1>2, <2>1, <2>3, SymbolAsks DEF StringToSymbol, TypeOK, Abstract!Next
  <2>4. CASE Gensym
    BY <1>2, <2>4, SymbolAsks, TextsAssumption DEF Gensym, Abstract!Next
  <2>5. CASE UNCHANGED <<string, answer>> /\ \A s \in Symbols : Name(s)' = Name(s)
    <3>1. Symbols' = Symbols
      BY <2>5 DEF Symbols
    <3> QED BY <2>5, <3>1 DEF SymbolOf
  <2>6. CASE (\E t \in Texts : MakeString(t)) \/ SymbolToString \/ MutateString
    <3>1. UNCHANGED <<string, answer>>
      BY <2>6 DEF MakeString, SymbolToString, MutateString
    <3>2. CASE (\E t \in Texts : MakeString(t)) \/ SymbolToString
      BY <2>1, <2>5, <3>1, <3>2
         DEF SymbolToString, MakeString, Extend, TypeOK, Symbols, Name, symbol_string
    <3>3. CASE MutateString
      BY <1>2, <2>1, <2>5, <3>1, <3>3
         DEF MutateString, IInv, Private, TypeOK, Symbols, Name, symbol_string
    <3> QED BY <2>6, <3>2, <3>3
  <2> QED BY <1>2, <2>2, <2>3, <2>4, <2>6 DEF Next
<1>3. UNCHANGED vars => UNCHANGED <<SymbolOf, answer>>
  BY DEF vars, SymbolOf, Symbols, Name, symbol_string
<1>4. IInv /\ IInv' /\ [Next]_vars => [Abstract!Next]_<<SymbolOf, answer>>
  BY <1>2, <1>3
<1> QED BY <1>1, <1>4, Invariance, PTL DEF Spec, ImplementsInterner, Abstract!Spec
=============================================================================
