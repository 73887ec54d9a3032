---------------------------- MODULE SymbolTable ----------------------------
(***************************************************************************)
(* symbols.c and the primitives around it: the hash table that makes two   *)
(* occurrences of an identifier the same object, string->symbol,           *)
(* symbol->string and gensym, on a heap of mutable strings.                *)
(*                                                                         *)
(* A symbol is an object with a pointer to a string object.  The table     *)
(* compares texts by reading those strings, so it is right only as long as *)
(* nobody else can write to them: the strings of symbols and the strings   *)
(* of the user must never be the same objects.                             *)
(***************************************************************************)
EXTENDS Integers, Sequences, FiniteSets

CONSTANTS
  Texts,        \* byte strings
  Identifiers,  \* those read_identifier or a C caller of make_symbol_c asks for
  GensymNames,  \* the texts snprintf makes of "#:G%lu", from the counter's 1 on
  SameLength,   \* text -> the texts of the same length
  Hash,         \* symbol_string_hash
  nbuckets,     \* SYMBOL_TABLE_BUCKETS
  MaxObject,    \* bound: the number of objects made
  NoAnswer

VARIABLES
  buckets,      \* 0..nbuckets-1 -> chain of symbols, the newest first
  text,         \* string object -> the bytes in it
  string,       \* symbol object -> its string object
  held,         \* the string objects the user has a reference to
  fresh,        \* the next object the heap hands out
  gensym_counter,
  answer,       \* history: what symbol() was last asked and what it answered
  fromReader,   \* history: the symbols made or found by the reader
  fromGensym    \* history: the symbols gensym returned, in order

vars == <<buckets, text, string, held, fresh, gensym_counter, answer,
          fromReader, fromGensym>>

ASSUME TextsAssumption ==
  /\ Identifiers \subseteq Texts
  /\ GensymNames \in Seq(Texts)
  /\ SameLength \in [Texts -> SUBSET Texts]

ASSUME HashAssumption == Hash \in [Texts -> Nat] /\ nbuckets \in Nat \ {0}

\* %lu prints two counters differently, and no identifier starts with #.
ASSUME GensymAssumption ==
  /\ \A m, n \in DOMAIN GensymNames : GensymNames[m] = GensymNames[n] => m = n
  /\ \A n \in DOMAIN GensymNames : GensymNames[n] \notin Identifiers

ASSUME BoundAssumption == MaxObject \in Nat

-----------------------------------------------------------------------------
symbol_string(s) == string[s]
Name(s)          == text[symbol_string(s)]
Bucket(t)        == Hash[t] % nbuckets

\* The places of t in its chain; symbol() stops at the first.
Matches(t) ==
  {i \in DOMAIN buckets[Bucket(t)] : Name(buckets[Bucket(t)][i]) = t}

Extend(f, x, y) == [z \in DOMAIN f \cup {x} |-> IF z = x THEN y ELSE f[z]]

\* Bug: interning keeps the caller's string instead of copying its bytes.
BugIntern(t, s) ==
  IF \E o \in held : text[o] = t
  THEN /\ fresh + 1 <= MaxObject
       /\ s = fresh
       /\ fresh' = fresh + 1
       /\ UNCHANGED text
       /\ string' = Extend(string, s, CHOOSE o \in held : text[o] = t)
       /\ buckets' = [buckets EXCEPT ![Bucket(t)] = <<s>> \o @]
  ELSE /\ fresh + 2 <= MaxObject
       /\ s = fresh + 1
       /\ fresh' = fresh + 2
       /\ text' = Extend(text, fresh, t)
       /\ string' = Extend(string, s, fresh)
       /\ buckets' = [buckets EXCEPT ![Bucket(t)] = <<s>> \o @]

\* Bug: the bump pointer moves past the string only.
BugInternShort(t, s) ==
  /\ fresh + 2 <= MaxObject
  /\ s = fresh + 1
  /\ fresh' = fresh + 1
  /\ text' = Extend(text, fresh, t)
  /\ string' = Extend(string, s, fresh)
  /\ buckets' = [buckets EXCEPT ![Bucket(t)] = <<s>> \o @]

\* not there, intern now: a copy of the bytes, a symbol, and a pair on the chain
Intern(t, s) ==
  /\ fresh + 2 <= MaxObject
  /\ s = fresh + 1
  /\ fresh' = fresh + 2
  /\ text' = Extend(text, fresh, t)
  /\ string' = Extend(string, s, fresh)
  /\ buckets' = [buckets EXCEPT ![Bucket(t)] = <<s>> \o @]

\* symbol(t) returns s.
Symbol(t, s) ==
  /\ \/ \E i \in Matches(t) :
           /\ \A j \in Matches(t) : i <= j
           /\ s = buckets[Bucket(t)][i]
           /\ UNCHANGED <<fresh, text, string, buckets>>
     \/ Matches(t) = {} /\ Intern(t, s)
  /\ answer' = [text |-> t, symbol |-> s]

\* The symbols symbol() can return: one of the table, or the next one made.
Results == DOMAIN string \cup {fresh, fresh + 1}

\* read_identifier, and make_symbol_c from the C code
ReadIdentifier ==
  \E t \in Identifiers, s \in Results :
     /\ Symbol(t, s)
     /\ fromReader' = fromReader \cup {s}
     /\ UNCHANGED <<held, gensym_counter, fromGensym>>

\* (string->symbol o)
StringToSymbol ==
  \E o \in held, s \in Results :
     /\ Symbol(text[o], s)
     /\ UNCHANGED <<held, gensym_counter, fromReader, fromGensym>>

\* Bug: the counter is not moved on.
BugGensym ==
  /\ gensym_counter \in DOMAIN GensymNames
  /\ \E s \in Results :
        /\ Symbol(GensymNames[gensym_counter], s)
        /\ fromGensym' = Append(fromGensym, s)
  /\ Len(fromGensym) < Len(GensymNames)
  /\ UNCHANGED <<held, fromReader, gensym_counter>>

\* (gensym); the model stops at the last of GensymNames
Gensym ==
  /\ gensym_counter \in DOMAIN GensymNames
  /\ \E s \in Results :
        /\ Symbol(GensymNames[gensym_counter], s)
        /\ fromGensym' = Append(fromGensym, s)
  /\ gensym_counter' = gensym_counter + 1
  /\ UNCHANGED <<held, fromReader>>

\* The user gets a new string of these bytes: make-string, string, a literal.
MakeString(t) ==
  /\ fresh + 1 <= MaxObject
  /\ fresh' = fresh + 1
  /\ text' = Extend(text, fresh, t)
  /\ held' = held \cup {fresh}
  /\ UNCHANGED <<buckets, string, gensym_counter, answer, fromReader, fromGensym>>

\* Bug: the symbol's own string is handed out.
BugSymbolToString ==
  \E s \in DOMAIN string :
     /\ held' = held \cup {symbol_string(s)}
     /\ UNCHANGED <<buckets, text, string, fresh, gensym_counter, answer,
                    fromReader, fromGensym>>

\* (symbol->string s) goes through impl_string_copy
SymbolToString == \E s \in DOMAIN string : MakeString(Name(s))

\* string-set! and string-fill!: other bytes, as many of them
MutateString ==
  \E o \in held :
     /\ \E t \in SameLength[text[o]] : text' = [text EXCEPT ![o] = t]
     /\ UNCHANGED <<buckets, string, held, fresh, gensym_counter, answer,
                    fromReader, fromGensym>>

Init ==
  /\ buckets = [b \in 0..(nbuckets - 1) |-> << >>]
  /\ text = [o \in {} |-> 0]
  /\ string = [s \in {} |-> 0]
  /\ held = {}
  /\ fresh = 1
  /\ gensym_counter = 1
  /\ answer = NoAnswer
  /\ fromReader = {}
  /\ fromGensym = << >>

Next ==
  \/ ReadIdentifier
  \/ StringToSymbol
  \/ Gensym
  \/ \E t \in Texts : MakeString(t)
  \/ SymbolToString
  \/ MutateString

Spec == Init /\ [][Next]_vars

-----------------------------------------------------------------------------
(* Correctness. *)

Symbols == DOMAIN string

\* The variables have their types: every reference is to an object made, and
\* the string of a symbol is one of the strings.
TypeOK ==
  /\ fresh \in Nat \ {0}
  /\ text \in [DOMAIN text -> Texts] /\ DOMAIN text \subseteq 1..(fresh - 1)
  /\ string \in [DOMAIN string -> DOMAIN text] /\ Symbols \subseteq 1..(fresh - 1)
  /\ buckets \in [0..(nbuckets - 1) -> Seq(Symbols)]
  /\ held \subseteq DOMAIN text
  /\ gensym_counter \in Nat \ {0}
  /\ fromReader \subseteq Symbols
  /\ fromGensym \in Seq(Symbols)

\* tests/testcases.primitives: "I will never have 2 symbols with the same
\* symbol-string" -- whatever the program writes into the strings it gave to
\* string->symbol or got from symbol->string.
UniqueNames == \A s, r \in Symbols : Name(s) = Name(r) => s = r

\* A symbol can be found again: it is on the chain its present text hashes to.
Findable ==
  \A s \in Symbols : \E i \in DOMAIN buckets[Bucket(Name(s))] :
     buckets[Bucket(Name(s))][i] = s

\* Two calls of gensym never return the same symbol, and the reader never
\* returns one that gensym made, even if string->symbol has met the name.
GensymsDistinct ==
  /\ \A m, n \in DOMAIN fromGensym : fromGensym[m] = fromGensym[n] => m = n
  /\ \A n \in DOMAIN fromGensym : fromGensym[n] \notin fromReader

\* "you cannot really mutate a symbol once created": no step changes the text
\* of a symbol.
NamesNeverChange == [][\A s \in Symbols : Name(s)' = Name(s)]_vars

\* The symbol of each text that has one.
SymbolOf == [t \in {Name(s) : s \in Symbols} |-> CHOOSE s \in Symbols : Name(s) = t]

Abstract == INSTANCE Interner WITH symbolOf <- SymbolOf

\* The table implements the abstract interner: every answer of symbol() is the
\* one symbol of the text, and no step disturbs an earlier answer.
ImplementsInterner == Abstract!Spec
=============================================================================
