------------------------------- MODULE MCData -------------------------------
(* Situations for Data.tla.                                                *)
EXTENDS Data

a == Symbol("a")
b == Symbol("b")
Call(name, operands)      == [p |-> name, op |-> "", ci |-> FALSE, args |-> operands]
Comparison(name, op, ci, operands) == [p |-> name, op |-> op, ci |-> ci, args |-> operands]
Of(stores, calls)         == [stores |-> stores, calls |-> calls]
UpTo(n, S)                == UNION {[1..m -> S] : m \in 0..n}

-----------------------------------------------------------------------------
(* Every way four pairs can be chained; every structure of three pairs, and*)
(* of two with an atom.                                                    *)

Walking ==
  Of({[i \in 1..4 |-> Pair(IF i = 3 THEN a ELSE b, cdrs[i])] :
        cdrs \in [1..4 -> {nil, a} \cup {Ref(i) : i \in 1..4}]},
     {Call("list?", <<Ref(1)>>), Call("length", <<Ref(1)>>), Call("reverse", <<Ref(1)>>),
      Call("list-tail", <<Ref(1), Fixnum(3)>>), Call("list-ref", <<Ref(1), Fixnum(2)>>),
      Call("memq", <<a, Ref(1)>>), Call("append", <<Ref(1), Ref(2)>>), Call("append", <<Ref(1), Ref(1), a>>)})

Wild(n, atoms) == [1..n -> {Pair(x, y) : x, y \in atoms \cup {Ref(i) : i \in 1..n}}]
Equals   == Of(Wild(3, {nil}), {Call("equal?", <<Ref(1), Ref(2)>>)})
Searches ==
  Of(Wild(2, {nil, a}),
     {Call("equal?", <<Ref(1), Ref(2)>>), Call("member", <<Ref(2), Ref(1)>>), Call("assoc", <<Ref(2), Ref(1)>>),
      Call("assoc", <<a, Ref(1)>>), Call("assq", <<a, Ref(1)>>)})

-----------------------------------------------------------------------------
(* Any primitive on any arguments, right or wrong.                         *)

Objects ==
  <<Pair(a, Ref(2)), Pair(Ref(3), nil), Text(<<97, -56>>), Vector(<<Ref(3), Ref(1)>>),
    Text(<<97, -56>>), Vector(<<Ref(5), Ref(1)>>), Text(<< >>), Pair(Char(98), Ref(9)), Pair(Char(97), nil)>>
Operands ==
  {nil, a, Fixnum(0), Fixnum(2), Fixnum(-1), Char(98), Ref(1), Ref(3), Ref(4), Ref(6), Ref(8)}
Primitives ==
  {"cons", "list", "eq?", "equal?", "vector", "vector-length", "vector->list", "vector-ref", "vector-fill!",
   "string", "make-string", "string-length", "string->list", "string-copy", "string-ref", "string-fill!",
   "string-append", "set-car!", "set-cdr!", "integer->char", "char->integer",
   "number->string", "string->number", "char-upcase", "char-downcase"} \cup Signs \cup Walkers
Anything ==
  Of({Objects},
     {Call(q, operands) : q \in Primitives, operands \in UpTo(2, Operands)}
       \cup {Call(q, operands) :
               q \in {"vector-set!", "string-set!", "substring", "string-append", "append"},
               operands \in [1..3 -> {Fixnum(0), Fixnum(1), Fixnum(2), Char(98), Ref(1), Ref(3), Ref(4)}]}
       \cup {Call("make-vector", operands) :
               operands \in {<< >>, <<a>>, <<Fixnum(0)>>, <<Fixnum(3)>>, <<Fixnum(2), Ref(1)>>}}
       \cup {Comparison("pair_fun", path, FALSE, operands) :
               path \in UpTo(3, {1, 2}) \ {<< >>}, operands \in {<<v>> : v \in Operands} \cup {<< >>}})

-----------------------------------------------------------------------------
(* Numbers of ten bits, characters and texts.                              *)

Ends  == {-512, -511, 510, 511}
Small == {-3, -2, -1, 0, 1, 2, 3, 7}
Fixed(s) == [i \in DOMAIN s |-> Fixnum(s[i])]
Numeric ==
  Of({<< >>},
     {Call(q, Fixed(s)) : q \in Arithmetic,
        s \in UpTo(2, Ends \cup Small) \cup [1..3 -> {-512, -2, 0, 3, 511}]})

Comparisons ==
  Of({<< >>},
     {Comparison("number_fun", op, FALSE, s) : op \in Ops, s \in UpTo(3, {a, Fixnum(-512), Fixnum(0), Fixnum(1)})}
       \cup {Comparison("char_fun", op, ci, s) :
               op \in Ops, ci \in BOOLEAN,
               s \in UpTo(2, {Char(m) : m \in {0, 66, 97, 98, 127, -128, -1}})
                       \cup [1..3 -> {a, Char(97), Char(-56)}]}
       \cup {Call(q, <<Char(m)>>) :
               q \in {"char-upcase", "char-downcase"}, m \in {0, 64, 65, 90, 91, 96, 97, 122, 123, 127, -56, -1}}
       \cup {Call(q, <<Fixnum(m)>>) : q \in Signs, m \in Ends \cup Small}
       \cup {Call(q, <<Fixnum(m)>>) : q \in {"integer->char", "number->string"},
               m \in Ends \cup Small \cup {99, 100, 127, 128, 255, 256}})

Texts(n) == {Text(s) : s \in UpTo(n, {97, 66, -56})}
Pairwise ==
  Of({<<s, t>> : s, t \in Texts(2)},
     {Comparison("string_fun", op, ci, <<Ref(1), Ref(2)>>) : op \in Ops, ci \in BOOLEAN})
Threesome ==
  Of({<<s, t, u>> : s \in Texts(1) \cup {Text(<<97, 97>>)}, t \in Texts(1) \cup {Text(<<97, 98>>)}, u \in Texts(2)},
     {Comparison("string_fun", op, FALSE, <<Ref(1), Ref(2), Ref(3)>>) : op \in Ops}
       \cup {Comparison("string_fun", "<", FALSE, s) : s \in {<< >>, <<Ref(1)>>, <<Ref(1), a>>, <<a, Ref(1)>>}})

\* NUL, space, -, +, 0, 1, 9, F and x, at will; every space strtol skips,
\* and codes on either side of them.
Written == UpTo(3, {0, 32, Minus, Plus, Zero, 49, 57, 70, 120})
             \cup {<<c, 49>> : c \in 8..14} \cup {<<13, 12, 49, 11>>, <<53, 49, 0, 120, 53>>}
             \cup {<<Minus, Zero, 120, 49, 70>>, <<Zero, 88, 49>>, <<53, 49, 50>>, <<50, 48, 52, 56>>, <<32, 32, 49, 49>>}
Numerals ==
  Of({<<Text(s)>> : s \in Written}, {Call("string->number", <<Ref(1), Fixnum(radix)>>) : radix \in {2, 8, 10, 16}})

AllSituations ==
  <<Walking, Equals, Searches, Anything, Numeric, Comparisons, Pairwise, Threesome, Numerals>>
=============================================================================
