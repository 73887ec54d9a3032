------------------------------ MODULE Fixnums ------------------------------
(***************************************************************************)
(* What primitives.c computes without the store: fixnums (143-431) and     *)
(* the comparisons of numbers, characters and texts (150-180, 756-853,     *)
(* 957-1024).  A fixnum has Bits bits, 62 in the program, and the long     *)
(* that C computes in has two more; past its end the long wraps, as it     *)
(* does in the build without optimisation that the Makefile makes.         *)
(***************************************************************************)
EXTENDS Integers, Sequences, SequencesExt, FiniteSetsExt

CONSTANT Bits   \* bound: the width of a fixnum

ASSUME BitsAssumption == Bits \in Nat \ {0, 1}

Fixnum(i)   == [k |-> "fixnum", i |-> i]
Char(c)     == [k |-> "character", c |-> c]
Boolean(b)  == [k |-> "boolean", b |-> b]
Error       == [k |-> "error"]

PowerOfTwo[n \in Nat] == IF n = 0 THEN 1 ELSE 2 * PowerOfTwo[n - 1]
Wrap(n, bits) == ((n + PowerOfTwo[bits - 1]) % PowerOfTwo[bits]) - PowerOfTwo[bits - 1]
Fixnums == -PowerOfTwo[Bits - 1]..(PowerOfTwo[Bits - 1] - 1)
Long(n) == Wrap(n, Bits + 2)

\* Shifted left by the tag, and back when it is read.
make_fixnum(n) == Fixnum(Wrap(n, Bits))

is_fixnum(v) == v.k = "fixnum"
AllFixnums(args) == \A i \in DOMAIN args : is_fixnum(args[i])

Ops == {"=", "<", ">", "<=", ">="}
Holds(op, x, y) ==
  CASE op = "="  -> x = y
    [] op = "<"  -> x < y
    [] op = ">"  -> x > y
    [] op = "<=" -> x <= y
    [] op = ">=" -> x >= y

-----------------------------------------------------------------------------
\* / and % of C, which cut towards zero
Magnitude(n) == IF n < 0 THEN -n ELSE n
Quot(n1, n2) ==
  LET q == Magnitude(n1) \div Magnitude(n2) IN IF (n1 < 0) = (n2 < 0) THEN q ELSE -q
Rem(n1, n2)  == n1 - n2 * Quot(n1, n2)

\* The loops over the arguments, from initial on, and a turn of them.
Step(p, n, x) ==
  CASE p = "+" -> n + x
    [] p = "*" -> n * x
    [] p = "-" -> n - x
    [] p = "/" -> Quot(n, x)
Accumulated(p, initial, numbers) ==
  LET n[i \in 0..Len(numbers)] == IF i = 0 THEN initial ELSE Long(Step(p, n[i - 1], numbers[i])) IN n
Accumulate(p, initial, numbers) == make_fixnum(Accumulated(p, initial, numbers)[Len(numbers)])

\* Bug: the remainder, which has the sign of the dividend.
BugModulo(n1, n2) == make_fixnum(Rem(n1, n2))

quotient(n1, n2)  == make_fixnum(Quot(n1, n2))
remainder(n1, n2) == make_fixnum(Rem(n1, n2))
modulo(n1, n2)    == make_fixnum(Rem(Rem(n1, n2) + n2, n2))

abs(n) == IF n < 0 THEN make_fixnum(-n) ELSE Fixnum(n)
\* The number so far, which gives way to one that it is less or greater than.
Extremes(op, s) ==
  LET m[i \in 0..(Len(s) - 1)] ==
        IF i = 0 THEN s[1] ELSE IF Holds(op, m[i - 1], s[i + 1]) THEN s[i + 1] ELSE m[i - 1]
  IN  m
max(s) == Fixnum(Extremes("<", s)[Len(s) - 1])
min(s) == Fixnum(Extremes(">", s)[Len(s) - 1])

Signs == {"zero?", "positive?", "negative?", "odd?", "even?"}
sign_of(p, n) ==
  CASE p = "zero?"     -> n = 0
    [] p = "positive?" -> n > 0
    [] p = "negative?" -> n < 0
    [] p = "odd?"      -> Rem(n, 2) # 0
    [] p = "even?"     -> Rem(n, 2) = 0

IntegerDivisions == {"quotient", "remainder", "modulo"}
Arithmetic == {"+", "*", "-", "/", "abs", "max", "min"} \cup IntegerDivisions

\* What the checks of each primitive refuse.
Refused(p, args) ==
  \/ ~AllFixnums(args)
  \/ p \in {"-", "/", "max", "min"} /\ args = << >>
  \/ p = "abs" /\ Len(args) # 1
  \/ p \in IntegerDivisions /\ Len(args) # 2
  \/ p \in IntegerDivisions \cup {"/"}
       /\ \E i \in DOMAIN args : args[i].i = 0 /\ (i > 1 \/ Len(args) = 1)

Computed(p, s) ==
  LET \* one argument is taken from 0, or divides 1
      from(n) == IF Len(s) = 1 THEN n ELSE Head(s)
      rest    == IF Len(s) = 1 THEN s ELSE Tail(s)
  IN  CASE p = "+" -> Accumulate("+", 0, s)
        [] p = "*" -> Accumulate("*", 1, s)
        [] p = "-" -> Accumulate("-", from(0), rest)
        [] p = "/" -> Accumulate("/", from(1), rest)
        [] p = "quotient"  -> quotient(s[1], s[2])
        [] p = "remainder" -> remainder(s[1], s[2])
        [] p = "modulo"    -> modulo(s[1], s[2])
        [] p = "abs" -> abs(s[1])
        [] p = "max" -> max(s)
        [] p = "min" -> min(s)

arithmetic(p, args) ==
  IF Refused(p, args) THEN Error ELSE Computed(p, [i \in DOMAIN args |-> args[i].i])

-----------------------------------------------------------------------------
(* number_fun, char_fun and string_fun, with one of five for their OP. *)

\* The loop stops at the first argument that is not right, of the type it
\* compares, and at the first that does not follow the one before it,
\* whichever comes first.
Chain(right, follows) ==
  LET wrong  == {i \in DOMAIN right : ~right[i]}
      breaks == {i \in DOMAIN right \ {1} : {i - 1, i} \cap wrong = {} /\ ~follows[i]}
  IN  IF \E i \in wrong : \A j \in breaks : i < j THEN Error ELSE Boolean(breaks = {})

number_fun(op, args) ==
  Chain([i \in DOMAIN args |-> is_fixnum(args[i])],
        [i \in 2..Len(args) |-> Holds(op, args[i - 1].i, args[i].i)])

\* A character is a signed char, and compared as an unsigned one.
is_character(v) == v.k = "character"

\* Bug: any code is kept.
BugMakeCharacter(n) == Char(n)

make_character(n) == Char(Wrap(n, 8))

\* Bug: compared as it is kept.
BugUnsigned(c) == c

Unsigned(c)    == c % 256
tolower(c)     == IF c \in 65..90 THEN c + 32 ELSE c
toupper(c)     == IF c \in 97..122 THEN c - 32 ELSE c
Folded(ci, c)  == IF ci THEN tolower(Unsigned(c)) ELSE Unsigned(c)

integer_char(args) ==
  IF Len(args) = 1 /\ AllFixnums(args) /\ args[1].i \in 0..255 THEN make_character(args[1].i) ELSE Error
char_case(p, args) ==
  IF Len(args) = 1 /\ is_character(args[1])
  THEN make_character(IF p = "char-upcase" THEN toupper(args[1].c) ELSE tolower(args[1].c)) ELSE Error
char_integer(args) ==
  IF Len(args) = 1 /\ is_character(args[1]) THEN make_fixnum(args[1].c) ELSE Error

char_fun(op, ci, args) ==
  Chain([i \in DOMAIN args |-> is_character(args[i])],
        [i \in 2..Len(args) |-> Holds(op, Folded(ci, args[i - 1].c), Folded(ci, args[i].c))])

\* The byte behind a text is NUL; as no text here holds one, no comparison
\* reads past it.
ByteOf(text, i) == IF i <= Len(text) THEN text[i] ELSE 0

\* Whether the text current may follow prec.  preclen is the length of the
\* first text of all: the loop does not set it again.
TextsFollow(op, ci, preclen, prec, current) ==
  LET p(i) == Folded(ci, ByteOf(prec, i))
      c(i) == Folded(ci, ByteOf(current, i))
      differ == {i \in 1..Min({preclen, Len(current)}) : p(i) # c(i)}
  IN  IF differ = {} THEN Holds(op, preclen, Len(current))
      ELSE Holds(op, p(Min(differ)), c(Min(differ)))

\* right says which arguments are strings, and texts is what those hold.
string_fun(op, ci, right, texts) ==
  IF Len(right) < 2 \/ ~right[1] THEN Error
  ELSE Chain(right, [i \in 2..Len(right) |-> TextsFollow(op, ci, Len(texts[1]), texts[i - 1], texts[i])])

-----------------------------------------------------------------------------
(* Numerals, as texts: sequences of the codes of their characters. *)

Zero == 48
Minus == 45
Plus == 43
Spaces == {32} \cup 9..13
DigitOf(c) ==
  CASE c \in 48..57 -> c - 48
    [] tolower(c) \in 97..122 -> tolower(c) - 87
    [] OTHER -> 99

number_string(n) ==
  LET m == Magnitude(n)
      digits == CHOOSE d \in 1..Bits : m < 10 ^ d /\ (d = 1 \/ m >= 10 ^ (d - 1))
  IN  (IF n < 0 THEN <<Minus>> ELSE << >>)
        \o [j \in 1..digits |-> Zero + ((m \div 10 ^ (digits - j)) % 10)]

\* Bug: a text that is no numeral to its end gives what strtol made of it.
BugStrtol(numeral, radix) ==
  LET read == SelectSeq(numeral, LAMBDA c : DigitOf(c) < radix)
  IN  [digits |-> numeral # << >>, n |-> FoldLeft(LAMBDA n, c : n * radix + DigitOf(c), 0, read)]

\* The digits of strtol, which must reach to the end of the text.
strtol(numeral, radix) ==
  [digits |-> numeral # << >> /\ \A i \in DOMAIN numeral : DigitOf(numeral[i]) < radix,
   n |-> FoldLeft(LAMBDA n, c : n * radix + DigitOf(c), 0, numeral)]

\* What C sees of a text: a copy one zero byte longer, up to its first zero.
CString(text) == SubSeq(text, 1, Min({i \in DOMAIN text : text[i] = 0} \cup {Len(text) + 1}) - 1)

\* strtol (C17's: no 0b in radix 2) skips space, takes a sign and, for radix
\* 16, 0x in front of a digit; what does not fit in a long is refused, what
\* fits in no fixnum not.
string_number(string, radix) ==
  LET text  == CString(string)
      start == CHOOSE i \in 1..(Len(text) + 1) :
                 /\ \A j \in 1..(i - 1) : text[j] \in Spaces
                 /\ i <= Len(text) => text[i] \notin Spaces
      signed == start <= Len(text) /\ text[start] \in {Minus, Plus}
      sign   == IF signed /\ text[start] = Minus THEN -1 ELSE 1
      from   == IF signed THEN start + 1 ELSE start
      prefix == /\ radix = 16 /\ Len(text) >= from + 2 /\ text[from] = Zero
                /\ tolower(text[from + 1]) = 120 /\ DigitOf(text[from + 2]) < 16
      number == strtol(SubSeq(text, IF prefix THEN from + 2 ELSE from, Len(text)), radix)
      value  == sign * number.n
  IN  IF number.digits /\ value = Long(value) THEN make_fixnum(value) ELSE Boolean(FALSE)
=============================================================================
