------------------------------- MODULE Lexer -------------------------------
(***************************************************************************)
(* The reader's tokens (io.c, 20-285): what is made of the characters of a *)
(* text from a position on, and the position behind the last one consumed. *)
(* A text is a sequence of strings of one character.  A token that is an   *)
(* error has consumed what fgetc had taken when error() was called: the    *)
(* rest is still there for the next command.                               *)
(***************************************************************************)
EXTENDS Expressions

Num(i)      == [k |-> "number", i |-> i]
Chr(c)      == [k |-> "character", c |-> c]
Vec(s)      == [k |-> "vector", e |-> s]
end_of_file == [k |-> "eof"]

EOF        == "end of file"
Backquote  == "backquote"   \* which a TLA+ string cannot hold
At(t, i)   == IF i <= Len(t) THEN t[i] ELSE EOF

\* Bug: the end of the file is a character that is taken.
BugPast(t, i) == i

\* fgetc at the end of the file takes nothing.
Past(t, i) == IF i > Len(t) + 1 THEN Len(t) + 1 ELSE i

Chars(s) == [i \in 1..Len(s) |-> SubSeq(s, i, i)]
Text(cs) == FoldLeft(LAMBDA s, c : s \o c, "", cs)

Upper   == Chars("ABCDEFGHIJKLMNOPQRSTUVWXYZ")
Lower   == Chars("abcdefghijklmnopqrstuvwxyz")
Digits  == Chars("0123456789abcdef")
ToLower == [c \in Range(Upper) |-> CHOOSE l \in Range(Lower) :
              \E i \in DOMAIN Upper : Upper[i] = c /\ Lower[i] = l]
tolower(c) == IF c \in DOMAIN ToLower THEN ToLower[c] ELSE c

Spaces     == {" ", "\t", "\n"}
Delimiters == Spaces \cup {EOF, "(", ")", "\"", ";"}
Decimals   == {Digits[i] : i \in 1..10}
Initials   == Range(Upper) \cup Range(Lower) \cup Range(Chars("!$%&*/:<=>?^_~"))
Subsequents == Initials \cup Decimals \cup Range(Chars("+-.@"))

\* The end of a text ends an identifier, too.
ASSUME EndAssumption == EOF \notin Subsequents

\* The first position from i on where P holds; it must hold at the end of t.
FirstFrom(t, i, P(_)) ==
  CHOOSE p \in i..(Len(t) + 1) : P(p) /\ \A q \in i..(p - 1) : ~P(q)

\* Space and comments to the end of the line.
InComment(t, i, p) ==
  \E q \in i..(p - 1) : t[q] = ";" /\ \A r \in q..(p - 1) : t[r] # "\n"
skip_atmospheric(t, i) ==
  FirstFrom(t, i, LAMBDA p : At(t, p) = EOF \/ (At(t, p) \notin Spaces \cup {";"} /\ ~InComment(t, i, p)))

Token(v, t, i) == [v |-> v, at |-> Past(t, i)]
Delimited(v, t, i) == Token(IF At(t, i) \in Delimiters THEN v ELSE Err, t, i)

-----------------------------------------------------------------------------
read_identifier(t, i) ==
  LET end == FirstFrom(t, i, LAMBDA p : At(t, p) \notin Subsequents)
      letters == [j \in 1..(end - i) |-> tolower(t[i + j - 1])]
  IN  IF At(t, end) \in Delimiters THEN Token(Sym(Text(letters)), t, end) ELSE Token(Err, t, end + 1)

\* A character is escaped if an odd number of backslashes stands before it.
Escaped(t, i, p) ==
  LET run == {n \in 0..(p - i) : \A q \in (p - n)..(p - 1) : t[q] = "\\"} IN Max(run) % 2 = 1

\* Bug: the character that an escape stands for is dropped, not the backslash.
BugEscapes(t, i, p) == Escaped(t, i, p) /\ At(t, p) \in {"\\", "\"", "n"}

\* This backslash says how to take the next character.
Escapes(t, i, p) ==
  t[p] = "\\" /\ ~Escaped(t, i, p) /\ At(t, p + 1) \in {"\\", "\"", "n"}

\* The text of a string starts at i, behind the quote; the file may end it too.
read_string(t, i) ==
  LET end == FirstFrom(t, i, LAMBDA p : At(t, p) = EOF \/ (t[p] = "\"" /\ ~Escaped(t, i, p)))
      kept == SelectSeq([j \in 1..(end - i) |-> i + j - 1], LAMBDA p : ~Escapes(t, i, p))
      char(p) == IF Escaped(t, i, p) /\ t[p] = "n" THEN "\n" ELSE t[p]
  IN  Delimited(Str(Text([j \in DOMAIN kept |-> char(kept[j])])), t, Past(t, end + 1))

\* The name that starts with this letter, if the next one agrees with it.
LongName(t, i) ==
  CASE tolower(At(t, i)) = "s" /\ tolower(At(t, i + 1)) = "p" -> [rest |-> <<"p", "a", "c", "e">>, c |-> " "]
    [] tolower(At(t, i)) = "n" /\ tolower(At(t, i + 1)) = "e" -> [rest |-> <<"e", "w", "l", "i", "n", "e">>, c |-> "\n"]
    [] OTHER -> [rest |-> << >>, c |-> At(t, i)]

\* At i, behind #\ .
read_character(t, i) ==
  LET name == LongName(t, i)
      n    == Len(name.rest)
      differs(j) == tolower(At(t, i + j)) # name.rest[j]
      first == {j \in 1..n : differs(j) /\ \A h \in 1..(j - 1) : ~differs(h)}
  IN  CASE At(t, i) = EOF -> Token(Err, t, i)
        [] At(t, i) # EOF /\ first = {} -> Delimited(Chr(name.c), t, i + n + 1)
        [] OTHER -> Token(Err, t, i + Max(first) + 1)

-----------------------------------------------------------------------------
(* read_number, a character at a time.  `prefix' says that a radix or an   *)
(* exactness may still come, `hash' that the next character is the # in    *)
(* front of another one.  Numbers too long for a fixnum are not read here. *)

DigitsOf(base) == {Digits[i] : i \in 1..base}
DigitValue(c)  == CHOOSE v \in 0..15 : Digits[v + 1] = c
Bases == [b |-> 2, o |-> 8, d |-> 10, x |-> 16]

StartNumber(i) ==
  [v |-> unspecified, at |-> i, prefix |-> TRUE, hash |-> FALSE, base |-> 10, radix |-> FALSE,
   exactness |-> FALSE, sign |-> 1, signed |-> FALSE, number |-> 0, digits |-> FALSE]

ReadDigit(s, t) ==
  LET c    == tolower(At(t, s.at))
      more == At(t, s.at + 1) = "#"
      wrong == [s EXCEPT !.v = Err, !.at = Past(t, @ + 1)]
      next == [s EXCEPT !.at = @ + 1, !.prefix = FALSE]
      again == [s EXCEPT !.at = @ + 1, !.prefix = more, !.hash = more]
  IN  CASE s.hash -> [s EXCEPT !.hash = FALSE, !.at = @ + 1]
        [] ~s.hash /\ s.prefix /\ c \in DOMAIN Bases ->
             IF s.radix THEN wrong ELSE [again EXCEPT !.radix = TRUE, !.base = Bases[c]]
        [] ~s.hash /\ s.prefix /\ c \in {"e", "i"} ->
             IF s.exactness THEN wrong ELSE [again EXCEPT !.exactness = TRUE]
        [] ~s.hash /\ c \in {"+", "-"} ->
             IF s.signed THEN wrong
             ELSE [next EXCEPT !.signed = TRUE, !.sign = IF c = "+" THEN 1 ELSE -1]
        [] ~s.hash /\ c \in DigitsOf(s.base) /\ ~(s.prefix /\ c \in DOMAIN Bases \cup {"e", "i"}) ->
             [next EXCEPT !.number = @ * s.base + DigitValue(c), !.digits = TRUE]
        [] ~s.hash /\ s.digits /\ c \in Delimiters -> [s EXCEPT !.v = Num(s.sign * s.number)]
        [] OTHER -> wrong

\* The state after each character, as long as there is no value.
NumberRead(t, i) ==
  LET state[n \in Nat] ==
        IF n = 0 THEN StartNumber(i)
        ELSE LET s == state[n - 1] IN IF s.v = unspecified THEN ReadDigit(s, t) ELSE s
  IN  state
read_number(t, i) == LET s == NumberRead(t, i)[Len(t) + 2 - i] IN Token(s.v, t, s.at)

-----------------------------------------------------------------------------
(* lisp_read, where it meets anything but a list, a vector, a quotation or *)
(* a commented form.                                                       *)

HashToken(t, i) ==
  LET c == At(t, i + 1) IN
  CASE c \in Range(Chars("bBoOxXdDei")) -> read_number(t, i + 1)
    [] c \in {"t", "T"} -> Token(the_truth, t, i + 2)
    [] c \in {"f", "F"} -> Token(the_falsity, t, i + 2)
    [] c = "\\" -> read_character(t, i + 2)
    [] OTHER -> Token(Err, t, i + 2)

DotToken(t, i) ==
  CASE At(t, i + 1) \in Delimiters -> Token(Err, t, i + 1)
    [] At(t, i + 1) = "." /\ At(t, i + 2) = "." -> Delimited(Sym("..."), t, i + 3)
    [] OTHER -> Token(Err, t, i + 2)

read_token(t, i) ==
  LET c == At(t, i)
      next == At(t, i + 1)
      number == c \in Decimals \/ (c \in {"+", "-"} /\ next \in Decimals)
  IN  CASE c = "#" -> HashToken(t, i)
        [] number -> read_number(t, i)
        [] c = "\"" -> read_string(t, i + 1)
        [] c \in Initials -> read_identifier(t, i)
        [] ~number /\ c \in {"+", "-"} /\ next \in Delimiters -> Token(Sym(c), t, i + 1)
        [] c = "." -> DotToken(t, i)
        [] OTHER -> Token(Err, t, i + 1)
=============================================================================
