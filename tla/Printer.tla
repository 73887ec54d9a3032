------------------------------ MODULE Printer ------------------------------
(* lisp_print: what write writes, as characters (io.c, 486-632).           *)
EXTENDS Lexer

RECURSIVE lisp_print(_), PrintAll(_)

\* The elements, with a space between them: write_pair and T_VECTOR.
PrintAll(s) ==
  CASE s = << >>  -> << >>
    [] Len(s) = 1 -> lisp_print(s[1])
    [] OTHER      -> lisp_print(s[1]) \o <<" ">> \o PrintAll(Tail(s))

StringChar(c) ==
  CASE c = "\n" -> <<"\\", "n">> [] c \in {"\"", "\\"} -> <<"\\", c>> [] OTHER -> <<c>>

CharacterName(c) ==
  CASE c = "\n" -> Chars("newline") [] c = " " -> Chars("space") [] OTHER -> <<c>>

lisp_print(x) ==
  CASE x.k = "list"      -> <<"(">> \o PrintAll(x.s) \o <<")">>
    [] x.k = "dotted"    -> <<"(">> \o PrintAll(x.s) \o Chars(" . ") \o lisp_print(x.t) \o <<")">>
    [] x.k = "number"    -> Chars(ToString(x.i))
    [] x.k = "character" -> Chars("#\\") \o CharacterName(x.c)
    [] x.k = "string"    -> <<"\"">> \o FoldLeft(LAMBDA s, c : s \o StringChar(c), << >>, Chars(x.n))
                              \o <<"\"">>
    [] x.k = "vector"    -> Chars("#(") \o PrintAll(x.e) \o <<")">>
    [] x.k = "sym"       -> Chars(x.n)
    [] x.k = "atom"      -> Chars(x.v)     \* #t, #f
=============================================================================
