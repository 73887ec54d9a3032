------------------------------- MODULE MCRepl -------------------------------
(* Scripts for Repl.tla.                                                   *)
EXTENDS Repl, Printer

Script(text, answers) == [text |-> text, answers |-> answers, whole |-> TRUE]
Cut(text, answers)    == [text |-> text, answers |-> answers, whole |-> FALSE]
Says(s, answers)      == Script(Chars(s), answers)

a == Sym("a")
b == Sym("b")
c == Sym("c")
Quote(x) == L(<<Sym("quote"), x>>)

-----------------------------------------------------------------------------
(* Data of every kind, written by lisp_print and read back.                *)

Atoms ==
  {a, Sym("+"), Sym("-"), Sym("..."), Sym("a.b"), Sym("list->vector"), Sym("x1"), Sym("<=?"),
   Num(0), Num(7), Num(-7), Num(120), the_truth, the_falsity, Nil,
   Chr("a"), Chr("s"), Chr("n"), Chr("("), Chr(")"), Chr("\""), Chr(";"), Chr("1"), Chr(" "), Chr("\n"), Chr("A"),
   Str(""), Str("a b"), Str("\""), Str("\\"), Str("a\nb"), Str("\\n"), Str("\\\""), Str("(;"), Str("\\\\n\n")}

Compound ==
  {L(<<x, a>>) : x \in Atoms} \cup {Dot(<<a>>, x) : x \in Atoms \ {Nil}}
    \cup {Vec(<<x, x>>) : x \in Atoms}
    \cup {L(<<L(<<L(<<a>>)>>), Nil, Dot(<<b>>, c)>>), Dot(<<a, b>>, Vec(<< >>)), Vec(<<L(<<a>>), Vec(<<b>>)>>),
          Quote(a), L(<<Quote(a), Sym("quote")>>), Dot(<<a>>, Vec(<<Nil>>)), L(<<Nil>>), Quote(Quote(Nil)),
          L(<<Vec(<<a>>), Str("x"), Chr("x"), Num(-1)>>)}

WrittenScripts == {Script(<<"'">> \o lisp_print(x), <<x>>) : x \in Atoms \cup Compound}

-----------------------------------------------------------------------------
(* What is read otherwise than it is written.                              *)

OtherWords ==
  {Says("'A 'aB", <<a, Sym("ab")>>),
   Says("'(a b . (c . ()))", <<L(<<a, b, c>>)>>),
   Says("'(a.b a)", <<L(<<Sym("a.b"), a>>)>>),
   Says("'(a . b ) ;x\n '( a ;( \n . ;)\n b)", <<Dot(<<a>>, b), Dot(<<a>>, b)>>),
   Says("''a ',a ',@a ', @a", <<Quote(a), L(<<Sym("unquote"), a>>), L(<<Sym("unquote-splicing"), a>>), Err, Err>>),
   Script(<<"'", Backquote, "a">>, <<L(<<Sym("quasiquote"), a>>)>>),
   Says("'(1 . 'a)", <<L(<<Num(1), Sym("quote"), a>>)>>),
   Says("'(a ... b) '(a . ...)", <<L(<<a, Sym("..."), b>>), Dot(<<a>>, Sym("..."))>>),
   Says("#x0f #b0101 #o17 #e1 #d12 #x#e-A #i#b10", <<Num(15), Num(5), Num(15), Num(1), Num(12), Num(-10), Num(2)>>),
   Says("+5 -5 1+2 1-", <<Num(5), Num(-5), Num(12), Num(-1)>>),
   Says("#\\SPacE #\\Newline #\\S #\\  #\\(", <<Chr(" "), Chr("\n"), Chr("S"), Chr(" "), Chr("(")>>),
   Says("\"a\\a\" \"\\\\n\"", <<Str("a\\a"), Str("\\n")>>),
   Says("\"a", <<Str("a")>>), Says("\"a\\", <<Str("a\\")>>),
   Says("#T#f'a", <<the_truth, the_falsity, a>>),
   Says("#;a 1 '(#;(a b) c . #;1 b) #;#;a b 2", <<Num(1), Dot(<<c>>, b), Num(2)>>),
   Says("'", <<end_of_file>>), Says("#;a", << >>), Says(";a", << >>), Says("", << >>)}

\* testcases.simple has the first three; each error leaves what follows it.
Errors ==
  {Says("#\\foo 1", <<Err, Err, Num(1)>>),
   Says("...d 1", <<Err, Err, Num(1)>>), Says(". .. ... 1", <<Err, Err, Err, Num(1)>>),
   Says(") 1", <<Err, Num(1)>>), Says("'(a . b c) 1", <<Err, Err, Num(1)>>),
   Says("'(a .b 1", <<Err, Num(1)>>), Says("'(. 1) 2", <<Err, Num(1), Err, Num(2)>>),
   Says("#<eof> 1", <<Err, Err, Num(1)>>), Says("1x 2", <<Err, Num(2)>>), Says("1.5", <<Err, Num(5)>>),
   Says("\"a\"b 1", <<Err, Err, Num(1)>>), Says("#\\spice 1", <<Err, Err, Num(1)>>),
   Says("#\\newt 1", <<Err, Num(1)>>), Says("#\\", <<Err>>), Says("#", <<Err>>), Says("#x", <<Err>>),
   Says("#x#x1 2", <<Err, Num(1), Num(2)>>), Says("#e#e1", <<Err, Num(1)>>),
   Says("--1 +-1 1+-2 3", <<Err, Num(-1), Err, Num(-1), Err, Num(2), Num(3)>>),
   Says("#Xf #If 1", <<Num(15), Err, Err, Num(1)>>),
   Says("#(a . b) 1", <<Err, Num(1)>>), Says("a@b a'b", <<Err, Err, Err>>), Says("'(a . ", <<Err>>), Says("'(a .", <<Err>>),
   Says("'((1 #\\foo) 2) 3", <<Err, Err, Err, Num(2), Err, Num(3)>>), Says("{1", <<Err, Num(1)>>)}

\* The file ends inside a list.
Unended ==
  {Cut(Chars("1 (a"), <<Num(1)>>), Cut(Chars("'(a . b) #("), <<Dot(<<a>>, b)>>), Cut(Chars("((a) "), << >>),
   Cut(Chars("#;(a 1"), << >>), Cut(Chars("(load \"open\")"), << >>)}

Calls ==
  {Says("(read) a 1", <<a, Num(1)>>), Says("(read)(a . 1)1", <<Dot(<<a>>, Num(1)), Num(1)>>),
   Says("(read) #\\foo 1", <<Err, Err, Num(1)>>), Says("(read) )", <<Err>>), Says("(read)", <<end_of_file>>),
   Says("(read-char)a (read-char) (peek-char)'a", <<Chr("a"), Chr(" "), Chr("'"), a>>),
   Says("(read-char)\n1 (peek-char)", <<Chr("\n"), Num(1), end_of_file>>),
   Says("(load \"good\") 1", <<b, Num(1)>>), Says("(load \"bad\") 1", <<Err, Num(1)>>),
   Says("(load \"outer\") 1", <<Err, Num(1)>>), Says("(load \"empty\") (load \"none\")", <<Nil, Err>>),
   Says("(load \"asks\") a 1", <<a, Num(1)>>), Says("(load \"garbled\") 1", <<Err, Num(1)>>),
   Says("a (a) 'a", <<Err, Err, a>>)}

AllScripts == WrittenScripts \cup OtherWords \cup Errors \cup Unended \cup Calls

LoadedFiles ==
  [good |-> Chars("1 'b"), bad |-> Chars("1 a 'b"), outer |-> Chars("(load \"bad\") 2"), empty |-> << >>,
   asks |-> Chars("(read)"), garbled |-> Chars("1 #\\foo 2"), open |-> Chars("(a")]

AllTexts == {s.text : s \in AllScripts} \cup Range(LoadedFiles)

-----------------------------------------------------------------------------
(* io.c, 406: "commented form, read and discard".  A form commented out is *)
(* read and discarded wherever a form may stand.                           *)
CommentedFormsDiscarded == ctl.m \in {"done", "overflow"} => log = script.answers

Comments ==
  {Says("'(#;a b)", <<L(<<b>>)>>), Says("'(a #;b c)", <<L(<<a, c>>)>>), Says("'(a #;b)", <<L(<<a>>)>>)}

CommentTexts == {s.text : s \in Comments} \cup Range(LoadedFiles)
=============================================================================
