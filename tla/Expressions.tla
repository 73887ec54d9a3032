---------------------------- MODULE Expressions ----------------------------
(***************************************************************************)
(* Expressions of the evaluator, which are data, and the rewriting of the  *)
(* derived forms into others (minime.c, 52-472).  An expression is an      *)
(* atom, a symbol, a string or a list; a list whose last cdr is not the    *)
(* empty list keeps it as a tail.  Pairs are not mutated here: what        *)
(* sharing does is the matter of Environments.tla.                         *)
(***************************************************************************)
EXTENDS Integers, Sequences, SequencesExt, TLC

Atom(v)   == [k |-> "atom", v |-> v]     \* booleans, numbers, unspecified
Sym(n)    == [k |-> "sym", n |-> n]
Str(n)    == [k |-> "string", n |-> n]
L(s)      == [k |-> "list", s |-> s]
Dot(s, t) == [k |-> "dotted", s |-> s, t |-> t]

Nil         == L(<< >>)
the_truth   == Atom("#t")
the_falsity == Atom("#f")
unspecified == Atom("unspecified")

is_symbol(x) == x.k = "sym"
is_list(x)   == x.k = "list"
is_pair(x)   == x.k = "dotted" \/ (is_list(x) /\ x.s # << >>)

cons(a, d) == CASE d.k = "list"   -> L(<<a>> \o d.s)
                [] d.k = "dotted" -> Dot(<<a>> \o d.s, d.t)
                [] OTHER          -> Dot(<<a>>, d)
car(x) == Head(x.s)
cdr(x) == IF is_list(x) THEN L(Tail(x.s))
          ELSE IF Len(x.s) = 1 THEN x.t ELSE Dot(Tail(x.s), x.t)

is_self_evaluating(x) == x.k \in {"atom", "string"} \/ x = Nil

is_tagged(x, n) == is_pair(x) /\ car(x) = Sym(n)

\* The elements of list s from the i-th on.
From(s, i) == SubSeq(s, i, Len(s))

-----------------------------------------------------------------------------
(* Building blocks. *)

make_lambda(parameters, body) == L(<<Sym("lambda"), parameters>> \o body)
make_if(predicate, consequent, alternate) ==
  L(<<Sym("if"), predicate, consequent, alternate>>)
make_begin(seq) == L(<<Sym("begin")>> \o seq)

sequence_to_exp(seq) ==
  IF seq = << >> THEN Nil ELSE IF Len(seq) = 1 THEN seq[1] ELSE make_begin(seq)

\* (define v e) and (define (v . parameters) body ...)
definition_variable(x) == IF is_symbol(x.s[2]) THEN x.s[2] ELSE car(x.s[2])
definition_value(x) ==
  IF is_symbol(x.s[2]) THEN x.s[3] ELSE make_lambda(cdr(x.s[2]), From(x.s, 3))

binding_name(b)  == b.s[1]
binding_value(b) == IF Len(b.s) = 1 THEN unspecified ELSE b.s[2]
Names(bs)        == [i \in DOMAIN bs |-> binding_name(bs[i])]
ValuesOf(bs)     == [i \in DOMAIN bs |-> binding_value(bs[i])]

\* The definitions of a body, the last one first, become one letrec.
scan_out_defines(body) ==
  LET is_def(x) == is_tagged(x, "define")
      not_def(x) == ~is_def(x)
      defs  == Reverse(SelectSeq(body, is_def))
      binds == [i \in DOMAIN defs |->
                  L(<<definition_variable(defs[i]), definition_value(defs[i])>>)]
      rest  == SelectSeq(body, not_def)
  IN  IF defs = << >> THEN rest ELSE <<L(<<Sym("letrec"), L(binds)>> \o rest)>>

-----------------------------------------------------------------------------
(* The rewritings. *)

is_named_let(x) == is_symbol(x.s[2])

let_to_combination(x) ==
  LET i  == IF is_named_let(x) THEN 3 ELSE 2
      bs == x.s[i].s
      o  == make_lambda(L(Names(bs)), From(x.s, i + 1))
  IN  IF is_named_let(x)
      THEN L(<<Sym("letrec"), L(<<L(<<x.s[2], o>>)>>), L(<<x.s[2]>> \o ValuesOf(bs))>>)
      ELSE L(<<o>> \o ValuesOf(bs))

\* Bug: all the names are bound by one lambda, as in let.
BugLetx(x) == L(<<make_lambda(L(Names(x.s[2].s)), From(x.s, 3))>> \o ValuesOf(x.s[2].s))

letx_to_combination(x) ==
  LET bs == x.s[2].s
      wrap(b, inner) == <<L(<<make_lambda(L(<<binding_name(b)>>), inner), binding_value(b)>>)>>
  IN  IF bs = << >> THEN L(<<make_lambda(Nil, From(x.s, 3))>>)
      ELSE FoldRight(wrap, bs, From(x.s, 3))[1]

letrec_to_combination(x) ==
  LET bs   == x.s[2].s
      sets == [i \in DOMAIN bs |->
                 L(<<Sym("set!"), binding_name(bs[i]), binding_value(bs[i])>>)]
  IN  L(<<make_lambda(L(Names(bs)), Append(sets, L(<<make_lambda(Nil, From(x.s, 3))>>)))>>
          \o [i \in DOMAIN bs |-> unspecified])

\* loop is the symbol gensym made for this expansion.
do_to_combination(x, loop) ==
  LET bs    == x.s[2].s
      test  == x.s[3].s
      steps == [i \in DOMAIN bs |-> IF Len(bs[i].s) = 2 THEN bs[i].s[1] ELSE bs[i].s[3]]
      iter  == make_if(test[1], sequence_to_exp(Tail(test)),
                       make_begin(<<sequence_to_exp(From(x.s, 4)), L(<<loop>> \o steps)>>))
  IN  L(<<Sym("letrec"), L(<<L(<<loop, make_lambda(L(Names(bs)), <<iter>>)>>)>>),
          L(<<loop>> \o [i \in DOMAIN bs |-> bs[i].s[2]])>>)

is_else(clause) == clause.s[1] = Sym("else")

\* A clause whose test is also its value, or is handed to a receiver.
needs_temp(clause) ==
  ~is_else(clause) /\ (Len(clause.s) = 1 \/ is_tagged(cdr(clause), "=>"))

\* temps[i] is the symbol gensym made for the i-th clause, if it needs one.
cond_to_ifs(x, temps) ==
  LET clauses == Tail(x.s)
      expand(i, rest) ==
        LET actions == Tail(clauses[i].s)
            test    == clauses[i].s[1]
            bind(body) == L(<<Sym("let"), L(<<L(<<temps[i], test>>)>>),
                              make_if(temps[i], body, rest)>>)
        IN  CASE is_else(clauses[i]) -> sequence_to_exp(actions)
              [] ~is_else(clauses[i]) /\ actions = << >> -> bind(temps[i])
              [] ~is_else(clauses[i]) /\ is_tagged(L(actions), "=>") ->
                   bind(L(<<actions[2], temps[i]>>))
              [] OTHER -> make_if(test, sequence_to_exp(actions), rest)
  IN  FoldRight(expand, [i \in DOMAIN clauses |-> i], the_falsity)

maybe_unquote(x) == IF is_tagged(x, "quote") THEN x.s[2] ELSE x

delay_to_promise(x) == L(<<Sym("make-promise"), L(<<Sym("lambda"), Nil>> \o Tail(x.s))>>)

\* The body of a macro is one expression: a call of a lambda without parameters.
pmacro_body(x) == L(<<L(<<Sym("lambda"), Nil>> \o From(x.s, 3))>>)

-----------------------------------------------------------------------------
(* What the rewritings and the special forms take apart without an error   *)
(* from car or cdr.  Names are symbols in the programs of this model, and  *)
(* only parameter lists are dotted.                                        *)

IsBindings(bs, min) ==
  is_list(bs) /\ \A i \in DOMAIN bs.s : is_list(bs.s[i]) /\ Len(bs.s[i].s) >= min

IsDefinition(x) ==
  /\ is_list(x) /\ Len(x.s) >= 2
  /\ is_pair(x.s[2]) \/ (is_symbol(x.s[2]) /\ Len(x.s) >= 3)

IsClause(clause) ==
  /\ is_list(clause) /\ clause # Nil
  /\ (~is_else(clause) /\ is_tagged(cdr(clause), "=>")) => Len(clause.s) >= 3

WellFormed(form, x) ==
  LET n == Len(x.s) IN
  /\ is_list(x)
  /\ CASE form \in {"quote", "quasiquote", "time-call", "if", "case", "eval", "apply"} -> n >= 2
       [] form = "set!"   -> n >= 3
       [] form = "define" -> IsDefinition(x)
       [] form = "lambda" -> /\ n >= 2
                             /\ \A i \in 3..n : is_tagged(x.s[i], "define") => IsDefinition(x.s[i])
       [] form = "let"    -> n >= 2 /\ IF is_named_let(x)
                                       THEN n >= 3 /\ IsBindings(x.s[3], 1)
                                       ELSE IsBindings(x.s[2], 1)
       [] form \in {"let*", "letrec"} -> n >= 2 /\ IsBindings(x.s[2], 1)
       [] form = "do"     -> n >= 3 /\ IsBindings(x.s[2], 2) /\ is_list(x.s[3]) /\ x.s[3] # Nil
       [] form = "cond"   -> \A i \in 2..n : IsClause(x.s[i]) /\ (is_else(x.s[i]) => i = n)
       [] form = "pmacro" -> n >= 3
       [] form = "macroexpand" -> n = 2 /\ is_pair(x.s[2])
       [] OTHER -> TRUE

-----------------------------------------------------------------------------
(* Values that are not data, and the primitives a program of this model    *)
(* calls (primitives.c).                                                   *)

Prim(n)          == [k |-> "primitive", n |-> n]
Proc(ps, b, e)   == [k |-> "procedure", params |-> ps, body |-> b, e |-> e]
Macro(b)         == [k |-> "macro", body |-> b]
Environment(e)   == [k |-> "environment", e |-> e]
Err              == [k |-> "error"]

SyntaxNames ==
  {"quote", "quasiquote", "set!", "define", "if", "lambda", "and", "or", "let", "let*",
   "letrec", "begin", "do", "cond", "case", "eval", "apply", "delay", "time-call", "break",
   "pmacro", "macroexpand"}

\* The numbers among the atoms of a program.
Numbers == {Atom(ToString(i)) : i \in 0..9}

PrimitiveNames ==
  {"car", "cdr", "cons", "list", "append", "memq", "null?", "not", "error", "load",
   "interaction-environment", "null-environment"}

is_syntax(v) == v.k = "primitive" /\ v.n \in SyntaxNames

boolean(b) == IF b THEN the_truth ELSE the_falsity

\* append: all arguments but the last are lists; the last ends the result as it is.
CanAppend(args) == \A i \in 1..(Len(args) - 1) : is_list(args[i])
append(args)    == IF args = << >> THEN Nil
                   ELSE FoldRight(LAMBDA x, rest : FoldRight(cons, x.s, rest),
                                  Front(args), Last(args))

\* memq: the rest of list l from the first x on, or #f
memq(x, l) ==
  LET found(i) == l.s[i] = x
      first == {i \in DOMAIN l.s : found(i) /\ \A j \in 1..(i - 1) : ~found(j)}
  IN  IF first = {} THEN the_falsity ELSE L(From(l.s, CHOOSE i \in first : TRUE))

\* What a primitive returns, or Err if it calls error(); load and
\* null-environment do more and are not here.
Result(n, args) ==
  LET one == Len(args) = 1 IN
  CASE n = "car"   /\ one /\ is_pair(args[1]) -> car(args[1])
    [] n = "cdr"   /\ one /\ is_pair(args[1]) -> cdr(args[1])
    [] n = "cons"  /\ Len(args) = 2 -> cons(args[1], args[2])
    [] n = "list"  -> L(args)
    [] n = "append" /\ CanAppend(args) -> append(args)
    [] n = "memq" /\ Len(args) = 2 /\ is_list(args[2]) -> memq(args[1], args[2])
    [] n = "null?" /\ one -> boolean(args[1] = Nil)
    [] n = "not"   /\ one -> boolean(args[1] = the_falsity)
    [] n = "interaction-environment" /\ args = << >> -> Environment(2)
    [] OTHER -> Err

\* is_eqv, for the keys a program of this model dispatches on
is_eqv(a, b) == a = b /\ (a.k \in {"sym", "atom"} \/ a = Nil)

\* Binding parameters to arguments: a list, an improper list or one symbol.
Fixed(params) == IF is_symbol(params) THEN << >> ELSE params.s
HasRest(params) == params.k # "list"
RestName(params) == IF is_symbol(params) THEN params.n ELSE params.t.n

Accepts(params, args) ==
  IF HasRest(params) THEN Len(args) >= Len(Fixed(params)) ELSE Len(args) = Len(Fixed(params))

Bindings(params, args) ==
  LET fixed == Fixed(params)
      names == {fixed[i].n : i \in DOMAIN fixed}
  IN  [n \in names \cup (IF HasRest(params) THEN {RestName(params)} ELSE {}) |->
         IF n \in names THEN args[CHOOSE i \in DOMAIN fixed :
                                    fixed[i].n = n /\ \A j \in 1..(i - 1) : fixed[j].n # n]
         ELSE L(From(args, Len(fixed) + 1))]

\* What write shows of a value that is not data.
Shown(v) == CASE v.k \in {"procedure", "promise"} -> Atom("#<procedure>")
              [] v.k \in {"primitive", "macro", "environment"} -> Atom("#<opaque>")
              [] OTHER -> v
=============================================================================
