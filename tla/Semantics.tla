----------------------------- MODULE Semantics -----------------------------
(***************************************************************************)
(* What a session means, written down from the language and not from the   *)
(* evaluator's control: a big-step semantics that gives every form its     *)
(* meaning without rewriting it into others.  An outcome is a value and a  *)
(* store; an expression has a set of outcomes, because operands may be     *)
(* evaluated in any order, and so may the definitions that open a body.    *)
(* Err is the value of an expression that ends in an error; what was done  *)
(* before it stays done.                                                   *)
(***************************************************************************)
EXTENDS Expressions, FiniteSets, TLC

CONSTANT Files

Out(v, st) == {[v |-> v, st |-> st]}
Fail(st)   == Out(Err, st)
Then(outs, K(_, _)) == UNION {IF o.v = Err THEN {o} ELSE K(o.v, o.st) : o \in outs}

-----------------------------------------------------------------------------
(* Scopes: bindings and the scope around them, 0 around the outermost.     *)

RECURSIVE ScopeOf(_, _, _)
ScopeOf(n, e, st) ==
  IF e = 0 \/ n \in DOMAIN st.scopes[e].bind THEN e ELSE ScopeOf(n, st.scopes[e].up, st)

Bind(n, v, e, st) ==
  [st EXCEPT !.scopes[e].bind = [m \in DOMAIN @ \cup {n} |-> IF m = n THEN v ELSE @[m]]]

NewScope(bind, e, st) == [st EXCEPT !.scopes = Append(@, [bind |-> bind, up |-> e])]
Inner(st) == Len(st.scopes) + 1

Value(n, e, st) ==
  LET o == ScopeOf(n, e, st) IN IF o = 0 THEN Fail(st) ELSE Out(st.scopes[o].bind[n], st)

Set(n, v, e, st) ==
  LET o == ScopeOf(n, e, st) IN
  IF o = 0 THEN Fail(st) ELSE Out(Sym(n), Bind(n, v, o, st))

NamesToValues(bs, vals) == Bindings(L(Names(bs)), vals)

IsDefine(x)  == is_tagged(x, "define")
Library == {"force", "map", "for-each", "fold-left", "fold-right", "accumulate"}
Promise(p)   == [k |-> "promise", p |-> p]

-----------------------------------------------------------------------------
RECURSIVE Eval(_, _, _), Sequence(_, _, _), AnyOrder(_, _, _, _), Body(_, _, _),
          InOrder(_, _, _), Define(_, _, _, _), Meaning(_, _, _, _), And(_, _, _), Or(_, _, _),
          LetStar(_, _, _, _), Iterate(_, _, _, _), Clauses(_, _, _), Call(_, _, _),
          Commands(_, _, _), Template(_, _, _), Tuples(_, _, _), ForEach(_, _, _),
          FoldedLeft(_, _, _, _), FoldedRight(_, _, _, _)

Eval(x, e, st) ==
  IF is_symbol(x) THEN Value(x.n, e, st)
  ELSE IF ~is_pair(x) THEN IF is_self_evaluating(x) THEN Out(x, st) ELSE Fail(st)
  ELSE Then(Eval(car(x), e, st), LAMBDA f, s :
         CASE is_syntax(f) /\ ~WellFormed(f.n, x) -> Fail(s)
           [] is_syntax(f) /\ WellFormed(f.n, x)  -> Meaning(f.n, x, e, s)
           [] f.k = "macro" ->
                Then(Eval(f.body, Inner(s), NewScope([n \in {"exp"} |-> x], e, s)),
                     LAMBDA y, t : Eval(y, e, t))
           [] OTHER -> IF is_list(x)
                       THEN Then(AnyOrder(Tail(x.s), << >>, e, s),
                                 LAMBDA args, t : Call(f, args.s, t))
                       ELSE Fail(s))

\* The value of the last of xs.
Sequence(xs, e, st) ==
  CASE xs = << >>   -> Out(Nil, st)
    [] Len(xs) = 1  -> Eval(xs[1], e, st)
    [] OTHER        -> Then(Eval(xs[1], e, st), LAMBDA v, s : Sequence(Tail(xs), e, s))

\* The list of the values of xs, of which got are known; constants first, as
\* their turn makes no difference.
AnyOrder(xs, got, e, st) ==
  LET left  == DOMAIN xs \ DOMAIN got
      const == {i \in left : is_self_evaluating(xs[i])}
      next  == IF const = {} THEN left ELSE {CHOOSE i \in const : TRUE}
  IN  IF left = {} THEN Out(L([i \in DOMAIN xs |-> got[i]]), st)
      ELSE UNION {Then(Eval(xs[i], e, st), LAMBDA v, s :
                         AnyOrder(xs, [j \in DOMAIN got \cup {i} |-> IF j = i THEN v ELSE got[j]],
                                  e, s)) : i \in next}

\* The definitions that are in a body are made first, in any order, in a
\* scope of their own.
Define(defs, body, e, st) ==
  IF defs = {} THEN Sequence(SelectSeq(body, LAMBDA x : ~IsDefine(x)), e, st)
  ELSE UNION {Then(Eval(definition_value(d), e, st), LAMBDA v, s :
                     Define(defs \ {d}, body, e, Bind(definition_variable(d).n, v, e, s)))
                : d \in defs}

Body(body, e, st) ==
  LET defs == {body[i] : i \in {j \in DOMAIN body : IsDefine(body[j])}}
      names == {definition_variable(d).n : d \in defs}
  IN  IF defs = {} THEN Sequence(body, e, st)
      ELSE Define(defs, body, Inner(st), NewScope([n \in names |-> unspecified], e, st))

\* letrec: every value is assigned before the next is computed
InOrder(bs, e, st) ==
  IF bs = << >> THEN Out(Nil, st)
  ELSE Then(Eval(binding_value(bs[1]), e, st), LAMBDA v, s :
              InOrder(Tail(bs), e, Bind(binding_name(bs[1]).n, v, e, s)))

And(xs, e, st) ==
  CASE xs = << >>  -> Out(the_truth, st)
    [] Len(xs) = 1 -> Eval(xs[1], e, st)
    [] OTHER -> Then(Eval(xs[1], e, st), LAMBDA v, s :
                       IF v = the_falsity THEN Out(v, s) ELSE And(Tail(xs), e, s))

Or(xs, e, st) ==
  IF xs = << >> THEN Out(the_falsity, st)
  ELSE Then(Eval(xs[1], e, st), LAMBDA v, s :
              IF v # the_falsity THEN Out(v, s) ELSE Or(Tail(xs), e, s))

LetStar(bs, body, e, st) ==
  IF Len(bs) = 0 THEN Body(body, Inner(st), NewScope([n \in {} |-> Nil], e, st))
  ELSE Then(Eval(binding_value(bs[1]), e, st), LAMBDA v, s :
         LET t == NewScope([n \in {binding_name(bs[1]).n} |-> v], e, s)
         IN  IF Len(bs) = 1 THEN Body(body, Inner(s), t)
             ELSE LetStar(Tail(bs), body, Inner(s), t))

\* do: one turn, with the variables bound to vals in a scope inside e
Iterate(x, vals, e, st) ==
  LET bs    == x.s[2].s
      inner == Inner(st)
      steps == [i \in DOMAIN bs |-> IF Len(bs[i].s) = 2 THEN bs[i].s[1] ELSE bs[i].s[3]]
  IN  Then(Eval(x.s[3].s[1], inner, NewScope(NamesToValues(bs, vals), e, st)), LAMBDA p, s :
        IF p # the_falsity THEN Sequence(Tail(x.s[3].s), inner, s)
        ELSE Then(Sequence(From(x.s, 4), inner, s), LAMBDA c, t :
               Then(AnyOrder(steps, << >>, inner, t), LAMBDA vs, u :
                      Iterate(x, vs.s, e, u))))

\* cond
Clauses(clauses, e, st) ==
  IF clauses = << >> THEN Out(the_falsity, st)
  ELSE LET actions == Tail(clauses[1].s) IN
       IF is_else(clauses[1]) THEN Sequence(actions, e, st)
       ELSE Then(Eval(clauses[1].s[1], e, st), LAMBDA p, s :
              CASE p = the_falsity -> Clauses(Tail(clauses), e, s)
                [] p # the_falsity /\ actions = << >> -> Out(p, s)
                [] p # the_falsity /\ is_tagged(L(actions), "=>") ->
                     Then(Eval(actions[2], e, s), LAMBDA f, t : Call(f, <<p>>, t))
                [] OTHER -> Sequence(actions, e, s))

\* Nothing in template x is evaluated.
RECURSIVE Constant(_)
Constant(x) ==
  is_pair(x) => /\ ~is_tagged(x, "unquote") /\ ~is_tagged(x, "unquote-splicing")
                /\ Constant(car(x)) /\ Constant(cdr(x))

\* A template: both parts of a pair in either order.  Nested templates, and
\* splices with something behind them, are not in the sessions.
Template(x, e, st) ==
  CASE ~is_pair(x) -> Out(x, st)
    [] is_tagged(x, "unquote") -> Eval(x.s[2], e, st)
    [] is_pair(x) /\ is_tagged(car(x), "unquote-splicing") -> Eval(car(x).s[2], e, st)
    [] OTHER ->
         Then(Template(car(x), e, st), LAMBDA a, s :
           Then(Template(cdr(x), e, s), LAMBDA d, t : Out(cons(a, d), t)))
         \cup IF Constant(car(x)) \/ Constant(cdr(x)) THEN {}
              ELSE Then(Template(cdr(x), e, st), LAMBDA d, s :
                     Then(Template(car(x), e, s), LAMBDA a, t : Out(cons(a, d), t)))

Meaning(form, x, e, st) ==
  CASE form = "quote"  -> Out(x.s[2], st)
    [] form = "quasiquote" -> Template(x.s[2], e, st)
    [] form = "set!"   -> Then(Eval(x.s[3], e, st), LAMBDA v, s : Set(x.s[2].n, v, e, s))
    [] form = "define" -> Then(Eval(definition_value(x), e, st), LAMBDA v, s :
                            Out(definition_variable(x), Bind(definition_variable(x).n, v, e, s)))
    [] form = "if" -> Then(Eval(x.s[2], e, st), LAMBDA p, s :
                        CASE Len(x.s) = 2 -> Fail(s)
                          [] Len(x.s) > 2 /\ p # the_falsity -> Eval(x.s[3], e, s)
                          [] Len(x.s) = 3 /\ p = the_falsity -> Out(the_falsity, s)
                          [] OTHER -> Eval(x.s[4], e, s))
    [] form = "lambda" -> Out(Proc(x.s[2], From(x.s, 3), e), st)
    [] form = "and"    -> And(Tail(x.s), e, st)
    [] form = "or"     -> Or(Tail(x.s), e, st)
    [] form = "begin"  -> Sequence(Tail(x.s), e, st)
    [] form = "let" ->
         LET i     == IF is_named_let(x) THEN 3 ELSE 2
             bs    == x.s[i].s
             \* with a name: a scope with the procedure, in which the values of the
             \* first call are computed too (the comment in let_to_combination)
             outer == IF is_named_let(x) THEN Inner(st) ELSE e
             loop  == Proc(L(Names(bs)), From(x.s, i + 1), outer)
             st1   == IF is_named_let(x) THEN NewScope([n \in {x.s[2].n} |-> loop], e, st) ELSE st
         IN  Then(AnyOrder(ValuesOf(bs), << >>, outer, st1), LAMBDA vs, s : Call(loop, vs.s, s))
    [] form = "let*"   -> LetStar(x.s[2].s, From(x.s, 3), e, st)
    [] form = "letrec" ->
         LET names == {binding_name(x.s[2].s[i]).n : i \in DOMAIN x.s[2].s}
             inner == Inner(st)
         IN  Then(InOrder(x.s[2].s, inner, NewScope([n \in names |-> unspecified], e, st)),
                  LAMBDA v, s : Body(From(x.s, 3), Inner(s), NewScope([n \in {} |-> Nil], inner, s)))
    [] form = "do" ->
         Then(AnyOrder([i \in DOMAIN x.s[2].s |-> x.s[2].s[i].s[2]], << >>, e, st),
              LAMBDA vs, s : Iterate(x, vs.s, e, s))
    [] form = "cond" -> Clauses(Tail(x.s), e, st)
    [] form = "case" -> Then(Eval(x.s[2], e, st), LAMBDA key, s :
         LET cs == From(x.s, 3)
             chosen(i) == \/ is_else(cs[i]) /\ i = Len(cs)
                          \/ ~is_list(cs[i].s[1])
                          \/ \E j \in DOMAIN cs[i].s[1].s : is_eqv(key, cs[i].s[1].s[j])
             first == {i \in DOMAIN cs : chosen(i) /\ \A j \in 1..(i - 1) : ~chosen(j)}
         IN  IF first = {} THEN Out(unspecified, s)
             ELSE LET i == CHOOSE i \in first : TRUE
                  IN  IF is_list(cs[i].s[1]) \/ (is_else(cs[i]) /\ i = Len(cs))
                      THEN Sequence(Tail(cs[i].s), e, s) ELSE Fail(s))
    [] form = "eval" ->
         IF Len(x.s) = 2 THEN Eval(maybe_unquote(x.s[2]), e, st)
         ELSE Then(Eval(x.s[3], e, st), LAMBDA v, s :
                CASE v.k = "environment" -> Eval(maybe_unquote(x.s[2]), v.e, s)
                  [] v.k # "environment" /\ is_self_evaluating(maybe_unquote(x.s[2])) ->
                       Out(maybe_unquote(x.s[2]), s)
                  [] OTHER -> Fail(s))
    [] form = "apply" -> Then(Eval(x.s[2], e, st), LAMBDA f, s :
         Then(AnyOrder(From(x.s, 3), << >>, e, s), LAMBDA vs, t :
           CASE vs = Nil -> Call(f, << >>, t)
             [] vs # Nil /\ is_list(Last(vs.s)) -> Call(f, Front(vs.s) \o Last(vs.s).s, t)
             [] OTHER -> Fail(t)))
    [] form = "delay" ->
         Out(Promise(Len(st.promises) + 1),
             [st EXCEPT !.promises = Append(@, [done |-> FALSE, v |-> Nil, body |-> Tail(x.s), e |-> e])])
    [] form = "time-call" -> Then(Eval(x.s[2], e, st), LAMBDA v, s :
                               Out(L(<<v, Atom("time"), Atom("words")>>), s))
    [] form = "break"  -> Out(Nil, st)
    [] form = "pmacro" -> Out(Macro(pmacro_body(x)), st)
    [] form = "macroexpand" -> Then(Eval(car(x.s[2]), e, st), LAMBDA f, s :
         IF f.k = "macro" THEN Eval(f.body, Inner(s), NewScope([n \in {"exp"} |-> x.s[2]], e, s))
         ELSE Fail(s))

\* The library's procedures on lists.  map takes the elements that stand at
\* the same place, up to the shortest list, in any order of the places from
\* one end or the other; for-each takes them from the left.
Rows(ls) ==
  LET n == IF ls = << >> THEN 0 ELSE Min({Len(ls[i].s) : i \in DOMAIN ls})
  IN  [i \in 1..n |-> [j \in DOMAIN ls |-> ls[j].s[i]]]

Tuples(f, rows, st) ==
  IF rows = << >> THEN Out(Nil, st)
  ELSE Then(Call(f, rows[1], st), LAMBDA v, s :
              Then(Tuples(f, Tail(rows), s), LAMBDA vs, t : Out(cons(v, vs), t)))
       \cup Then(Tuples(f, Tail(rows), st), LAMBDA vs, s :
              Then(Call(f, rows[1], s), LAMBDA v, t : Out(cons(v, vs), t)))

ForEach(f, rows, st) ==
  IF rows = << >> THEN Out(Nil, st)
  ELSE Then(Call(f, rows[1], st), LAMBDA v, s : ForEach(f, Tail(rows), s))

FoldedLeft(f, v, xs, st) ==
  IF xs = << >> THEN Out(v, st)
  ELSE Then(Call(f, <<v, xs[1]>>, st), LAMBDA w, s : FoldedLeft(f, w, Tail(xs), s))

FoldedRight(f, v, xs, st) ==
  IF xs = << >> THEN Out(v, st)
  ELSE Then(FoldedRight(f, v, Tail(xs), st), LAMBDA w, s : Call(f, <<xs[1], w>>, s))

ListFunction(n, args, st) ==
  LET f == args[1] IN
  CASE n = "map"       -> Tuples(f, Rows(Tail(args)), st)
    [] n = "for-each"  -> ForEach(f, Rows(Tail(args)), st)
    [] n = "fold-left" -> IF is_list(args[3]) THEN FoldedLeft(f, args[2], args[3].s, st)
                          ELSE Fail(st)
    [] OTHER -> IF is_list(args[3]) THEN FoldedRight(f, args[2], args[3].s, st) ELSE Fail(st)

Call(f, args, st) ==
  CASE f.k = "procedure" ->
         IF Accepts(f.params, args)
         THEN Body(f.body, Inner(st), NewScope(Bindings(f.params, args), f.e, st))
         ELSE Fail(st)
    [] f.k = "promise" /\ args = << >> ->
         LET p == st.promises[f.p] IN
         IF p.done THEN Out(p.v, st)
         ELSE Then(Body(p.body, Inner(st), NewScope([n \in {} |-> Nil], p.e, st)), LAMBDA v, s :
                IF s.promises[f.p].done THEN Out(s.promises[f.p].v, s)
                ELSE Out(v, [s EXCEPT !.promises[f.p] = [@ EXCEPT !.done = TRUE, !.v = v]]))
    [] f.k = "primitive" ->
         CASE is_syntax(f) -> Fail(st)
           [] f.n = "force" -> IF Len(args) = 1 THEN Call(args[1], << >>, st) ELSE Fail(st)
           [] f.n \in Library \ {"force"} -> ListFunction(f.n, args, st)
           [] f.n = "null-environment" ->
                IF Len(args) = 1 /\ args[1] \in Numbers
                THEN Out(Environment(Inner(st)), NewScope([n \in {} |-> Nil], 1, st)) ELSE Fail(st)
           [] f.n = "load" ->
                IF \E n \in DOMAIN Files : args = <<Str(n)>>
                THEN Commands(Files[args[1].n], Nil, st) ELSE Fail(st)
           [] OTHER -> IF Result(f.n, args) = Err THEN Fail(st) ELSE Out(Result(f.n, args), st)
    [] OTHER -> Fail(st)

\* The commands of a file; v is the value of the one before.
Commands(cs, v, st) ==
  IF cs = << >> THEN Out(v, st)
  ELSE Then(Eval(Head(cs), 2, st), LAMBDA w, s : Commands(Tail(cs), w, s))

-----------------------------------------------------------------------------
(* A session: the answers to its commands, one for each.                   *)

Start ==
  [scopes |-> << [bind |-> [n \in SyntaxNames \cup PrimitiveNames
                                    \cup Library \cup {"true", "false", "nil"} |->
                               CASE n = "true" -> the_truth
                                 [] n = "false" -> the_falsity
                                 [] n = "nil" -> Nil
                                 [] OTHER -> Prim(n)], up |-> 0],
                 [bind |-> [n \in {} |-> Nil], up |-> 1] >>,
   promises |-> << >>]

RECURSIVE Answers(_, _, _)
Answers(program, log, st) ==
  IF program = << >> THEN {log}
  ELSE UNION {Answers(Tail(program), Append(log, Shown(o.v)), o.st) :
                o \in Eval(Head(program), 2, st)}

Session(program) == Answers(program, << >>, Start)
=============================================================================
