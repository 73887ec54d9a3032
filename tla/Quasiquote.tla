----------------------------- MODULE Quasiquote -----------------------------
(***************************************************************************)
(* What quasiquote makes of its template (minime.c, 580-648): calls of     *)
(* cons, list and append.  `quote', `cons', `list' and `append' are symbols*)
(* here, looked up where the template is used.  Templates are those of     *)
(* programs that leave quote bound to itself and write no dotted (unquote .*)
(* x), whose length would be an error.                                     *)
(***************************************************************************)
EXTENDS Expressions

Quoted(x) == L(<<Sym("quote"), x>>)

qq_is_constant(x) == IF is_pair(x) THEN is_tagged(x, "quote") ELSE ~is_symbol(x)

\* lisp_eval of a constant is the constant without its quote.
qq_combine_parts(left, right) ==
  IF qq_is_constant(left) /\ qq_is_constant(right)
  THEN Quoted(cons(maybe_unquote(left), maybe_unquote(right)))
  ELSE CASE right = Nil               -> L(<<Sym("list"), left>>)
         [] is_tagged(right, "list")  -> cons(Sym("list"), cons(left, cdr(right)))
         [] OTHER                     -> L(<<Sym("cons"), left, right>>)

IsTemplate(x, name) == is_list(x) /\ Len(x.s) = 2 /\ x.s[1] = Sym(name)

\* (quote quote name): evaluates to the symbol quote
Level(name) == L(<<Sym("quote"), Sym("quote"), Sym(name)>>)

\* The parts of a pair are bound by sets of one element, so that TLC computes
\* each of them once.
RECURSIVE qq_expand(_, _)
Parts(left, right) == CHOOSE y \in {qq_combine_parts(l, r) : l \in {left}, r \in {right}} : TRUE
ExpandPair(x, n, m) ==
  CHOOSE y \in {Parts(qq_expand(a, n), qq_expand(d, m)) : a \in {car(x)}, d \in {cdr(x)}} : TRUE
ExpandRest(x, name, n) ==
  CHOOSE y \in {Parts(Level(name), qq_expand(d, n)) : d \in {cdr(x)}} : TRUE

qq_expand(x, nesting) ==
  LET splice == is_pair(x) /\ IsTemplate(car(x), "unquote-splicing")
  IN  CASE ~is_pair(x) -> IF qq_is_constant(x) THEN x ELSE Quoted(x)
        [] IsTemplate(x, "unquote") ->
             IF nesting = 0 THEN x.s[2] ELSE ExpandRest(x, "unquote", nesting - 1)
        [] IsTemplate(x, "quasiquote") -> ExpandRest(x, "quasiquote", nesting + 1)
        [] splice /\ nesting = 0 ->
             L(<<Sym("append"), car(x).s[2]>>)   \* and the rest of the list is gone
        [] OTHER -> ExpandPair(x, IF splice THEN nesting - 1 ELSE nesting, nesting)

Expand(x) == qq_expand(x, 0)
=============================================================================
