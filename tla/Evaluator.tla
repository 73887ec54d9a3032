----------------------------- MODULE Evaluator -----------------------------
(***************************************************************************)
(* lisp_eval and lisp_repl as a machine: the C stack is a sequence of      *)
(* frames, the innermost call first, and `ctl' says what the innermost     *)
(* call does next.  A recursive call of lisp_eval pushes a frame; `goto    *)
(* tail_call' does not.  Special forms are recognised by the value of the  *)
(* operator, derived forms are rewritten and evaluated again in the same   *)
(* environment.  error() drops the whole stack and goes back to the prompt.*)
(*                                                                         *)
(* The arguments of a C call are evaluated in an order C leaves open: in   *)
(* cons(lisp_eval(first), list_of_values(rest)) either may come first, so  *)
(* the operands are evaluated upwards with some left out, and those then   *)
(* downwards.                                                              *)
(***************************************************************************)
EXTENDS Expressions, FiniteSets, TLC

CONSTANTS
  Programs,     \* sequences of commands typed at the prompt
  Files,        \* file name -> the commands in it
  QqExpand(_),  \* what quasiquote makes of a template: Quasiquote.tla
  Looping,      \* those of Programs whose calls are all tail calls
  MaxScopes,    \* bound: the environments made
  StackBound    \* the depth a program of Looping must stay within

VARIABLES
  program,      \* the program that runs, one of Programs
  ctl,          \* what the innermost call does next
  stack,        \* the calls in progress
  scopes,       \* environment -> [bind, chain]
  ports,        \* port -> the commands still to be read from it
  gensym_counter,
  log           \* what the session has printed: values and errors

vars == <<program, ctl, stack, scopes, ports, gensym_counter, log>>

ASSUME BoundsAssumption == MaxScopes \in Nat /\ StackBound \in Nat

ASSUME InputAssumption ==
  /\ \A p \in Programs : p \in Seq(Range(p))
  /\ \A f \in DOMAIN Files : Files[f] \in Seq(Range(Files[f]))

-----------------------------------------------------------------------------
(* The initial environment, 1, and the user's, 2. *)

\* lib/minime.scm: (define (force object) (object))
ForceProc == Proc(L(<<Sym("object")>>), <<L(<<Sym("object")>>)>>, 1)

Form(n, args) == L(<<Sym(n)>> \o args)
Assign(n, x)  == Form("set!", <<Sym(n), x>>)

\* A value that is ready by now wins over the one just computed.
StoreResult ==
  make_if(Sym("result-ready?"), Sym("result"),
          Form("begin", <<Assign("result-ready?", the_truth), Assign("result", Sym("x")),
                          Sym("result")>>))

\* lib/minime.scm: make-promise
MakePromise ==
  LET force == make_if(Sym("result-ready?"), Sym("result"),
                 Form("let", <<L(<<L(<<Sym("x"), L(<<Sym("proc")>>)>>)>>), StoreResult>>))
  IN Proc(L(<<Sym("proc")>>),
          <<Form("let", <<L(<<L(<<Sym("result-ready?"), the_falsity>>),
                              L(<<Sym("result"), the_falsity>>)>>),
                          make_lambda(Nil, <<force>>)>>)>>, 1)

Define(header, body) == L(<<Sym("define"), header>> \o body)
Library(params, body) == Proc(params, scan_out_defines(body), 1)

\* lib/minime.scm: map; one list is mapped by recursion, so any end may come first
EndsWithShortest == Form("memq", <<Form("quote", <<Nil>>), Sym("lst")>>)
MapOne(f, l) == Form("map-one", <<f, l>>)
Map ==
  Library(Dot(<<Sym("proc")>>, Sym("lst")),
    <<Define(L(<<Sym("map-one"), Sym("proc"), Sym("lst")>>),
        <<make_if(Form("null?", <<Sym("lst")>>), Form("quote", <<Nil>>),
            Form("cons", <<Form("proc", <<Form("car", <<Sym("lst")>>)>>),
                           MapOne(Sym("proc"), Form("cdr", <<Sym("lst")>>))>>))>>),
      Define(L(<<Sym("map-many"), Sym("proc"), Sym("lst")>>),
        <<Form("cond", <<L(<<EndsWithShortest, Form("quote", <<Nil>>)>>),
            Form("else", <<Form("cons",
              <<Form("apply", <<Sym("proc"), MapOne(Sym("car"), Sym("lst"))>>),
                Form("map-many", <<Sym("proc"), MapOne(Sym("cdr"), Sym("lst"))>>)>>)>>)>>)>>),
      Form("map-many", <<Sym("proc"), Sym("lst")>>)>>)

\* lib/minime.scm: for-each
Project(f) == Form("map", <<Sym(f), Sym("lst")>>)
ForEach ==
  Library(Dot(<<Sym("proc")>>, Sym("lst")),
    <<Define(L(<<Sym("for-each-many"), Sym("proc"), Sym("lst")>>),
        <<Form("cond", <<L(<<EndsWithShortest, Form("quote", <<Nil>>)>>),
            Form("else", <<Form("apply", <<Sym("proc"), Project("car")>>),
                           Form("for-each-many", <<Sym("proc"), Project("cdr")>>)>>)>>)>>),
      Form("for-each-many", <<Sym("proc"), Sym("lst")>>)>>)

\* lib/minime.scm: fold-left and fold-right
FoldParameters == L(<<Sym("op"), Sym("initial"), Sym("sequence")>>)
FoldLeftProc ==
  Library(FoldParameters,
    <<Define(L(<<Sym("iter"), Sym("result"), Sym("rest")>>),
        <<make_if(Form("null?", <<Sym("rest")>>), Sym("result"),
            Form("iter", <<Form("op", <<Sym("result"), Form("car", <<Sym("rest")>>)>>),
                           Form("cdr", <<Sym("rest")>>)>>))>>),
      Form("iter", <<Sym("initial"), Sym("sequence")>>)>>)
FoldRightProc ==
  Library(FoldParameters,
    <<make_if(Form("null?", <<Sym("sequence")>>), Sym("initial"),
        Form("op", <<Form("car", <<Sym("sequence")>>),
          Form("fold-right", <<Sym("op"), Sym("initial"), Form("cdr", <<Sym("sequence")>>)>>)>>))>>)

LibraryNames ==
  {"force", "make-promise", "map", "for-each", "fold-left", "fold-right", "accumulate"}

InitialBindings ==
  [n \in SyntaxNames \cup PrimitiveNames \cup LibraryNames \cup {"true", "false", "nil"} |->
     CASE n = "force" -> ForceProc
       [] n = "map" -> Map
       [] n = "for-each" -> ForEach
       [] n = "fold-left" -> FoldLeftProc
       [] n \in {"fold-right", "accumulate"} -> FoldRightProc
       [] n = "make-promise" -> MakePromise
       [] n = "true" -> the_truth
       [] n = "false" -> the_falsity
       [] n = "nil" -> Nil
       [] OTHER -> Prim(n)]

NoBindings == [n \in {} |-> Nil]

-----------------------------------------------------------------------------
(* Control. *)

Top == Head(stack)
Below == Tail(stack)

Evaluate(x, e) == ctl' = [m |-> "eval", x |-> x, e |-> e]
Return(v)      == ctl' = [m |-> "value", v |-> v]
Read           == ctl' = [m |-> "read"]
Call(f, args)  == ctl' = [m |-> "apply", f |-> f, args |-> args]

ReplFrame(port, e, prints, val) ==
  [k |-> "repl", port |-> port, e |-> e, prints |-> prints, val |-> val]
Prompt == <<ReplFrame(1, 2, TRUE, Nil)>>

\* Bug: the calls in progress are resumed.
BugError ==
  /\ log' = Append(log, Err)
  /\ Return(unspecified)
  /\ UNCHANGED <<program, stack, scopes, ports, gensym_counter>>

\* error(): longjmp to main, which starts the loop at the prompt again
error ==
  /\ log' = Append(log, Err)
  /\ stack' = Prompt
  /\ Read
  /\ UNCHANGED <<program, scopes, ports, gensym_counter>>

\* The stack becomes s; in Goto, nothing else moves but the control.
Step(s) == stack' = s /\ UNCHANGED <<program, ports, gensym_counter, log>>
Goto(s) == Step(s) /\ UNCHANGED scopes

\* The innermost scope from e on that binds n: lookup_variable_value
Owner(e, n, o) ==
  \E i \in DOMAIN scopes[e].chain :
     /\ o = scopes[e].chain[i]
     /\ n \in DOMAIN scopes[o].bind
     /\ \A j \in 1..(i - 1) : n \notin DOMAIN scopes[scopes[e].chain[j]].bind
IsBound(e, n) == \E i \in DOMAIN scopes[e].chain : n \in DOMAIN scopes[scopes[e].chain[i]].bind

BindIn(o, n, v) == scopes' = [scopes EXCEPT ![o].bind =
                                [m \in DOMAIN @ \cup {n} |-> IF m = n THEN v ELSE @[m]]]

\* Bug: a call sees only its own frame.
BugEnter(bind, e) ==
  /\ Len(scopes) < MaxScopes
  /\ scopes' = Append(scopes, [bind |-> bind, chain |-> <<Len(scopes) + 1>>])

\* extend_environment(names, values, e), which makes the environment New
Enter(bind, e) ==
  /\ Len(scopes) < MaxScopes
  /\ scopes' = Append(scopes, [bind |-> bind, chain |-> <<Len(scopes) + 1>> \o scopes[e].chain])
New == Len(scopes) + 1

-----------------------------------------------------------------------------
(* lisp_eval, up to the value of the operator. *)

EvalVariable ==
  /\ ctl.m = "eval" /\ is_symbol(ctl.x)
  /\ IF IsBound(ctl.e, ctl.x.n)
     THEN \E o \in DOMAIN scopes : Owner(ctl.e, ctl.x.n, o)
                                     /\ Return(scopes[o].bind[ctl.x.n]) /\ Goto(stack)
     ELSE error

EvalDatum ==
  /\ ctl.m = "eval" /\ ~is_symbol(ctl.x) /\ ~is_pair(ctl.x)
  /\ IF is_self_evaluating(ctl.x) THEN Return(ctl.x) /\ Goto(stack) ELSE error

EvalOperator ==
  /\ ctl.m = "eval" /\ is_pair(ctl.x)
  /\ Evaluate(car(ctl.x), ctl.e)
  /\ Goto(<<[k |-> "operator", x |-> ctl.x, e |-> ctl.e]>> \o stack)

-----------------------------------------------------------------------------
(* The special forms: the operator's value has come back to its frame.     *)

Returned(k)  == ctl.m = "value" /\ Top.k = k
IsForm(form) == Returned("operator") /\ ctl.v = Prim(form) /\ WellFormed(form, Top.x)

\* A rewriting given up half-way may have used up names of gensym; the
\* counter here counts those that reach an expression.
Malformed ==
  /\ Returned("operator") /\ is_syntax(ctl.v) /\ ~WellFormed(ctl.v.n, Top.x)
  /\ error

Quotation == IsForm("quote") /\ Return(Top.x.s[2]) /\ Goto(Below)

Lambda ==
  /\ IsForm("lambda")
  /\ Return(Proc(Top.x.s[2], scan_out_defines(From(Top.x.s, 3)), Top.e))
  /\ Goto(Below)

Pmacro == IsForm("pmacro") /\ Return(Macro(pmacro_body(Top.x))) /\ Goto(Below)

Break == IsForm("break") /\ Return(Nil) /\ Goto(Below)

\* The derived forms are rewritten, then goto tail_call.
Rewritten(form, x) ==
  CASE form = "let"    -> let_to_combination(x)
    [] form = "let*"   -> letx_to_combination(x)
    [] form = "letrec" -> letrec_to_combination(x)
    [] form = "quasiquote" -> QqExpand(x.s[2])
    [] form = "delay"  -> delay_to_promise(x)

Derived ==
  \E form \in {"let", "let*", "letrec", "quasiquote", "delay"} :
     /\ IsForm(form)
     /\ Evaluate(Rewritten(form, Top.x), Top.e)
     /\ Goto(Below)

gensym(i) == Sym("#:G" \o ToString(gensym_counter + i))

\* Those that need n new names.
DerivedWithNames(form, n, y) ==
  /\ IsForm(form)
  /\ Evaluate(y, Top.e)
  /\ gensym_counter' = gensym_counter + n
  /\ stack' = Below
  /\ UNCHANGED <<program, scopes, ports, log>>

Do == DerivedWithNames("do", 1, do_to_combination(Top.x, gensym(0)))

Cond ==
  LET needs(i) == Cardinality({j \in 2..i : needs_temp(Top.x.s[j])})
      n        == Len(Top.x.s)
  IN  DerivedWithNames("cond", needs(n),
                       cond_to_ifs(Top.x, [i \in 1..(n - 1) |-> gensym(needs(i))]))

\* The forms that evaluate one part before they go on, and that part.
FirstPart(form, x) ==
  CASE form = "set!"        -> x.s[3]
    [] form = "define"      -> definition_value(x)
    [] form \in {"if", "case", "time-call", "apply"} -> x.s[2]
    [] form = "eval"        -> x.s[3]
    [] form = "macroexpand" -> car(x.s[2])

Frame(k, x, e) == [k |-> k, x |-> x, e |-> e]

Await ==
  \E form \in {"set!", "define", "if", "case", "eval", "apply", "time-call", "macroexpand"} :
     /\ IsForm(form)
     /\ form = "eval" => Len(Top.x.s) > 2
     /\ Evaluate(FirstPart(form, Top.x), Top.e)
     /\ Goto(<<Frame(form, Top.x, Top.e)>> \o Below)

\* (eval e): the expression itself, without its quote, in this environment
EvalHere ==
  /\ IsForm("eval") /\ Len(Top.x.s) = 2
  /\ Evaluate(maybe_unquote(Top.x.s[2]), Top.e)
  /\ Goto(Below)

\* Whatever is given for an environment serves until a variable is looked up.
EvalThere ==
  /\ Returned("eval")
  /\ LET y == maybe_unquote(Top.x.s[2])
     IN  CASE ctl.v.k = "environment" -> Evaluate(y, ctl.v.e) /\ Goto(Below)
           [] ctl.v.k # "environment" /\ is_self_evaluating(y) -> Return(y) /\ Goto(Below)
           [] OTHER -> error

Assignment ==
  /\ Returned("set!")
  /\ IF IsBound(Top.e, Top.x.s[2].n)
     THEN /\ \E o \in DOMAIN scopes : Owner(Top.e, Top.x.s[2].n, o)
                                        /\ BindIn(o, Top.x.s[2].n, ctl.v)
          /\ Return(Top.x.s[2]) /\ Step(Below)
     ELSE error

Definition ==
  /\ Returned("define")
  /\ BindIn(Top.e, definition_variable(Top.x).n, ctl.v)
  /\ Return(definition_variable(Top.x)) /\ Step(Below)

If ==
  /\ Returned("if")
  /\ IF Len(Top.x.s) = 2 THEN error
     ELSE /\ Goto(Below)
          /\ CASE ctl.v # the_falsity -> Evaluate(Top.x.s[3], Top.e)
               [] ctl.v = the_falsity /\ Len(Top.x.s) > 3 -> Evaluate(Top.x.s[4], Top.e)
               [] OTHER -> Evaluate(the_falsity, Top.e)

\* The clauses are looked at in turn until one is chosen or ill-formed.
Case ==
  /\ Returned("case")
  /\ LET clauses == From(Top.x.s, 3)
         last_else(i) == is_else(clauses[i]) /\ i = Len(clauses)
         matches(i) == /\ is_list(clauses[i].s[1])
                       /\ \E j \in DOMAIN clauses[i].s[1].s : is_eqv(ctl.v, clauses[i].s[1].s[j])
         invalid(i) == ~is_list(clauses[i].s[1]) /\ ~last_else(i)
         Stops(i)   == last_else(i) \/ matches(i) \/ invalid(i)
     IN  IF \E i \in DOMAIN clauses : Stops(i)
         THEN \E i \in DOMAIN clauses :
                /\ Stops(i) /\ \A j \in 1..(i - 1) : ~Stops(j)
                /\ IF invalid(i) THEN error
                   ELSE Evaluate(sequence_to_exp(Tail(clauses[i].s)), Top.e) /\ Goto(Below)
         ELSE Return(unspecified) /\ Goto(Below)

TimeCall ==
  Returned("time-call") /\ Return(L(<<ctl.v, Atom("time"), Atom("words")>>)) /\ Goto(Below)

-----------------------------------------------------------------------------
(* and, or and begin go through their parts; the last one is a tail call.  *)

Empty(form) == CASE form = "and" -> the_truth [] form = "or" -> the_falsity
                 [] form = "begin" -> Nil
Decided(form, v) == \/ form = "and" /\ v = the_falsity
                    \/ form = "or" /\ v # the_falsity

\* Bug: the last part is evaluated by a call like the others.
BugAdvance(form, x, e, i) ==
  IF i > Len(x.s) THEN Return(Empty(form)) /\ Goto(Below)
  ELSE /\ Evaluate(x.s[i], e)
       /\ Goto(<<[k |-> form, x |-> x, e |-> e, i |-> i]>> \o Below)

Advance(form, x, e, i) ==
  IF i > Len(x.s) THEN Return(Empty(form)) /\ Goto(Below)
  ELSE /\ Evaluate(x.s[i], e)
       /\ Goto(IF i = Len(x.s) THEN Below
               ELSE <<[k |-> form, x |-> x, e |-> e, i |-> i]>> \o Below)

Sequence ==
  \E form \in {"and", "or", "begin"} : IsForm(form) /\ Advance(form, Top.x, Top.e, 2)

NextInSequence ==
  \E form \in {"and", "or", "begin"} :
     /\ Returned(form)
     /\ IF Decided(form, ctl.v) THEN Return(ctl.v) /\ Goto(Below)
        ELSE Advance(form, Top.x, Top.e, Top.i + 1)

-----------------------------------------------------------------------------
(* Macros: the body is evaluated where the macro is used, with the whole   *)
(* use bound to exp; its value is evaluated in turn, or by macroexpand     *)
(* returned.                                                               *)

ExpandMacro(macro, x, e, frame) ==
  /\ Enter([n \in {"exp"} |-> x], e)
  /\ Evaluate(macro.body, New)
  /\ Step(<<frame>> \o Below)

MacroUse ==
  /\ Returned("operator") /\ ctl.v.k = "macro"
  /\ ExpandMacro(ctl.v, Top.x, Top.e, Frame("expansion", Top.x, Top.e))

Macroexpand ==
  /\ Returned("macroexpand")
  /\ IF ctl.v.k = "macro"
     THEN ExpandMacro(ctl.v, Top.x.s[2], Top.e, Frame("expanded", Top.x, Top.e))
     ELSE error

Expanded ==
  \/ Returned("expansion") /\ Evaluate(ctl.v, Top.e) /\ Goto(Below)
  \/ Returned("expanded") /\ Return(ctl.v) /\ Goto(Below)

-----------------------------------------------------------------------------
(* Operands.  `got' holds the values found so far; with `spread' the last  *)
(* one is the tail of the list of arguments.                               *)

Arguments(f, ops, e, spread) ==
  [k |-> "args", f |-> f, ops |-> ops, e |-> e, spread |-> spread,
   got |-> [i \in {} |-> Nil], at |-> 0]

Operands(f, ops, e, spread) ==
  ctl' = [m |-> "args"] /\ Goto(<<Arguments(f, ops, e, spread)>> \o Below)

Application ==
  /\ Returned("operator") /\ ~is_syntax(ctl.v) /\ ctl.v.k # "macro"
  /\ IF is_list(Top.x) THEN Operands(ctl.v, Tail(Top.x.s), Top.e, FALSE) ELSE error

Apply == Returned("apply") /\ Operands(ctl.v, From(Top.x.s, 3), Top.e, TRUE)

\* Operand i is next on the way up, or on the way down.
MayEvaluate(i) ==
  LET done == DOMAIN Top.got IN
  /\ i \in DOMAIN Top.ops \ done
  /\ (\A j \in done : j < i) \/ (\A j \in DOMAIN Top.ops : j > i => j \in done)

EvalOperand ==
  /\ ctl.m = "args"
  /\ \E i \in DOMAIN Top.ops :
       /\ MayEvaluate(i)
       /\ Evaluate(Top.ops[i], Top.e)
       /\ Goto(<<[Top EXCEPT !.at = i]>> \o Below)

GotOperand ==
  /\ Returned("args")
  /\ IF Top.spread /\ Top.at = Len(Top.ops) /\ ~is_list(ctl.v) THEN error
     ELSE /\ ctl' = [m |-> "args"]
          /\ Goto(<<[Top EXCEPT !.got = [j \in DOMAIN @ \cup {Top.at} |->
                                           IF j = Top.at THEN ctl.v ELSE @[j]]]>> \o Below)

GotAll ==
  /\ ctl.m = "args" /\ DOMAIN Top.got = DOMAIN Top.ops
  /\ LET n == Len(Top.ops)
         values == [i \in 1..n |-> Top.got[i]]
     IN  Call(Top.f, IF Top.spread /\ n > 0
                     THEN SubSeq(values, 1, n - 1) \o values[n].s ELSE values)
  /\ Goto(Below)

-----------------------------------------------------------------------------
(* apply: in lisp_eval, for an application and for apply alike.            *)

Applying(kind) == ctl.m = "apply" /\ ctl.f.k = kind

ApplyProcedure ==
  /\ Applying("procedure")
  /\ IF Accepts(ctl.f.params, ctl.args)
     THEN /\ Enter(Bindings(ctl.f.params, ctl.args), ctl.f.e)
          /\ Evaluate(sequence_to_exp(ctl.f.body), New)
          /\ Step(stack)
     ELSE error

ApplyPrimitive ==
  /\ Applying("primitive") /\ ctl.f.n \notin {"load", "null-environment"}
  /\ LET v == IF is_syntax(ctl.f) THEN Err ELSE Result(ctl.f.n, ctl.args)
     IN  IF v = Err THEN error ELSE Return(v) /\ Goto(stack)

\* Any number is as good as five: the test is && where || was meant.
GivesFive(args) == Len(args) = 1 /\ args[1] \in Numbers

NullEnvironment ==
  /\ Applying("primitive") /\ ctl.f.n = "null-environment"
  /\ IF GivesFive(ctl.args)
     THEN Enter(NoBindings, 1) /\ Return(Environment(New)) /\ Step(stack)
     ELSE error

\* io_load: another read-eval-print loop, on a new port, that prints nothing
Load ==
  /\ Applying("primitive") /\ ctl.f.n = "load"
  /\ IF \E f \in DOMAIN Files : ctl.args = <<Str(f)>>
     THEN /\ ports' = Append(ports, Files[ctl.args[1].n])
          /\ stack' = <<ReplFrame(Len(ports) + 1, 2, FALSE, Nil)>> \o stack
          /\ Read
          /\ UNCHANGED <<program, scopes, gensym_counter, log>>
     ELSE error

ApplyOther ==
  /\ ctl.m = "apply" /\ ctl.f.k \notin {"primitive", "procedure"}
  /\ error

-----------------------------------------------------------------------------
(* lisp_repl                                                               *)

\* Bug: the loop reads the standard input whatever port it was given.
BugConsume(p) == [ports EXCEPT ![1] = IF @ = << >> THEN @ ELSE Tail(@)]

Consume(p) == [ports EXCEPT ![p] = Tail(@)]

ReadCommand ==
  /\ ctl.m = "read" /\ ports[Top.port] # << >>
  /\ Evaluate(Head(ports[Top.port]), Top.e)
  /\ ports' = Consume(Top.port)
  /\ UNCHANGED <<program, stack, scopes, gensym_counter, log>>

GotValue ==
  /\ Returned("repl")
  /\ log' = IF Top.prints THEN Append(log, Shown(ctl.v)) ELSE log
  /\ stack' = <<[Top EXCEPT !.val = ctl.v]>> \o Below
  /\ Read
  /\ UNCHANGED <<program, scopes, ports, gensym_counter>>

\* End of file: load returns its last value; the loop at the prompt, main.
EndOfInput ==
  /\ ctl.m = "read" /\ ports[Top.port] = << >>
  /\ IF Below = << >> THEN ctl' = [m |-> "done"] ELSE Return(Top.val)
  /\ Goto(Below)

Ended == ctl.m = "done" /\ UNCHANGED vars

-----------------------------------------------------------------------------
Init ==
  /\ program \in Programs
  /\ ctl = [m |-> "read"]
  /\ stack = Prompt
  /\ scopes = << [bind |-> InitialBindings, chain |-> <<1>>],
                 [bind |-> NoBindings, chain |-> <<2, 1>>] >>
  /\ ports = <<program>>
  /\ gensym_counter = 1
  /\ log = << >>

LispEval == EvalVariable \/ EvalDatum \/ EvalOperator
Syntax ==
  \/ Malformed \/ Quotation \/ Lambda \/ Pmacro \/ Break \/ Derived \/ Do \/ Cond
  \/ Await \/ EvalHere \/ EvalThere \/ Assignment \/ Definition \/ If \/ Case \/ TimeCall
  \/ Sequence \/ NextInSequence \/ MacroUse \/ Macroexpand \/ Expanded
Procedures ==
  \/ Application \/ Apply \/ EvalOperand \/ GotOperand \/ GotAll
  \/ ApplyProcedure \/ ApplyPrimitive \/ NullEnvironment \/ Load \/ ApplyOther
Loop == ReadCommand \/ GotValue \/ EndOfInput \/ Ended

Next == LispEval \/ Syntax \/ Procedures \/ Loop

\* The interpreter is one thread that waits for nothing but its input.
Spec == Init /\ [][Next]_vars /\ WF_vars(Next)

-----------------------------------------------------------------------------
(* Type invariant: references are to environments and ports that exist, an *)
(* environment ends in the initial one, and under every call in progress   *)
(* is the prompt.                                                          *)
TypeOK ==
  /\ ctl.m \in {"eval", "value", "apply", "args", "read", "done"}
  /\ \A e \in DOMAIN scopes :
       /\ Head(scopes[e].chain) = e /\ Last(scopes[e].chain) = 1
       /\ \A i \in DOMAIN scopes[e].chain : scopes[e].chain[i] \in DOMAIN scopes
       /\ \A n \in DOMAIN scopes[e].bind :
            scopes[e].bind[n].k \in {"procedure", "environment"} =>
              scopes[e].bind[n].e \in DOMAIN scopes
  /\ \A i \in DOMAIN stack :
       /\ stack[i].e \in DOMAIN scopes
       /\ stack[i].k = "repl" =>
            stack[i].port \in DOMAIN ports /\ (stack[i].prints <=> stack[i].port = 1)
  /\ ctl.m # "done" => stack # << >> /\ Last(stack).k = "repl" /\ Last(stack).port = 1
  /\ gensym_counter \in Nat

(* Whenever the prompt is ready for a command, every command read so far   *)
(* has been answered by one line, its value or one error, however deep in  *)
(* loaded files the error was: tests/run-tests.pl pairs commands and       *)
(* answers by counting.                                                    *)
OneAnswerEach ==
  ctl.m = "read" /\ Len(stack) = 1 => Len(log) = Len(program) - Len(ports[1])

(* A program whose calls are all tail calls runs in a stack of fixed depth:*)
(* the goto tail_call of every form, r5rs tail positions.                  *)
StackFlat == program \in Looping => Len(stack) <= StackBound

(* Every session comes to its end: no expansion, load or error recovery    *)
(* keeps lisp_eval or a loop going for ever in a program that ends.        *)
Terminates == <>(ctl.m = "done")
=============================================================================
