---------------------------- MODULE MCEvaluator ----------------------------
(* Sessions for Evaluator.tla, and their meaning.                          *)
EXTENDS Evaluator, Quasiquote

Meant == INSTANCE Semantics

q(x) == Form("quote", <<x>>)

\* What each program may answer.
Meanings == [p \in Programs |-> Meant!Session(p)]

(***************************************************************************)
(* The answers of a session are answers it may have by the semantics, for  *)
(* some order of operands: lisp_eval with its rewritings, its frames, its  *)
(* loads and its jumps out of errors against the meaning of each form.     *)
(***************************************************************************)
Agreement == ctl.m = "done" => log \in Meanings[program]

(* README.TXT, 122: "Lexical scoping should then take care of potential    *)
(* redefinitions."  A form whose keyword still has its meaning means the   *)
(* same whatever its neighbours' names are bound to around it.             *)
RedefinitionsAreLexical == ctl.m = "done" => log \in Meanings[program]

-----------------------------------------------------------------------------
LoadedFiles ==
  [good |-> <<Form("define", <<Sym("z"), Atom("1")>>), Form("list", <<Sym("z"), Sym("z")>>)>>,
   bad |-> <<Form("define", <<Sym("z"), Atom("2")>>), Form("car", <<Sym("z")>>), Form("define", <<Sym("z"), Atom("3")>>)>>,
   outer |-> <<Form("define", <<Sym("w"), Atom("1")>>), Form("load", <<Str("bad")>>), Form("define", <<Sym("w"), Atom("2")>>)>>,
   empty |-> << >>]

\*   (define x ())
\*   (list (begin (set! x (cons 1 x)) x) (begin (set! x (cons 2 x)) x) (null? x))
\*   x
OperandOrder ==
  << Form("define", <<Sym("x"), Nil>>),
     Form("list", <<Form("begin", <<Form("set!", <<Sym("x"), Form("cons", <<Atom("1"),
       Sym("x")>>)>>), Sym("x")>>), Form("begin", <<Form("set!", <<Sym("x"), Form("cons",
       <<Atom("2"), Sym("x")>>)>>), Sym("x")>>), Form("null?", <<Sym("x")>>)>>),
     Sym("x") >>

\*   (define x 0)
\*   (list (set! x 1) (car ()) (set! x 2))
\*   x
OperandError ==
  << Form("define", <<Sym("x"), Atom("0")>>),
     Form("list", <<Form("set!", <<Sym("x"), Atom("1")>>), Form("car", <<Nil>>),
       Form("set!", <<Sym("x"), Atom("2")>>)>>),
     Sym("x") >>

\*   (define (f) (define (a l) (if (null? l) 'a (b (cdr l)))) (define (b l) (if (null? l) 'b (a (cdr l)))) (define c '(1)) (a c))
\*   (f)
NestedDefines ==
  << Form("define", <<Form("f", << >>), Form("define", <<Form("a", <<Sym("l")>>),
       Form("if", <<Form("null?", <<Sym("l")>>), q(Sym("a")), Form("b", <<Form("cdr",
       <<Sym("l")>>)>>)>>)>>), Form("define", <<Form("b", <<Sym("l")>>), Form("if",
       <<Form("null?", <<Sym("l")>>), q(Sym("b")), Form("a", <<Form("cdr",
       <<Sym("l")>>)>>)>>)>>), Form("define", <<Sym("c"), q(L(<<Atom("1")>>))>>),
       Form("a", <<Sym("c")>>)>>),
     Form("f", << >>) >>

\*   (define (make) (let ((n ())) (lambda () (set! n (cons 1 n)) n)))
\*   (define a (make))
\*   (define b (make))
\*   (a)
\*   (list (a) (b))
Counters ==
  << Form("define", <<Form("make", << >>), Form("let", <<L(<<Form("n", <<Nil>>)>>),
       Form("lambda", <<Nil, Form("set!", <<Sym("n"), Form("cons", <<Atom("1"),
       Sym("n")>>)>>), Sym("n")>>)>>)>>),
     Form("define", <<Sym("a"), Form("make", << >>)>>),
     Form("define", <<Sym("b"), Form("make", << >>)>>),
     Form("a", << >>),
     Form("list", <<Form("a", << >>), Form("b", << >>)>>) >>

\*   (define (f x . y) (list x y))
\*   (f 1)
\*   (f 1 2 3)
\*   (f)
\*   (apply f 1 '(2 3))
\*   (apply f 1 2)
\*   ((lambda y y))
\*   (apply f ())
RestParameters ==
  << Form("define", <<Dot(<<Sym("f"), Sym("x")>>, Sym("y")), Form("list", <<Sym("x"),
       Sym("y")>>)>>),
     Form("f", <<Atom("1")>>),
     Form("f", <<Atom("1"), Atom("2"), Atom("3")>>),
     Form("f", << >>),
     Form("apply", <<Sym("f"), Atom("1"), q(L(<<Atom("2"), Atom("3")>>))>>),
     Form("apply", <<Sym("f"), Atom("1"), Atom("2")>>),
     L(<<Form("lambda", <<Sym("y"), Sym("y")>>)>>),
     Form("apply", <<Sym("f"), Nil>>) >>

\*   (letrec ((even (lambda (l) (if (null? l) #t (odd (cdr l))))) (odd (lambda (l) (if (null? l) #f (even (cdr l)))))) (even '(1 2 3)))
\*   (letrec ((a 1) (b a)) (define c b) c)
Letrec ==
  << Form("letrec", <<L(<<Form("even", <<Form("lambda", <<Form("l", << >>), Form("if",
       <<Form("null?", <<Sym("l")>>), the_truth, Form("odd", <<Form("cdr",
       <<Sym("l")>>)>>)>>)>>)>>), Form("odd", <<Form("lambda", <<Form("l", << >>),
       Form("if", <<Form("null?", <<Sym("l")>>), the_falsity, Form("even", <<Form("cdr",
       <<Sym("l")>>)>>)>>)>>)>>)>>), Form("even", <<q(L(<<Atom("1"), Atom("2"),
       Atom("3")>>))>>)>>),
     Form("letrec", <<L(<<Form("a", <<Atom("1")>>), Form("b", <<Sym("a")>>)>>),
       Form("define", <<Sym("c"), Sym("b")>>), Sym("c")>>) >>

\*   (define a 1)
\*   (let* ((a 2) (b a)) (list a b))
\*   (let ((a 2) (b a)) (list a b))
\*   (let* () a)
\*   (let ((z)) z)
\*   (let f ((l '(1 2)) (acc ())) (if (null? l) acc (f (cdr l) (cons (car l) acc))))
Lets ==
  << Form("define", <<Sym("a"), Atom("1")>>),
     Form("let*", <<L(<<Form("a", <<Atom("2")>>), Form("b", <<Sym("a")>>)>>),
       Form("list", <<Sym("a"), Sym("b")>>)>>),
     Form("let", <<L(<<Form("a", <<Atom("2")>>), Form("b", <<Sym("a")>>)>>), Form("list",
       <<Sym("a"), Sym("b")>>)>>),
     Form("let*", <<Nil, Sym("a")>>),
     Form("let", <<L(<<Form("z", << >>)>>), Sym("z")>>),
     Form("let", <<Sym("f"), L(<<Form("l", <<q(L(<<Atom("1"), Atom("2")>>))>>),
       Form("acc", <<Nil>>)>>), Form("if", <<Form("null?", <<Sym("l")>>), Sym("acc"),
       Form("f", <<Form("cdr", <<Sym("l")>>), Form("cons", <<Form("car", <<Sym("l")>>),
       Sym("acc")>>)>>)>>)>>) >>

\*   (define fs ())
\*   (do ((l '(1 2) (cdr l)) (k 7)) ((null? l) (list k ((car fs)))) (set! fs (cons (lambda () l) fs)))
\*   ((car (cdr fs)))
\*   (do ((l () l)) ((null? l)))
DoLoop ==
  << Form("define", <<Sym("fs"), Nil>>),
     Form("do", <<L(<<Form("l", <<q(L(<<Atom("1"), Atom("2")>>)), Form("cdr",
       <<Sym("l")>>)>>), Form("k", <<Atom("7")>>)>>), L(<<Form("null?", <<Sym("l")>>),
       Form("list", <<Sym("k"), L(<<Form("car", <<Sym("fs")>>)>>)>>)>>), Form("set!",
       <<Sym("fs"), Form("cons", <<Form("lambda", <<Nil, Sym("l")>>), Sym("fs")>>)>>)>>),
     L(<<Form("car", <<Form("cdr", <<Sym("fs")>>)>>)>>),
     Form("do", <<L(<<Form("l", <<Nil, Sym("l")>>)>>), L(<<Form("null?",
       <<Sym("l")>>)>>)>>) >>

\*   (cond (#f 1) ((car '(5))) (else 2))
\*   (cond ((list 1 2) => car) (else 3))
\*   (cond (#f 1))
\*   (cond (#f) (else => 4))
\*   (cond (else 1) (#t 2))
\*   (define temp 1)
\*   (cond (#f => car) (temp => list))
Conds ==
  << Form("cond", <<L(<<the_falsity, Atom("1")>>), L(<<Form("car",
       <<q(L(<<Atom("5")>>))>>)>>), Form("else", <<Atom("2")>>)>>),
     Form("cond", <<L(<<Form("list", <<Atom("1"), Atom("2")>>), Sym("=>"), Sym("car")>>),
       Form("else", <<Atom("3")>>)>>),
     Form("cond", <<L(<<the_falsity, Atom("1")>>)>>),
     Form("cond", <<L(<<the_falsity>>), Form("else", <<Sym("=>"), Atom("4")>>)>>),
     Form("cond", <<Form("else", <<Atom("1")>>), L(<<the_truth, Atom("2")>>)>>),
     Form("define", <<Sym("temp"), Atom("1")>>),
     Form("cond", <<L(<<the_falsity, Sym("=>"), Sym("car")>>), Form("temp", <<Sym("=>"),
       Sym("list")>>)>>) >>

\*   (case (car '(b)) ((a) 1) ((b c) 2 3) (else 4))
\*   (case 9 ((1) 1))
\*   (case 9 ((1) 1) (else))
\*   (case 1 (oops 2) ((1) 3))
\*   (case 1 ((1) 3) (oops 2))
Cases ==
  << Form("case", <<Form("car", <<q(Form("b", << >>))>>), L(<<Form("a", << >>),
       Atom("1")>>), L(<<Form("b", <<Sym("c")>>), Atom("2"), Atom("3")>>), Form("else",
       <<Atom("4")>>)>>),
     Form("case", <<Atom("9"), L(<<L(<<Atom("1")>>), Atom("1")>>)>>),
     Form("case", <<Atom("9"), L(<<L(<<Atom("1")>>), Atom("1")>>), Form("else", << >>)>>),
     Form("case", <<Atom("1"), Form("oops", <<Atom("2")>>), L(<<L(<<Atom("1")>>),
       Atom("3")>>)>>),
     Form("case", <<Atom("1"), L(<<L(<<Atom("1")>>), Atom("3")>>), Form("oops",
       <<Atom("2")>>)>>) >>

\*   (and)
\*   (or)
\*   (begin)
\*   (and 1 2)
\*   (and #f (car ()))
\*   (or #f 3 (car ()))
\*   (or (and 1 #f) (begin 4 5))
Logic ==
  << Form("and", << >>),
     Form("or", << >>),
     Form("begin", << >>),
     Form("and", <<Atom("1"), Atom("2")>>),
     Form("and", <<the_falsity, Form("car", <<Nil>>)>>),
     Form("or", <<the_falsity, Atom("3"), Form("car", <<Nil>>)>>),
     Form("or", <<Form("and", <<Atom("1"), the_falsity>>), Form("begin", <<Atom("4"),
       Atom("5")>>)>>) >>

\*   (define l '(1 2))
\*   (define p (delay (if (null? l) 'inner (begin (set! l (cdr l)) (force p) 'outer))))
\*   (force p)
\*   (set! l (cons 1 '(2)))
\*   (list (force p) (p))
\*   l
Promises ==
  << Form("define", <<Sym("l"), q(L(<<Atom("1"), Atom("2")>>))>>),
     Form("define", <<Sym("p"), Form("delay", <<Form("if", <<Form("null?", <<Sym("l")>>),
       q(Sym("inner")), Form("begin", <<Form("set!", <<Sym("l"), Form("cdr",
       <<Sym("l")>>)>>), Form("force", <<Sym("p")>>), q(Sym("outer"))>>)>>)>>)>>),
     Form("force", <<Sym("p")>>),
     Form("set!", <<Sym("l"), Form("cons", <<Atom("1"), q(L(<<Atom("2")>>))>>)>>),
     Form("list", <<Form("force", <<Sym("p")>>), Form("p", << >>)>>),
     Sym("l") >>

\*   (define n ())
\*   (define p (delay (begin (set! n (cons 1 n)) (car (cdr n)))))
\*   (force p)
\*   (force p)
\*   (list (force p) n)
FailingPromise ==
  << Form("define", <<Sym("n"), Nil>>),
     Form("define", <<Sym("p"), Form("delay", <<Form("begin", <<Form("set!", <<Sym("n"),
       Form("cons", <<Atom("1"), Sym("n")>>)>>), Form("car", <<Form("cdr",
       <<Sym("n")>>)>>)>>)>>)>>),
     Form("force", <<Sym("p")>>),
     Form("force", <<Sym("p")>>),
     Form("list", <<Form("force", <<Sym("p")>>), Sym("n")>>) >>

\*   (define when (pmacro (test x) (list 'if (car (cdr exp)) (car (cdr (cdr exp))) #f)))
\*   (when #t 1)
\*   (let ((y 2)) (when y y))
\*   (macroexpand (when 1 2))
\*   (macroexpand (car 1))
\*   (apply when '(1 2))
\*   when
Macros ==
  << Form("define", <<Sym("when"), Form("pmacro", <<Form("test", <<Sym("x")>>),
       Form("list", <<q(Sym("if")), Form("car", <<Form("cdr", <<Sym("exp")>>)>>),
       Form("car", <<Form("cdr", <<Form("cdr", <<Sym("exp")>>)>>)>>), the_falsity>>)>>)>>),
     Form("when", <<the_truth, Atom("1")>>),
     Form("let", <<L(<<Form("y", <<Atom("2")>>)>>), Form("when", <<Sym("y"),
       Sym("y")>>)>>),
     Form("macroexpand", <<Form("when", <<Atom("1"), Atom("2")>>)>>),
     Form("macroexpand", <<Form("car", <<Atom("1")>>)>>),
     Form("apply", <<Sym("when"), q(L(<<Atom("1"), Atom("2")>>))>>),
     Sym("when") >>

\*   (define z 0)
\*   (load "good")
\*   (list (load "outer") (set! z 9))
\*   z
\*   w
\*   (load "missing")
\*   (load "empty")
Loads ==
  << Form("define", <<Sym("z"), Atom("0")>>),
     Form("load", <<Str("good")>>),
     Form("list", <<Form("load", <<Str("outer")>>), Form("set!", <<Sym("z"),
       Atom("9")>>)>>),
     Sym("z"),
     Sym("w"),
     Form("load", <<Str("missing")>>),
     Form("load", <<Str("empty")>>) >>

\*   (define x-lambda lambda)
\*   ((let ((lambda 1)) (x-lambda () lambda)))
\*   (let ('list) '1)
\*   (define (if a b c) (list a b c))
\*   (if #f 1 2)
\*   'quote
\*   (apply quote '(1))
Redefinitions ==
  << Form("define", <<Sym("x-lambda"), Sym("lambda")>>),
     L(<<Form("let", <<L(<<Form("lambda", <<Atom("1")>>)>>), Form("x-lambda", <<Nil,
       Sym("lambda")>>)>>)>>),
     Form("let", <<L(<<q(Sym("list"))>>), q(Atom("1"))>>),
     Form("define", <<Form("if", <<Sym("a"), Sym("b"), Sym("c")>>), Form("list",
       <<Sym("a"), Sym("b"), Sym("c")>>)>>),
     Form("if", <<the_falsity, Atom("1"), Atom("2")>>),
     q(Sym("quote")),
     Form("apply", <<Sym("quote"), q(L(<<Atom("1")>>))>>) >>

\*   (define x 1)
\*   (define (get) x)
\*   (define (f x) (define y x) (set! x 2) (list x y (get)))
\*   (f 5)
\*   (let ((x 3)) (begin (define x 4) x))
\*   x
\*   (set! unbound 1)
\*   unbound
\*   ((lambda (a b) a) 1)
\*   (1 2)
Scoping ==
  << Form("define", <<Sym("x"), Atom("1")>>),
     Form("define", <<Form("get", << >>), Sym("x")>>),
     Form("define", <<Form("f", <<Sym("x")>>), Form("define", <<Sym("y"), Sym("x")>>),
       Form("set!", <<Sym("x"), Atom("2")>>), Form("list", <<Sym("x"), Sym("y"),
       Form("get", << >>)>>)>>),
     Form("f", <<Atom("5")>>),
     Form("let", <<L(<<Form("x", <<Atom("3")>>)>>), Form("begin", <<Form("define",
       <<Sym("x"), Atom("4")>>), Sym("x")>>)>>),
     Sym("x"),
     Form("set!", <<Sym("unbound"), Atom("1")>>),
     Sym("unbound"),
     L(<<Form("lambda", <<Form("a", <<Sym("b")>>), Sym("a")>>), Atom("1")>>),
     L(<<Atom("1"), Atom("2")>>) >>

\*   (define x 1)
\*   (eval x (interaction-environment))
\*   (eval 'x (null-environment 5))
\*   (let ((x 2)) (list (eval 'x) (eval x (interaction-environment))))
\*   (eval (car '(1)))
\*   (eval 1 2)
\*   (eval x 2)
\*   (eval)
\*   (eval '(define y 7) (interaction-environment))
\*   y
\*   (eval 'car (null-environment 4))
\*   (null-environment #t)
Evals ==
  << Form("define", <<Sym("x"), Atom("1")>>),
     Form("eval", <<Sym("x"), Form("interaction-environment", << >>)>>),
     Form("eval", <<q(Sym("x")), Form("null-environment", <<Atom("5")>>)>>),
     Form("let", <<L(<<Form("x", <<Atom("2")>>)>>), Form("list", <<Form("eval",
       <<q(Sym("x"))>>), Form("eval", <<Sym("x"), Form("interaction-environment",
       << >>)>>)>>)>>),
     Form("eval", <<Form("car", <<q(L(<<Atom("1")>>))>>)>>),
     Form("eval", <<Atom("1"), Atom("2")>>),
     Form("eval", <<Sym("x"), Atom("2")>>),
     Form("eval", << >>),
     Form("eval", <<q(Form("define", <<Sym("y"), Atom("7")>>)),
       Form("interaction-environment", << >>)>>),
     Sym("y"),
     Form("eval", <<q(Sym("car")), Form("null-environment", <<Atom("4")>>)>>),
     Form("null-environment", <<the_truth>>) >>

\*   (time-call (car '(1)))
\*   (break)
\*   (if)
\*   (if #t)
\*   (if #f 1)
\*   (set! x)
\*   (lambda)
\*   (error "no")
\*   (delay 1)
\*   (car (list (lambda (x) x)))
\*   (define f car)
\*   f
Odds ==
  << Form("time-call", <<Form("car", <<q(L(<<Atom("1")>>))>>)>>),
     Form("break", << >>),
     Form("if", << >>),
     Form("if", <<the_truth>>),
     Form("if", <<the_falsity, Atom("1")>>),
     Form("set!", <<Sym("x")>>),
     Form("lambda", << >>),
     Form("error", <<Str("no")>>),
     Form("delay", <<Atom("1")>>),
     Form("car", <<Form("list", <<Form("lambda", <<Form("x", << >>), Sym("x")>>)>>)>>),
     Form("define", <<Sym("f"), Sym("car")>>),
     Sym("f") >>

\*   (define x 1)
\*   (define y '(2 3 4))
\*   `a
\*   `(a b c)
\*   `,x
\*   `(1 ,@y)
\*   `(,x ,@y)
\*   `(,x ,y)
\*   `(a (+ 1 ,x) . ,y)
\*   `(,x (b ,@y) () "s" ,(cons x 'd))
\*   `(a . ,(car '()))
\*   `(a ,@x)
Quasi ==
  << Form("define", <<Sym("x"), Atom("1")>>),
     Form("define", <<Sym("y"), q(L(<<Atom("2"), Atom("3"), Atom("4")>>))>>),
     Form("quasiquote", <<Sym("a")>>),
     Form("quasiquote", <<Form("a", <<Sym("b"), Sym("c")>>)>>),
     Form("quasiquote", <<Form("unquote", <<Sym("x")>>)>>),
     Form("quasiquote", <<L(<<Atom("1"), Form("unquote-splicing", <<Sym("y")>>)>>)>>),
     Form("quasiquote", <<L(<<Form("unquote", <<Sym("x")>>), Form("unquote-splicing",
       <<Sym("y")>>)>>)>>),
     Form("quasiquote", <<L(<<Form("unquote", <<Sym("x")>>), Form("unquote",
       <<Sym("y")>>)>>)>>),
     Form("quasiquote", <<Form("a", <<Form("+", <<Atom("1"), Form("unquote",
       <<Sym("x")>>)>>), Sym("unquote"), Sym("y")>>)>>),
     Form("quasiquote", <<L(<<Form("unquote", <<Sym("x")>>), Form("b",
       <<Form("unquote-splicing", <<Sym("y")>>)>>), Nil, Str("s"), Form("unquote",
       <<Form("cons", <<Sym("x"), q(Sym("d"))>>)>>)>>)>>),
     Form("quasiquote", <<Form("a", <<Sym("unquote"), Form("car", <<q(Nil)>>)>>)>>),
     Form("quasiquote", <<Form("a", <<Form("unquote-splicing", <<Sym("x")>>)>>)>>) >>

\*   (define swap (pmacro (a b) `(let ((temp ,(car (cdr exp)))) (set! ,(car (cdr exp)) ,(car (cdr (cdr exp)))) (set! ,(car (cdr (cdr exp))) temp))))
\*   (define a 1)
\*   (define b 2)
\*   (swap a b)
\*   (let ((b 3)) (swap a b) `(,a ,b))
\*   `(,a ,b)
QuasiMacro ==
  << Form("define", <<Sym("swap"), Form("pmacro", <<Form("a", <<Sym("b")>>),
       Form("quasiquote", <<Form("let", <<L(<<Form("temp", <<Form("unquote",
       <<Form("car", <<Form("cdr", <<Sym("exp")>>)>>)>>)>>)>>), Form("set!",
       <<Form("unquote", <<Form("car", <<Form("cdr", <<Sym("exp")>>)>>)>>),
       Form("unquote", <<Form("car", <<Form("cdr", <<Form("cdr",
       <<Sym("exp")>>)>>)>>)>>)>>), Form("set!", <<Form("unquote", <<Form("car",
       <<Form("cdr", <<Form("cdr", <<Sym("exp")>>)>>)>>)>>), Sym("temp")>>)>>)>>)>>)>>),
     Form("define", <<Sym("a"), Atom("1")>>),
     Form("define", <<Sym("b"), Atom("2")>>),
     Form("swap", <<Sym("a"), Sym("b")>>),
     Form("let", <<L(<<Form("b", <<Atom("3")>>)>>), Form("swap", <<Sym("a"),
       Sym("b")>>), Form("quasiquote", <<L(<<Form("unquote", <<Sym("a")>>),
       Form("unquote", <<Sym("b")>>)>>)>>)>>),
     Form("quasiquote", <<L(<<Form("unquote", <<Sym("a")>>), Form("unquote",
       <<Sym("b")>>)>>)>>) >>

\*   (define x ())
\*   `(,(begin (set! x (cons 1 x)) x) k ,(begin (set! x (cons 2 x)) x) . ,(begin (set! x (cons 3 x)) x))
\*   x
QuasiOrder ==
  << Form("define", <<Sym("x"), Nil>>),
     Form("quasiquote", <<L(<<Form("unquote", <<Form("begin", <<Form("set!", <<Sym("x"),
       Form("cons", <<Atom("1"), Sym("x")>>)>>), Sym("x")>>)>>), Sym("k"),
       Form("unquote", <<Form("begin", <<Form("set!", <<Sym("x"), Form("cons",
       <<Atom("2"), Sym("x")>>)>>), Sym("x")>>)>>), Sym("unquote"), Form("begin",
       <<Form("set!", <<Sym("x"), Form("cons", <<Atom("3"), Sym("x")>>)>>),
       Sym("x")>>)>>)>>),
     Sym("x") >>

\*   (define s ())
\*   (map (lambda (x) (set! s (cons x s)) x) '(1 2))
\*   s
MappingOrder ==
  << Form("define", <<Sym("s"), Nil>>),
     Form("map", <<Form("lambda", <<Form("x", << >>), Form("set!", <<Sym("s"),
       Form("cons", <<Sym("x"), Sym("s")>>)>>), Sym("x")>>), q(L(<<Atom("1"),
       Atom("2")>>))>>),
     Sym("s") >>

\*   (map cons '(1 2) '(a))
MappingUneven ==
  << Form("map", <<Sym("cons"), q(L(<<Atom("1"), Atom("2")>>)), q(Form("a", << >>))>>) >>

\*   (map list '())
\*   (map car '(1))
MappingError ==
  << Form("map", <<Sym("list"), q(Nil)>>),
     Form("map", <<Sym("car"), q(L(<<Atom("1")>>))>>) >>

\*   (define s ())
\*   (for-each (lambda (x) (set! s (cons x s))) '(3))
\*   s
\*   (for-each car '(1))
ForEaching ==
  << Form("define", <<Sym("s"), Nil>>),
     Form("for-each", <<Form("lambda", <<Form("x", << >>), Form("set!", <<Sym("s"),
       Form("cons", <<Sym("x"), Sym("s")>>)>>)>>), q(L(<<Atom("3")>>))>>),
     Sym("s"),
     Form("for-each", <<Sym("car"), q(L(<<Atom("1")>>))>>) >>

\*   (fold-left list () '(1 2 3))
\*   (fold-right list () '(1 2 3))
\*   (accumulate cons '(3) '(1 2))
\*   (fold-left cons 0 '())
\*   (fold-right (lambda (x y) (car x)) 0 '(1 2))
\*   (fold-left cons 0 1)
Folding ==
  << Form("fold-left", <<Sym("list"), Nil, q(L(<<Atom("1"), Atom("2"), Atom("3")>>))>>),
     Form("fold-right", <<Sym("list"), Nil, q(L(<<Atom("1"), Atom("2"), Atom("3")>>))>>),
     Form("accumulate", <<Sym("cons"), q(L(<<Atom("3")>>)), q(L(<<Atom("1"),
       Atom("2")>>))>>),
     Form("fold-left", <<Sym("cons"), Atom("0"), q(Nil)>>),
     Form("fold-right", <<Form("lambda", <<Form("x", <<Sym("y")>>), Form("car",
       <<Sym("x")>>)>>), Atom("0"), q(L(<<Atom("1"), Atom("2")>>))>>),
     Form("fold-left", <<Sym("cons"), Atom("0"), Atom("1")>>) >>

\*   (define cons list)
\*   (fold-right cons () '(1 2))
\*   (map car '((1)))
RedefinedUnderLibrary ==
  << Form("define", <<Sym("cons"), Sym("list")>>),
     Form("fold-right", <<Sym("cons"), Nil, q(L(<<Atom("1"), Atom("2")>>))>>),
     Form("map", <<Sym("car"), q(L(<<L(<<Atom("1")>>)>>))>>) >>

Sessions ==
  {OperandOrder,
   OperandError,
   NestedDefines,
   Counters,
   RestParameters,
   Letrec,
   Lets,
   DoLoop,
   Conds,
   Cases,
   Logic,
   Promises,
   FailingPromise,
   Macros,
   Loads,
   Redefinitions,
   Scoping,
   Evals,
   Quasi,
   QuasiMacro,
   QuasiOrder,
   MappingOrder,
   MappingUneven,
   MappingError,
   ForEaching,
   Folding,
   RedefinedUnderLibrary,
   Odds}

\*   (let f ((l '(1 2 3 4 5 6 7 8))) (if (null? l) 'end (f (cdr l))))
NamedLet ==
  << Form("let", <<Sym("f"), L(<<Form("l", <<q(L(<<Atom("1"), Atom("2"), Atom("3"),
       Atom("4"), Atom("5"), Atom("6"), Atom("7"), Atom("8")>>))>>)>>), Form("if",
       <<Form("null?", <<Sym("l")>>), q(Sym("end")), Form("f", <<Form("cdr",
       <<Sym("l")>>)>>)>>)>>) >>

\*   (define (even l) (or (null? l) (odd (cdr l))))
\*   (define (odd l) (and (not (null? l)) (begin 1 (even (cdr l)))))
\*   (even '(1 2 3 4 5 6 7 8))
Mutual ==
  << Form("define", <<Form("even", <<Sym("l")>>), Form("or", <<Form("null?",
       <<Sym("l")>>), Form("odd", <<Form("cdr", <<Sym("l")>>)>>)>>)>>),
     Form("define", <<Form("odd", <<Sym("l")>>), Form("and", <<Form("not",
       <<Form("null?", <<Sym("l")>>)>>), Form("begin", <<Atom("1"), Form("even",
       <<Form("cdr", <<Sym("l")>>)>>)>>)>>)>>),
     Form("even", <<q(L(<<Atom("1"), Atom("2"), Atom("3"), Atom("4"), Atom("5"),
       Atom("6"), Atom("7"), Atom("8")>>))>>) >>

\*   (do ((l '(1 2 3 4 5 6 7 8) (cdr l))) ((null? l) 'end) (car l))
DoFlat ==
  << Form("do", <<L(<<Form("l", <<q(L(<<Atom("1"), Atom("2"), Atom("3"), Atom("4"),
       Atom("5"), Atom("6"), Atom("7"), Atom("8")>>)), Form("cdr", <<Sym("l")>>)>>)>>),
       L(<<Form("null?", <<Sym("l")>>), q(Sym("end"))>>), Form("car", <<Sym("l")>>)>>) >>

\*   (define (f l) (cond ((null? l) 'end) ((cdr l) => f)))
\*   (f '(1 2 3 4 5 6))
\*   (define (g . l) (case (null? l) ((#t) 'end) (else (apply g (cdr l)))))
\*   (apply g '(1 2 3 4 5 6))
ApplyFlat ==
  << Form("define", <<Form("f", <<Sym("l")>>), Form("cond", <<L(<<Form("null?",
       <<Sym("l")>>), q(Sym("end"))>>), L(<<Form("cdr", <<Sym("l")>>), Sym("=>"),
       Sym("f")>>)>>)>>),
     Form("f", <<q(L(<<Atom("1"), Atom("2"), Atom("3"), Atom("4"), Atom("5"),
       Atom("6")>>))>>),
     Form("define", <<Dot(<<Sym("g")>>, Sym("l")), Form("case", <<Form("null?",
       <<Sym("l")>>), L(<<L(<<the_truth>>), q(Sym("end"))>>), Form("else",
       <<Form("apply", <<Sym("g"), Form("cdr", <<Sym("l")>>)>>)>>)>>)>>),
     Form("apply", <<Sym("g"), q(L(<<Atom("1"), Atom("2"), Atom("3"), Atom("4"),
       Atom("5"), Atom("6")>>))>>) >>

\*   (define (h l) (let* ((m l)) (if (null? m) 'end (eval '(h (cdr m))))))
\*   (h '(1 2 3 4 5 6))
EvalFlat ==
  << Form("define", <<Form("h", <<Sym("l")>>), Form("let*", <<L(<<Form("m",
       <<Sym("l")>>)>>), Form("if", <<Form("null?", <<Sym("m")>>), q(Sym("end")),
       Form("eval", <<q(Form("h", <<Form("cdr", <<Sym("m")>>)>>))>>)>>)>>)>>),
     Form("h", <<q(L(<<Atom("1"), Atom("2"), Atom("3"), Atom("4"), Atom("5"),
       Atom("6")>>))>>) >>

\*   (define then (pmacro (a b) (list 'if (car (cdr exp)) #f (car (cdr (cdr exp))))))
\*   (define (k l) (then (null? l) (k (cdr l))))
\*   (k '(1 2 3 4 5))
MacroFlat ==
  << Form("define", <<Sym("then"), Form("pmacro", <<Form("a", <<Sym("b")>>), Form("list",
       <<q(Sym("if")), Form("car", <<Form("cdr", <<Sym("exp")>>)>>), the_falsity,
       Form("car", <<Form("cdr", <<Form("cdr", <<Sym("exp")>>)>>)>>)>>)>>)>>),
     Form("define", <<Form("k", <<Sym("l")>>), Form("then", <<Form("null?",
       <<Sym("l")>>), Form("k", <<Form("cdr", <<Sym("l")>>)>>)>>)>>),
     Form("k", <<q(L(<<Atom("1"), Atom("2"), Atom("3"), Atom("4"), Atom("5")>>))>>) >>

Loops ==
  {NamedLet,
   Mutual,
   DoFlat,
   ApplyFlat,
   EvalFlat,
   MacroFlat}

\*   (define (f if) (cond (if 'yes) (else 'no)))
\*   (f #t)
RebindIf ==
  << Form("define", <<Form("f", <<Sym("if")>>), Form("cond", <<Form("if",
       <<q(Sym("yes"))>>), Form("else", <<q(Sym("no"))>>)>>)>>),
     Form("f", <<the_truth>>) >>

\*   (define (g lambda) (let ((x lambda)) x))
\*   (g 1)
RebindLambda ==
  << Form("define", <<Form("g", <<Sym("lambda")>>), Form("let", <<L(<<Form("x",
       <<Sym("lambda")>>)>>), Sym("x")>>)>>),
     Form("g", <<Atom("1")>>) >>

\*   (define (h list) `(,list))
\*   (h 1)
RebindList ==
  << Form("define", <<Form("h", <<Sym("list")>>), Form("quasiquote",
       <<L(<<Form("unquote", <<Sym("list")>>)>>)>>)>>),
     Form("h", <<Atom("1")>>) >>

NoPrograms == {}

SessionsAndLoops == Sessions \cup Loops

Redefining ==
  {RebindIf,
   RebindLambda,
   RebindList}

=============================================================================
