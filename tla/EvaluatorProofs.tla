--------------------------- MODULE EvaluatorProofs ---------------------------
(***************************************************************************)
(* Proofs about Evaluator.tla, for every set of programs and of files that *)
(* can be loaded, whatever the expressions in them are.                    *)
(***************************************************************************)
EXTENDS Evaluator, SequenceFacts

\* A call in progress has a kind; a loop also has a port and its habits.
FrameOK(f) ==
  /\ "k" \in DOMAIN f
  /\ f.k = "repl" => {"port", "prints", "val"} \subseteq DOMAIN f

\* The loop at the prompt is the outermost call of s, reads the first of the n
\* ports and prints; the other loops are those of load, each on a later port.
Nested(s, n) ==
  /\ s # << >> => s[Len(s)].k = "repl"
  /\ \A i \in 1..Len(s) :
       /\ FrameOK(s[i])
       /\ s[i].k = "repl" => /\ s[i].port \in 1..n
                             /\ s[i].port = 1 <=> i = Len(s)
                             /\ s[i].prints <=> i = Len(s)

\* Calls that may be in progress while n ports are open.
Sound(s, n) == Sequential(s) /\ s # << >> /\ Nested(s, n)

\* A command has been read at the prompt and not been answered yet.
Busy == ctl.m # "done" /\ ~(ctl.m = "read" /\ Len(stack) = 1)

Working == ctl.m \in {"eval", "value", "apply", "args"}

\* The control and the innermost call agree.
ControlOK ==
  /\ Working \/ ctl.m \in {"read", "done"}
  /\ ctl.m = "done" <=> stack = << >>
  /\ ctl.m = "read" => Top.k = "repl"
  /\ ctl.m = "args" => Top.k = "args"

\* Every command that was read has its line in the log, but for the one that
\* is being evaluated.
Answered == Len(log) + (IF Busy THEN 1 ELSE 0) = Len(program) - Len(ports[1])

SequencesOK ==
  /\ Sequential(stack) /\ Sequential(log) /\ Sequential(program)
  /\ Sequential(ports) /\ ports # << >>
  /\ \A p \in 1..Len(ports) : Sequential(ports[p])

\* The inductive invariant.
IInv == SequencesOK /\ Nested(stack, Len(ports)) /\ ControlOK /\ Answered

-----------------------------------------------------------------------------
(* The calls in progress. *)

\* A call that is no loop can be made from any call.
LEMMA CallMade ==
  ASSUME NEW s, NEW n, Sound(s, n), NEW f, "k" \in DOMAIN f, f.k # "repl"
  PROVE  Sound(<<f>> \o s, n)
<1> DEFINE t == <<f>> \o s
<1>1. /\ Sequential(t) /\ t # << >>
      /\ Len(s) \in Nat /\ Len(t) = Len(s) + 1
      /\ t[1] = f /\ \A i \in 1..Len(s) : t[i + 1] = s[i]
  BY Pushed DEF Sound
<1>2. Len(s) \in Nat \ {0}
  BY Popped DEF Sound
<1> HIDE DEF t
<1>3. t[Len(t)] = s[Len(s)]
  BY <1>1, <1>2
<1>4. ASSUME NEW i \in 1..Len(t), i # 1
      PROVE  i - 1 \in 1..Len(s) /\ t[i] = s[i - 1]
  BY <1>1, <1>4
<1>5. \A i \in 1..Len(t) : FrameOK(t[i])
  BY <1>1, <1>4 DEF Sound, Nested, FrameOK
<1>6. ASSUME NEW i \in 1..Len(t), t[i].k = "repl"
      PROVE  /\ t[i].port \in 1..n
             /\ t[i].port = 1 <=> i = Len(t)
             /\ t[i].prints <=> i = Len(t)
  <2>1. i - 1 \in 1..Len(s) /\ t[i] = s[i - 1]
    BY <1>1, <1>4, <1>6
  <2>2. i = Len(t) <=> i - 1 = Len(s)
    BY <1>1
  <2> QED
    BY <1>6, <2>1, <2>2 DEF Sound, Nested
<1>7. Nested(t, n)
  BY <1>2, <1>3, <1>5, <1>6 DEF Sound, Nested
<1> QED
  BY <1>1, <1>7 DEF t, Sound

\* A call that is not the loop at the prompt returns to another.
LEMMA CallReturned ==
  ASSUME NEW s, NEW n, Sound(s, n), Len(s) # 1
  PROVE  Sound(Tail(s), n)
<1> DEFINE t == Tail(s)
<1>1. /\ Len(s) \in Nat \ {0} /\ Sequential(t) /\ Len(t) = Len(s) - 1 /\ t # << >>
      /\ \A i \in 1..(Len(s) - 1) : t[i] = s[i + 1]
  BY Popped DEF Sound
<1> HIDE DEF t
<1>2. t[Len(t)] = s[Len(s)]
  BY <1>1
<1>3. ASSUME NEW i \in 1..Len(t)
      PROVE  i + 1 \in 1..Len(s) /\ t[i] = s[i + 1] /\ (i = Len(t) <=> i + 1 = Len(s))
  BY <1>1
<1>4. Nested(t, n)
  BY <1>2, <1>3 DEF Sound, Nested
<1> QED
  BY <1>1, <1>4 DEF t, Sound

\* The outermost call is a loop, so any call that is none was made by another.
LEMMA NotOutermost ==
  ASSUME NEW s, NEW n, Sound(s, n), Head(s).k # "repl"
  PROVE  Len(s) # 1
  BY Popped DEF Sound, Nested

\* load starts a loop on a new port.
LEMMA LoopStarted ==
  ASSUME NEW s, NEW n \in Nat, n > 0, Sound(s, n)
  PROVE  Sound(<<ReplFrame(n + 1, 2, FALSE, Nil)>> \o s, n + 1)
<1> DEFINE f == ReplFrame(n + 1, 2, FALSE, Nil)
           t == <<f>> \o s
<1>1. /\ Sequential(t) /\ t # << >>
      /\ Len(s) \in Nat /\ Len(t) = Len(s) + 1
      /\ t[1] = f /\ \A i \in 1..Len(s) : t[i + 1] = s[i]
  BY Pushed DEF Sound
<1>2. Len(s) \in Nat \ {0}
  BY Popped DEF Sound
<1>3. FrameOK(f) /\ f.port = n + 1 /\ f.prints = FALSE
  BY DEF FrameOK, ReplFrame
<1> HIDE DEF t, f
<1>4. t[Len(t)] = s[Len(s)]
  BY <1>1, <1>2
<1>5. ASSUME NEW i \in 1..Len(t), i # 1
      PROVE  i - 1 \in 1..Len(s) /\ t[i] = s[i - 1] /\ (i = Len(t) <=> i - 1 = Len(s))
  BY <1>1, <1>5
<1>6. \A i \in 1..Len(t) : FrameOK(t[i])
  BY <1>1, <1>3, <1>5 DEF Sound, Nested
<1>7. ASSUME NEW i \in 1..Len(t), t[i].k = "repl"
      PROVE  /\ t[i].port \in 1..(n + 1)
             /\ t[i].port = 1 <=> i = Len(t)
             /\ t[i].prints <=> i = Len(t)
  <2>1. CASE i = 1
    <3>1. i # Len(t)
      BY <1>1, <1>2, <2>1
    <3> QED
      BY <1>1, <1>3, <2>1, <3>1
  <2>2. CASE i # 1
    <3>1. /\ s[i - 1].port \in 1..n
          /\ s[i - 1].port = 1 <=> i - 1 = Len(s)
          /\ s[i - 1].prints <=> i - 1 = Len(s)
      BY <1>5, <1>7, <2>2 DEF Sound, Nested
    <3>2. s[i - 1].port \in 1..(n + 1)
      BY <3>1
    <3> QED
      BY <1>5, <2>2, <3>1, <3>2
  <2> QED
    BY <2>1, <2>2
<1>8. Nested(t, n + 1)
  BY <1>2, <1>4, <1>6, <1>7 DEF Sound, Nested
<1> QED
  BY <1>1, <1>8 DEF t, f, Sound

\* The loop at the prompt alone.
LEMMA AtThePrompt ==
  ASSUME NEW n \in Nat, n > 0
  PROVE  Sound(Prompt, n) /\ Len(Prompt) = 1 /\ Head(Prompt).k = "repl"
<1> DEFINE f == ReplFrame(1, 2, TRUE, Nil)
<1>1. FrameOK(f) /\ f.k = "repl" /\ f.port = 1 /\ f.prints = TRUE
  BY DEF FrameOK, ReplFrame
<1>2. Prompt = <<f>>
  BY DEF Prompt
<1> HIDE DEF f
<1>3. Prompt \in Seq({f}) /\ Len(Prompt) = 1 /\ Prompt[1] = f /\ Head(Prompt) = f
  BY <1>2
<1>4. Nested(Prompt, n)
  BY <1>1, <1>3 DEF Nested
<1> QED
  BY <1>1, <1>2, <1>3, <1>4 DEF Sound, Sequential

-----------------------------------------------------------------------------
(* Steps within a command. *)

\* The step leaves the input and the log alone, and a command being evaluated.
Quiet ==
  /\ Working' /\ UNCHANGED <<program, ports, log>>
  /\ Sound(stack', Len(ports))
  /\ (ctl.m = "args")' => Head(stack').k = "args"

\* What holds while a command is evaluated.
LEMMA AtWork ==
  ASSUME IInv, Working
  PROVE  /\ Sound(stack, Len(ports)) /\ Len(ports) \in Nat \ {0}
         /\ Len(log) \in Nat /\ Len(log) + 1 = Len(program) - Len(ports[1])
         /\ Busy
<1>1. stack # << >> /\ ctl.m # "done" /\ ctl.m # "read"
  BY DEF IInv, ControlOK, Working
<1>2. Busy
  BY <1>1 DEF Busy
<1>3. Len(ports) \in Nat \ {0}
  BY Popped DEF IInv, SequencesOK
<1>4. Len(log) \in Nat
  <2>1. PICK S : log \in Seq(S)
    BY DEF IInv, SequencesOK, Sequential
  <2> QED
    BY <2>1
<1> QED
  BY <1>1, <1>2, <1>3, <1>4 DEF IInv, SequencesOK, Sound, Answered

\* A step within a command: no file is opened or left, no answer written.
LEMMA QuietKeeps ==
  ASSUME IInv, Working, Quiet
  PROVE  IInv'
<1>1. ControlOK'
  BY DEF Quiet, ControlOK, Working, Sound, Top
<1>2. SequencesOK'
  BY DEF IInv, SequencesOK, Quiet, Sound
<1>3. Nested(stack, Len(ports))'
  BY DEF Quiet, Sound, Nested
<1>4. Busy'
  BY DEF Quiet, Working, Busy
<1>5. Answered'
  <2>1. Len(log) + 1 = Len(program) - Len(ports[1])
    BY AtWork
  <2> QED
    BY <1>4, <2>1 DEF Answered, Quiet
<1> QED
  BY <1>1, <1>2, <1>3, <1>5 DEF IInv

\* An error answers the command, however deep in loaded files it was.
LEMMA ErrorKeeps ==
  ASSUME IInv, Working, error
  PROVE  IInv'
<1>1. /\ stack' = Prompt /\ ctl' = [m |-> "read"] /\ log' = Append(log, Err)
      /\ UNCHANGED <<program, ports>>
  BY DEF error, Read
<1>2. Sound(Prompt, Len(ports)) /\ Len(Prompt) = 1 /\ Head(Prompt).k = "repl"
  BY AtWork, AtThePrompt
<1>3. Sequential(log') /\ Len(log') = Len(log) + 1
  BY <1>1, Appended DEF IInv, SequencesOK
<1>4. ControlOK'
  BY <1>1, <1>2 DEF ControlOK, Working, Sound, Top
<1>5. SequencesOK'
  BY <1>1, <1>2, <1>3 DEF IInv, SequencesOK, Sound
<1>6. Nested(stack, Len(ports))'
  BY <1>1, <1>2 DEF Sound, Nested
<1>7. ~Busy'
  BY <1>1, <1>2 DEF Busy
<1>8. Answered'
  <2>1. Len(log) + 1 = Len(program) - Len(ports[1]) /\ Len(log) \in Nat
    BY AtWork
  <2>2. Len(log') = Len(program') - Len(ports'[1])
    BY <1>1, <1>3, <2>1
  <2>3. Len(log') \in Nat
    BY <1>3, <2>1
  <2> QED
    BY <1>7, <2>2, <2>3 DEF Answered
<1> QED
  BY <1>4, <1>5, <1>6, <1>8 DEF IInv

\* The next thing the innermost call does.
LEMMA Goes ==
  /\ \A x, e : Evaluate(x, e) => ctl'.m = "eval"
  /\ \A v : Return(v) => ctl'.m = "value"
  /\ \A f, args : Call(f, args) => ctl'.m = "apply"
BY DEF Evaluate, Return, Call

\* The call goes on where it is.
LEMMA GoesOn ==
  ASSUME IInv, Working, Step(stack), ctl'.m \in {"eval", "value", "apply"}
  PROVE  Quiet
BY AtWork DEF Quiet, Step, Working

\* The innermost call, which is no loop, ends.
LEMMA Leaves ==
  ASSUME IInv, Working, Top.k # "repl", Step(Below), ctl'.m \in {"eval", "value", "apply"}
  PROVE  Quiet
<1>1. Sound(Below, Len(ports))
  BY AtWork, NotOutermost, CallReturned DEF Top, Below
<1> QED
  BY <1>1 DEF Quiet, Step, Working

\* Another call is made, or takes the place of the innermost one.
LEMMA Calls ==
  ASSUME IInv, Working, NEW f, "k" \in DOMAIN f, f.k # "repl",
         Step(<<f>> \o stack) \/ (Top.k # "repl" /\ Step(<<f>> \o Below)),
         ctl'.m \in {"eval", "value", "apply"} \/ (ctl'.m = "args" /\ f.k = "args")
  PROVE  Quiet
<1>1. Sound(stack', Len(ports)) /\ Head(stack') = f
  <2>1. CASE Step(<<f>> \o stack)
    <3>1. Sound(<<f>> \o stack, Len(ports))
      BY AtWork, CallMade
    <3>2. Head(<<f>> \o stack) = f
      BY Pushed DEF IInv, SequencesOK
    <3> QED
      BY <2>1, <3>1, <3>2 DEF Step
  <2>2. CASE Top.k # "repl" /\ Step(<<f>> \o Below)
    <3>1. Sound(Below, Len(ports))
      BY <2>2, AtWork, NotOutermost, CallReturned DEF Top, Below
    <3>2. Sound(<<f>> \o Below, Len(ports))
      BY <3>1, CallMade
    <3>3. Head(<<f>> \o Below) = f
      BY <3>1, Pushed DEF Sound
    <3> QED
      BY <2>2, <3>2, <3>3 DEF Step
  <2> QED
    BY <2>1, <2>2
<1>2. UNCHANGED <<program, ports, log>>
  BY DEF Step
<1> QED
  BY <1>1, <1>2 DEF Quiet, Working

-----------------------------------------------------------------------------
(* The actions that evaluate: each is quiet, or an error. *)

\* The switch of lisp_eval: it goes on with the same call, or calls itself for
\* the operator of a combination.
LEMMA LispEvalKeeps ==
  ASSUME IInv, LispEval
  PROVE  IInv'
<1>1. Working
  BY DEF LispEval, EvalVariable, EvalDatum, EvalOperator, Working
<1>2. CASE EvalVariable
  <2>1. error \/ (Step(stack) /\ ctl'.m = "value")
    BY <1>2, Goes DEF EvalVariable, Goto
  <2> QED
    BY <1>1, <2>1, GoesOn, QuietKeeps, ErrorKeeps
<1>3. CASE EvalDatum
  <2>1. error \/ (Step(stack) /\ ctl'.m = "value")
    BY <1>3, Goes DEF EvalDatum, Goto
  <2> QED
    BY <1>1, <2>1, GoesOn, QuietKeeps, ErrorKeeps
<1>4. CASE EvalOperator
  <2> DEFINE f == [k |-> "operator", x |-> ctl.x, e |-> ctl.e]
  <2>1. Step(<<f>> \o stack) /\ ctl'.m = "eval"
    BY <1>4, Goes DEF EvalOperator, Goto
  <2>2. "k" \in DOMAIN f /\ f.k # "repl"
    OBVIOUS
  <2> HIDE DEF f
  <2> QED
    BY <1>1, <2>1, <2>2, Calls, QuietKeeps
<1> QED
  BY <1>2, <1>3, <1>4 DEF LispEval

\* A special form or a call leaves its frame, makes another, or fails.
LeavesOrFails ==
  error \/ (Step(Below) /\ ctl'.m \in {"eval", "value", "apply"})

\* Both keep the invariant.
LEMMA LeavesOrFailsKeeps ==
  ASSUME IInv, Working, Top.k # "repl", LeavesOrFails
  PROVE  IInv'
BY Leaves, QuietKeeps, ErrorKeeps DEF LeavesOrFails

\* Another frame takes the place of the innermost one.
LEMMA TakesPlace ==
  ASSUME IInv, Working, Top.k # "repl", NEW f, "k" \in DOMAIN f, f.k # "repl",
         Step(<<f>> \o Below),
         ctl'.m \in {"eval", "value", "apply"} \/ (ctl'.m = "args" /\ f.k = "args")
  PROVE  IInv'
BY Calls, QuietKeeps

\* A frame is of the kind it is named after.
LEMMA FrameKinds ==
  ASSUME NEW k, NEW x, NEW e
  PROVE  "k" \in DOMAIN Frame(k, x, e) /\ Frame(k, x, e).k = k
BY DEF Frame

\* The steps of and, or and begin.
LEMMA AdvanceKeeps ==
  ASSUME IInv, Working, Top.k # "repl", NEW form \in {"and", "or", "begin"},
         NEW x, NEW e, NEW i, Advance(form, x, e, i)
  PROVE  IInv'
<1> DEFINE f == [k |-> form, x |-> x, e |-> e, i |-> i]
<1>1. "k" \in DOMAIN f /\ f.k # "repl"
  OBVIOUS
<1>2. (Step(Below) \/ Step(<<f>> \o Below)) /\ ctl'.m \in {"eval", "value", "apply"}
  BY Goes DEF Advance, Goto
<1> HIDE DEF f
<1> QED
  BY <1>1, <1>2, TakesPlace, LeavesOrFailsKeeps DEF LeavesOrFails

\* The expansion of a macro.
LEMMA ExpandMacroKeeps ==
  ASSUME IInv, Working, Top.k # "repl", NEW macro, NEW x, NEW e, NEW frame,
         "k" \in DOMAIN frame, frame.k # "repl", ExpandMacro(macro, x, e, frame)
  PROVE  IInv'
BY Goes, TakesPlace DEF ExpandMacro

\* The special forms.
LEMMA SyntaxKeeps ==
  ASSUME IInv, Syntax
  PROVE  IInv'
<1>1. Working /\ Top.k # "repl"
  <2>1. Malformed \/ Quotation \/ Lambda \/ Pmacro \/ Break \/ Derived => ctl.m = "value" /\ Top.k = "operator"
    BY DEF Malformed, Quotation, Lambda, Pmacro, Break, Derived, IsForm, Returned
  <2>2. Do \/ Cond \/ Await \/ EvalHere \/ Sequence \/ MacroUse => ctl.m = "value" /\ Top.k = "operator"
    BY DEF Do, Cond, DerivedWithNames, Await, EvalHere, Sequence, MacroUse, IsForm, Returned
  <2>3. EvalThere \/ Assignment \/ Definition \/ If \/ Case \/ TimeCall =>
          ctl.m = "value" /\ Top.k \in {"eval", "set!", "define", "if", "case", "time-call"}
    BY DEF EvalThere, Assignment, Definition, If, Case, TimeCall, Returned
  <2>4. NextInSequence \/ Macroexpand \/ Expanded =>
          ctl.m = "value" /\ Top.k \in {"and", "or", "begin", "macroexpand", "expansion", "expanded"}
    BY DEF NextInSequence, Macroexpand, Expanded, Returned
  <2> QED
    BY <2>1, <2>2, <2>3, <2>4 DEF Syntax, Working
<1>2. CASE Malformed \/ Quotation \/ Lambda \/ Pmacro \/ Break \/ Derived
  <2>1. LeavesOrFails
    BY <1>2, Goes
    DEF Malformed, Quotation, Lambda, Pmacro, Break, Derived, Goto, LeavesOrFails
  <2> QED
    BY <1>1, <2>1, LeavesOrFailsKeeps
<1>3. CASE Do \/ Cond
  <2>1. ASSUME NEW form, NEW n, NEW y, DerivedWithNames(form, n, y)
        PROVE  IInv'
    <3>1. Sound(Below, Len(ports))
      BY <1>1, AtWork, NotOutermost, CallReturned DEF Top, Below
    <3>2. stack' = Below /\ UNCHANGED <<program, ports, log>> /\ ctl'.m = "eval"
      BY <2>1, Goes DEF DerivedWithNames
    <3>3. Quiet
      BY <3>1, <3>2 DEF Quiet, Working
    <3> QED
      BY <1>1, <3>3, QuietKeeps
  <2> QED
    BY <1>3, <2>1 DEF Do, Cond
<1>4. CASE Await
  <2>1. PICK form \in {"set!", "define", "if", "case", "eval", "apply", "time-call", "macroexpand"} :
          Evaluate(FirstPart(form, Top.x), Top.e) /\ Goto(<<Frame(form, Top.x, Top.e)>> \o Below)
    BY <1>4 DEF Await
  <2>2. ctl'.m = "eval" /\ Step(<<Frame(form, Top.x, Top.e)>> \o Below)
    BY <2>1, Goes DEF Goto
  <2>3. form # "repl"
    OBVIOUS
  <2> QED
    BY <1>1, <2>2, <2>3, FrameKinds, TakesPlace
<1>5. CASE EvalHere \/ EvalThere
  <2>1. LeavesOrFails
    BY <1>5, Goes DEF EvalHere, EvalThere, Goto, LeavesOrFails
  <2> QED
    BY <1>1, <2>1, LeavesOrFailsKeeps
<1>6. CASE Assignment \/ Definition
  <2>1. LeavesOrFails
    BY <1>6, Goes DEF Assignment, Definition, LeavesOrFails
  <2> QED
    BY <1>1, <2>1, LeavesOrFailsKeeps
<1>7. CASE If
  <2>1. LeavesOrFails
    BY <1>7, Goes DEF If, Goto, LeavesOrFails
  <2> QED
    BY <1>1, <2>1, LeavesOrFailsKeeps
<1>8. CASE Case
  <2>1. LeavesOrFails
    BY <1>8, Goes DEF Case, Goto, LeavesOrFails
  <2> QED
    BY <1>1, <2>1, LeavesOrFailsKeeps
<1>9. CASE TimeCall
  <2>1. LeavesOrFails
    BY <1>9, Goes DEF TimeCall, Goto, LeavesOrFails
  <2> QED
    BY <1>1, <2>1, LeavesOrFailsKeeps
<1>10. CASE Sequence
  <2>1. \E form \in {"and", "or", "begin"} : Advance(form, Top.x, Top.e, 2)
    BY <1>10 DEF Sequence
  <2> QED
    BY <1>1, <2>1, AdvanceKeeps
<1>11. CASE NextInSequence
  <2>1. PICK form \in {"and", "or", "begin"} :
          (Return(ctl.v) /\ Goto(Below)) \/ Advance(form, Top.x, Top.e, Top.i + 1)
    BY <1>11 DEF NextInSequence
  <2>2. CASE Return(ctl.v) /\ Goto(Below)
    BY <1>1, <2>2, Goes, LeavesOrFailsKeeps DEF Goto, LeavesOrFails
  <2> QED
    BY <1>1, <2>1, <2>2, AdvanceKeeps
<1>12. CASE MacroUse
  <2>1. ExpandMacro(ctl.v, Top.x, Top.e, Frame("expansion", Top.x, Top.e))
    BY <1>12 DEF MacroUse
  <2> QED
    BY <1>1, <2>1, FrameKinds, ExpandMacroKeeps
<1>13. CASE Macroexpand
  <2>1. error \/ ExpandMacro(ctl.v, Top.x.s[2], Top.e, Frame("expanded", Top.x, Top.e))
    BY <1>13 DEF Macroexpand
  <2> QED
    BY <1>1, <2>1, FrameKinds, ExpandMacroKeeps, ErrorKeeps
<1>14. CASE Expanded
  <2>1. LeavesOrFails
    BY <1>14, Goes DEF Expanded, Goto, LeavesOrFails
  <2> QED
    BY <1>1, <2>1, LeavesOrFailsKeeps
<1> QED
  BY <1>2, <1>3, <1>4, <1>5, <1>6, <1>7, <1>8, <1>9, <1>10, <1>11, <1>12, <1>13, <1>14
  DEF Syntax

\* The step is load's: a loop on a new port, which prints nothing.
LEMMA LoadKeeps ==
  ASSUME IInv, Load
  PROVE  IInv'
<1>1. Working /\ ctl.m = "apply"
  BY DEF Load, Applying, Working
<1>2. CASE error
  BY <1>1, <1>2, ErrorKeeps
<1>3. CASE ~error
  <2> DEFINE n == Len(ports)
  <2>1. PICK f \in DOMAIN Files : ctl.args = <<Str(f)>>
    BY <1>3 DEF Load
  <2>2. ctl.args[1].n = f
    BY <2>1 DEF Str
  <2>3. /\ ports' = Append(ports, Files[f])
        /\ stack' = <<ReplFrame(n + 1, 2, FALSE, Nil)>> \o stack
        /\ ctl' = [m |-> "read"] /\ UNCHANGED <<program, log>>
    BY <1>3, <2>1, <2>2 DEF Load, Read
  <2>4. Sequential(Files[f])
    BY InputAssumption DEF Sequential
  <2>5. n \in Nat \ {0} /\ Sound(stack, n)
    BY <1>1, AtWork
  <2>6. /\ Sequential(ports') /\ ports' # << >> /\ Len(ports') = n + 1
        /\ ports'[n + 1] = Files[f] /\ \A i \in 1..n : ports'[i] = ports[i]
    BY <2>3, Appended DEF IInv, SequencesOK
  <2>7. Sound(stack', n + 1)
    <3> HIDE DEF n
    <3>1. n \in Nat /\ n > 0
      BY <2>5
    <3>2. Sound(<<ReplFrame(n + 1, 2, FALSE, Nil)>> \o stack, n + 1)
      BY <2>5, <3>1, LoopStarted
    <3> QED
      BY <2>3, <3>2
  <2>8. Len(stack') = Len(stack) + 1 /\ Head(stack') = ReplFrame(n + 1, 2, FALSE, Nil)
    BY <2>3, <2>5, Pushed DEF Sound
  <2>9. Len(stack) \in Nat \ {0}
    BY <2>5, Popped DEF Sound
  <2> HIDE DEF n
  <2>10. SequencesOK'
    <3>1. \A p \in 1..Len(ports') : Sequential(ports'[p])
      <4>1. ASSUME NEW p \in 1..(n + 1) PROVE Sequential(ports'[p])
        <5>1. CASE p = n + 1
          BY <2>4, <2>6, <5>1
        <5>2. CASE p # n + 1
          <6>1. p \in 1..n
            BY <2>5, <5>2
          <6> QED
            BY <2>6, <6>1 DEF IInv, SequencesOK, n
        <5> QED
          BY <5>1, <5>2
      <4> QED
        BY <2>6, <4>1
    <3>2. Sequential(stack') /\ Sequential(log') /\ Sequential(program')
      BY <2>3, <2>7 DEF IInv, SequencesOK, Sound
    <3> QED
      BY <2>6, <3>1, <3>2 DEF SequencesOK
  <2>11. Nested(stack, Len(ports))'
    BY <2>6, <2>7 DEF Sound, Nested
  <2>12. Top'.k = "repl"
    BY <2>8 DEF Top, ReplFrame
  <2>13. ControlOK'
    BY <2>3, <2>7, <2>12 DEF ControlOK, Sound
  <2>14. Busy'
    BY <2>3, <2>8, <2>9 DEF Busy
  <2>15. Answered'
    <3>1. ports'[1] = ports[1]
      BY <2>5, <2>6
    <3>2. Len(log) + 1 = Len(program) - Len(ports[1])
      BY <1>1, AtWork
    <3> QED
      BY <2>3, <2>14, <3>1, <3>2 DEF Answered
  <2> QED
    BY <2>10, <2>11, <2>13, <2>15 DEF IInv
<1> QED
  BY <1>2, <1>3

\* The innermost call is in a frame.
LEMMA TopIsFrame ==
  ASSUME IInv, stack # << >>
  PROVE  /\ FrameOK(Top) /\ Top = stack[1] /\ Len(stack) \in Nat \ {0}
         /\ Top.k = "repl" => /\ Top.port \in 1..Len(ports)
                              /\ Top.port = 1 <=> Len(stack) = 1
                              /\ Top.prints <=> Len(stack) = 1
<1>1. Len(stack) \in Nat \ {0} /\ Head(stack) = stack[1]
  BY Popped DEF IInv, SequencesOK
<1>2. 1 \in 1..Len(stack)
  BY <1>1
<1> QED
  BY <1>1, <1>2 DEF IInv, Nested, Top

\* Operands, and what procedures and primitives do with them; load opens a loop.
LEMMA ProceduresKeep ==
  ASSUME IInv, Procedures
  PROVE  IInv'
<1>1. Working
  BY DEF Procedures, Application, Apply, EvalOperand, GotOperand, GotAll, ApplyProcedure,
     ApplyPrimitive, NullEnvironment, Load, ApplyOther, Applying, Returned, Working
<1>2. ASSUME NEW f, NEW ops, NEW e, NEW spread, Operands(f, ops, e, spread), Top.k # "repl"
      PROVE  IInv'
  <2>1. /\ "k" \in DOMAIN Arguments(f, ops, e, spread)
        /\ Arguments(f, ops, e, spread).k = "args"
    BY DEF Arguments
  <2>2. ctl'.m = "args" /\ Step(<<Arguments(f, ops, e, spread)>> \o Below)
    BY <1>2 DEF Operands, Goto
  <2> QED
    BY <1>1, <1>2, <2>1, <2>2, TakesPlace
<1>3. CASE Application
  <2>1. Top.k # "repl"
    BY <1>3 DEF Application, Returned
  <2>2. error \/ Operands(ctl.v, Tail(Top.x.s), Top.e, FALSE)
    BY <1>3 DEF Application
  <2> QED
    BY <1>1, <1>2, <2>1, <2>2, ErrorKeeps
<1>4. CASE Apply
  BY <1>2, <1>4 DEF Apply, Returned
<1>5. CASE EvalOperand
  <2>1. Top.k = "args" /\ FrameOK(Top)
    BY <1>5, TopIsFrame DEF EvalOperand, IInv, ControlOK
  <2>2. PICK i : ctl'.m = "eval" /\ Step(<<[Top EXCEPT !.at = i]>> \o Below)
    BY <1>5, Goes DEF EvalOperand, Goto
  <2> DEFINE f == [Top EXCEPT !.at = i]
  <2>3. "k" \in DOMAIN f /\ f.k # "repl"
    BY <2>1 DEF FrameOK
  <2> HIDE DEF f
  <2>4. Step(<<f>> \o Below)
    BY <2>2 DEF f
  <2> QED
    BY <1>1, <2>1, <2>2, <2>3, <2>4, TakesPlace
<1>6. CASE GotOperand
  <2>1. Top.k = "args" /\ FrameOK(Top)
    BY <1>1, <1>6, AtWork, TopIsFrame DEF GotOperand, Returned, Sound
  <2> DEFINE f == [Top EXCEPT !.got = [j \in DOMAIN @ \cup {Top.at} |->
                                         IF j = Top.at THEN ctl.v ELSE @[j]]]
  <2>2. error \/ (ctl'.m = "args" /\ Step(<<f>> \o Below))
    BY <1>6 DEF GotOperand, Goto
  <2>3. "k" \in DOMAIN f /\ f.k = "args"
    BY <2>1 DEF FrameOK
  <2> HIDE DEF f
  <2> QED
    BY <1>1, <2>1, <2>2, <2>3, TakesPlace, ErrorKeeps
<1>7. CASE GotAll
  <2>1. Top.k # "repl"
    BY <1>7 DEF GotAll, IInv, ControlOK
  <2>2. Step(Below) /\ ctl'.m = "apply"
    BY <1>7, Goes DEF GotAll, Goto
  <2> QED
    BY <1>1, <2>1, <2>2, LeavesOrFailsKeeps DEF LeavesOrFails
<1>8. CASE ApplyProcedure
  <2>1. error \/ (Step(stack) /\ ctl'.m = "eval")
    BY <1>8, Goes DEF ApplyProcedure
  <2> QED
    BY <1>1, <2>1, GoesOn, QuietKeeps, ErrorKeeps
<1>9. CASE ApplyPrimitive
  <2>1. error \/ (Step(stack) /\ ctl'.m = "value")
    BY <1>9, Goes DEF ApplyPrimitive, Goto
  <2> QED
    BY <1>1, <2>1, GoesOn, QuietKeeps, ErrorKeeps
<1>10. CASE NullEnvironment
  <2>1. error \/ (Step(stack) /\ ctl'.m = "value")
    BY <1>10, Goes DEF NullEnvironment
  <2> QED
    BY <1>1, <2>1, GoesOn, QuietKeeps, ErrorKeeps
<1>11. CASE Load
  BY <1>11, LoadKeeps
<1>12. CASE ApplyOther
  BY <1>1, <1>12, ErrorKeeps DEF ApplyOther
<1> QED
  BY <1>3, <1>4, <1>5, <1>6, <1>7, <1>8, <1>9, <1>10, <1>11, <1>12 DEF Procedures

-----------------------------------------------------------------------------
(* The loops. *)

\* The innermost loop keeps its port and its habits while its value changes.
LEMMA LoopUpdated ==
  ASSUME NEW s, NEW n, Sound(s, n), NEW f, FrameOK(f),
         f.k = s[1].k, f.k = "repl" => f.port = s[1].port /\ f.prints = s[1].prints
  PROVE  Sound(<<f>> \o Tail(s), n) /\ Len(<<f>> \o Tail(s)) = Len(s)
         /\ Head(<<f>> \o Tail(s)) = f
<1> DEFINE r == Tail(s)
           t == <<f>> \o r
<1>1. /\ Len(s) \in Nat \ {0} /\ Sequential(r) /\ Len(r) = Len(s) - 1
      /\ \A i \in 1..(Len(s) - 1) : r[i] = s[i + 1]
  BY Popped DEF Sound
<1> HIDE DEF r
<1>2. /\ Sequential(t) /\ t # << >> /\ Len(t) = Len(s)
      /\ t[1] = f /\ Head(t) = f /\ \A i \in 1..Len(r) : t[i + 1] = r[i]
  <2>1. /\ Sequential(t) /\ t # << >> /\ Len(t) = Len(r) + 1
        /\ t[1] = f /\ Head(t) = f /\ \A i \in 1..Len(r) : t[i + 1] = r[i]
    BY <1>1, Pushed
  <2>2. Len(r) + 1 = Len(s)
    BY <1>1
  <2> QED
    BY <2>1, <2>2
<1> HIDE DEF t
<1>3. ASSUME NEW i \in 1..Len(t)
      PROVE  /\ FrameOK(t[i]) /\ t[i].k = s[i].k
             /\ t[i].k = "repl" => t[i].port = s[i].port /\ t[i].prints = s[i].prints
  <2>1. CASE i = 1
    BY <1>2, <2>1
  <2>2. CASE i # 1
    <3>1. i - 1 \in 1..Len(r) /\ i \in 1..Len(s)
      BY <1>1, <1>2, <2>2
    <3>2. t[(i - 1) + 1] = r[i - 1] /\ r[i - 1] = s[(i - 1) + 1] /\ (i - 1) + 1 = i
      BY <1>1, <1>2, <3>1
    <3>3. t[i] = s[i]
      BY <3>2
    <3> QED
      BY <3>1, <3>3 DEF Sound, Nested
  <2> QED
    BY <2>1, <2>2
<1>4. t[Len(t)].k = "repl"
  <2>1. Len(t) \in 1..Len(t) /\ s[Len(t)].k = "repl"
    BY <1>1, <1>2 DEF Sound, Nested
  <2> QED
    BY <1>3, <2>1
<1>5. Nested(t, n)
  BY <1>2, <1>3, <1>4 DEF Sound, Nested
<1> QED
  BY <1>2, <1>5 DEF r, t, Sound

\* A loop reads a command: at the prompt the command waits for its answer, in
\* a file nothing changes for the prompt.
LEMMA ReadCommandKeeps ==
  ASSUME IInv, ReadCommand
  PROVE  IInv'
<1> DEFINE p == Top.port
<1>1. stack # << >> /\ Top.k = "repl" /\ ctl.m = "read"
  BY DEF ReadCommand, IInv, ControlOK, Working
<1>2. /\ Len(stack) \in Nat \ {0} /\ p \in 1..Len(ports)
      /\ p = 1 <=> Len(stack) = 1
  BY <1>1, TopIsFrame
<1>3. /\ ctl'.m = "eval" /\ UNCHANGED <<program, stack, log>>
      /\ ports' = [ports EXCEPT ![p] = Tail(ports[p])] /\ ports[p] # << >>
  BY Goes DEF ReadCommand, Consume
<1>4. /\ Sequential(ports[p]) /\ Len(ports[p]) \in Nat \ {0}
      /\ Sequential(Tail(ports[p])) /\ Len(Tail(ports[p])) = Len(ports[p]) - 1
  BY <1>2, <1>3, Popped DEF IInv, SequencesOK
<1> HIDE DEF p
<1>5. /\ Sequential(ports') /\ ports' # << >> /\ Len(ports') = Len(ports)
      /\ ports'[p] = Tail(ports[p])
      /\ \A i \in 1..Len(ports) : i # p => ports'[i] = ports[i]
  <2> DEFINE x == Tail(ports[p])
             q == [ports EXCEPT ![p] = x]
  <2>1. Sequential(ports)
    BY DEF IInv, SequencesOK
  <2>2. /\ Sequential(q) /\ q # << >> /\ Len(q) = Len(ports) /\ q[p] = x
        /\ \A i \in 1..Len(ports) : i # p => q[i] = ports[i]
    <3> HIDE DEF x
    <3> QED
      BY <1>2, <2>1, Replaced
  <2>3. ports' = q
    BY <1>3
  <2> HIDE DEF q
  <2> QED
    BY <2>2, <2>3
<1>6. SequencesOK'
  <2>1. \A i \in 1..Len(ports') : Sequential(ports'[i])
    BY <1>4, <1>5 DEF IInv, SequencesOK
  <2> QED
    BY <1>3, <1>5, <2>1 DEF IInv, SequencesOK
<1>7. Nested(stack, Len(ports))'
  BY <1>3, <1>5 DEF IInv, Nested
<1>8. ControlOK'
  BY <1>1, <1>3 DEF ControlOK, Working
<1>9. Busy'
  BY <1>3 DEF Busy
<1>10. Answered'
  <2>1. Len(ports) \in Nat \ {0}
    BY Popped DEF IInv, SequencesOK
  <2>2. CASE p = 1
    <3>1. ~Busy
      BY <1>1, <1>2, <2>2 DEF Busy
    <3>2. Len(log) = Len(program) - Len(ports[1])
      <4>1. PICK S : log \in Seq(S)
        BY DEF IInv, SequencesOK, Sequential
      <4>2. Len(log) \in Nat
        BY <4>1
      <4> QED
        BY <3>1, <4>2 DEF IInv, Answered
    <3>3. PICK S : program \in Seq(S)
      BY DEF IInv, SequencesOK, Sequential
    <3>4. Len(program) \in Nat
      BY <3>3
    <3>5. Len(ports[1]) \in Nat /\ Len(ports'[1]) = Len(ports[1]) - 1
      BY <1>4, <1>5, <2>2
    <3>6. Len(log) + 1 = Len(program) - Len(ports'[1])
      BY <3>2, <3>4, <3>5
    <3> QED
      BY <1>3, <1>9, <3>6 DEF Answered
  <2>3. CASE p # 1
    <3>1. Busy
      BY <1>1, <1>2, <2>3 DEF Busy
    <3>2. ports'[1] = ports[1]
      BY <1>5, <2>1, <2>3
    <3> QED
      BY <1>3, <1>9, <3>1, <3>2 DEF IInv, Answered
  <2> QED
    BY <2>2, <2>3
<1> QED
  BY <1>6, <1>7, <1>8, <1>10 DEF IInv

\* A loop has the value of its command: the prompt prints it, which answers
\* the command; a loop of load keeps it.
LEMMA GotValueKeeps ==
  ASSUME IInv, GotValue
  PROVE  IInv'
<1> DEFINE f == [Top EXCEPT !.val = ctl.v]
<1>1. Working /\ Top.k = "repl"
  BY DEF GotValue, Returned, Working
<1>2. Sound(stack, Len(ports)) /\ Len(log) + 1 = Len(program) - Len(ports[1])
      /\ Len(log) \in Nat
  BY <1>1, AtWork
<1>3. /\ FrameOK(Top) /\ Top = stack[1] /\ Len(stack) \in Nat \ {0}
      /\ Top.prints <=> Len(stack) = 1
  BY <1>1, <1>2, TopIsFrame DEF Sound
<1>4. /\ stack' = <<f>> \o Below /\ ctl' = [m |-> "read"] /\ UNCHANGED <<program, ports>>
      /\ log' = IF Top.prints THEN Append(log, Shown(ctl.v)) ELSE log
  BY DEF GotValue, Read
<1>5. FrameOK(f) /\ f.k = "repl" /\ f.port = Top.port /\ f.prints = Top.prints
  BY <1>1, <1>3 DEF FrameOK
<1> HIDE DEF f
<1>6. Sound(stack', Len(ports)) /\ Len(stack') = Len(stack) /\ Head(stack') = f
  BY <1>1, <1>2, <1>3, <1>4, <1>5, LoopUpdated DEF Below
<1>7. /\ Sequential(log')
      /\ Len(log') = IF Len(stack) = 1 THEN Len(log) + 1 ELSE Len(log)
  BY <1>3, <1>4, Appended DEF IInv, SequencesOK
<1>8. SequencesOK'
  BY <1>4, <1>6, <1>7 DEF IInv, SequencesOK, Sound
<1>9. Nested(stack, Len(ports))'
  BY <1>4, <1>6 DEF Sound, Nested
<1>10. ControlOK'
  BY <1>4, <1>5, <1>6 DEF ControlOK, Sound, Top
<1>11. Busy' <=> Len(stack) # 1
  BY <1>4, <1>6 DEF Busy
<1>12. Len(log) + 1 = Len(program') - Len(ports'[1])
  BY <1>2, <1>4
<1>13. Answered'
  <2>1. CASE Len(stack) = 1
    <3>1. Len(log') = Len(log) + 1 /\ ~Busy'
      BY <1>7, <1>11, <2>1
    <3>2. Len(log') = Len(program') - Len(ports'[1])
      BY <1>12, <3>1
    <3>3. Len(log') \in Nat
      BY <1>2, <3>1
    <3>4. ~Busy'
      BY <3>1
    <3> QED
      BY <3>2, <3>3, <3>4 DEF Answered
  <2>2. CASE Len(stack) # 1
    <3>1. Len(log') = Len(log) /\ Busy'
      BY <1>7, <1>11, <2>2
    <3>2. Len(log') + 1 = Len(program') - Len(ports'[1])
      BY <1>12, <3>1
    <3> QED
      BY <3>1, <3>2 DEF Answered
  <2> QED
    BY <2>1, <2>2
<1> QED
  BY <1>8, <1>9, <1>10, <1>13 DEF IInv

\* A loop has come to the end of its input.
LEMMA EndOfInputKeeps ==
  ASSUME IInv, EndOfInput
  PROVE  IInv'
<1>1. stack # << >> /\ Top.k = "repl" /\ ctl.m = "read"
  BY DEF EndOfInput, IInv, ControlOK, Working
<1>2. /\ Len(stack) \in Nat \ {0} /\ Sequential(Below)
      /\ Below = << >> <=> Len(stack) = 1
  BY <1>1, Popped DEF IInv, SequencesOK, Below
<1>3. stack' = Below /\ UNCHANGED <<program, ports, log>>
  BY DEF EndOfInput, Goto, Step
<1>4. SequencesOK'
  BY <1>2, <1>3 DEF IInv, SequencesOK
<1>5. CASE Len(stack) = 1
  <2>1. ctl'.m = "done" /\ stack' = << >>
    BY <1>2, <1>3, <1>5 DEF EndOfInput
  <2>2. ControlOK'
    BY <2>1 DEF ControlOK, Working
  <2>3. Nested(stack, Len(ports))'
    BY <2>1 DEF Nested
  <2>4. ~Busy /\ ~Busy'
    BY <1>1, <1>5, <2>1 DEF Busy
  <2>5. Answered'
    BY <1>3, <2>4 DEF IInv, Answered
  <2> QED
    BY <1>4, <2>2, <2>3, <2>5 DEF IInv
<1>6. CASE Len(stack) # 1
  <2>1. ctl'.m = "value"
    BY <1>2, <1>6, Goes DEF EndOfInput
  <2>2. Sound(Below, Len(ports))
    BY <1>1, <1>6, CallReturned DEF Below, Sound, IInv, SequencesOK
  <2>3. Nested(stack, Len(ports))'
    BY <1>3, <2>2 DEF Sound, Nested
  <2>4. ControlOK'
    BY <1>3, <2>1, <2>2 DEF ControlOK, Working, Sound
  <2>5. Busy /\ Busy'
    BY <1>1, <1>6, <2>1 DEF Busy
  <2>6. Answered'
    BY <1>3, <2>5 DEF IInv, Answered
  <2> QED
    BY <1>4, <2>3, <2>4, <2>6 DEF IInv
<1> QED
  BY <1>5, <1>6

-----------------------------------------------------------------------------
(* The invariant. *)

\* The prompt, before the first command.
LEMMA Initially ==
  ASSUME Init
  PROVE  IInv
<1>1. Sequential(program) /\ Len(program) \in Nat
  BY InputAssumption DEF Init, Sequential
<1>2. /\ ports = <<program>> /\ stack = Prompt /\ log = << >> /\ ctl = [m |-> "read"]
  BY DEF Init
<1>3. ports \in Seq({program}) /\ Len(ports) = 1 /\ ports[1] = program
  BY <1>2
<1>4. Sound(Prompt, 1) /\ Len(Prompt) = 1 /\ Head(Prompt).k = "repl"
  BY AtThePrompt
<1>5. Sequential(log) /\ Len(log) = 0
  <2>1. << >> \in Seq({})
    OBVIOUS
  <2> QED
    BY <1>2, <2>1 DEF Sequential
<1>6. SequencesOK
  <2>1. \A p \in 1..Len(ports) : Sequential(ports[p])
    BY <1>1, <1>3
  <2>2. Sequential(ports) /\ ports # << >>
    BY <1>3 DEF Sequential
  <2> QED
    BY <1>1, <1>2, <1>4, <1>5, <2>1, <2>2 DEF SequencesOK, Sound
<1>7. Nested(stack, Len(ports))
  BY <1>2, <1>3, <1>4 DEF Sound
<1>8. ControlOK
  BY <1>2, <1>4 DEF ControlOK, Working, Sound, Top
<1>9. ~Busy
  BY <1>2, <1>4 DEF Busy
<1>10. Answered
  BY <1>1, <1>3, <1>5, <1>9 DEF Answered
<1> QED
  BY <1>6, <1>7, <1>8, <1>10 DEF IInv

\* Every step of the evaluator keeps the invariant.
LEMMA Invariance == IInv /\ [Next]_vars => IInv'
<1> SUFFICES ASSUME IInv, [Next]_vars PROVE IInv'
  OBVIOUS
<1>1. CASE LispEval
  BY <1>1, LispEvalKeeps
<1>2. CASE Syntax
  BY <1>2, SyntaxKeeps
<1>3. CASE Procedures
  BY <1>3, ProceduresKeep
<1>4. CASE ReadCommand
  BY <1>4, ReadCommandKeeps
<1>5. CASE GotValue
  BY <1>5, GotValueKeeps
<1>6. CASE EndOfInput
  BY <1>6, EndOfInputKeeps
<1>7. CASE UNCHANGED vars
  BY <1>7
  DEF vars, IInv, SequencesOK, Nested, ControlOK, Working, Top, Answered, Busy
<1> QED
  BY <1>1, <1>2, <1>3, <1>4, <1>5, <1>6, <1>7 DEF Next, Loop, Ended

\* Whenever the prompt is ready for a command, every command read so far has
\* been answered by one line, its value or one error, whatever the commands
\* are, the files they load and the files those load, and wherever an error
\* takes the loop back to the prompt.
THEOREM EveryCommandAnsweredOnce == Spec => []OneAnswerEach
<1>1. IInv => OneAnswerEach
  <2> SUFFICES ASSUME IInv, ctl.m = "read", Len(stack) = 1
               PROVE  Len(log) = Len(program) - Len(ports[1])
    BY DEF OneAnswerEach
  <2>1. ~Busy
    BY DEF Busy
  <2>2. PICK S : log \in Seq(S)
    BY DEF IInv, SequencesOK, Sequential
  <2>3. Len(log) \in Nat
    BY <2>2
  <2> QED
    BY <2>1, <2>3 DEF IInv, Answered
<1> QED
  BY <1>1, Initially, Invariance, PTL DEF Spec
=============================================================================
