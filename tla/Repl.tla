-------------------------------- MODULE Repl --------------------------------
(***************************************************************************)
(* lisp_repl with the reader under it and the escapes for Emacs around it  *)
(* (minime.c, 962-995 and 1133-1145; emacs.c; io.c, 717-786).  What is     *)
(* evaluated is left to Evaluator.tla but for what reaches the reader: a   *)
(* constant is its value, a name is unbound, (load f) reads a file in a    *)
(* loop of its own, and read, read-char and peek-char take from the        *)
(* console what follows the command.                                       *)
(***************************************************************************)
EXTENDS Reader

CONSTANTS
  Scripts,   \* records: text, typed at the console and ended; answers; whole
  Files      \* file name -> its text

VARIABLES
  script,    \* the script that runs
  emacs,     \* the option -emacs
  sent,      \* the escapes sent to Emacs, by their letters
  log        \* the values and errors printed

ASSUME TextsAssumption == {s.text : s \in Scripts} \cup Range(Files) \subseteq Texts

vars == <<ports, in, ctl, stack, script, emacs, sent, log>>

Console == 1
Port(text) == [text |-> text, at |-> 1]
ReplFrame(port, prints, val) == [f |-> "repl", port |-> port, prints |-> prints, val |-> val]
Prompt == <<ReplFrame(Console, TRUE, Nil)>>

At_prompt == ctl' = [m |-> "prompt"]
Evaluated(v) == ctl' = [m |-> "result", v |-> v]
Send(escapes) == sent' = IF emacs THEN sent \o escapes ELSE sent
Same == UNCHANGED <<script, emacs, log>>

-----------------------------------------------------------------------------
\* Bug: the loop over a loaded file tells Emacs too.
BugStartRead ==
  /\ ctl.m = "prompt"
  /\ in' = Top.port /\ Read
  /\ Send(<<"p", "s">>)
  /\ Same /\ UNCHANGED <<ports, stack>>

\* emacs_prompt_for_command_expression, emacs_read_start, io_read
StartRead ==
  /\ ctl.m = "prompt"
  /\ in' = Top.port /\ Read
  /\ IF Top.prints THEN Send(<<"p", "s">>) ELSE UNCHANGED sent
  /\ Same /\ UNCHANGED <<ports, stack>>

ReadStep == ReaderStep /\ Same /\ UNCHANGED sent

GotCommand ==
  /\ Returned("repl") /\ ctl.v # end_of_file
  /\ ctl' = [m |-> "eval", x |-> ctl.v]
  /\ IF Top.prints THEN Send(<<"f">>) ELSE UNCHANGED sent
  /\ Same /\ UNCHANGED <<ports, in, stack>>

\* Bug: the loop goes round again at the end of the file.
BugEndOfInput ==
  /\ Returned("repl") /\ ctl.v = end_of_file
  /\ At_prompt /\ UNCHANGED stack
  /\ Same /\ UNCHANGED <<ports, in, sent>>

\* The loop over a file gives load its last value; the one at the prompt, main.
EndOfInput ==
  /\ Returned("repl") /\ ctl.v = end_of_file
  /\ IF Below = << >> THEN ctl' = [m |-> "done"] ELSE Evaluated(Top.val)
  /\ stack' = IF Below = << >> THEN stack ELSE Below
  /\ Same /\ UNCHANGED <<ports, in, sent>>

\* emacs_write_result, or the value behind its prompt
GotResult ==
  /\ ctl.m = "result"
  /\ IF Top.prints THEN log' = Append(log, ctl.v) /\ Send(<<"v">>) ELSE UNCHANGED <<log, sent>>
  /\ stack' = <<[Top EXCEPT !.val = ctl.v]>> \o Below
  /\ At_prompt
  /\ UNCHANGED <<ports, in, script, emacs>>

\* error(), the jump to main, emacs_set_default_directory
Recover ==
  /\ ctl.m = "error"
  /\ log' = Append(log, Err)
  /\ Send(<<"z", "w">>)
  /\ stack' = Prompt /\ At_prompt
  /\ UNCHANGED <<ports, in, script, emacs>>

-----------------------------------------------------------------------------
(* What a command does. *)

Evaluating(P(_)) == ctl.m = "eval" /\ P(ctl.x)
IsCall(x, name)  == is_list(x) /\ x # Nil /\ x.s[1] = Sym(name)
IsLoad(x)        == IsCall(x, "load") /\ Len(x.s) = 2 /\ x.s[2].k = "string" /\ x.s[2].n \in DOMAIN Files
IsConstant(x)    == ~is_pair(x) /\ ~is_symbol(x)
IsQuotation(x)   == IsCall(x, "quote") /\ Len(x.s) = 2
Characters       == {"read-char", "peek-char"}

EvalConstant ==
  /\ Evaluating(LAMBDA x : IsConstant(x) \/ IsQuotation(x))
  /\ Evaluated(maybe_unquote(ctl.x))
  /\ Same /\ UNCHANGED <<ports, in, stack, sent>>

\* io_load
EvalLoad ==
  /\ Evaluating(IsLoad)
  /\ ports' = Append(ports, Port(Files[ctl.x.s[2].n]))
  /\ stack' = Push(ReplFrame(Len(ports) + 1, FALSE, Nil))
  /\ At_prompt
  /\ Same /\ UNCHANGED <<in, sent>>

\* io_read, on the current input port
EvalRead ==
  /\ Evaluating(LAMBDA x : x = L(<<Sym("read")>>))
  /\ in' = Console /\ Read
  /\ stack' = Push([f |-> "primitive"])
  /\ Same /\ UNCHANGED <<ports, sent>>

GotDatum ==
  /\ Returned("primitive") /\ Evaluated(ctl.v)
  /\ stack' = Below
  /\ Same /\ UNCHANGED <<ports, in, sent>>

\* io_read_char and io_peek_char
EvalReadChar ==
  /\ Evaluating(LAMBDA x : \E name \in Characters : x = L(<<Sym(name)>>))
  /\ LET at == ports[Console].at
         c  == At(ports[Console].text, at)
     IN  /\ Evaluated(IF c = EOF THEN end_of_file ELSE Chr(c))
         /\ ports' = [ports EXCEPT ![Console].at =
                        IF ctl.x.s[1] = Sym("read-char") THEN Past(ports[Console].text, at + 1) ELSE at]
  /\ Same /\ UNCHANGED <<in, stack, sent>>

EvalOther ==
  /\ Evaluating(LAMBDA x : ~IsConstant(x) /\ ~IsQuotation(x) /\ ~IsLoad(x)
                             /\ \A name \in Characters \cup {"read"} : x # L(<<Sym(name)>>))
  /\ error
  /\ Same /\ UNCHANGED <<ports, in, sent>>

-----------------------------------------------------------------------------
Init ==
  /\ script \in Scripts
  /\ emacs \in BOOLEAN
  /\ ports = <<Port(script.text)>>
  /\ in = Console
  /\ ctl = [m |-> "prompt"]
  /\ stack = Prompt
  /\ sent = IF emacs THEN <<"w">> ELSE << >>
  /\ log = << >>

Ended == ctl.m \in {"done", "overflow"} /\ UNCHANGED vars

Loop == StartRead \/ ReadStep \/ GotCommand \/ EndOfInput \/ GotResult \/ Recover
Evaluation == EvalConstant \/ EvalLoad \/ EvalRead \/ GotDatum \/ EvalReadChar \/ EvalOther
Next == Loop \/ Evaluation \/ Ended

\* One thread that waits for nothing: what is typed is already there.
Spec == Init /\ [][Next]_vars /\ WF_vars(Next)

-----------------------------------------------------------------------------
(* Type invariant: every port stands at one of its characters or at its    *)
(* end, and under the calls in progress is the loop at the console.        *)
TypeOK ==
  /\ \A p \in DOMAIN ports : ports[p].at \in 1..(Len(ports[p].text) + 1)
  /\ in \in DOMAIN ports
  /\ ctl.m \in {"prompt", "read", "pair", "value", "error", "eval", "result", "done", "overflow"}
  /\ stack # << >> /\ Last(stack) = ReplFrame(Console, TRUE, Last(stack).val)
  /\ \A i \in 1..(Len(stack) - 1) :
       \/ stack[i].f \in ReaderFrames \cup {"primitive"}
       \/ stack[i].f = "repl" /\ stack[i].port \in DOMAIN ports \ {Console} /\ ~stack[i].prints

(* What a script answers: what write has written of a datum the reader can *)
(* make (no symbol that string->symbol made of any text, no procedure) is  *)
(* read back as that datum, whatever surrounds it; a token that is an error*)
(* gives one error and leaves the rest of the line to the next command     *)
(* (testcases.simple, "an additional oo unbound error"); read and read-char*)
(* start where the command ended; an error in a loaded file drops its rest.*)
Answers == ctl.m \in {"done", "overflow"} => log = script.answers

ReadsCommand ==
  /\ ctl.m \in {"read", "pair", "value", "overflow"}
  /\ \A i \in 1..(Len(stack) - 1) : stack[i].f \in ReaderFrames
MayFollow ==
  {<<"w", "p">>, <<"p", "s">>, <<"s", "f">>, <<"s", "z">>, <<"f", "v">>, <<"f", "z">>,
   <<"v", "p">>, <<"z", "w">>}

(* Emacs takes what comes between s and f, or s and z, for the time in     *)
(* which a command is read: s is the last escape exactly while the loop at *)
(* the prompt reads, not while a file or a (read) does, and each escape    *)
(* follows one it may follow.                                              *)
EmacsInStep ==
  emacs => /\ ctl.m \notin {"error", "done"} => (Last(sent) = "s" <=> ReadsCommand)
           /\ \A i \in 1..(Len(sent) - 1) : <<sent[i], sent[i + 1]>> \in MayFollow

(* The session comes to its end, whatever was typed; only a file that ends *)
(* inside a list does not: read_pair takes end of file for an element and  *)
(* recurs until the C stack is used up.                                    *)
Ends == <>(ctl.m = IF script.whole THEN "done" ELSE "overflow")
=============================================================================
