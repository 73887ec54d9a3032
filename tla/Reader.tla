------------------------------- MODULE Reader -------------------------------
(***************************************************************************)
(* lisp_read, read_pair and read_vector (io.c, 287-480) as a machine over  *)
(* texts: `ctl' says what the innermost C call does next and `stack' holds *)
(* the calls it returns to.  A list costs one call of read_pair for each   *)
(* of its elements, and the C stack has MaxDepth of them.                  *)
(***************************************************************************)
EXTENDS Lexer

CONSTANTS
  Texts,      \* the texts that may be read
  MaxDepth    \* bound: the calls the C stack has room for

VARIABLES
  ports,   \* port -> [text, at], at being the next character fgetc returns
  in,      \* the port that is read
  ctl,     \* what the innermost call does next
  stack    \* the calls in progress, the innermost first

ASSUME DepthAssumption == MaxDepth \in Nat
\* A text is a sequence of characters, however long.
ASSUME CharactersAssumption == \A t \in Texts : t \in Seq(Range(t))

Top   == Head(stack)
Below == Tail(stack)
Push(frame) == <<frame>> \o stack

\* What the lexer makes of every position of every text.
Positions(t) == 1..(Len(t) + 1)
AfterSpace == [t \in Texts |-> [i \in Positions(t) |-> skip_atmospheric(t, i)]]
Tokens     == [t \in Texts |-> [i \in Positions(t) |-> read_token(t, i)]]

Input       == ports[in].text
Here        == AfterSpace[Input][ports[in].at]
Peek        == At(Input, Here)
Follows(n)  == At(Input, Here + n)
\* The atmosphere and n characters behind it are consumed.
MoveTo(i)   == ports' = [ports EXCEPT ![in].at = Past(Input, i)] /\ UNCHANGED in
Consume(n)  == MoveTo(Here + n)

Read        == ctl' = [m |-> "read"]
ReadPair    == ctl' = [m |-> "pair"]
Return(v)   == ctl' = [m |-> "value", v |-> v]
\* error(): how the calls in progress are dropped is for the program to say
error       == ctl' = [m |-> "error"] /\ UNCHANGED stack

Room(m) == ctl.m = m /\ Len(stack) < MaxDepth

-----------------------------------------------------------------------------
(* lisp_read *)

ReadEnd ==
  /\ Room("read") /\ Peek = EOF
  /\ Consume(0) /\ Return(end_of_file) /\ UNCHANGED stack

IsList == Peek = "("
IsVector == Peek = "#" /\ Follows(1) = "("
IsCommentedForm == Peek = "#" /\ Follows(1) = ";"
Quotes == [x \in {"'", Backquote, ","} |->
             CASE x = "'" -> "quote" [] x = Backquote -> "quasiquote" [] x = "," -> "unquote"]

ReadList == Room("read") /\ IsList /\ Consume(1) /\ ReadPair /\ UNCHANGED stack

\* The ( is read again, by the call that reads the elements.
ReadVector ==
  Room("read") /\ IsVector /\ Consume(1) /\ Read /\ stack' = Push([f |-> "vector"])

\* The form is read and discarded; the loop goes on.
ReadCommentedForm ==
  Room("read") /\ IsCommentedForm /\ Consume(2) /\ Read /\ stack' = Push([f |-> "discard"])

ReadQuotation ==
  /\ Room("read") /\ Peek \in DOMAIN Quotes
  /\ LET splices == Peek = "," /\ Follows(1) = "@" IN
     /\ Consume(IF splices THEN 2 ELSE 1)
     /\ stack' = Push([f |-> "quote", name |-> IF splices THEN "unquote-splicing" ELSE Quotes[Peek]])
  /\ Read

ReadToken ==
  /\ Room("read") /\ Peek \notin {EOF, "("} \cup DOMAIN Quotes /\ ~IsVector /\ ~IsCommentedForm
  /\ LET token == Tokens[Input][Here] IN
       /\ MoveTo(token.at)
       /\ IF token.v = Err THEN error ELSE Return(token.v) /\ UNCHANGED stack

-----------------------------------------------------------------------------
(* read_pair *)

EndList == Room("pair") /\ Peek = ")" /\ Consume(1) /\ Return(Nil) /\ UNCHANGED stack

\* End of file is no ): lisp_read returns it as an element.
ReadElement == Room("pair") /\ Peek # ")" /\ Consume(0) /\ Read /\ stack' = Push([f |-> "car"])

Returned(frame) == ctl.m = "value" /\ stack # << >> /\ Top.f = frame

AfterElement ==
  /\ Returned("car")
  /\ IF Peek = "." /\ Follows(1) # "."
     THEN /\ Consume(2)
          /\ IF Follows(1) \in Spaces
             THEN Read /\ stack' = <<[f |-> "dotted", car |-> ctl.v]>> \o Below
             ELSE error
     ELSE Consume(0) /\ ReadPair /\ stack' = <<[f |-> "cdr", car |-> ctl.v]>> \o Below

EndRest ==
  /\ Returned("cdr") /\ Return(cons(Top.car, ctl.v)) /\ stack' = Below /\ UNCHANGED <<ports, in>>

EndDotted ==
  /\ Returned("dotted") /\ Consume(1)
  /\ IF Peek = ")" THEN Return(cons(Top.car, ctl.v)) /\ stack' = Below ELSE error

EndQuotation ==
  /\ Returned("quote") /\ Return(L(<<Sym(Top.name), ctl.v>>))
  /\ stack' = Below /\ UNCHANGED <<ports, in>>

EndVector ==
  /\ Returned("vector") /\ UNCHANGED <<ports, in>>
  /\ IF is_list(ctl.v) THEN Return(Vec(ctl.v.s)) /\ stack' = Below ELSE error

Discard == Returned("discard") /\ Read /\ stack' = Below /\ UNCHANGED <<ports, in>>

\* The C stack ends, and with it the process.
StackOverflow ==
  /\ ctl.m \in {"read", "pair"} /\ Len(stack) >= MaxDepth
  /\ ctl' = [m |-> "overflow"] /\ UNCHANGED <<ports, in, stack>>

ReaderStep ==
  \/ ReadEnd \/ ReadList \/ ReadVector \/ ReadCommentedForm \/ ReadQuotation \/ ReadToken
  \/ EndList \/ ReadElement \/ AfterElement \/ EndRest \/ EndDotted
  \/ EndQuotation \/ EndVector \/ Discard \/ StackOverflow

ReaderFrames == {"car", "cdr", "dotted", "quote", "vector", "discard"}
=============================================================================
