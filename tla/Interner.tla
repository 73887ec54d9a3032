------------------------------ MODULE Interner ------------------------------
(***************************************************************************)
(* What a symbol table promises: asking for a text returns the symbol of   *)
(* that text, the same one every time; texts never share a symbol and a    *)
(* symbol never loses or changes its text.  SymbolTable.tla implements it. *)
(***************************************************************************)
CONSTANTS
  Texts,      \* the texts a symbol can have
  NoAnswer    \* the value of `answer' before the first request

VARIABLES
  symbolOf,   \* text -> symbol, for the texts asked for so far
  answer      \* the last request and its answer

Init ==
  /\ DOMAIN symbolOf = {}
  /\ answer = NoAnswer

Taken == {symbolOf[t] : t \in DOMAIN symbolOf}

\* Asking for text t, which gets a symbol of its own if it has none.
Ask(t) ==
  /\ DOMAIN symbolOf' = DOMAIN symbolOf \cup {t}
  /\ \A u \in DOMAIN symbolOf : symbolOf'[u] = symbolOf[u]
  /\ t \notin DOMAIN symbolOf => symbolOf'[t] \notin Taken
  /\ answer' = [text |-> t, symbol |-> symbolOf'[t]]

Next == \E t \in Texts : Ask(t)

Spec == Init /\ [][Next]_<<symbolOf, answer>>
=============================================================================
