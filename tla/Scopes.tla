------------------------------- MODULE Scopes -------------------------------
(***************************************************************************)
(* Lexical scoping as the evaluator means it: a scope binds variables and  *)
(* sees, after its own, the bindings of the scopes that enclose it.  A     *)
(* call makes one scope; set! changes the one binding that is visible;     *)
(* define changes or adds one binding of the innermost scope.  Nothing     *)
(* else a program does changes a binding.  Environments.tla implements     *)
(* this with lists of pairs.                                               *)
(*                                                                         *)
(* Each operation is a relation between the scopes before, s, and after, t.*)
(***************************************************************************)
EXTENDS Naturals, Sequences

VARIABLE
  scope     \* scope -> [bind : variable -> value, chain : itself, then outwards]

Binds(s, e, x) == x \in DOMAIN s[e].bind

\* o is the scope whose x is seen from e.
Owner(s, e, x, o) ==
  \E i \in DOMAIN s[e].chain :
     /\ o = s[e].chain[i]
     /\ Binds(s, o, x)
     /\ \A j \in 1..(i - 1) : ~Binds(s, s[e].chain[j], x)

\* x becomes v in e: no other binding is changed or added.
Bound(s, t, e, x, v) ==
  /\ DOMAIN t = DOMAIN s
  /\ \A f \in DOMAIN s \ {e} : t[f] = s[f]
  /\ t[e].chain = s[e].chain
  /\ DOMAIN t[e].bind = DOMAIN s[e].bind \cup {x}
  /\ t[e].bind[x] = v
  /\ \A y \in DOMAIN s[e].bind \ {x} : t[e].bind[y] = s[e].bind[y]

Assigns(s, t, e, x, v) ==
  \E o \in DOMAIN s : Owner(s, e, x, o) /\ Bound(s, t, o, x, v)

Defines(s, t, e, x, v) == Bound(s, t, e, x, v)

\* A call of a procedure made in `outer' makes a scope with these bindings.
Enters(s, t, outer, bind) ==
  \E e \in DOMAIN t \ DOMAIN s :
     /\ DOMAIN t = DOMAIN s \cup {e}
     /\ \A f \in DOMAIN s : t[f] = s[f]
     /\ t[e] = [bind |-> bind, chain |-> <<e>> \o s[outer].chain]

Step(s, t) ==
  \/ \E e \in DOMAIN t \ DOMAIN s, outer \in DOMAIN s : Enters(s, t, outer, t[e].bind)
  \/ \E e \in DOMAIN s : \E x \in DOMAIN t[e].bind : Bound(s, t, e, x, t[e].bind[x])

Init == \A e \in DOMAIN scope : scope[e].chain = <<e>>
Next == \E s \in {scope}, t \in {scope'} : Step(s, t)
Spec == Init /\ [][Next]_scope
=============================================================================
