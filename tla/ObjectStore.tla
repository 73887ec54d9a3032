---------------------------- MODULE ObjectStore ----------------------------
(***************************************************************************)
(* What the runtime of minime promises the evaluator and the primitives:   *)
(* a store of typed objects.  Making an object adds one object and touches *)
(* no other; an object keeps its type and its size for ever; only the      *)
(* contents of a pair, a vector or a string, and the flags of a port, ever *)
(* change, and one operation changes one object.  A field never names an   *)
(* object that does not exist.  Runtime.tla implements this with a bump    *)
(* pointer and tagged words.                                               *)
(***************************************************************************)
EXTENDS Naturals, Sequences

CONSTANT
  Immediates      \* the field values that name no object: fixnums, characters

VARIABLE
  store           \* object -> [type, fields, raw]: its slots and its raw part

MutableTypes == {"pair", "vector", "string", "port"}

\* Every field of an object holds an immediate or an object of the store.
ClosedStore(s) ==
  \A o \in DOMAIN s :
     \A i \in 1..Len(s[o].fields) : s[o].fields[i] \in Immediates \cup DOMAIN s

\* A constructor takes store s to t: one new object.
Makes(s, t) ==
  \E o \in DOMAIN t \ DOMAIN s :
     /\ DOMAIN t = DOMAIN s \cup {o}
     /\ \A p \in DOMAIN s : t[p] = s[p]

\* A mutator takes s to t: the contents of one mutable object.
Mutates(s, t) ==
  \E o \in DOMAIN s :
     /\ s[o].type \in MutableTypes
     /\ DOMAIN t = DOMAIN s
     /\ \A p \in DOMAIN s \ {o} : t[p] = s[p]
     /\ t[o].type = s[o].type
     /\ Len(t[o].fields) = Len(s[o].fields)
     /\ Len(t[o].raw) = Len(s[o].raw)

Step(s, t) == (Makes(s, t) \/ Mutates(s, t)) /\ ClosedStore(t)

Init == ClosedStore(store)
Next == \E s \in {store}, t \in {store'} : Step(s, t)
Spec == Init /\ [][Next]_store
=============================================================================
