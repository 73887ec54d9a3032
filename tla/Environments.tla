---------------------------- MODULE Environments ----------------------------
(***************************************************************************)
(* environments.c and the part of lisp_eval that applies a procedure, on   *)
(* the pairs they work with.                                               *)
(*                                                                         *)
(* An environment is a list of frames; a frame is a pair whose car is the  *)
(* list of variables and whose cdr is the list of values.  A call uses the *)
(* procedure's parameter list and the argument list themselves as the two  *)
(* lists, so set! and define write into them.  That is sound as long as    *)
(* nobody else holds those lists: the arguments of an ordinary call are    *)
(* consed by list_of_values, but the last argument of apply is the user's  *)
(* own list.                                                               *)
(***************************************************************************)
EXTENDS Integers, Sequences, FiniteSets

CONSTANTS
  Vars,         \* symbols
  Vals,         \* objects that are neither pairs nor the empty list
  nil,          \* the empty list
  Formals,      \* the parameter lists of the program's lambdas: [names, rest]
  MaxArgs,      \* bound: the operands of a call
  MaxData,      \* bound: the pairs of data the user makes
  MaxPair,      \* bound: the number of pairs made
  NoRest,       \* `rest' of a parameter list that is a proper list
  UsesApply,    \* whether the program uses apply on lists it keeps
  UsesSetCdr    \* whether the program uses set-car! and set-cdr!

VARIABLES
  heap,         \* [car, cdr, fresh]: the pairs
  envs,         \* the environments made, which closures may hold on to
  held          \* the pairs of data the user has a reference to

vars == <<heap, envs, held>>

Pairs == 1..MaxPair

ASSUME ObjectsAssumption ==
  /\ nil \notin Vals /\ Vars \cap Vals = {} /\ nil \notin Vars
  /\ (Vars \cup Vals \cup {nil}) \cap Pairs = {}

ASSUME BoundsAssumption ==
  /\ MaxArgs \in Nat /\ MaxData \in Nat /\ MaxPair \in Nat
  /\ UsesApply \in BOOLEAN /\ UsesSetCdr \in BOOLEAN

ASSUME FormalsAssumption ==
  /\ NoRest \notin Vars
  /\ Formals \in Seq([names : Seq(Vars), rest : Vars \cup {NoRest}])

Objects == Vars \cup Vals \cup {nil} \cup Pairs

-----------------------------------------------------------------------------
(* Lists. *)

is_pair(h, o) == o \in 1..(h.fresh - 1)

\* For each pair, the pairs of the list it begins: n + 1 of them at most.
Walks(h) ==
  LET walk[n \in 0..MaxPair] ==
        [p \in Pairs |-> <<p>> \o (IF n = 0 \/ ~is_pair(h, h.cdr[p])
                                  THEN << >> ELSE walk[n - 1][h.cdr[p]])]
  IN walk

\* The pairs that make up a list; more than there are, if it is circular.
Spine(h, l) == IF is_pair(h, l) THEN Walks(h)[MaxPair][l] ELSE << >>

\* The object a list ends in: nil if it is proper, a pair if it is circular.
End(h, l) == LET sp == Spine(h, l) IN IF sp = << >> THEN l ELSE h.cdr[sp[Len(sp)]]

is_list(h, l) == End(h, l) = nil

\* (list-tail l n), n no longer than the list
ListTail(h, l, n) ==
  LET sp == Spine(h, l) IN IF n < Len(sp) THEN sp[n + 1] ELSE End(h, l)

length(h, l) == Len(Spine(h, l))

Elements(h, l) == LET sp == Spine(h, l) IN [k \in DOMAIN sp |-> h.car[sp[k]]]

\* Bug: the last pair is not given the tail.
BugPush(h, elems, tail) ==
  LET n == Len(elems)
      new == h.fresh..(h.fresh + n - 1)
  IN  [car   |-> [p \in Pairs |-> IF p \in new THEN elems[p - h.fresh + 1] ELSE h.car[p]],
       cdr   |-> [p \in Pairs |-> IF p \in new THEN p + 1 ELSE h.cdr[p]],
       fresh |-> h.fresh + n]

\* The pairs of the list of elems that ends in tail, consed on heap h.
Push(h, elems, tail) ==
  LET n == Len(elems)
      new == h.fresh..(h.fresh + n - 1)
  IN  [car   |-> [p \in Pairs |-> IF p \in new THEN elems[p - h.fresh + 1] ELSE h.car[p]],
       cdr   |-> [p \in Pairs |-> IF p \notin new THEN h.cdr[p]
                                  ELSE IF p = h.fresh + n - 1 THEN tail ELSE p + 1],
       fresh |-> h.fresh + n]

ListOn(h, elems, tail) == IF elems = << >> THEN tail ELSE h.fresh

SetCar(h, p, o) == [h EXCEPT !.car[p] = o]
SetCdr(h, p, o) == [h EXCEPT !.cdr[p] = o]

-----------------------------------------------------------------------------
(* Frames. *)

first_frame(h, env)      == h.car[env]
frame_variables(h, f)    == h.car[f]
frame_values(h, f)       == h.cdr[f]

\* The frames of an environment, from the inside out.
Frames(h, env) == Elements(h, env)

\* The place of var in a frame: the first occurrence among its variables.
Places(h, f, var) ==
  LET names == Elements(h, frame_variables(h, f))
  IN  {k \in DOMAIN names : names[k] = var}
At(h, f, var, k) == k \in Places(h, f, var) /\ \A j \in Places(h, f, var) : k <= j

\* The pair whose car is the value of var in frame f.
Cell(h, f, var, p) ==
  \E k \in 1..length(h, frame_values(h, f)) :
     At(h, f, var, k) /\ p = Spine(h, frame_values(h, f))[k]

\* The walk gets past the frame: var is not there, and there is a value to
\* step over for every variable, or cdr(vals) is an error.
Passed(h, f, var) ==
  /\ Places(h, f, var) = {}
  /\ length(h, frame_values(h, f)) >= length(h, frame_variables(h, f))

\* Bug: any frame that has the variable will do.
BugSeen(h, env, var, p) ==
  \E i \in DOMAIN Frames(h, env) : Cell(h, Frames(h, env)[i], var, p)

\* The pair that set_variable_value and lookup_variable_value find for var.
Seen(h, env, var, p) ==
  \E i \in DOMAIN Frames(h, env) :
     /\ Cell(h, Frames(h, env)[i], var, p)
     /\ \A j \in 1..(i - 1) : Passed(h, Frames(h, env)[j], var)

-----------------------------------------------------------------------------
(* The operations.  An error leaves the heap as it was, but for garbage. *)

\* set_variable_value
SetVariable(env, var, val) ==
  \E p \in Pairs :
     /\ Seen(heap, env, var, p)
     /\ heap' = SetCar(heap, p, val)
     /\ UNCHANGED <<envs, held>>

\* Bug: the value is not put in front of the values.
BugAddBinding(h, f, var, val) ==
  LET h1 == Push(h, <<var>>, frame_variables(h, f)) IN SetCar(h1, f, h.fresh)

\* add_binding_to_frame: two pairs in front of the two lists
AddBinding(h, f, var, val) ==
  LET h1 == Push(h, <<var>>, frame_variables(h, f))
      h2 == SetCar(h1, f, h.fresh)
      h3 == Push(h2, <<val>>, frame_values(h2, f))
  IN  SetCdr(h3, f, h2.fresh)

\* define_variable
DefineVariable(env, var, val) ==
  LET f == first_frame(heap, env) IN
  /\ IF Places(heap, f, var) # {}
     THEN \E p \in Pairs : Cell(heap, f, var, p) /\ heap' = SetCar(heap, p, val)
     ELSE /\ Passed(heap, f, var)
          /\ heap.fresh + 2 <= MaxPair + 1
          /\ heap' = AddBinding(heap, f, var, val)
  /\ UNCHANGED <<envs, held>>

\* Bug: the rest name is put in a pair of its own, but the names are not copied.
BugFixupVarargs(h, variables, args) ==
  LET n  == length(h, variables)
      h1 == Push(h, <<End(h, variables)>>, nil)
      h2 == Push(h1, <<ListTail(h, args, n)>>, nil)
      h3 == SetCdr(h2, Spine(h, variables)[n], h.fresh)
  IN  [heap |-> IF n = 0 THEN h2 ELSE SetCdr(h3, Spine(h, args)[n], h1.fresh),
       vars |-> IF n = 0 THEN h.fresh ELSE variables,
       vals |-> IF n = 0 THEN h1.fresh ELSE args]

\* Bug: the improper list of names is used for the frame as it is.
BugVarargsNames(h, variables, args) ==
  LET n  == length(h, variables)
      h1 == Push(h, <<ListTail(h, args, n)>>, nil)
  IN  [heap |-> IF n = 0 THEN h1 ELSE SetCdr(h1, Spine(h, args)[n], h.fresh),
       vars |-> variables,
       vals |-> IF n = 0 THEN h.fresh ELSE args]

\* fixup_varargs: a copy of the names with the rest name at its end, and the
\* arguments beyond them wrapped in a pair that takes their place.
FixupVarargs(h, variables, args) ==
  LET names == Elements(h, variables)
      n     == Len(names)
      rest  == End(h, variables)
      h1    == Push(h, Append(names, rest), nil)
      h2    == Push(h1, <<ListTail(h, args, n)>>, nil)
  IN  [heap |-> IF n = 0 THEN h2 ELSE SetCdr(h2, Spine(h, args)[n], h1.fresh),
       vars |-> h.fresh,
       vals |-> IF n = 0 THEN h1.fresh ELSE args]

\* Bug: the new frame is not put on the environment of the procedure.
BugExtendEnvironment(h, variables, vals, env) ==
  LET h1 == Push(h, <<variables>>, vals) IN Push(h1, <<h.fresh>>, nil)

\* extend_environment: a frame on the two lists, a pair on the environment.
ExtendEnvironment(h, variables, vals, env) ==
  LET h1 == Push(h, <<variables>>, vals) IN Push(h1, <<h.fresh>>, env)

\* The program's text: its parameter lists, one after the other.
Tail_(i) == IF Formals[i].rest = NoRest THEN nil ELSE Formals[i].rest
Text[i \in 0..Len(Formals)] ==
  IF i = 0
  THEN [car |-> [p \in Pairs |-> nil], cdr |-> [p \in Pairs |-> nil], fresh |-> 1]
  ELSE Push(Text[i - 1], Formals[i].names, Tail_(i))

\* There is room for the text and the global environment.
ASSUME RoomAssumption == Text[Len(Formals)].fresh + 2 <= MaxPair + 1

procedure_parameters(i) == ListOn(Text[i - 1], Formals[i].names, Tail_(i))

\* apply: in lisp_eval, from the label on.  The procedure is the one lambda i
\* made in env; heap h holds the argument list.  The number of arguments must
\* be right, or error() is called before anything is written.
ApplyProcedure(h, i, env, args) ==
  LET variables == procedure_parameters(i)
      fixed     == FixupVarargs(h, variables, args)
      n         == length(h, variables)
      bound     == IF is_list(h, variables)
                   THEN ExtendEnvironment(h, variables, args, env)
                   ELSE ExtendEnvironment(fixed.heap, fixed.vars, fixed.vals, env)
  IN  /\ IF is_list(h, variables) THEN length(h, args) = n ELSE length(h, args) >= n
      /\ bound.fresh <= MaxPair + 1
      /\ heap' = bound
      /\ envs' = envs \cup {bound.fresh - 1}
      \* the rest list is data: the body can hand it out
      /\ held' = held \cup {Spine(h, args)[k] : k \in (n + 1)..length(h, args)}

ValLists(k) == UNION {[1..n -> Vals] : n \in 0..k}
ArgLists == ValLists(MaxArgs)

\* (proc arg ...): list_of_values conses the values.
Call(i, env, vals) ==
  LET h == Push(heap, vals, nil) IN
  /\ h.fresh <= MaxPair + 1
  /\ ApplyProcedure(h, i, env, ListOn(heap, vals, nil))

\* (apply proc arg ... lst): list_of_apply_values conses the values on lst.
Apply(i, env, vals, lst) ==
  LET h == Push(heap, vals, lst) IN
  /\ UsesApply
  /\ is_list(heap, lst)
  /\ h.fresh <= MaxPair + 1
  /\ ApplyProcedure(h, i, env, ListOn(heap, vals, lst))

\* (list val ...)
MakeList(vals) ==
  LET h == Push(heap, vals, nil) IN
  /\ h.fresh <= MaxPair + 1
  /\ Cardinality(held) + Len(vals) <= MaxData
  /\ heap' = h
  /\ held' = held \cup heap.fresh..(h.fresh - 1)
  /\ UNCHANGED envs

UserSetCar(p, o) ==
  /\ UsesSetCdr
  /\ heap' = SetCar(heap, p, o)
  /\ UNCHANGED <<envs, held>>

UserSetCdr(p, o) ==
  /\ UsesSetCdr
  /\ heap' = SetCdr(heap, p, o)
  /\ UNCHANGED <<envs, held>>

-----------------------------------------------------------------------------
\* The text is read, and one global environment made.
Init ==
  /\ heap = ExtendEnvironment(Text[Len(Formals)], nil, nil, nil)
  /\ envs = {heap.fresh - 1}
  /\ held = {}

Next ==
  \/ \E env \in envs, i \in DOMAIN Formals, vals \in ArgLists : Call(i, env, vals)
  \/ \E env \in envs, i \in DOMAIN Formals, vals \in ArgLists, lst \in held :
        Apply(i, env, vals, lst)
  \/ \E env \in envs, var \in Vars, val \in Vals : SetVariable(env, var, val)
  \/ \E env \in envs, var \in Vars, val \in Vals : DefineVariable(env, var, val)
  \/ \E vals \in ValLists(MaxData) \ {<< >>} : MakeList(vals)
  \/ \E p \in held, val \in Vals : UserSetCar(p, val)
  \/ \E p \in held, o \in held \cup {nil} : UserSetCdr(p, o)

Spec == Init /\ [][Next]_vars

-----------------------------------------------------------------------------
(* Correctness. *)

\* The variables have their types, and a pair holds no pair not made yet.
TypeOK ==
  /\ heap \in [car : [Pairs -> Objects], cdr : [Pairs -> Objects], fresh : 1..(MaxPair + 1)]
  /\ \A p \in 1..(heap.fresh - 1) :
        heap.car[p] \notin heap.fresh..MaxPair /\ heap.cdr[p] \notin heap.fresh..MaxPair
  /\ envs \subseteq 1..(heap.fresh - 1)
  /\ held \subseteq 1..(heap.fresh - 1)

\* The walks of environments.c end: an environment is a finite list of frames,
\* the variables of a frame a finite list, whatever is done to the values.
WalksEnd ==
  \A e \in envs :
     /\ is_list(heap, e)
     /\ \A i \in DOMAIN Frames(heap, e) :
           is_list(heap, frame_variables(heap, Frames(heap, e)[i]))

\* A frame has as many values as variables, so that no walk runs off the
\* values into the CAR and CDR errors of safe_car and safe_cdr.
FramesAligned ==
  \A e \in envs :
     LET f == first_frame(heap, e) IN
     /\ is_list(heap, frame_values(heap, f))
     /\ length(heap, frame_values(heap, f)) = length(heap, frame_variables(heap, f))

\* "... but must not mutate vars": the parameter lists of the program's text
\* stay as they were read, although frames are built on them.
TextIntact ==
  \A i \in DOMAIN Formals :
     /\ Elements(heap, procedure_parameters(i)) = Formals[i].names
     /\ End(heap, procedure_parameters(i)) = Tail_(i)

\* "It's safe to mutate args": no call changes a pair of the user's data.
CallsLeaveDataAlone ==
  [][envs' # envs =>
        \A p \in held : heap'.car[p] = heap.car[p] /\ heap'.cdr[p] = heap.cdr[p]]_vars

\* The bindings the pairs stand for.
ScopeOf(e) ==
  LET f  == first_frame(heap, e)
      xs == Elements(heap, frame_variables(heap, f))
      vs == Elements(heap, frame_values(heap, f))
  IN  [bind  |-> [x \in {xs[k] : k \in DOMAIN xs} |->
                    vs[CHOOSE k \in DOMAIN xs : xs[k] = x /\ \A j \in 1..(k-1) : xs[j] # x]],
       chain |-> Spine(heap, e)]

Scoping == INSTANCE Scopes WITH scope <- [e \in envs |-> ScopeOf(e)]

\* Frames on pairs implement lexical scopes: set! and define change one binding,
\* a call makes one scope, and nothing done to data changes a binding.
ImplementsScopes == Scoping!Spec

\* What the i-th lambda binds when called with vals: a variable to its value,
\* the rest variable to the list r of the others.
Binding(i, vals, r) ==
  LET names == Formals[i].names
      bound == {names[k] : k \in DOMAIN names}
  IN  [x \in bound \cup ({Formals[i].rest} \ {NoRest}) |->
         IF x \notin bound THEN r
         ELSE vals[CHOOSE k \in DOMAIN names : names[k] = x /\ \A j \in 1..(k-1) : names[j] # x]]

\* Each operation has the effect its name has on lexical scopes: set! writes
\* the innermost visible binding, define one of its own scope, and a call with
\* given values binds exactly the parameters, the rest to a list of the others.
OperationsMeanScopes ==
  [][\E s \in {[e \in envs |-> ScopeOf(e)]}, t \in {[e \in envs |-> ScopeOf(e)]'} :
       \A env \in envs :
          IF envs' = envs
          THEN \A var \in Vars, val \in Vals :
                 /\ SetVariable(env, var, val) => Scoping!Assigns(s, t, env, var, val)
                 /\ DefineVariable(env, var, val) => Scoping!Defines(s, t, env, var, val)
          ELSE \A i \in DOMAIN Formals, vals \in ArgLists :
                 Call(i, env, vals) =>
                   \E r \in Objects :
                     /\ Scoping!Enters(s, t, env, Binding(i, vals, r))
                     /\ Elements(heap', r) = SubSeq(vals, Len(Formals[i].names) + 1, Len(vals))
                     /\ End(heap', r) = nil]_vars
=============================================================================
