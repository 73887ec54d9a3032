-------------------------------- MODULE Data --------------------------------
(***************************************************************************)
(* The primitives on pairs, vectors and strings (primitives.c, 37-102,     *)
(* 344-755 and 841-1375; runtime.h, 142-215 and 344-380).  A situation is  *)
(* a store, as a program can have made it with cons, set-car! and          *)
(* set-cdr!, and one call on it.  What walks pairs takes a step for each   *)
(* turn of its loop, for the pairs may lie in a circle; what works on      *)
(* objects that are as long as they say is one step.                       *)
(***************************************************************************)
EXTENDS Fixnums

CONSTANTS
  Situations,   \* a sequence of [stores, calls]; a call is [p(rimitive), op, ci, args]
  MaxDepth      \* bound: the calls of is_equal the C stack has room for

VARIABLES
  given,   \* the situation
  store,   \* address -> an object: [k, e], e being its elements or characters
  walk,    \* the loop that runs
  result   \* what the primitive has returned, and what went wrong

vars == <<given, store, walk, result>>

ASSUME DepthAssumption == MaxDepth \in Nat

Ref(a)      == [k |-> "ref", a |-> a]
nil         == [k |-> "nil"]
unspecified == [k |-> "unspecified"]
Symbol(n)   == [k |-> "symbol", n |-> n]
Pair(a, d)  == [k |-> "pair", e |-> <<a, d>>]
Vector(s)   == [k |-> "vector", e |-> s]
Text(s)     == [k |-> "string", e |-> s]

Is(s, v, kind) == v.k = "ref" /\ s[v.a].k = kind
is_pair(v)     == Is(store, v, "pair")
is_vector(v)   == Is(store, v, "vector")
is_string(v)   == Is(store, v, "string")
car(v)         == store[v.a].e[1]
cdr(v)         == store[v.a].e[2]
elements(v)    == store[v.a].e

\* What a program can hold, and what an object of its store can be.
Value(s, v) ==
  /\ v.k \in {"nil", "unspecified", "boolean", "symbol", "fixnum", "character", "ref"}
  /\ v.k = "ref" => v = Ref(v.a) /\ v.a \in DOMAIN s
  /\ v.k = "fixnum" => v = Fixnum(v.i) /\ v.i \in Fixnums
  /\ v.k = "character" => v = Char(v.c) /\ v.c \in -128..127
Object(s, o) ==
  /\ o.k \in {"pair", "vector", "string"}
  /\ o.e \in Seq(Range(o.e)) /\ (o.k = "pair" => Len(o.e) = 2)
  /\ \A x \in Range(o.e) : IF o.k = "string" THEN x \in -128..127 ELSE Value(s, x)

ASSUME SituationsAssumption ==
  \A i \in DOMAIN Situations : \A s \in Situations[i].stores, c \in Situations[i].calls :
    /\ s \in Seq(Range(s)) /\ \A n \in DOMAIN s : Object(s, s[n])
    /\ Len(s) \in Fixnums   \* a fixnum can count them
    /\ c.args \in Seq(Range(c.args)) /\ \A v \in Range(c.args) : Value(s, v)
    /\ c.p = "pair_fun" => c.op \in Seq({1, 2})
    /\ c.p \in {"number_fun", "char_fun", "string_fun"} => c.op \in Ops
    /\ c.p \in {"char_fun", "string_fun"} => c.ci \in BOOLEAN

args      == given.call.args
primitive == given.call.p

\* is_last_elt and friends look at one pair; set_car, set_cdr write to one.
Put(s, v, i, x) == [s EXCEPT ![v.a].e[i] = x]
Next_free       == Len(store) + 1
NewList(s, end) ==
  store \o [j \in DOMAIN s |-> Pair(s[j], IF j = Len(s) THEN end ELSE Ref(Next_free + j))]
ListOf(s)       == IF s = << >> THEN nil ELSE Ref(Next_free)

Idle   == [m |-> "start"]
Done   == walk' = [m |-> "done"]
Return(v)  == Done /\ result' = v /\ UNCHANGED <<given, store>>
Fail       == Return(Error)
Make(s, v) == Done /\ store' = s /\ result' = v /\ UNCHANGED given
New(object) == Make(Append(store, object), Ref(Next_free))
Loop(w)    == walk' = w /\ UNCHANGED <<given, store, result>>

-----------------------------------------------------------------------------
(* is_list: the tortoise o and the rabbit. *)

Walkers == {"list?", "length", "append", "reverse", "list-tail", "list-ref",
            "memq", "member", "assq", "assoc", "list->vector", "list->string"}

\* The argument each walks, and the number of its arguments.
ListArgument == [q \in Walkers |-> IF q \in {"memq", "member", "assq", "assoc"} THEN 2 ELSE 1]
Arguments    == [q \in Walkers \ {"append"} |->
                   IF q \in {"list-tail", "list-ref", "memq", "member", "assq", "assoc"} THEN 2 ELSE 1]

\* Looking at the argument i; head and tail are the list append has made so far.
Look(i, head, tail) ==
  [m |-> "finite", i |-> i, o |-> args[i], rabbit |-> args[i], head |-> head, tail |-> tail]
Checked(w, list) ==
  [m |-> "checked", i |-> w.i, list |-> list, head |-> w.head, tail |-> w.tail]

\* Bug: the two are compared before the rabbit has moved.
BugHare ==
  /\ walk.m = "finite" /\ is_pair(walk.rabbit)
  /\ LET once == cdr(walk.rabbit) IN
     IF ~is_pair(once) THEN Loop(Checked(walk, once = nil))
     ELSE IF cdr(once) = walk.rabbit THEN Loop(Checked(walk, FALSE))
     ELSE Loop([walk EXCEPT !.o = cdr(@), !.rabbit = cdr(once)])

\* One turn: the rabbit two pairs, the tortoise one.
Hare ==
  /\ walk.m = "finite" /\ is_pair(walk.rabbit)
  /\ LET once == cdr(walk.rabbit) IN
     IF ~is_pair(once) THEN Loop(Checked(walk, once = nil))
     ELSE IF cdr(once) = cdr(walk.o) THEN Loop(Checked(walk, FALSE))
     ELSE Loop([walk EXCEPT !.o = cdr(@), !.rabbit = cdr(once)])

\* The rabbit is at the end.
HareEnds ==
  /\ walk.m = "finite" /\ ~is_pair(walk.rabbit)
  /\ Loop(Checked(walk, walk.rabbit = nil))

StartWalk ==
  /\ walk.m = "start" /\ primitive \in Walkers
  /\ CASE primitive = "append" /\ args = << >>   -> Return(nil)
       [] primitive = "append" /\ Len(args) = 1  -> Return(args[1])
       [] primitive = "append" /\ Len(args) > 1  -> Loop(Look(1, nil, nil))
       [] primitive # "append" /\ Len(args) # Arguments[primitive] -> Fail
       [] primitive # "append" /\ Len(args) = Arguments[primitive] -> Loop(Look(ListArgument[primitive], nil, nil))

\* What each does with a list, and with what is none.
Refuses  == walk.m = "checked" /\ primitive # "list?" /\ ~walk.list /\ Fail
IsList   == walk.m = "checked" /\ primitive = "list?" /\ Return(Boolean(walk.list))
Accepted == walk.m = "checked" /\ walk.list

Counting   == {"list-tail", "list-ref"}
Converting == {"list->vector", "list->string"}
StartLoop ==
  /\ Accepted /\ primitive \notin {"list?", "reverse"} \cup Converting
  /\ IF primitive \in Counting /\ (~is_fixnum(args[2]) \/ (is_fixnum(args[2]) /\ args[2].i < 0)) THEN Fail
     ELSE Loop([m |-> primitive, i |-> walk.i, lst |-> args[walk.i], head |-> walk.head, tail |-> walk.tail, n |-> 0,
                frames |-> << >>])

-----------------------------------------------------------------------------
(* length, list-tail and list-ref *)

Count ==
  /\ walk.m = "length"
  /\ IF walk.lst = nil THEN Return(make_fixnum(walk.n))
     ELSE Loop([walk EXCEPT !.lst = cdr(@), !.n = @ + 1])

\* Bug: the last pair has nothing behind it.
BugSkip ==
  /\ walk.m \in Counting /\ walk.n < args[2].i
  /\ IF walk.lst = nil \/ cdr(walk.lst) = nil THEN Fail ELSE Loop([walk EXCEPT !.lst = cdr(@), !.n = @ + 1])

Skip ==
  /\ walk.m \in Counting /\ walk.n < args[2].i
  /\ IF walk.lst = nil THEN Fail ELSE Loop([walk EXCEPT !.lst = cdr(@), !.n = @ + 1])

Skipped ==
  /\ walk.m \in Counting /\ walk.n = args[2].i
  /\ CASE primitive = "list-tail" -> Return(walk.lst)
       [] primitive = "list-ref" /\ walk.lst = nil -> Fail
       [] primitive = "list-ref" /\ walk.lst # nil -> Return(car(walk.lst))

-----------------------------------------------------------------------------
(* append: all lists but the last are copied, behind tail. *)

\* Bug: the first list is not copied, only its last pair is written to.
BugCopy ==
  /\ walk.m = "append" /\ walk.lst # nil
  /\ walk' = [walk EXCEPT !.lst = cdr(@), !.tail = walk.lst, !.head = IF @ = nil THEN walk.lst ELSE @]
  /\ store' = IF walk.tail = nil THEN store ELSE Put(store, walk.tail, 2, walk.lst)
  /\ UNCHANGED <<given, result>>

Copy ==
  /\ walk.m = "append" /\ walk.lst # nil
  /\ LET longer == Append(store, Pair(car(walk.lst), nil))
         new    == Ref(Next_free)
     IN  /\ store' = IF walk.head = nil THEN longer ELSE Put(longer, walk.tail, 2, new)
         /\ walk' = [walk EXCEPT !.lst = cdr(@), !.tail = new, !.head = IF @ = nil THEN new ELSE @]
  /\ UNCHANGED <<given, result>>

Copied ==
  /\ walk.m = "append" /\ walk.lst = nil
  /\ LET i == walk.i + 1 IN
     CASE i < Len(args) -> Loop(Look(i, walk.head, walk.tail))
       [] i = Len(args) /\ walk.tail = nil -> Return(args[i])
       [] i = Len(args) /\ walk.tail # nil -> Make(Put(store, walk.tail, 2, args[i]), walk.head)

-----------------------------------------------------------------------------
(* reverse *)

StartReverse ==
  /\ Accepted /\ primitive = "reverse"
  /\ IF args[1] = nil THEN Return(nil) ELSE Loop([m |-> "reverse", lst |-> args[1], tail |-> nil])

Reversing == walk.m = "reverse" /\ cdr(walk.lst) # nil
ReverseOne ==
  /\ Reversing
  /\ store' = Append(store, Pair(car(walk.lst), walk.tail))
  /\ walk' = [walk EXCEPT !.lst = cdr(@), !.tail = Ref(Next_free)]
  /\ UNCHANGED <<given, result>>

ReverseLast ==
  /\ walk.m = "reverse" /\ cdr(walk.lst) = nil
  /\ New(Pair(car(walk.lst), walk.tail))

-----------------------------------------------------------------------------
(* is_equal: a frame for each call, with the component it compares next.   *)
(* equal? is one such call; member and assoc make one at each pair.        *)

Frame(x, y) == [x |-> x, y |-> y, i |-> 1]
SameKind(kind) == Is(store, Head(walk.frames).x, kind) /\ Is(store, Head(walk.frames).y, kind)

StartEqual ==
  /\ walk.m = "start" /\ primitive = "equal?"
  /\ IF Len(args) # 2 THEN Fail
     ELSE Loop([m |-> primitive, lst |-> nil, frames |-> <<Frame(args[1], args[2])>>])

Comparing == walk.m \in {"equal?", "member", "assoc"} /\ walk.frames # << >>

\* The call returns no: so do all the calls under it.  What it means is for
\* the primitive.
Unequal ==
  IF primitive = "equal?" THEN Return(Boolean(FALSE)) ELSE Loop([walk EXCEPT !.lst = cdr(@), !.frames = << >>])

\* The call returns yes, to the call that made it or to the primitive.
Equal ==
  CASE Len(walk.frames) > 1 -> Loop([walk EXCEPT !.frames = Tail(@)])
    [] Len(walk.frames) = 1 /\ primitive = "equal?" -> Return(Boolean(TRUE))
    [] Len(walk.frames) = 1 /\ primitive = "member" -> Return(walk.lst)
    [] Len(walk.frames) = 1 /\ primitive = "assoc"  -> Return(car(walk.lst))

CompareParts ==
  /\ Comparing /\ (SameKind("pair") \/ SameKind("vector"))
  /\ LET top == Head(walk.frames)
         x   == elements(top.x)
         y   == elements(top.y)
     IN  CASE Len(x) # Len(y) -> Unequal
           [] Len(x) = Len(y) /\ top.i > Len(x) -> Equal
           [] Len(x) = Len(y) /\ top.i <= Len(x) /\ Len(walk.frames) >= MaxDepth ->
                Loop([m |-> "overflow"])
           [] Len(x) = Len(y) /\ top.i <= Len(x) /\ Len(walk.frames) < MaxDepth ->
                Loop([walk EXCEPT !.frames = <<Frame(x[top.i], y[top.i]), [top EXCEPT !.i = @ + 1]>> \o Tail(@)])

\* Bug: strings are compared as everything else is.
BugSame(x, y) == x = y

\* is_string_equal, is_eqv
Same(x, y) == x = y \/ (is_string(x) /\ is_string(y) /\ elements(x) = elements(y))

CompareAtoms ==
  /\ Comparing /\ ~SameKind("pair") /\ ~SameKind("vector")
  /\ IF Same(Head(walk.frames).x, Head(walk.frames).y) THEN Equal ELSE Unequal

-----------------------------------------------------------------------------
(* member_fun and assoc_fun, with is_eq (and is_eqv, its equal) or is_equal *)

Find ==
  /\ walk.m \in {"memq", "member", "assq", "assoc"} /\ walk.frames = << >>
  /\ LET key == IF primitive \in {"memq", "member"} THEN car(walk.lst) ELSE car(car(walk.lst)) IN
     CASE walk.lst = nil -> Return(Boolean(FALSE))
       [] walk.lst # nil /\ primitive \in {"assq", "assoc"} /\ ~is_pair(car(walk.lst)) -> Fail
       [] walk.lst # nil /\ (primitive \in {"assq", "assoc"} => is_pair(car(walk.lst))) ->
            CASE primitive \in {"member", "assoc"} -> Loop([walk EXCEPT !.frames = <<Frame(args[1], key)>>])
              [] primitive = "memq" /\ key = args[1] -> Return(walk.lst)
              [] primitive = "assq" /\ key = args[1] -> Return(car(walk.lst))
              [] OTHER -> Loop([walk EXCEPT !.lst = cdr(@)])

-----------------------------------------------------------------------------
(* Calls that are one step. *)

Calls(primitives) == walk.m = "start" /\ primitive \in primitives
Sent(n)           == Len(args) = n
Index(v, length)  == is_fixnum(v) /\ v.i \in 0..(length - 1)
Codes(s)          == [j \in DOMAIN s |-> Char(s[j])]
Characters(s)     == \A j \in DOMAIN s : is_character(s[j])
CodesOf(s)        == [j \in DOMAIN s |-> s[j].c]

\* What lies n cdrs behind v in store s; what is no pair has nothing behind it.
After(s, v) ==
  LET after[n \in Nat] ==
        IF n = 0 THEN v
        ELSE LET x == after[n - 1] IN IF Is(s, x, "pair") THEN s[x.a].e[2] ELSE x
  IN  after
Cdrs(v, n) == After(store, v)[n]

\* The elements of a list, for list->vector and list->string.
Listed(s, v) ==
  LET n == CHOOSE n \in 0..Len(s) : After(s, v)[n] = nil /\ \A j \in 0..(n - 1) : After(s, v)[j] # nil
  IN  [j \in 1..n |-> s[After(s, v)[j - 1].a].e[1]]
ListElements(v) == Listed(store, v)

Convert ==
  /\ Accepted /\ primitive \in Converting
  /\ LET s == ListElements(args[1]) IN
     CASE primitive = "list->vector" -> New(Vector(s))
       [] primitive = "list->string" /\ Characters(s) -> New(Text(CodesOf(s)))
       [] primitive = "list->string" /\ ~Characters(s) -> Fail

\* The accessor: 1 for an a of its name and 2 for a d, from the last on.
Part(v, path) ==
  FoldLeft(LAMBDA x, i : IF is_pair(x) THEN elements(x)[i] ELSE Error, v, path)

PairCall ==
  \/ /\ Calls({"pair_fun"})
     /\ IF Sent(1) THEN Return(Part(args[1], given.call.op)) ELSE Fail
  \/ /\ Calls({"cons"})
     /\ IF Sent(2) THEN New(Pair(args[1], args[2])) ELSE Fail
  \/ /\ Calls({"set-car!", "set-cdr!"})
     /\ IF Sent(2) /\ is_pair(args[1])
        THEN Make(Put(store, args[1], IF primitive = "set-car!" THEN 1 ELSE 2, args[2]), unspecified)
        ELSE Fail
  \/ Calls({"list"}) /\ Make(NewList(args, nil), ListOf(args))

EqCall ==
  /\ Calls({"eq?"})
  /\ IF Len(args) < 2 THEN Fail ELSE Return(Boolean(\A j \in DOMAIN args : args[j] = args[1]))

\* make-vector with a negative length is left out: it runs off the heap.
VectorCall ==
  \/ Calls({"vector"}) /\ IF args = << >> THEN Fail ELSE New(Vector(args))
  \/ /\ Calls({"make-vector"})
     /\ IF args = << >> \/ ~is_fixnum(args[1]) THEN Fail
        ELSE New(Vector([j \in 1..args[1].i |-> IF Len(args) > 1 THEN args[2] ELSE nil]))
  \/ /\ Calls({"vector-length", "vector->list"})
     /\ IF ~Sent(1) \/ ~is_vector(args[1]) THEN Fail
        ELSE IF primitive = "vector-length" THEN Return(make_fixnum(Len(elements(args[1]))))
        ELSE Make(NewList(elements(args[1]), nil), ListOf(elements(args[1])))
  \/ /\ Calls({"vector-ref", "vector-set!"})
     /\ IF \/ ~Sent(IF primitive = "vector-ref" THEN 2 ELSE 3)
           \/ ~is_vector(args[1]) \/ ~Index(args[2], Len(elements(args[1])))
        THEN Fail
        ELSE IF primitive = "vector-ref" THEN Return(elements(args[1])[args[2].i + 1])
        ELSE Make(Put(store, args[1], args[2].i + 1, args[3]), unspecified)
  \/ /\ Calls({"vector-fill!"})
     /\ IF ~Sent(2) \/ ~is_vector(args[1]) THEN Fail
        ELSE Make([store EXCEPT ![args[1].a].e = [j \in DOMAIN @ |-> args[2]]], unspecified)

\* Bug: the copy is the string itself.
BugStringCopy == Return(args[1])

StringCopy == New(Text(elements(args[1])))

Within(from, to, length) ==
  is_fixnum(from) /\ is_fixnum(to) /\ from.i \in 0..length /\ to.i \in from.i..length

StringCall ==
  \/ Calls({"string"}) /\ IF Characters(args) THEN New(Text(CodesOf(args))) ELSE Fail
  \/ /\ Calls({"make-string"})
     /\ IF \/ Len(args) \notin {1, 2} \/ ~is_fixnum(args[1]) \/ args[1].i < 0
           \/ (Sent(2) /\ ~is_character(args[2]))
        THEN Fail
        ELSE New(Text([j \in 1..args[1].i |-> IF Sent(2) THEN args[2].c ELSE 0]))
  \/ /\ Calls({"string-length"})
     /\ IF ~Sent(1) \/ ~is_string(args[1]) THEN Fail ELSE Return(make_fixnum(Len(elements(args[1]))))
  \/ /\ Calls({"string-ref", "string-set!"})
     /\ IF \/ ~Sent(IF primitive = "string-ref" THEN 2 ELSE 3)
           \/ ~is_string(args[1]) \/ ~Index(args[2], Len(elements(args[1])))
           \/ (primitive = "string-set!" /\ ~is_character(args[3]))
        THEN Fail
        ELSE IF primitive = "string-ref" THEN Return(Char(elements(args[1])[args[2].i + 1]))
        ELSE Make(Put(store, args[1], args[2].i + 1, args[3].c), unspecified)

\* string_append_fun puts the strings together one after the other.
Together(strings) == FoldLeft(LAMBDA s, v : s \o elements(v), << >>, strings)

WholeStringCall ==
  \/ /\ Calls({"string->list", "string-copy"})
     /\ IF ~Sent(1) \/ ~is_string(args[1]) THEN Fail
        ELSE IF primitive = "string-copy" THEN StringCopy
        ELSE Make(NewList(Codes(elements(args[1])), nil), ListOf(elements(args[1])))
  \/ /\ Calls({"string-fill!"})
     /\ IF ~Sent(2) \/ ~is_string(args[1]) \/ ~is_character(args[2]) THEN Fail
        ELSE Make([store EXCEPT ![args[1].a].e = [j \in DOMAIN @ |-> args[2].c]], unspecified)
  \/ /\ Calls({"substring"})
     /\ IF ~Sent(3) \/ ~is_string(args[1]) \/ ~Within(args[2], args[3], Len(elements(args[1]))) THEN Fail
        ELSE New(Text(SubSeq(elements(args[1]), args[2].i + 1, args[3].i)))
  \/ /\ Calls({"string-append"})
     /\ IF \E j \in DOMAIN args : ~is_string(args[j]) THEN Fail
        ELSE New(Text(Together(args)))

Compare ==
  /\ Calls({"number_fun", "char_fun", "string_fun"})
  /\ CASE primitive = "number_fun" -> Return(number_fun(given.call.op, args))
       [] primitive = "char_fun"   -> Return(char_fun(given.call.op, given.call.ci, args))
       [] primitive = "string_fun" -> Return(string_fun(given.call.op, given.call.ci, [j \in DOMAIN args |-> is_string(args[j])],
                                                        [j \in DOMAIN args |-> elements(args[j])]))

\* The radix, of number->string or string->number, which may be left out.
Radix(radices) ==
  IF Sent(1) THEN TRUE ELSE Sent(2) /\ is_fixnum(args[2]) /\ args[2].i \in radices

NumberCall ==
  \/ Calls(Arithmetic) /\ Return(arithmetic(primitive, args))
  \/ /\ Calls(Signs)
     /\ IF Sent(1) /\ is_fixnum(args[1]) THEN Return(Boolean(sign_of(primitive, args[1].i))) ELSE Fail
  \/ Calls({"char-upcase", "char-downcase"}) /\ Return(char_case(primitive, args))
  \/ Calls({"integer->char"}) /\ Return(integer_char(args))
  \/ Calls({"char->integer"}) /\ Return(char_integer(args))
  \/ /\ Calls({"number->string"})
     /\ IF Radix({10}) /\ is_fixnum(args[1]) THEN New(Text(number_string(args[1].i))) ELSE Fail
  \/ /\ Calls({"string->number"})
     /\ IF Radix({2, 8, 10, 16}) /\ is_string(args[1])
        THEN Return(string_number(elements(args[1]), IF Sent(1) THEN 10 ELSE args[2].i))
        ELSE Fail

-----------------------------------------------------------------------------
Init ==
  /\ \E i \in DOMAIN Situations : \E s \in Situations[i].stores, c \in Situations[i].calls :
       given = [store |-> s, call |-> c]
  /\ store = given.store
  /\ walk = Idle
  /\ result = unspecified

Returned == walk.m \in {"done", "overflow"} /\ UNCHANGED vars

Lists == IsList \/ Count \/ Skip \/ Skipped \/ Copy \/ Copied \/ StartReverse \/ ReverseOne \/ ReverseLast
Search == StartEqual \/ CompareParts \/ CompareAtoms \/ Find
Next ==
  \/ StartWalk \/ Hare \/ HareEnds \/ Refuses \/ StartLoop \/ Lists \/ Search \/ Convert
  \/ PairCall \/ EqCall \/ VectorCall \/ StringCall \/ WholeStringCall \/ Compare \/ NumberCall \/ Returned

\* One thread, and a loop that can go on does.
Spec == Init /\ [][Next]_vars /\ WF_vars(Next)

-----------------------------------------------------------------------------
(* What the primitives mean, told without their loops. *)

Answers(primitives) == walk.m = "done" /\ primitive \in primitives
Proper(s, v) == After(s, v)[Len(s)] = nil
Fresh(v)   == v.k = "ref" => v.a > Len(given.store)
Least(S)   == IF S = {} THEN {} ELSE {CHOOSE i \in S : \A j \in S : i <= j}

\* x and y are objects of one kind whose parts are the same or related by R.
Agree(x, y, R) ==
  LET o == given.store[x.a]
      q == given.store[y.a]
  IN  /\ o.k = q.k
      /\ IF o.k = "string" THEN o.e = q.e
         ELSE /\ Len(o.e) = Len(q.e)
              /\ \A j \in DOMAIN o.e : o.e[j] = q.e[j] \/ <<o.e[j], q.e[j]>> \in R

\* The largest relation between objects of the situation that only relates
\* what agrees by it: pairs in a circle are alike if they unfold alike.
Refs == {Ref(n) : n \in DOMAIN given.store}
Unfolded ==
  LET alike[n \in Nat] ==
        IF n = 0 THEN Refs \X Refs
        ELSE LET R == alike[n - 1] IN {xy \in R : Agree(xy[1], xy[2], R)}
  IN  alike
Alike(v, w) == v = w \/ <<v, w>> \in Unfolded[Cardinality(Refs \X Refs)]

\* The parts of an object, and theirs, are reached without meeting it again.
Finite(v) ==
  LET parts(S) == UNION {{x \in Range(given.store[r.a].e) : x.k = "ref"} :
                           r \in {r \in S : given.store[r.a].k # "string"}}
      after(n) == FoldLeft(LAMBDA S, j : parts(S), {v} \ {x \in {v} : x.k # "ref"}, [j \in 1..n |-> j])
  IN  after(Len(given.store)) = {}

Valid(v) == v = Error \/ Value(store, v)

(* Type invariant: what an object holds, a loop looks at or a primitive    *)
(* returns is a value, and a reference is to an object of the store.       *)
TypeOK ==
  /\ \A a \in DOMAIN store : IF store[a].k = "string" THEN \A c \in Range(store[a].e) : c \in -128..127
                             ELSE \A v \in Range(store[a].e) : Valid(v)
  /\ Valid(result)
  /\ \A f \in DOMAIN walk \cap {"o", "rabbit", "lst", "head", "tail"} : Valid(walk[f])

\* The arguments as they were when the primitive was called.
ListGiven(i)  == Proper(given.store, args[i])
ItemsGiven(i) == Listed(given.store, args[i])

\* What memq and its kin look at, the j-th pair of the list, and what they
\* find: the first that fits.
Place(j) == After(given.store, args[2])[j]
Item(j)  == given.store[Place(j).a].e[1]
Key(j)   == IF primitive \in {"memq", "member"} THEN Item(j) ELSE given.store[Item(j).a].e[1]
NoEntry(j) == primitive \in {"assq", "assoc"} /\ ~Is(given.store, Item(j), "pair")
Fits(j)  == NoEntry(j) \/ IF primitive \in {"memq", "assq"} THEN args[1] = Key(j) ELSE Alike(args[1], Key(j))
Found ==
  LET first == Least({j \in 0..(Len(ItemsGiven(2)) - 1) : Fits(j)}) IN
  IF first = {} THEN {Boolean(FALSE)}
  ELSE {CASE primitive \in {"memq", "member"} -> Place(j)
          [] NoEntry(j) -> Error
          [] primitive \in {"assq", "assoc"} /\ ~NoEntry(j) -> Item(j) : j \in first}

(* list? knows a list from a circle and from a list that ends in something *)
(* else, wherever the circle starts; length, list-tail, list-ref, memq and *)
(* its kin refuse what is no list and find on a list what there is.        *)
ListsMean ==
  /\ Answers({"list?"}) => result = IF Sent(1) THEN Boolean(ListGiven(1)) ELSE Error
  /\ Answers({"length"}) => result = IF Sent(1) /\ ListGiven(1) THEN Fixnum(Len(ItemsGiven(1))) ELSE Error
  /\ Answers({"list-tail", "list-ref"}) =>
       LET last == Len(ItemsGiven(1)) - (IF primitive = "list-ref" THEN 1 ELSE 0) IN
       IF Sent(2) /\ ListGiven(1) /\ is_fixnum(args[2]) /\ args[2].i \in 0..last
       THEN result = IF primitive = "list-tail" THEN After(given.store, args[1])[args[2].i]
                     ELSE ItemsGiven(1)[args[2].i + 1]
       ELSE result = Error
  /\ Answers({"memq", "member", "assq", "assoc"}) =>
       IF Sent(2) /\ ListGiven(2) THEN result \in Found ELSE result = Error

\* The elements of the first n arguments, which are lists.
Joined[n \in 0..(Len(args) - 1)] ==
  IF n = 0 THEN << >> ELSE Joined[n - 1] \o ItemsGiven(n)

(* append and reverse return the elements asked for, in new pairs; only    *)
(* the last argument of append is in its result as it is, even if it is    *)
(* also one of the others.  What is made of an object's parts is new too.  *)
CopiesMean ==
  /\ Answers({"append"}) /\ args # << >> =>
       IF \A j \in 1..(Len(args) - 1) : ListGiven(j)
       THEN LET joined == Joined[Len(args) - 1] IN
            /\ Cdrs(result, Len(joined)) = Last(args)
            /\ \A j \in DOMAIN joined :
                 car(Cdrs(result, j - 1)) = joined[j] /\ Fresh(Cdrs(result, j - 1))
       ELSE result = Error
  /\ Answers({"reverse"}) =>
       IF Sent(1) /\ ListGiven(1)
       THEN /\ Proper(store, result) /\ ListElements(result) = Reverse(ItemsGiven(1))
            /\ \A j \in 0..(Len(ListElements(result)) - 1) : Fresh(Cdrs(result, j))
       ELSE result = Error
  /\ Answers({"vector->list", "list->vector", "string-copy", "substring", "string-append",
              "string->list", "list->string"}) => Fresh(result)
  /\ Answers({"vector->list"}) /\ result # Error => ListElements(result) = given.store[args[1].a].e
  /\ Answers({"string->list"}) /\ result # Error => CodesOf(ListElements(result)) = given.store[args[1].a].e

Mutators == {"set-car!", "set-cdr!", "vector-set!", "vector-fill!", "string-set!", "string-fill!"}

(* No primitive but the six with a ! writes to an object of the program,   *)
(* and they write to their first argument only, also while a loop has yet  *)
(* to finish the list it makes.                                            *)
OnlyNamedChanges ==
  \A a \in DOMAIN given.store :
    store[a] # given.store[a] => primitive \in Mutators /\ args[1] = Ref(a)

(* equal? (primitives.c, 1371: "recursively compares the contents of       *)
(* pairs, vectors, and strings, applying eqv? on othe objects"): it is     *)
(* true of what unfolds alike, also when one of the two is circular.       *)
EqualMeans ==
  Answers({"equal?"}) /\ Sent(2) => result = Boolean(Alike(args[1], args[2]))

Sorted(op, s) == \A i, j \in DOMAIN s : i < j => Holds(op, s[i], s[j])
CodeOf(v) == CHOOSE n \in 0..255 : integer_char(<<Fixnum(n)>>) = v
Before(x, y) ==
  \E n \in 0..Min({Len(x), Len(y)}) :
    /\ SubSeq(x, 1, n) = SubSeq(y, 1, n)
    /\ IF n = Len(x) THEN n < Len(y) ELSE n < Len(y) /\ x[n + 1] < y[n + 1]
Ordered(op, x, y) ==
  CASE op = "="  -> x = y
    [] op = "<"  -> Before(x, y)
    [] op = ">"  -> Before(y, x)
    [] op = "<=" -> ~Before(y, x)
    [] op = ">=" -> ~Before(x, y)

(* The comparisons hold of a sequence if they hold of any two of it in     *)
(* their order, not of neighbours only; characters compare as the numbers  *)
(* integer->char takes, texts as in a dictionary.  string<? and its kin    *)
(* compare with the length of the first text: they do so if all texts but  *)
(* the last are as long as the first; string=? does for any.  char-upcase   *)
(* and char-downcase change letters of the other case only, to what        *)
(* char-ci=? holds for the same.                                           *)
ChainsMean ==
  /\ Answers({"number_fun"}) =>
       /\ AllFixnums(args) => result = Boolean(Sorted(given.call.op, [i \in DOMAIN args |-> args[i].i]))
       /\ ~AllFixnums(args) => result # Boolean(TRUE)
       /\ Len(args) > 1 /\ ~AllFixnums(args) /\ ~is_fixnum(args[2]) => result = Error
       /\ Len(args) > 2 /\ AllFixnums(SubSeq(args, 1, 2)) /\ ~Holds(given.call.op, args[1].i, args[2].i)
            => result = Boolean(FALSE)
  /\ Answers({"char_fun"}) /\ Characters(args) =>
       result = Boolean(Sorted(given.call.op, [i \in DOMAIN args |-> Folded(given.call.ci, CodeOf(args[i]))]))
  /\ Answers({"char-upcase", "char-downcase"}) /\ result # Error =>
       /\ char_fun("=", TRUE, <<result, args[1]>>) = Boolean(TRUE)
       /\ CodeOf(result) # CodeOf(args[1]) <=>
            CodeOf(args[1]) \in IF primitive = "char-upcase" THEN 97..122 ELSE 65..90
  /\ Answers({"string_fun"}) /\ Len(args) > 1 /\ (\A i \in DOMAIN args : is_string(args[i])) =>
       LET text(v) == [i \in DOMAIN elements(v) |-> Folded(given.call.ci, elements(v)[i])]
           regular == \A i \in 1..(Len(args) - 1) : Len(text(args[i])) = Len(text(args[1]))
       IN  given.call.op = "=" \/ regular =>
             result = Boolean(\A i, j \in DOMAIN args :
                                i < j => Ordered(given.call.op, text(args[i]), text(args[j])))

Numbers == [i \in DOMAIN args |-> args[i].i]
Congruent(n) == result \in {Fixnum(m) : m \in {m \in Fixnums : (m - n) % PowerOfTwo[Bits] = 0}}
Sums(s)     == LET sum[i \in 0..Len(s)] == IF i = 0 THEN 0 ELSE sum[i - 1] + s[i] IN sum
Products(s) == LET product[i \in 0..Len(s)] == IF i = 0 THEN 1 ELSE product[i - 1] * s[i] IN product

(* Arithmetic is exact but for a multiple of 2^Bits, so that it is exact   *)
(* whenever the answer is a fixnum; quotient and remainder make up the     *)
(* dividend (testcases.primitives, 141), modulo is a number of the         *)
(* divisor's sign, odd? knows the negative odd numbers, and all of them  *)
(* hold at the ends of the range.                                          *)
ArithmeticMeans ==
  Answers(Arithmetic \cup Signs) /\ result # Error =>
    LET n == Numbers IN
    CASE primitive = "+" -> Congruent(Sums(n)[Len(n)])
      [] primitive = "*" -> Congruent(Products(n)[Len(n)])
      [] primitive = "-" -> Congruent(IF Len(n) = 1 THEN -n[1] ELSE 2 * n[1] - Sums(n)[Len(n)])
      [] primitive = "abs" -> Congruent(IF n[1] < 0 THEN -n[1] ELSE n[1])
      [] primitive = "max" -> result.i \in Range(n) /\ \A m \in Range(n) : m <= result.i
      [] primitive = "min" -> result.i \in Range(n) /\ \A m \in Range(n) : m >= result.i
      [] primitive = "quotient" ->
           LET r == remainder(n[1], n[2]).i IN
           /\ make_fixnum(result.i * n[2] + r) = Fixnum(n[1])
           /\ Magnitude(r) < Magnitude(n[2]) /\ (r # 0 => (r < 0) = (n[1] < 0))
      [] primitive = "modulo" ->
           /\ (n[1] - result.i) % Magnitude(n[2]) = 0 /\ Magnitude(result.i) < Magnitude(n[2])
           /\ result.i # 0 => (result.i < 0) = (n[2] < 0)
      [] primitive = "odd?" -> result = Boolean(n[1] \in {2 * m + 1 : m \in Fixnums})
      [] primitive = "even?" -> result = Boolean(n[1] \in {2 * m : m \in Fixnums})
      [] OTHER -> TRUE

Weighed(digits, radix) ==
  FoldLeft(LAMBDA n, j : n + DigitOf(digits[j]) * radix ^ (Len(digits) - j), 0,
           [j \in DOMAIN digits |-> j])

(* string->number reads what number->string has written, and any numeral   *)
(* of its radix; of a text that, up to its first zero if it holds one, is  *)
(* no numeral to its end it says #f (impl_string_number reads a C string). *)
NumeralsMean ==
  /\ Answers({"number->string"}) /\ result # Error => string_number(elements(result), 10) = args[1]
  /\ Answers({"string->number"}) /\ result # Error =>
       LET whole == elements(args[1])
           text  == SubSeq(whole, 1, Max({n \in 0..Len(whole) : \A j \in 1..n : whole[j] # 0}))
           radix == IF Sent(1) THEN 10 ELSE args[2].i
           space(t) == \A c \in Range(t) : c \in Spaces
           signs == {<< >>, <<Plus>>, <<Minus>>}
           marks == IF radix = 16 THEN {<< >>, <<Zero, 120>>, <<Zero, 88>>} ELSE {<< >>}
           before(r) == r[1] + Len(r[2]) + Len(r[3])
           readings == {r \in (0..Len(text)) \X signs \X marks :
                          /\ before(r) < Len(text) /\ space(SubSeq(text, 1, r[1]))
                          /\ SubSeq(text, r[1] + 1, before(r)) = r[2] \o r[3]
                          /\ \A j \in (before(r) + 1)..Len(text) : DigitOf(text[j]) < radix}
           value(r) == Weighed(SubSeq(text, before(r) + 1, Len(text)), radix)
                         * (IF r[2] = <<Minus>> THEN -1 ELSE 1)
       IN  result \in IF readings = {} THEN {Boolean(FALSE)} ELSE
             {IF value(r) \in Fixnums THEN Fixnum(value(r)) ELSE result : r \in readings}

MayOverflow ==
  \/ primitive = "equal?" /\ Sent(2) /\ ~Finite(args[1]) /\ ~Finite(args[2])
  \/ primitive \in {"member", "assoc"} /\ Sent(2) /\ ~Finite(args[1]) /\ ~Finite(args[2])

(* Every call returns, whatever circle its arguments lie in: is_finite_list*)
(* is there for that.  Only is_equal, and member and assoc with it, may    *)
(* run out of stack, and only if both things compared are circular.        *)
Returns == <>(walk.m = "done" \/ (walk.m = "overflow" /\ MayOverflow))
=============================================================================
