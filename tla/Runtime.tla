------------------------------ MODULE Runtime ------------------------------
(***************************************************************************)
(* The heap of minime (runtime.c, runtime.h) at the level of its words.    *)
(*                                                                         *)
(* An object is a machine word.  Its two low bits say what it is: a fixnum *)
(* (00) or a character (01) is its own value; a pair (10) or an indirect   *)
(* object (11) is the byte address of a block of the heap plus the tag.    *)
(* The first word of an indirect block is a header whose low bits hold the *)
(* type and, for strings and vectors, whose other bits hold the length.    *)
(* Blocks are cut from the heap by a bump pointer and never given back.    *)
(*                                                                         *)
(* A heap cell holds a word, or the bytes of a string.  `objs' is a        *)
(* history variable: what each object the constructors have returned was   *)
(* made as.  No action reads it to decide what to do to the heap; the      *)
(* properties compare it with what the accessors decode from the words.    *)
(***************************************************************************)
EXTENDS Integers, Sequences

CONSTANTS
  WordBytes,      \* sizeof(unsigned long)
  HeapBase,       \* the address of the first heap word, in words
  HeapWords,      \* heap_size, in words
  Immediates,     \* the fixnums and characters the program uses, tagged
  CodeWords,      \* C pointers kept in objects: FILE *, primitive_proc
  VectorLengths,  \* the lengths vectors are made with
  Indices,        \* the indices tried on vectors and strings
  StringTexts     \* the texts strings are made from: sequences of bytes

VARIABLES
  mem,            \* address -> cell
  freeptr,        \* the next free word
  objs            \* object -> what it was made as

vars == <<mem, freeptr, objs>>

ASSUME WordBytesAssumption == WordBytes \in {4, 8}

ASSUME HeapAssumption == HeapBase \in Nat \ {0} /\ HeapWords \in Nat

ASSUME ImmediatesAssumption ==
  Immediates \subseteq {w \in Nat : w % 4 \in {0, 1}}

ASSUME InputsAssumption ==
  /\ CodeWords \subseteq Nat
  /\ VectorLengths \subseteq Nat
  /\ Indices \subseteq Int
  /\ StringTexts \subseteq Seq(0..255)

-----------------------------------------------------------------------------
(* Words, tags and cells. *)

PAIR_TAG     == 2
INDIRECT_TAG == 3
STRING_TAG   == 2
VECTOR_TAG   == 1

\* The types whose header is one byte of tag and nothing else.
TypeTag ==
  [nil |-> 255, boolean |-> 127, symbol |-> 191, primitive |-> 223,
   procedure |-> 95, port |-> 159, eof |-> 31, unspecified |-> 239,
   macro |-> 111]

Junk == 256             \* a byte nobody has written yet

Byte == 0..255
Cell == [kind : {"word"}, w : Nat]
          \cup [kind : {"raw"}, bytes : [0..WordBytes-1 -> Byte \cup {Junk}]]

Word(w)    == [kind |-> "word", w |-> w]
Raw(bytes) == [kind |-> "raw", bytes |-> bytes]

HeapEnd == HeapBase + HeapWords
Addr    == HeapBase..(HeapEnd - 1)

Ref(addr, tag) == addr * WordBytes + tag
AddrOf(o)      == o \div WordBytes

is_pair(o)     == o % 4 = PAIR_TAG
is_indirect(o) == o % 4 = INDIRECT_TAG

Header(m, o)   == m[AddrOf(o)].w
is_string(m, o) == is_indirect(o) /\ Header(m, o) % 4 = STRING_TAG
is_vector(m, o) == is_indirect(o) /\ Header(m, o) % 4 = VECTOR_TAG
has_tag(m, o, type) == is_indirect(o) /\ Header(m, o) % 256 = TypeTag[type]

\* The length in the header of a string or a vector.
length_of(m, o) == Header(m, o) \div 4

Types == DOMAIN TypeTag \cup {"fixnum", "character", "pair", "string", "vector"}

\* is_fixnum ... is_macro: whether an accessor recognises this type in a word.
is_type(m, o, type) ==
  CASE type = "fixnum"    -> o % 4 = 0
    [] type = "character" -> o % 4 = 1
    [] type = "pair"      -> is_pair(o)
    [] type = "string"    -> is_string(m, o)
    [] type = "vector"    -> is_vector(m, o)
    [] OTHER              -> has_tag(m, o, type)

\* string_value(o)[k]
ByteAt(m, o, k) ==
  m[AddrOf(o) + 1 + k \div WordBytes].bytes[k % WordBytes]

-----------------------------------------------------------------------------
(* The constructors. *)

\* What a word of the program can be.
Values == Immediates \cup DOMAIN objs

\* *freeptr++ = ... for each cell, then the tagged address of the first;
\* `reserved' words are taken from the heap.  The code never asks whether
\* the heap has room; the model stops where the heap does.
Allocate(cells, reserved, tag, type, len) ==
  /\ freeptr + reserved <= HeapEnd
  /\ freeptr + Len(cells) <= HeapEnd
  /\ mem' = [a \in Addr |-> IF a \in freeptr..(freeptr + Len(cells) - 1)
                            THEN cells[a - freeptr + 1] ELSE mem[a]]
  /\ freeptr' = freeptr + reserved
  /\ objs' = [o \in DOMAIN objs \cup {Ref(freeptr, tag)} |->
                IF o = Ref(freeptr, tag)
                THEN [type |-> type, len |-> len, addr |-> freeptr]
                ELSE objs[o]]

\* An indirect object with a one-byte tag and the given payload words.
MakeTagged(type, payload) ==
  Allocate(<<Word(TypeTag[type])>> \o payload, 1 + Len(payload),
           INDIRECT_TAG, type, Len(payload))

\* Bug: the bump pointer moves past the car only.
BugCons(a, d) == Allocate(<<Word(a), Word(d)>>, 1, PAIR_TAG, "pair", 2)

Cons(a, d) == Allocate(<<Word(a), Word(d)>>, 2, PAIR_TAG, "pair", 2)

\* Bug: the filling loop stops one slot short.
BugMakeVector(n, fill) ==
  Allocate([i \in 1..(IF n = 0 THEN 1 ELSE n) |->
              Word(IF i = 1 THEN n * 4 + VECTOR_TAG ELSE fill)],
           n + 1, INDIRECT_TAG, "vector", n)

MakeVector(n, fill) ==
  Allocate([i \in 1..(n + 1) |-> Word(IF i = 1 THEN n * 4 + VECTOR_TAG ELSE fill)],
           n + 1, INDIRECT_TAG, "vector", n)

\* Bug: rounds length, not length + 1, to words.
BugStringWords(len) == (len + WordBytes - 1) \div WordBytes

\* round length + 1 to full words
StringWords(len) == (len + WordBytes) \div WordBytes

\* The bytes of a string of this text, its terminating NUL, then junk.
TextByte(text, k) ==
  IF k < Len(text) THEN text[k + 1] ELSE IF k = Len(text) THEN 0 ELSE Junk

MakeString(text) ==
  Allocate([i \in 1..(Len(text) \div WordBytes + 2) |->
              IF i = 1 THEN Word(Len(text) * 4 + STRING_TAG)
              ELSE Raw([k \in 0..WordBytes-1 |->
                          TextByte(text, (i - 2) * WordBytes + k)])],
           1 + StringWords(Len(text)), INDIRECT_TAG, "string", Len(text))

MakeSymbolWithString(o) == MakeTagged("symbol", <<Word(o)>>)
MakePrimitive(code)     == MakeTagged("primitive", <<Word(code)>>)
MakeClosure(type, parameters, body, environment) ==
  MakeTagged(type, <<Word(parameters), Word(body), Word(environment)>>)

PORT_TYPE_INPUT   == 0
PORT_TYPE_OUTPUT  == 1
PORT_FLAG_CLOSED  == 256
MakePort(file, port_type) == MakeTagged("port", <<Word(port_type), Word(file)>>)

-----------------------------------------------------------------------------
(* The mutators, behind the checks of the primitives that call them. *)

Poke(addr, cell) ==
  /\ mem' = [mem EXCEPT ![addr] = cell]
  /\ UNCHANGED <<freeptr, objs>>

SetCar(o) == is_pair(o) /\ \E v \in Values : Poke(AddrOf(o), Word(v))
SetCdr(o) == is_pair(o) /\ \E v \in Values : Poke(AddrOf(o) + 1, Word(v))

\* Bug: the bound test lets the length itself through.
BugVectorSet(o) ==
  /\ is_vector(mem, o)
  /\ \E idx \in Indices, v \in Values :
        /\ ~(idx < 0 \/ idx > length_of(mem, o))
        /\ Poke(AddrOf(o) + 1 + idx, Word(v))

VectorSet(o) ==
  /\ is_vector(mem, o)
  /\ \E idx \in Indices, v \in Values :
        /\ ~(idx < 0 \/ idx >= length_of(mem, o))
        /\ Poke(AddrOf(o) + 1 + idx, Word(v))

VectorFill(o) ==
  /\ is_vector(mem, o)
  /\ \E v \in Values :
        mem' = [a \in Addr |->
                  IF a \in (AddrOf(o) + 1)..(AddrOf(o) + length_of(mem, o))
                  THEN Word(v) ELSE mem[a]]
  /\ UNCHANGED <<freeptr, objs>>

\* A user's character is an immediate; its byte is the low byte of its value.
Characters == {w \in Immediates : w % 4 = 1}
\* Bug: the tag is not shifted out.
BugCharacterValue(w) == w

character_value(w) == (w \div 4) % 256

\* Bug: the bound test lets the length itself through.
BugStringSet(o) ==
  /\ is_string(mem, o)
  /\ \E pos \in Indices, c \in Characters :
        /\ ~(pos < 0 \/ pos > length_of(mem, o))
        /\ LET a == AddrOf(o) + 1 + pos \div WordBytes
           IN  Poke(a, Raw([mem[a].bytes EXCEPT ![pos % WordBytes] = character_value(c)]))

StringSet(o) ==
  /\ is_string(mem, o)
  /\ \E pos \in Indices, c \in Characters :
        /\ ~(pos < 0 \/ pos >= length_of(mem, o))
        /\ LET a == AddrOf(o) + 1 + pos \div WordBytes
           IN  Poke(a, Raw([mem[a].bytes EXCEPT ![pos % WordBytes] = character_value(c)]))

StringFill(o) ==
  /\ is_string(mem, o)
  /\ \E c \in Characters :
        mem' = [a \in Addr |->
                  LET first == (a - AddrOf(o) - 1) * WordBytes
                  IN  IF a > AddrOf(o) /\ first < length_of(mem, o)
                      THEN Raw([k \in 0..WordBytes-1 |->
                                  IF first + k < length_of(mem, o)
                                  THEN character_value(c) ELSE mem[a].bytes[k]])
                      ELSE mem[a]]
  /\ UNCHANGED <<freeptr, objs>>

\* get_port_flags tests the word with && where a mask was meant: 0 or 1.
get_port_flags(m, o) == IF m[AddrOf(o) + 1].w # 0 THEN 1 ELSE 0

\* set_port_flags keeps the type byte and the bits above the flags.
with_flags(w, flags) ==
  (w % 256) + 256 * ((flags \div 256) % 65536) + 16777216 * (w \div 16777216)

SetPortClosed(o) ==
  /\ has_tag(mem, o, "port")
  /\ LET flags == PORT_FLAG_CLOSED + get_port_flags(mem, o)
         a     == AddrOf(o) + 1
     IN Poke(a, Word(with_flags(mem[a].w, flags)))

-----------------------------------------------------------------------------
(* scheme_init makes the five constants first; then the program runs. *)

Constants == <<"nil", "eof", "unspecified", "boolean", "boolean">>
TheConstant(i) == Ref(HeapBase + i - 1, INDIRECT_TAG)
the_nil == TheConstant(1)

Init ==
  /\ HeapWords >= 5
  /\ freeptr = HeapBase + 5
  /\ mem = [a \in Addr |->
              IF a < HeapBase + 4 THEN Word(TypeTag[Constants[a - HeapBase + 1]])
              ELSE IF a = HeapBase + 4 THEN Word(TypeTag["boolean"] + 256)
              ELSE Raw([k \in 0..WordBytes-1 |-> Junk])]
  /\ objs = [o \in {TheConstant(i) : i \in 1..5} |->
               LET i == CHOOSE i \in 1..5 : o = TheConstant(i)
               IN  [type |-> Constants[i], len |-> 0, addr |-> HeapBase + i - 1]]

Construct ==
  \/ \E a, d \in Values : Cons(a, d)
  \/ \E n \in VectorLengths, fill \in Values : MakeVector(n, fill)
  \/ \E text \in StringTexts : MakeString(text)
  \/ \E o \in DOMAIN objs : is_string(mem, o) /\ MakeSymbolWithString(o)
  \/ \E code \in CodeWords : MakePrimitive(code)
  \/ \E type \in {"procedure", "macro"}, p, b, e \in Values : MakeClosure(type, p, b, e)
  \/ \E f \in CodeWords, t \in {PORT_TYPE_INPUT, PORT_TYPE_OUTPUT} : MakePort(f, t)

Mutate ==
  \E o \in DOMAIN objs :
     \/ SetCar(o)
     \/ SetCdr(o)
     \/ VectorSet(o)
     \/ VectorFill(o)
     \/ StringSet(o)
     \/ StringFill(o)
     \/ SetPortClosed(o)

Next == Construct \/ Mutate

Spec == Init /\ [][Next]_vars

-----------------------------------------------------------------------------
(* Correctness. *)

\* The words of an object that hold objects or immediates.
Slots(o) ==
  LET r == objs[o] IN
  CASE r.type = "pair"   -> 0..1
    [] r.type = "vector" -> 1..r.len
    [] r.type = "symbol" -> 1..1
    [] r.type \in {"procedure", "macro"} -> 1..3
    [] OTHER -> {}

\* The words an object must own; a string owns the byte of its NUL.
Block(o) ==
  LET r == objs[o]
      words == CASE r.type = "pair"   -> 2
                 [] r.type = "string" -> 2 + r.len \div WordBytes
                 [] OTHER             -> 1 + r.len
  IN  r.addr..(r.addr + words - 1)

\* The variables have their types.
TypeOK ==
  /\ mem \in [Addr -> Cell]
  /\ freeptr \in HeapBase..HeapEnd
  /\ \A o \in DOMAIN objs :
        objs[o] \in [type : Types, len : Nat, addr : HeapBase..HeapEnd]

\* Two objects never share a word of the heap, and no object reaches past the
\* bump pointer: the constructors of runtime.c (make_string's rounding of
\* length + 1 to words above all) reserve every word they write.
NoOverlap ==
  \A o \in DOMAIN objs :
     /\ Block(o) \subseteq HeapBase..(freeptr - 1)
     /\ \A p \in DOMAIN objs \ {o} : Block(o) \cap Block(p) = {}

\* Whatever the program has stored since, exactly one type predicate of
\* runtime.h recognises an object, the one it was made as, and the length in
\* the header of a string or vector is the one it was made with.
TypesDecode ==
  \A o \in DOMAIN objs :
     /\ {t \in Types : is_type(mem, o, t)} = {objs[o].type}
     /\ objs[o].type \in {"string", "vector"} => length_of(mem, o) = objs[o].len

\* A word of an object that holds an object holds one that was made, or an
\* immediate: never the address of something in the middle of a block.
NoDangling ==
  \A o \in DOMAIN objs : \A i \in Slots(o) :
     /\ mem[objs[o].addr + i].kind = "word"
     /\ mem[objs[o].addr + i].w \in Values

\* Every string keeps the NUL after its last byte, which the C library calls
\* on string_value (the messages of impl_error, is_expression names) rely on,
\* through string-set! and string-fill!, and no byte of it is junk.
StringsTerminated ==
  \A o \in DOMAIN objs :
     objs[o].type = "string" =>
        /\ ByteAt(mem, o, objs[o].len) = 0
        /\ \A k \in 0..(objs[o].len - 1) : ByteAt(mem, o, k) \in Byte

\* The abstract store the heap stands for, decoded with the accessors.
Decode(o) ==
  LET t == CHOOSE t \in Types : is_type(mem, o, t)
      word(i) == mem[AddrOf(o) + i].w
  IN  [type   |-> t,
       fields |-> CASE t = "pair"   -> <<word(0), word(1)>>
                    [] t = "vector" -> [i \in 1..length_of(mem, o) |-> word(i)]
                    [] t = "symbol" -> <<word(1)>>
                    [] t \in {"procedure", "macro"} -> <<word(1), word(2), word(3)>>
                    [] OTHER -> << >>,
       raw    |-> CASE t = "string" -> [k \in 1..length_of(mem, o) |-> ByteAt(mem, o, k - 1)]
                    [] t = "port"   -> <<word(1), word(2)>>
                    [] t = "primitive" -> <<word(1)>>
                    [] t = "boolean"   -> <<word(0)>>
                    [] OTHER -> << >>]

Store == INSTANCE ObjectStore WITH store <- [o \in DOMAIN objs |-> Decode(o)]

\* The heap implements the abstract store: a constructor makes one object and
\* disturbs no other, a mutator changes the contents of one mutable object.
ImplementsObjectStore == Store!Spec
=============================================================================
