---------------------------- MODULE RuntimeProofs ----------------------------
(***************************************************************************)
(* Proofs about Runtime.tla, for a word of four or of eight bytes, every   *)
(* size and base of the heap and every choice of immediates, C pointers,   *)
(* lengths, indices and texts.                                             *)
(***************************************************************************)
EXTENDS Runtime, SequenceTheorems, TLAPS

-----------------------------------------------------------------------------
(* The inductive invariant: how a block of the heap is laid out.           *)

\* The types that make objects of the heap.
ObjectTypes == DOMAIN TypeTag \cup {"pair", "string", "vector"}

TagOf(type) == IF type = "pair" THEN PAIR_TAG ELSE INDIRECT_TAG

\* The words after the header, for the types whose size is fixed.
FixedSize ==
  [nil |-> 0, boolean |-> 0, eof |-> 0, unspecified |-> 0, symbol |-> 1,
   primitive |-> 1, procedure |-> 3, macro |-> 3, port |-> 2]

\* The words of an object of this type and length.
WordsOf(type, len) ==
  CASE type = "pair"   -> 2
    [] type = "string" -> 2 + len \div WordBytes
    [] OTHER           -> 1 + len

BlockOf(r) == r.addr..(r.addr + WordsOf(r.type, r.len) - 1)

\* What the header of an object that is not a pair says.
HeaderOK(type, len, w) ==
  CASE type = "string" -> w = len * 4 + STRING_TAG
    [] type = "vector" -> w = len * 4 + VECTOR_TAG
    [] OTHER           -> w % 256 = TypeTag[type]

\* The byte at position k of a string.
ByteOK(len, k, b) ==
  /\ k < len => b \in Byte
  /\ k = len => b = 0

\* What word i of an object holds, if the words of the program are vals.
CellOK(type, len, i, c, vals) ==
  /\ type # "pair" /\ i = 0 => c.kind = "word" /\ HeaderOK(type, len, c.w)
  /\ type = "pair" \/ (type \in {"vector", "symbol", "procedure", "macro"} /\ i # 0)
       => c.kind = "word" /\ c.w \in vals
  /\ type \in {"primitive", "port"} => c.kind = "word"
  /\ type = "string" /\ i # 0 =>
       /\ c.kind = "raw"
       /\ \A k \in 0..(WordBytes - 1) : ByteOK(len, (i - 1) * WordBytes + k, c.bytes[k])

\* What an object was made as: its name is its tagged address.
ObjectOK(o, r) ==
  /\ r \in [type : ObjectTypes, len : Nat, addr : Nat]
  /\ o = Ref(r.addr, TagOf(r.type))
  /\ r.type \in DOMAIN FixedSize => r.len = FixedSize[r.type]

\* The words of an object hold what its constructor put there, or its mutators.
CellsOK(m, r, vals) ==
  \A i \in 0..(WordsOf(r.type, r.len) - 1) : CellOK(r.type, r.len, i, m[r.addr + i], vals)

IInv ==
  /\ mem \in [Addr -> Cell]
  /\ freeptr \in HeapBase..HeapEnd
  /\ objs = [o \in DOMAIN objs |-> objs[o]]
  /\ \A o \in DOMAIN objs : ObjectOK(o, objs[o]) /\ CellsOK(mem, objs[o], Values)
  /\ NoOverlap

-----------------------------------------------------------------------------
(* Words and tags. *)

\* The tag and the address of an object are found again in its word.
LEMMA RefFacts ==
  ASSUME NEW a \in Nat, NEW tag \in {PAIR_TAG, INDIRECT_TAG}
  PROVE  /\ Ref(a, tag) \in Nat
         /\ Ref(a, tag) \div WordBytes = a
         /\ Ref(a, tag) % 4 = tag
<1>1. CASE WordBytes = 4
  BY <1>1 DEF Ref, PAIR_TAG, INDIRECT_TAG
<1>2. CASE WordBytes = 8
  BY <1>2 DEF Ref, PAIR_TAG, INDIRECT_TAG
<1> QED BY <1>1, <1>2, WordBytesAssumption

\* The word and the byte of a word at which a byte of a string is found.
LEMMA DivFacts ==
  /\ WordBytes \in Nat \ {0}
  /\ \A k \in Nat :
       /\ k \div WordBytes \in Nat /\ k % WordBytes \in 0..(WordBytes - 1)
       /\ (k \div WordBytes) * WordBytes + (k % WordBytes) = k
       /\ \A j \in 0..k : j \div WordBytes <= k \div WordBytes
       /\ StringWords(k) = 1 + k \div WordBytes
<1>1. WordBytes \in Nat \ {0}
  BY WordBytesAssumption
<1>2. ASSUME NEW k \in Nat
      PROVE  /\ k \div WordBytes \in Nat /\ k % WordBytes \in 0..(WordBytes - 1)
             /\ (k \div WordBytes) * WordBytes + (k % WordBytes) = k
             /\ StringWords(k) = 1 + k \div WordBytes
  <2>1. CASE WordBytes = 4
    BY <2>1 DEF StringWords
  <2>2. CASE WordBytes = 8
    BY <2>2 DEF StringWords
  <2> QED BY <2>1, <2>2, WordBytesAssumption
<1>3. ASSUME NEW k \in Nat, NEW j \in 0..k
      PROVE  j \div WordBytes <= k \div WordBytes
  <2>1. CASE WordBytes = 4
    BY <2>1
  <2>2. CASE WordBytes = 8
    BY <2>2
  <2> QED BY <2>1, <2>2, WordBytesAssumption
<1> QED BY <1>1, <1>2, <1>3

\* The low bits of a word are those of its low byte.
LEMMA LowBits ==
  ASSUME NEW w \in Nat
  PROVE  w % 256 \in 0..255 /\ (w % 256) % 4 = w % 4
<1> DEFINE q == w \div 256
           r == w % 256
<1>1. q \in Nat /\ r \in 0..255 /\ w = 256 * q + r
  OBVIOUS
<1>2. r % 4 = w % 4
  <2> HIDE DEF q, r
  <2>1. w = 4 * (64 * q) + r
    BY <1>1
  <2>2. \A a \in Nat, b \in Nat : (4 * a + b) % 4 = b % 4
    OBVIOUS
  <2> QED BY <1>1, <2>1, <2>2
<1> QED BY <1>1, <1>2

\* The tags of the headers of one byte are different, and their low bits are
\* neither those of a string nor those of a vector.
LEMMA TagFacts ==
  /\ DOMAIN TypeTag = {"nil", "boolean", "symbol", "primitive", "procedure", "port", "eof",
                       "unspecified", "macro"}
  /\ DOMAIN FixedSize = DOMAIN TypeTag
  /\ \A t \in DOMAIN TypeTag : TypeTag[t] \in 0..255 /\ TypeTag[t] % 4 = 3
  /\ \A s, t \in DOMAIN TypeTag : TypeTag[s] = TypeTag[t] => s = t
<1>1. /\ DOMAIN TypeTag = {"nil", "boolean", "symbol", "primitive", "procedure", "port", "eof",
                           "unspecified", "macro"}
      /\ DOMAIN FixedSize = DOMAIN TypeTag
  BY DEF TypeTag, FixedSize
<1>2. /\ TypeTag["nil"] = 255 /\ TypeTag["boolean"] = 127 /\ TypeTag["symbol"] = 191
      /\ TypeTag["primitive"] = 223 /\ TypeTag["procedure"] = 95 /\ TypeTag["port"] = 159
      /\ TypeTag["eof"] = 31 /\ TypeTag["unspecified"] = 239 /\ TypeTag["macro"] = 111
  BY DEF TypeTag
<1> QED BY <1>1, <1>2

\* A header is read as what it was written.
LEMMA HeaderFacts ==
  ASSUME NEW type \in ObjectTypes \ {"pair"}, NEW len \in Nat, NEW w \in Nat, HeaderOK(type, len, w)
  PROVE  /\ w % 4 = STRING_TAG <=> type = "string"
         /\ w % 4 = VECTOR_TAG <=> type = "vector"
         /\ \A t \in DOMAIN TypeTag : w % 256 = TypeTag[t] <=> type = t
         /\ type \in {"string", "vector"} => w \div 4 = len
<1>1. CASE type = "string"
  <2>1. w = len * 4 + 2
    BY <1>1 DEF HeaderOK, STRING_TAG
  <2>2. w % 4 = 2 /\ w \div 4 = len
    BY <2>1
  <2>3. \A t \in DOMAIN TypeTag : w % 256 # TypeTag[t]
    BY <2>2, LowBits, TagFacts
  <2> QED BY <1>1, <2>2, <2>3, TagFacts DEF STRING_TAG, VECTOR_TAG
<1>2. CASE type = "vector"
  <2>1. w = len * 4 + 1
    BY <1>2 DEF HeaderOK, VECTOR_TAG
  <2>2. w % 4 = 1 /\ w \div 4 = len
    BY <2>1
  <2>3. \A t \in DOMAIN TypeTag : w % 256 # TypeTag[t]
    BY <2>2, LowBits, TagFacts
  <2> QED BY <1>2, <2>2, <2>3, TagFacts DEF STRING_TAG, VECTOR_TAG
<1>3. CASE type \in DOMAIN TypeTag
  <2>1. type # "string" /\ type # "vector"
    BY <1>3, TagFacts
  <2>2. w % 256 = TypeTag[type]
    BY <2>1 DEF HeaderOK
  <2>3. w % 4 = 3
    BY <1>3, <2>2, LowBits, TagFacts
  <2> QED BY <1>3, <2>1, <2>2, <2>3, TagFacts DEF STRING_TAG, VECTOR_TAG
<1> QED BY <1>1, <1>2, <1>3 DEF ObjectTypes

-----------------------------------------------------------------------------
(* What the invariant says of one object. *)

\* An object is found at the address in its word.
LEMMA ObjectFacts ==
  ASSUME IInv, NEW o \in DOMAIN objs
  PROVE  /\ objs[o] \in [type : ObjectTypes, len : Nat, addr : Nat]
         /\ objs[o].type \in ObjectTypes /\ objs[o].len \in Nat /\ objs[o].addr \in Nat
         /\ o \in Nat /\ AddrOf(o) = objs[o].addr /\ o % 4 = TagOf(objs[o].type)
         /\ o = Ref(objs[o].addr, TagOf(objs[o].type))
         /\ CellsOK(mem, objs[o], Values)
<1>1. ObjectOK(o, objs[o]) /\ CellsOK(mem, objs[o], Values)
  BY DEF IInv
<1>2. objs[o].type \in ObjectTypes /\ objs[o].len \in Nat /\ objs[o].addr \in Nat
  BY <1>1 DEF ObjectOK
<1> QED BY <1>1, <1>2, RefFacts DEF ObjectOK, AddrOf, TagOf

\* The block of an object, as its layout says.
LEMMA BlockIs ==
  ASSUME NEW o
  PROVE  /\ Block(o) = BlockOf(objs[o])
         /\ Block(o)' = BlockOf(objs'[o])
<1>1. Block(o) = BlockOf(objs[o])
  <2>1. CASE objs[o].type = "pair"
    BY <2>1 DEF Block, BlockOf, WordsOf
  <2>2. CASE objs[o].type = "string"
    BY <2>2 DEF Block, BlockOf, WordsOf
  <2>3. CASE objs[o].type \notin {"pair", "string"}
    BY <2>3 DEF Block, BlockOf, WordsOf
  <2> QED BY <2>1, <2>2, <2>3
<1>2. Block(o)' = BlockOf(objs'[o])
  <2>1. CASE objs'[o].type = "pair"
    BY <2>1 DEF Block, BlockOf, WordsOf
  <2>2. CASE objs'[o].type = "string"
    BY <2>2 DEF Block, BlockOf, WordsOf
  <2>3. CASE objs'[o].type \notin {"pair", "string"}
    BY <2>3 DEF Block, BlockOf, WordsOf
  <2> QED BY <2>1, <2>2, <2>3
<1> QED BY <1>1, <1>2

\* The words an object owns are below the bump pointer, and hold cells.
LEMMA BlockFacts ==
  ASSUME IInv, NEW o \in DOMAIN objs
  PROVE  /\ WordsOf(objs[o].type, objs[o].len) \in Nat \ {0}
         /\ Block(o) = objs[o].addr..(objs[o].addr + WordsOf(objs[o].type, objs[o].len) - 1)
         /\ \A i \in 0..(WordsOf(objs[o].type, objs[o].len) - 1) : objs[o].addr + i \in Block(o)
         /\ Block(o) \subseteq HeapBase..(freeptr - 1) /\ Block(o) \subseteq Addr
         /\ \A i \in 0..(WordsOf(objs[o].type, objs[o].len) - 1) : mem[objs[o].addr + i] \in Cell
<1>1. objs[o].len \in Nat /\ objs[o].addr \in Nat
  BY ObjectFacts
<1>2. WordsOf(objs[o].type, objs[o].len) \in Nat \ {0}
  BY <1>1, DivFacts DEF WordsOf
<1>3. Block(o) = objs[o].addr..(objs[o].addr + WordsOf(objs[o].type, objs[o].len) - 1)
  BY BlockIs DEF BlockOf
<1>4. Block(o) \subseteq HeapBase..(freeptr - 1)
  BY DEF IInv, NoOverlap
<1>5. Block(o) \subseteq Addr
  BY <1>4, HeapAssumption DEF IInv, Addr, HeapEnd
<1>6. \A i \in 0..(WordsOf(objs[o].type, objs[o].len) - 1) : objs[o].addr + i \in Block(o)
  BY <1>1, <1>2, <1>3
<1>7. \A a \in Addr : mem[a] \in Cell
  BY DEF IInv
<1> QED BY <1>2, <1>3, <1>4, <1>5, <1>6, <1>7

\* One accessor recognises an object, and it reads what the constructor wrote.
LEMMA Decoded ==
  ASSUME IInv, NEW o \in DOMAIN objs
  PROVE  /\ is_pair(o) <=> objs[o].type = "pair"
         /\ is_indirect(o) <=> objs[o].type # "pair"
         /\ is_string(mem, o) <=> objs[o].type = "string"
         /\ is_vector(mem, o) <=> objs[o].type = "vector"
         /\ \A t \in DOMAIN TypeTag : has_tag(mem, o, t) <=> objs[o].type = t
         /\ objs[o].type \in {"string", "vector"} => length_of(mem, o) = objs[o].len
         /\ \A t \in Types : is_type(mem, o, t) <=> objs[o].type = t
<1> DEFINE type == objs[o].type
           len == objs[o].len
           w == Header(mem, o)
<1>1. type \in ObjectTypes /\ len \in Nat /\ AddrOf(o) = objs[o].addr /\ o % 4 = TagOf(type)
      /\ objs[o].addr \in Nat
  BY ObjectFacts
<1>2. type # "pair" => w \in Nat /\ HeaderOK(type, len, w)
  <2>1. 0 \in 0..(WordsOf(type, len) - 1)
    BY BlockFacts
  <2>2. CellOK(type, len, 0, mem[objs[o].addr + 0], Values)
    BY <2>1, ObjectFacts DEF CellsOK
  <2>3. mem[objs[o].addr + 0] \in Cell
    BY <2>1, BlockFacts
  <2>4. objs[o].addr + 0 = objs[o].addr
    BY <1>1
  <2> QED BY <1>1, <2>2, <2>3, <2>4 DEF CellOK, Header, Cell
<1>3. is_pair(o) <=> type = "pair"
  BY <1>1 DEF is_pair, TagOf, PAIR_TAG, INDIRECT_TAG
<1>4. is_indirect(o) <=> type # "pair"
  BY <1>1 DEF is_indirect, TagOf, PAIR_TAG, INDIRECT_TAG
<1> HIDE DEF type, len, w
<1>5. type # "pair" =>
        /\ w % 4 = STRING_TAG <=> type = "string"
        /\ w % 4 = VECTOR_TAG <=> type = "vector"
        /\ \A t \in DOMAIN TypeTag : w % 256 = TypeTag[t] <=> type = t
        /\ type \in {"string", "vector"} => w \div 4 = len
  BY <1>1, <1>2, HeaderFacts
<1>6. "pair" \notin DOMAIN TypeTag /\ "string" \notin DOMAIN TypeTag /\ "vector" \notin DOMAIN TypeTag
      /\ "fixnum" \notin DOMAIN TypeTag /\ "character" \notin DOMAIN TypeTag
  BY TagFacts
<1>7. /\ is_string(mem, o) <=> type = "string"
      /\ is_vector(mem, o) <=> type = "vector"
  BY <1>4, <1>5 DEF is_string, is_vector, w
<1>8. \A t \in DOMAIN TypeTag : has_tag(mem, o, t) <=> type = t
  BY <1>4, <1>5, <1>6 DEF has_tag, w
<1>9. type \in {"string", "vector"} => length_of(mem, o) = len
  BY <1>5 DEF length_of, w
<1>10. o % 4 # 0 /\ o % 4 # 1
  BY <1>1 DEF TagOf, PAIR_TAG, INDIRECT_TAG
<1>11. \A t \in Types : is_type(mem, o, t) <=> type = t
  <2>1. type \notin {"fixnum", "character"}
    BY <1>1, <1>6 DEF ObjectTypes
  <2>2. ASSUME NEW t \in DOMAIN TypeTag PROVE is_type(mem, o, t) <=> type = t
    <3>1. t \notin {"fixnum", "character", "pair", "string", "vector"}
      BY <1>6
    <3> QED BY <1>8, <3>1 DEF is_type
  <2>3. is_type(mem, o, "fixnum") <=> o % 4 = 0
    BY DEF is_type
  <2>4. is_type(mem, o, "character") <=> o % 4 = 1
    BY DEF is_type
  <2>5. is_type(mem, o, "pair") <=> is_pair(o)
    BY DEF is_type
  <2>6. is_type(mem, o, "string") <=> is_string(mem, o)
    BY DEF is_type
  <2>7. is_type(mem, o, "vector") <=> is_vector(mem, o)
    BY DEF is_type
  <2> QED BY <1>3, <1>7, <1>10, <2>1, <2>2, <2>3, <2>4, <2>5, <2>6, <2>7 DEF Types
<1> QED BY <1>3, <1>4, <1>7, <1>8, <1>9, <1>11 DEF type, len

\* Every word the program handles is a number.
LEMMA ValuesFacts ==
  ASSUME IInv
  PROVE  Values \subseteq Nat /\ Immediates \subseteq Nat
<1>1. DOMAIN objs \subseteq Nat
  BY ObjectFacts
<1> QED BY <1>1, ImmediatesAssumption DEF Values

-----------------------------------------------------------------------------
(* The two things a step can do. *)

\* It makes an object of this type and length, laid out in these cells.
MakesObject(cells, type, len) ==
  /\ cells \in Seq(Cell) /\ Len(cells) = WordsOf(type, len)
  /\ type \in DOMAIN FixedSize => len = FixedSize[type]
  /\ \A i \in 0..(Len(cells) - 1) : CellOK(type, len, i, cells[i + 1], Values)
  /\ Allocate(cells, Len(cells), TagOf(type), type, len)

\* It writes into the block of one object that has contents.
ChangesObject(o) ==
  /\ mem' \in [Addr -> Cell] /\ UNCHANGED <<freeptr, objs>>
  /\ \A a \in Addr \ Block(o) : mem'[a] = mem[a]
  /\ CellsOK(mem', objs[o], Values)
  /\ objs[o].type \in {"pair", "vector", "string", "port"}

\* Cells that are what an object holds stay so when there are more objects.
LEMMA CellOKMonotonic ==
  ASSUME NEW type, NEW len, NEW i, NEW c, NEW vals, NEW more, vals \subseteq more,
         CellOK(type, len, i, c, vals)
  PROVE  CellOK(type, len, i, c, more)
BY DEF CellOK

\* The object that was made is new, its cells are in its block, and the blocks of
\* the others hold what they held.
LEMMA MakesFacts ==
  ASSUME IInv, NEW cells, NEW type \in ObjectTypes, NEW len \in Nat, MakesObject(cells, type, len)
  PROVE  LET new == Ref(freeptr, TagOf(type))
             r == [type |-> type, len |-> len, addr |-> freeptr]
         IN  /\ new \notin DOMAIN objs /\ DOMAIN objs' = DOMAIN objs \cup {new}
             /\ objs' = [o \in DOMAIN objs' |-> objs'[o]]
             /\ objs'[new] = r /\ \A o \in DOMAIN objs : objs'[o] = objs[o]
             /\ mem' \in [Addr -> Cell] /\ freeptr' = freeptr + WordsOf(type, len)
             /\ freeptr \in Nat /\ freeptr' \in HeapBase..HeapEnd
             /\ WordsOf(type, len) \in Nat \ {0}
             /\ \A i \in 0..(WordsOf(type, len) - 1) : mem'[freeptr + i] = cells[i + 1]
             /\ \A o \in DOMAIN objs : \A a \in Block(o) : mem'[a] = mem[a]
             /\ ObjectOK(new, r)
<1> DEFINE new == Ref(freeptr, TagOf(type))
           r == [type |-> type, len |-> len, addr |-> freeptr]
           n == WordsOf(type, len)
<1>1. /\ cells \in Seq(Cell) /\ Len(cells) = n
      /\ freeptr + n <= HeapEnd
      /\ mem' = [a \in Addr |-> IF a \in freeptr..(freeptr + n - 1)
                                THEN cells[a - freeptr + 1] ELSE mem[a]]
      /\ freeptr' = freeptr + n
      /\ objs' = [o \in DOMAIN objs \cup {new} |-> IF o = new THEN r ELSE objs[o]]
  BY DEF MakesObject, Allocate
<1>2. freeptr \in HeapBase..HeapEnd /\ HeapBase \in Nat /\ HeapEnd \in Nat /\ freeptr \in Nat
  BY HeapAssumption DEF IInv, HeapEnd
<1>3. n \in Nat \ {0}
  BY DivFacts DEF WordsOf
<1>4. new \notin DOMAIN objs
  <2>1. SUFFICES ASSUME new \in DOMAIN objs PROVE FALSE
    OBVIOUS
  <2>2. AddrOf(new) = freeptr
    BY <1>2, RefFacts DEF AddrOf, TagOf
  <2>3. objs[new].addr = freeptr
    BY <2>1, <2>2, ObjectFacts
  <2>4. freeptr \in Block(new)
    BY <1>2, <2>1, <2>3, BlockFacts
  <2>5. Block(new) \subseteq HeapBase..(freeptr - 1)
    BY <2>1, BlockFacts
  <2> QED BY <1>2, <2>4, <2>5
<1>5. \A i \in 0..(n - 1) : freeptr + i \in Addr
  BY <1>1, <1>2, <1>3 DEF Addr
<1> HIDE DEF n, new
<1>6. \A a \in freeptr..(freeptr + n - 1) : cells[a - freeptr + 1] \in Cell
  <2>1. \A i \in 1..n : cells[i] \in Cell
    BY <1>1, ElementOfSeq
  <2>2. \A a \in freeptr..(freeptr + n - 1) : a - freeptr + 1 \in 1..n
    BY <1>2, <1>3
  <2> QED BY <2>1, <2>2
<1>7. mem' \in [Addr -> Cell]
  BY <1>1, <1>6 DEF IInv
<1>8. \A i \in 0..(n - 1) : mem'[freeptr + i] = cells[i + 1]
  <2>1. SUFFICES ASSUME NEW i \in 0..(n - 1) PROVE mem'[freeptr + i] = cells[i + 1]
    OBVIOUS
  <2>2. freeptr + i \in freeptr..(freeptr + n - 1) /\ (freeptr + i) - freeptr + 1 = i + 1
    BY <1>2, <1>3
  <2> QED BY <1>1, <1>5, <2>2
<1>9. ASSUME NEW o \in DOMAIN objs, NEW a \in Block(o)
      PROVE  mem'[a] = mem[a]
  <2>1. a \in Addr /\ a \in HeapBase..(freeptr - 1)
    BY BlockFacts
  <2>2. a \notin freeptr..(freeptr + n - 1)
    BY <1>2, <2>1
  <2> QED BY <1>1, <2>1, <2>2
<1>10. ObjectOK(new, r)
  BY <1>2 DEF ObjectOK, MakesObject, new
<1>11. /\ DOMAIN objs' = DOMAIN objs \cup {new} /\ objs' = [o \in DOMAIN objs' |-> objs'[o]]
       /\ objs'[new] = r /\ \A o \in DOMAIN objs : objs'[o] = objs[o]
  BY <1>1, <1>4
<1>12. freeptr' \in HeapBase..HeapEnd
  BY <1>1, <1>2, <1>3
<1> QED BY <1>1, <1>2, <1>3, <1>4, <1>7, <1>8, <1>9, <1>10, <1>11, <1>12 DEF n, new

\* Making an object keeps the invariant.
LEMMA MakesKeeps ==
  ASSUME IInv, NEW cells, NEW type \in ObjectTypes, NEW len \in Nat, MakesObject(cells, type, len)
  PROVE  IInv'
<1> DEFINE new == Ref(freeptr, TagOf(type))
           r == [type |-> type, len |-> len, addr |-> freeptr]
           n == WordsOf(type, len)
<1>1. /\ new \notin DOMAIN objs /\ DOMAIN objs' = DOMAIN objs \cup {new}
      /\ objs' = [o \in DOMAIN objs' |-> objs'[o]]
      /\ objs'[new] = r /\ \A o \in DOMAIN objs : objs'[o] = objs[o]
      /\ mem' \in [Addr -> Cell] /\ freeptr' = freeptr + n
      /\ freeptr \in Nat /\ freeptr' \in HeapBase..HeapEnd
      /\ n \in Nat \ {0}
      /\ \A i \in 0..(n - 1) : mem'[freeptr + i] = cells[i + 1]
      /\ \A o \in DOMAIN objs : \A a \in Block(o) : mem'[a] = mem[a]
      /\ ObjectOK(new, r)
  BY MakesFacts
<1>2. r.type = type /\ r.len = len /\ r.addr = freeptr
  OBVIOUS
<1>3. BlockOf(r) = freeptr..(freeptr + n - 1)
  BY <1>2 DEF BlockOf
<1>4. Len(cells) = n /\ \A i \in 0..(n - 1) : CellOK(type, len, i, cells[i + 1], Values)
  BY DEF MakesObject
<1>5. Values \subseteq Values'
  BY <1>1 DEF Values
<1>6. CellsOK(mem', r, Values')
  <2>1. ASSUME NEW i \in 0..(n - 1)
        PROVE  CellOK(type, len, i, mem'[freeptr + i], Values')
    BY <1>1, <1>4, <1>5, CellOKMonotonic
  <2> QED BY <1>2, <2>1 DEF CellsOK
<1>7. ASSUME NEW o \in DOMAIN objs
      PROVE  CellsOK(mem', objs[o], Values')
  <2> DEFINE p == objs[o]
  <2>1. ASSUME NEW i \in 0..(WordsOf(p.type, p.len) - 1)
        PROVE  CellOK(p.type, p.len, i, mem'[p.addr + i], Values')
    <3>1. CellOK(p.type, p.len, i, mem[p.addr + i], Values)
      BY ObjectFacts DEF CellsOK
    <3>2. mem'[p.addr + i] = mem[p.addr + i]
      BY <1>1, BlockFacts
    <3> QED BY <1>5, <3>1, <3>2, CellOKMonotonic
  <2> QED BY <2>1 DEF CellsOK
<1> HIDE DEF new, r, n
<1>8. \A o \in DOMAIN objs' : ObjectOK(o, objs'[o]) /\ CellsOK(mem', objs'[o], Values')
  BY <1>1, <1>6, <1>7, ObjectFacts DEF IInv
<1>9. NoOverlap'
  <2>1. \A o \in DOMAIN objs : Block(o)' = Block(o)
    BY <1>1, BlockIs
  <2>2. \A o \in DOMAIN objs' : o = new => Block(o)' = freeptr..(freeptr + n - 1)
    BY <1>1, <1>3, BlockIs
  <2>3. \A o \in DOMAIN objs : Block(o) \subseteq HeapBase..(freeptr - 1)
    BY DEF IInv, NoOverlap
  <2>4. \A o \in DOMAIN objs : \A p \in DOMAIN objs \ {o} : Block(o) \cap Block(p) = {}
    BY DEF IInv, NoOverlap
  <2>5. freeptr \in HeapBase..HeapEnd /\ HeapBase \in Nat /\ HeapEnd \in Nat
    BY HeapAssumption DEF IInv, HeapEnd
  <2>6. (freeptr..(freeptr + n - 1)) \cap (HeapBase..(freeptr - 1)) = {}
    BY <1>1, <2>5
  <2>7. freeptr..(freeptr + n - 1) \subseteq HeapBase..(freeptr' - 1)
        /\ HeapBase..(freeptr - 1) \subseteq HeapBase..(freeptr' - 1)
    BY <1>1, <2>5
  <2>8. \A o \in DOMAIN objs' : Block(o)' \subseteq HeapBase..(freeptr' - 1)
    <3>1. SUFFICES ASSUME NEW o \in DOMAIN objs'
                   PROVE  Block(o)' \subseteq HeapBase..(freeptr' - 1)
      OBVIOUS
    <3>2. CASE o = new
      BY <2>2, <2>7, <3>2
    <3>3. CASE o \in DOMAIN objs
      BY <2>1, <2>3, <2>7, <3>3
    <3> QED BY <1>1, <3>2, <3>3
  <2>9. \A o \in DOMAIN objs' : \A p \in DOMAIN objs' \ {o} : Block(o)' \cap Block(p)' = {}
    <3>1. \A o \in DOMAIN objs : Block(o) \cap (freeptr..(freeptr + n - 1)) = {}
      BY <2>3, <2>6
    <3>2. SUFFICES ASSUME NEW o \in DOMAIN objs', NEW p \in DOMAIN objs', o # p
                   PROVE  Block(o)' \cap Block(p)' = {}
      OBVIOUS
    <3>3. CASE o \in DOMAIN objs /\ p \in DOMAIN objs
      BY <2>1, <2>4, <3>2, <3>3
    <3>4. CASE o \in DOMAIN objs /\ p = new
      BY <2>1, <2>2, <3>1, <3>4
    <3>5. CASE p \in DOMAIN objs /\ o = new
      BY <2>1, <2>2, <3>1, <3>5
    <3> QED BY <1>1, <3>2, <3>3, <3>4, <3>5
  <2> QED BY <2>8, <2>9 DEF NoOverlap
<1> QED BY <1>1, <1>8, <1>9 DEF IInv

\* Writing into an object what its type may hold keeps the invariant, and leaves
\* the blocks of the other objects alone.
LEMMA ChangesKeeps ==
  ASSUME IInv, NEW o \in DOMAIN objs, ChangesObject(o)
  PROVE  /\ IInv'
         /\ \A p \in DOMAIN objs \ {o} : \A a \in Block(p) : mem'[a] = mem[a]
<1>1. /\ mem' \in [Addr -> Cell] /\ freeptr' = freeptr /\ objs' = objs
      /\ \A a \in Addr \ Block(o) : mem'[a] = mem[a]
      /\ CellsOK(mem', objs[o], Values)
  BY DEF ChangesObject
<1>2. ASSUME NEW p \in DOMAIN objs \ {o}, NEW a \in Block(p)
      PROVE  mem'[a] = mem[a]
  <2>1. Block(o) \cap Block(p) = {}
    BY DEF IInv, NoOverlap
  <2> QED BY <1>1, <2>1, BlockFacts
<1>3. \A p \in DOMAIN objs \ {o} : CellsOK(mem', objs[p], Values)
  <2>1. SUFFICES ASSUME NEW p \in DOMAIN objs \ {o},
                        NEW i \in 0..(WordsOf(objs[p].type, objs[p].len) - 1)
                 PROVE  CellOK(objs[p].type, objs[p].len, i, mem'[objs[p].addr + i], Values)
    BY DEF CellsOK
  <2>2. mem'[objs[p].addr + i] = mem[objs[p].addr + i]
    BY <1>2, BlockFacts
  <2> QED BY <2>2, ObjectFacts DEF CellsOK
<1>4. Values' = Values /\ NoOverlap'
  BY <1>1 DEF Values, IInv, NoOverlap, Block
<1>5. \A p \in DOMAIN objs' : ObjectOK(p, objs'[p]) /\ CellsOK(mem', objs'[p], Values')
  BY <1>1, <1>3, <1>4 DEF IInv
<1> QED BY <1>1, <1>2, <1>4, <1>5 DEF IInv

-----------------------------------------------------------------------------
(* Every constructor makes one object. *)

\* A word of the program, or of C in the types that hold such, is a cell that
\* an object of any type but a string may hold behind its header.
LEMMA WordCell ==
  ASSUME IInv, NEW type \in ObjectTypes \ {"string"}, NEW len, NEW i \in Nat \ {0}, NEW v,
         v \in Values \/ (v \in Nat /\ type \in {"primitive", "port"})
  PROVE  Word(v) \in Cell /\ CellOK(type, len, i, Word(v), Values)
<1>1. v \in Nat
  BY ValuesFacts
<1>2. Word(v) \in Cell /\ Word(v).kind = "word" /\ Word(v).w = v
  BY <1>1 DEF Word, Cell
<1> QED BY <1>2 DEF CellOK

\* An object with a one-byte tag.
LEMMA MakeTaggedMakes ==
  ASSUME IInv, NEW type \in DOMAIN TypeTag, NEW payload \in Seq(Cell), MakeTagged(type, payload),
         Len(payload) = FixedSize[type],
         \A i \in 1..Len(payload) : CellOK(type, Len(payload), i, payload[i], Values)
  PROVE  \E cells : MakesObject(cells, type, Len(payload))
<1> DEFINE head == <<Word(TypeTag[type])>>
           cells == head \o payload
<1>1. type \in ObjectTypes /\ type \notin {"pair", "string", "vector"} /\ TypeTag[type] \in Nat
      /\ TypeTag[type] % 256 = TypeTag[type]
  <2>1. TypeTag[type] \in 0..255
    BY TagFacts
  <2>2. \A w \in 0..255 : w % 256 = w /\ w \in Nat
    OBVIOUS
  <2>3. type \in ObjectTypes
    BY DEF ObjectTypes
  <2>4. type \notin {"pair", "string", "vector"}
    BY TagFacts
  <2>5. TypeTag[type] % 256 = TypeTag[type] /\ TypeTag[type] \in Nat
    BY <2>1, <2>2, Zenon
  <2> QED BY <2>3, <2>4, <2>5
<1>2. Word(TypeTag[type]) \in Cell
  BY <1>1 DEF Word, Cell
<1>3. head \in Seq(Cell) /\ Len(head) = 1 /\ head[1] = Word(TypeTag[type])
  BY <1>2
<1> HIDE DEF head
<1>4. /\ cells \in Seq(Cell) /\ Len(cells) = 1 + Len(payload)
      /\ \A i \in 1..(1 + Len(payload)) : cells[i] = IF i <= 1 THEN head[i] ELSE payload[i - 1]
  <2>1. /\ head \o payload \in Seq(Cell) /\ Len(head \o payload) = Len(head) + Len(payload)
        /\ \A i \in 1..(Len(head) + Len(payload)) :
             (head \o payload)[i] = IF i <= Len(head) THEN head[i] ELSE payload[i - Len(head)]
    BY <1>3, ConcatProperties, Zenon
  <2> QED BY <1>3, <2>1
<1>5. Len(payload) \in Nat
  BY LenProperties
<1>6. WordsOf(type, Len(payload)) = Len(cells)
  BY <1>1, <1>4 DEF WordsOf
<1>7. Allocate(cells, Len(cells), TagOf(type), type, Len(payload))
  BY <1>1, <1>4 DEF MakeTagged, TagOf, head
<1> HIDE DEF cells
<1>8. ASSUME NEW i \in 0..(Len(cells) - 1)
      PROVE  CellOK(type, Len(payload), i, cells[i + 1], Values)
  <2>1. CASE i = 0
    <3>1. cells[i + 1] = Word(TypeTag[type])
      <4>1. cells[1] = head[1]
        BY <1>4, <1>5
      <4> QED BY <1>3, <2>1, <4>1
    <3> QED BY <1>1, <2>1, <3>1 DEF CellOK, HeaderOK, Word
  <2>2. CASE i # 0
    <3>1. i \in 1..Len(payload) /\ cells[i + 1] = payload[i]
      BY <1>4, <1>5, <2>2
    <3> QED BY <3>1
  <2> QED BY <2>1, <2>2
<1> QED BY <1>4, <1>6, <1>7, <1>8 DEF MakesObject

\* A pair.
LEMMA ConsMakes ==
  ASSUME IInv, NEW a \in Values, NEW d \in Values, Cons(a, d)
  PROVE  \E cells : MakesObject(cells, "pair", 2)
<1> DEFINE cells == <<Word(a), Word(d)>>
<1>1. Word(a) \in Cell /\ Word(d) \in Cell /\ Word(a).kind = "word" /\ Word(d).kind = "word"
      /\ Word(a).w \in Values /\ Word(d).w \in Values
  BY ValuesFacts DEF Word, Cell
<1>2. cells \in Seq(Cell) /\ Len(cells) = 2 /\ cells[1] = Word(a) /\ cells[2] = Word(d)
  BY <1>1
<1>3. Allocate(cells, Len(cells), TagOf("pair"), "pair", 2)
  BY <1>2 DEF Cons, TagOf
<1> HIDE DEF cells
<1>4. \A i \in 0..1 : cells[i + 1] \in {Word(a), Word(d)}
  <2>1. SUFFICES ASSUME NEW i \in 0..1 PROVE cells[i + 1] \in {Word(a), Word(d)}
    OBVIOUS
  <2>2. CASE i = 0
    BY <1>2, <2>2
  <2>3. CASE i = 1
    BY <1>2, <2>3
  <2> QED BY <2>2, <2>3
<1>5. \A i \in 0..1 : CellOK("pair", 2, i, cells[i + 1], Values)
  BY <1>1, <1>4 DEF CellOK
<1>6. WordsOf("pair", 2) = 2 /\ "pair" \notin DOMAIN FixedSize
  BY TagFacts DEF WordsOf
<1>7. MakesObject(cells, "pair", 2)
  BY <1>2, <1>3, <1>5, <1>6 DEF MakesObject
<1> QED BY <1>7

\* A vector, a word for its header and one for each element.
LEMMA MakeVectorMakes ==
  ASSUME IInv, NEW n \in Nat, NEW fill \in Values, MakeVector(n, fill)
  PROVE  \E cells : MakesObject(cells, "vector", n)
<1> DEFINE header == n * 4 + VECTOR_TAG
           cells == [i \in 1..(n + 1) |-> Word(IF i = 1 THEN header ELSE fill)]
<1>1. header \in Nat /\ fill \in Nat
  BY ValuesFacts DEF VECTOR_TAG
<1>2. cells \in Seq(Cell) /\ Len(cells) = n + 1
  <2>1. \A i \in 1..(n + 1) : Word(IF i = 1 THEN header ELSE fill) \in Cell
    BY <1>1 DEF Word, Cell
  <2> QED BY <2>1
<1>3. Allocate(cells, Len(cells), TagOf("vector"), "vector", n)
  BY <1>2 DEF MakeVector, TagOf
<1>4. ASSUME NEW i \in 0..n
      PROVE  CellOK("vector", n, i, cells[i + 1], Values)
  <2>1. cells[i + 1] = Word(IF i = 0 THEN header ELSE fill)
    OBVIOUS
  <2> QED BY <2>1 DEF CellOK, HeaderOK, Word
<1> HIDE DEF cells
<1>5. WordsOf("vector", n) = n + 1 /\ "vector" \notin DOMAIN FixedSize
  BY TagFacts DEF WordsOf
<1> QED BY <1>2, <1>3, <1>4, <1>5 DEF MakesObject

\* A string: its header, its bytes, the NUL behind them, and the bytes that fill
\* the last word.
LEMMA MakeStringMakes ==
  ASSUME IInv, NEW text \in Seq(Byte), MakeString(text)
  PROVE  \E cells : MakesObject(cells, "string", Len(text))
<1> DEFINE len == Len(text)
           header == len * 4 + STRING_TAG
           bytes(i) == [k \in 0..(WordBytes - 1) |-> TextByte(text, (i - 2) * WordBytes + k)]
           n == len \div WordBytes + 2
           cells == [i \in 1..n |-> IF i = 1 THEN Word(header) ELSE Raw(bytes(i))]
<1>1. len \in Nat /\ header \in Nat /\ n \in Nat /\ WordBytes \in Nat \ {0}
      /\ 1 + StringWords(len) = n
  <2>1. len \in Nat
    BY LenProperties
  <2> HIDE DEF len
  <2>2. header \in Nat
    BY <2>1 DEF STRING_TAG
  <2>3. /\ len \div WordBytes \in Nat /\ StringWords(len) = 1 + len \div WordBytes
        /\ WordBytes \in Nat \ {0}
    BY <2>1, DivFacts
  <2>4. n \in Nat /\ 1 + StringWords(len) = n
    <3> DEFINE q == len \div WordBytes
    <3>1. q \in Nat /\ StringWords(len) = 1 + q /\ n = q + 2
      BY <2>3
    <3> HIDE DEF q, n
    <3> QED BY <3>1
  <2> QED BY <2>1, <2>2, <2>3, <2>4
<1>2. ASSUME NEW k \in Nat
      PROVE  TextByte(text, k) \in Byte \cup {Junk} /\ ByteOK(len, k, TextByte(text, k))
  <2>1. CASE k < Len(text)
    <3>1. k + 1 \in 1..Len(text)
      BY <1>1, <2>1
    <3>2. text[k + 1] \in Byte
      BY <3>1, ElementOfSeq
    <3> QED BY <2>1, <3>2, <1>1 DEF TextByte, ByteOK
  <2>2. CASE k = Len(text)
    BY <1>1, <2>2 DEF TextByte, ByteOK, Byte
  <2>3. CASE k > Len(text)
    BY <1>1, <2>3 DEF TextByte, ByteOK
  <2> QED BY <1>1, <2>1, <2>2, <2>3
<1>3. \A i \in 2..n, k \in 0..(WordBytes - 1) : (i - 2) * WordBytes + k \in Nat
  <2>1. CASE WordBytes = 4
    BY <2>1
  <2>2. CASE WordBytes = 8
    BY <2>2
  <2> QED BY <2>1, <2>2, WordBytesAssumption
<1> HIDE DEF len, header, n
<1>4. \A i \in 2..n : bytes(i) \in [0..(WordBytes - 1) -> Byte \cup {Junk}]
  BY <1>2, <1>3
<1>5. cells \in Seq(Cell) /\ Len(cells) = n
  <2>1. ASSUME NEW i \in 1..n
        PROVE  (IF i = 1 THEN Word(header) ELSE Raw(bytes(i))) \in Cell
    <3>1. CASE i = 1
      BY <1>1, <3>1 DEF Word, Cell
    <3>2. CASE i # 1
      <4>1. i \in 2..n
        BY <1>1, <3>2
      <4> QED BY <1>4, <3>2, <4>1 DEF Raw, Cell
    <3> QED BY <3>1, <3>2
  <2> HIDE DEF bytes
  <2> QED BY <1>1, <2>1
<1>6. 1 \in 1..n
  BY <1>1, DivFacts DEF n
<1>7. Allocate(cells, Len(cells), TagOf("string"), "string", len)
  BY <1>1, <1>5 DEF MakeString, TagOf, n, len, header
<1>8. ASSUME NEW i \in 0..(n - 1)
      PROVE  CellOK("string", len, i, cells[i + 1], Values)
  <2>1. CASE i = 0
    <3>1. cells[1] = Word(header)
      BY <1>6
    <3>2. CellOK("string", len, 0, Word(header), Values)
      BY DEF CellOK, HeaderOK, Word, header
    <3>3. i + 1 = 1
      BY <2>1
    <3>4. cells[i + 1] = Word(header)
      BY <3>1, <3>3, Zenon
    <3> HIDE DEF cells
    <3> QED BY <2>1, <3>2, <3>4, Zenon
  <2>2. CASE i # 0
    <3>1. PICK j \in 2..n : j = i + 1 /\ j # 1 /\ j \in 1..n /\ j - 2 = i - 1
      BY <1>1, <2>2
    <3>2. cells[j] = Raw(bytes(j))
      BY <3>1
    <3>3. \A k \in 0..(WordBytes - 1) : ByteOK(len, (j - 2) * WordBytes + k, bytes(j)[k])
      BY <1>2, <1>3, <3>1
    <3>4. CellOK("string", len, i, Raw(bytes(j)), Values)
      BY <2>2, <3>1, <3>3 DEF CellOK, Raw
    <3> QED BY <3>1, <3>2, <3>4
  <2> QED BY <2>1, <2>2
<1> HIDE DEF cells
<1>9. WordsOf("string", len) = n /\ "string" \notin DOMAIN FixedSize
  BY <1>1, DivFacts, TagFacts DEF WordsOf, n
<1>10. MakesObject(cells, "string", len)
  BY <1>5, <1>7, <1>8, <1>9 DEF MakesObject
<1> QED BY <1>10 DEF len

\* An object with one word behind its header, or with more of them.
LEMMA SmallMakes ==
  ASSUME IInv
  PROVE  /\ \A o \in Values : MakeSymbolWithString(o) => \E cells : MakesObject(cells, "symbol", 1)
         /\ \A code \in Nat : MakePrimitive(code) => \E cells : MakesObject(cells, "primitive", 1)
         /\ \A type \in {"procedure", "macro"}, p, b, e \in Values :
              MakeClosure(type, p, b, e) => \E cells : MakesObject(cells, type, 3)
         /\ \A f, t \in Nat : MakePort(f, t) => \E cells : MakesObject(cells, "port", 2)
<1>1. FixedSize["symbol"] = 1 /\ FixedSize["primitive"] = 1 /\ FixedSize["port"] = 2
      /\ FixedSize["procedure"] = 3 /\ FixedSize["macro"] = 3
  BY DEF FixedSize
<1>2. {"symbol", "primitive", "port", "procedure", "macro"} \subseteq DOMAIN TypeTag
  BY TagFacts
<1>3. ASSUME NEW o \in Values, MakeSymbolWithString(o)
      PROVE  \E cells : MakesObject(cells, "symbol", 1)
  <2> DEFINE payload == <<Word(o)>>
  <2>1. Word(o) \in Cell /\ CellOK("symbol", 1, 1, Word(o), Values)
    BY WordCell, <1>2 DEF ObjectTypes
  <2>2. payload \in Seq(Cell) /\ Len(payload) = 1 /\ payload[1] = Word(o)
    BY <2>1
  <2>3. MakeTagged("symbol", payload)
    BY <1>3 DEF MakeSymbolWithString
  <2> HIDE DEF payload
  <2>4. \A i \in 1..1 : CellOK("symbol", 1, i, payload[i], Values)
    BY <2>1, <2>2
  <2> QED BY <1>1, <1>2, <2>2, <2>3, <2>4, MakeTaggedMakes
<1>4. ASSUME NEW code \in Nat, MakePrimitive(code)
      PROVE  \E cells : MakesObject(cells, "primitive", 1)
  <2> DEFINE payload == <<Word(code)>>
  <2>1. Word(code) \in Cell /\ CellOK("primitive", 1, 1, Word(code), Values)
    BY WordCell, <1>2 DEF ObjectTypes
  <2>2. payload \in Seq(Cell) /\ Len(payload) = 1 /\ payload[1] = Word(code)
    BY <2>1
  <2>3. MakeTagged("primitive", payload)
    BY <1>4 DEF MakePrimitive
  <2> HIDE DEF payload
  <2>4. \A i \in 1..1 : CellOK("primitive", 1, i, payload[i], Values)
    BY <2>1, <2>2
  <2> QED BY <1>1, <1>2, <2>2, <2>3, <2>4, MakeTaggedMakes
<1>5. ASSUME NEW type \in {"procedure", "macro"}, NEW p \in Values, NEW b \in Values, NEW e \in Values,
             MakeClosure(type, p, b, e)
      PROVE  \E cells : MakesObject(cells, type, 3)
  <2> DEFINE payload == <<Word(p), Word(b), Word(e)>>
  <2>1. \A v \in Values, i \in 1..3 : Word(v) \in Cell /\ CellOK(type, 3, i, Word(v), Values)
    BY WordCell, <1>2 DEF ObjectTypes
  <2>2. payload \in Seq(Cell) /\ Len(payload) = 3
        /\ payload[1] = Word(p) /\ payload[2] = Word(b) /\ payload[3] = Word(e)
    BY <2>1
  <2>3. MakeTagged(type, payload)
    BY <1>5 DEF MakeClosure
  <2> HIDE DEF payload
  <2>4. \A i \in 1..3 : payload[i] \in {Word(p), Word(b), Word(e)}
    <3>1. \A i \in 1..3 : i = 1 \/ i = 2 \/ i = 3
      OBVIOUS
    <3> QED BY <2>2, <3>1
  <2>5. \A i \in 1..3 : CellOK(type, 3, i, payload[i], Values)
    BY <2>1, <2>4
  <2> QED BY <1>1, <1>2, <2>2, <2>3, <2>5, MakeTaggedMakes
<1>6. ASSUME NEW f \in Nat, NEW t \in Nat, MakePort(f, t)
      PROVE  \E cells : MakesObject(cells, "port", 2)
  <2> DEFINE payload == <<Word(t), Word(f)>>
  <2>1. \A v \in Nat, i \in 1..2 : Word(v) \in Cell /\ CellOK("port", 2, i, Word(v), Values)
    BY WordCell, <1>2 DEF ObjectTypes
  <2>2. payload \in Seq(Cell) /\ Len(payload) = 2 /\ payload[1] = Word(t) /\ payload[2] = Word(f)
    BY <2>1
  <2>3. MakeTagged("port", payload)
    BY <1>6 DEF MakePort
  <2> HIDE DEF payload
  <2>4. \A i \in 1..2 : payload[i] \in {Word(t), Word(f)}
    <3>1. \A i \in 1..2 : i = 1 \/ i = 2
      OBVIOUS
    <3> QED BY <2>2, <3>1
  <2>5. \A i \in 1..2 : CellOK("port", 2, i, payload[i], Values)
    BY <2>1, <2>4
  <2> QED BY <1>1, <1>2, <2>2, <2>3, <2>5, MakeTaggedMakes
<1> QED BY <1>3, <1>4, <1>5, <1>6

\* Every constructor makes one object.
LEMMA ConstructMakes ==
  ASSUME IInv, Construct
  PROVE  \E cells, type, len : type \in ObjectTypes /\ len \in Nat /\ MakesObject(cells, type, len)
<1>1. {"pair", "vector", "string", "symbol", "primitive", "procedure", "macro", "port"} \subseteq ObjectTypes
  BY TagFacts DEF ObjectTypes
<1>2. CASE \E a, d \in Values : Cons(a, d)
  BY <1>1, <1>2, ConsMakes
<1>3. CASE \E n \in VectorLengths, fill \in Values : MakeVector(n, fill)
  BY <1>1, <1>3, MakeVectorMakes, InputsAssumption
<1>4. CASE \E text \in StringTexts : MakeString(text)
  <2>1. PICK text \in StringTexts : MakeString(text)
    BY <1>4
  <2>2. text \in Seq(Byte)
    BY InputsAssumption DEF Byte
  <2>3. Len(text) \in Nat
    BY <2>2, LenProperties
  <2> QED BY <1>1, <2>1, <2>2, <2>3, MakeStringMakes
<1>5. CASE \E o \in DOMAIN objs : is_string(mem, o) /\ MakeSymbolWithString(o)
  BY <1>1, <1>5, SmallMakes DEF Values
<1>6. CASE \E code \in CodeWords : MakePrimitive(code)
  BY <1>1, <1>6, SmallMakes, InputsAssumption
<1>7. CASE \E type \in {"procedure", "macro"}, p, b, e \in Values : MakeClosure(type, p, b, e)
  BY <1>1, <1>7, SmallMakes
<1>8. CASE \E f \in CodeWords, t \in {PORT_TYPE_INPUT, PORT_TYPE_OUTPUT} : MakePort(f, t)
  BY <1>1, <1>8, SmallMakes, InputsAssumption DEF PORT_TYPE_INPUT, PORT_TYPE_OUTPUT
<1> QED BY <1>2, <1>3, <1>4, <1>5, <1>6, <1>7, <1>8 DEF Construct

-----------------------------------------------------------------------------
(* Every mutator changes one object. *)

\* Word i of an object is overwritten with what it may hold.
LEMMA PokeChanges ==
  ASSUME IInv, NEW o \in DOMAIN objs, objs[o].type \in {"pair", "vector", "string", "port"},
         NEW i \in 0..(WordsOf(objs[o].type, objs[o].len) - 1), NEW cell \in Cell,
         CellOK(objs[o].type, objs[o].len, i, cell, Values), Poke(objs[o].addr + i, cell)
  PROVE  ChangesObject(o)
<1> DEFINE r == objs[o]
<1>1. mem' = [mem EXCEPT ![r.addr + i] = cell] /\ UNCHANGED <<freeptr, objs>>
  BY DEF Poke
<1>2. r.addr + i \in Block(o) /\ r.addr + i \in Addr /\ mem \in [Addr -> Cell] /\ r.addr \in Nat
  BY BlockFacts, ObjectFacts DEF IInv
<1>3. mem' \in [Addr -> Cell] /\ \A a \in Addr : mem'[a] = IF a = r.addr + i THEN cell ELSE mem[a]
  BY <1>1, <1>2
<1>4. ASSUME NEW j \in 0..(WordsOf(r.type, r.len) - 1)
      PROVE  CellOK(r.type, r.len, j, mem'[r.addr + j], Values)
  <2>1. r.addr + j \in Addr
    BY BlockFacts
  <2>2. CASE j = i
    <3>1. mem'[r.addr + j] = cell
      BY <1>2, <1>3, <2>2
    <3> QED BY <2>2, <3>1
  <2>3. CASE j # i
    <3>1. r.addr + j # r.addr + i
      BY <1>2, <2>3
    <3>2. mem'[r.addr + j] = mem[r.addr + j]
      BY <1>3, <2>1, <3>1
    <3> QED BY <3>2, ObjectFacts DEF CellsOK
  <2> QED BY <2>2, <2>3
<1> QED BY <1>1, <1>2, <1>3, <1>4 DEF ChangesObject, CellsOK

\* set-car! and set-cdr!
LEMMA SetPairChanges ==
  ASSUME IInv, NEW o \in DOMAIN objs, SetCar(o) \/ SetCdr(o)
  PROVE  ChangesObject(o)
<1>1. objs[o].type = "pair" /\ AddrOf(o) = objs[o].addr /\ objs[o].addr \in Nat
  BY Decoded, ObjectFacts DEF SetCar, SetCdr
<1>2. WordsOf(objs[o].type, objs[o].len) = 2
  BY <1>1 DEF WordsOf
<1>3. PICK v \in Values, i \in 0..1 : Poke(objs[o].addr + i, Word(v))
  <2>1. objs[o].addr + 0 = objs[o].addr
    BY <1>1
  <2>2. CASE SetCar(o)
    BY <1>1, <2>1, <2>2 DEF SetCar
  <2>3. CASE SetCdr(o)
    BY <1>1, <2>3 DEF SetCdr
  <2> QED BY <2>2, <2>3
<1>4. Word(v) \in Cell /\ CellOK("pair", objs[o].len, i, Word(v), Values)
  BY ValuesFacts DEF Word, Cell, CellOK
<1> QED BY <1>1, <1>2, <1>3, <1>4, PokeChanges

\* vector-set!, whose index is checked against the length.
LEMMA VectorSetChanges ==
  ASSUME IInv, NEW o \in DOMAIN objs, VectorSet(o)
  PROVE  ChangesObject(o)
<1> DEFINE len == objs[o].len
<1>1. objs[o].type = "vector" /\ AddrOf(o) = objs[o].addr /\ objs[o].addr \in Nat /\ len \in Nat
      /\ length_of(mem, o) = len
  BY Decoded, ObjectFacts DEF VectorSet
<1>2. WordsOf(objs[o].type, len) = 1 + len
  BY <1>1 DEF WordsOf
<1>3. PICK idx \in Indices, v \in Values :
        ~(idx < 0 \/ idx >= len) /\ Poke(objs[o].addr + 1 + idx, Word(v))
  BY <1>1 DEF VectorSet
<1> HIDE DEF len
<1>4. idx \in 0..(len - 1) /\ 1 + idx \in 1..len /\ objs[o].addr + 1 + idx = objs[o].addr + (1 + idx)
  BY <1>1, <1>3, InputsAssumption
<1>5. Word(v) \in Cell /\ CellOK("vector", len, 1 + idx, Word(v), Values)
  BY <1>4, ValuesFacts DEF Word, Cell, CellOK
<1> QED
  <2>1. 1 + idx \in 0..(WordsOf(objs[o].type, len) - 1)
    BY <1>1, <1>2, <1>4
  <2> QED BY <1>1, <1>3, <1>4, <1>5, <2>1, PokeChanges DEF len

\* set_port_closed leaves a word in the place of the flags.
LEMMA SetPortClosedChanges ==
  ASSUME IInv, NEW o \in DOMAIN objs, SetPortClosed(o)
  PROVE  ChangesObject(o)
<1>1. objs[o].type = "port" /\ AddrOf(o) = objs[o].addr /\ objs[o].addr \in Nat
  BY Decoded, ObjectFacts, TagFacts DEF SetPortClosed
<1>2. objs[o].len = 2 /\ WordsOf(objs[o].type, objs[o].len) = 3
  <2>1. objs[o].len = 2
    BY <1>1, TagFacts DEF IInv, ObjectOK, FixedSize
  <2> QED BY <1>1, <2>1 DEF WordsOf
<1> DEFINE a == objs[o].addr + 1
<1>3. mem[a] \in Cell /\ mem[a].kind = "word"
  <2>1. CellOK("port", 2, 1, mem[a], Values)
    BY <1>1, <1>2, ObjectFacts DEF CellsOK
  <2>2. mem[a] \in Cell
    BY <1>2, BlockFacts
  <2> QED BY <2>1, <2>2 DEF CellOK
<1>4. mem[a].w \in Nat
  BY <1>3 DEF Cell
<1>5. \A w \in Nat, flags \in Nat : with_flags(w, flags) \in Nat
  <2>1. SUFFICES ASSUME NEW w \in Nat, NEW flags \in Nat PROVE with_flags(w, flags) \in Nat
    OBVIOUS
  <2>2. /\ w % 256 \in Nat /\ flags \div 256 \in Nat /\ w \div 16777216 \in Nat
    OBVIOUS
  <2>3. (flags \div 256) % 65536 \in Nat
    BY <2>2
  <2> QED BY <2>2, <2>3 DEF with_flags
<1>6. PORT_FLAG_CLOSED + get_port_flags(mem, o) \in Nat
  BY DEF PORT_FLAG_CLOSED, get_port_flags
<1>7. PICK w \in Nat : Poke(a, Word(w))
  BY <1>1, <1>4, <1>5, <1>6 DEF SetPortClosed
<1>8. Word(w) \in Cell /\ CellOK("port", 2, 1, Word(w), Values)
  BY DEF Word, Cell, CellOK
<1> QED BY <1>1, <1>2, <1>7, <1>8, PokeChanges

\* vector-fill!, which writes the words of the elements.
LEMMA VectorFillChanges ==
  ASSUME IInv, NEW o \in DOMAIN objs, VectorFill(o)
  PROVE  ChangesObject(o)
<1> DEFINE len == objs[o].len
           addr == objs[o].addr
<1>1. objs[o].type = "vector" /\ AddrOf(o) = addr /\ addr \in Nat /\ len \in Nat
      /\ length_of(mem, o) = len
  BY Decoded, ObjectFacts DEF VectorFill
<1>2. WordsOf(objs[o].type, len) = 1 + len
  BY <1>1 DEF WordsOf
<1>3. Block(o) = addr..(addr + len) /\ Block(o) \subseteq Addr
  BY <1>1, <1>2, BlockFacts
<1>4. PICK v \in Values :
        mem' = [a \in Addr |-> IF a \in (addr + 1)..(addr + len) THEN Word(v) ELSE mem[a]]
  BY <1>1 DEF VectorFill
<1>5. UNCHANGED <<freeptr, objs>>
  BY DEF VectorFill
<1>6. Word(v) \in Cell /\ \A i : CellOK("vector", len, i, Word(v), Values) \/ i = 0
  BY ValuesFacts DEF Word, Cell, CellOK
<1> HIDE DEF len, addr
<1>7. mem \in [Addr -> Cell]
  BY DEF IInv
<1>8. mem' \in [Addr -> Cell]
  BY <1>4, <1>6, <1>7
<1>9. \A a \in Addr \ Block(o) : mem'[a] = mem[a]
  <2>1. (addr + 1)..(addr + len) \subseteq Block(o)
    BY <1>1, <1>3
  <2> QED BY <1>4, <2>1
<1>10. ASSUME NEW i \in 0..len
       PROVE  CellOK("vector", len, i, mem'[addr + i], Values)
  <2>1. addr + i \in Addr
    BY <1>1, <1>3
  <2>2. CASE i = 0
    <3>1. mem'[addr + i] = mem[addr + i]
      BY <1>1, <1>4, <2>1, <2>2
    <3>2. i \in 0..(WordsOf(objs[o].type, len) - 1)
      BY <1>1, <1>2
    <3> QED BY <1>1, <3>1, <3>2, ObjectFacts DEF CellsOK, len, addr
  <2>3. CASE i # 0
    <3>1. addr + i \in (addr + 1)..(addr + len)
      BY <1>1, <2>3
    <3>2. mem'[addr + i] = Word(v)
      BY <1>4, <2>1, <3>1
    <3> QED BY <1>6, <2>3, <3>2
  <2> QED BY <2>2, <2>3
<1>11. \A i \in 0..(WordsOf(objs[o].type, len) - 1) :
          CellOK(objs[o].type, len, i, mem'[addr + i], Values)
  <2>1. \A i \in 0..(WordsOf(objs[o].type, len) - 1) : i \in 0..len
    BY <1>1, <1>2
  <2> QED BY <1>1, <1>10, <2>1
<1> QED BY <1>1, <1>5, <1>8, <1>9, <1>11 DEF ChangesObject, CellsOK, len, addr

\* The words of a string behind its header hold bytes.
LEMMA StringFacts ==
  ASSUME IInv, NEW o \in DOMAIN objs, is_string(mem, o)
  PROVE  /\ objs[o].type = "string" /\ AddrOf(o) = objs[o].addr
         /\ objs[o].addr \in Nat /\ objs[o].len \in Nat /\ length_of(mem, o) = objs[o].len
         /\ objs[o].len \div WordBytes \in Nat
         /\ WordsOf(objs[o].type, objs[o].len) = 2 + objs[o].len \div WordBytes
         /\ \A i \in 1..(1 + objs[o].len \div WordBytes) :
              /\ objs[o].addr + i \in Block(o) /\ objs[o].addr + i \in Addr
              /\ mem[objs[o].addr + i].bytes \in [0..(WordBytes - 1) -> Byte \cup {Junk}]
              /\ \A k \in 0..(WordBytes - 1) :
                   ByteOK(objs[o].len, (i - 1) * WordBytes + k, mem[objs[o].addr + i].bytes[k])
<1> DEFINE len == objs[o].len
           addr == objs[o].addr
           q == len \div WordBytes
<1>1. objs[o].type = "string" /\ AddrOf(o) = addr /\ addr \in Nat /\ len \in Nat
      /\ length_of(mem, o) = len
  BY Decoded, ObjectFacts
<1>2. q \in Nat
  BY <1>1, DivFacts
<1>3. WordsOf(objs[o].type, len) = 2 + q
  BY <1>1 DEF WordsOf
<1> HIDE DEF len, addr, q
<1>4. ASSUME NEW i \in 1..(1 + q)
      PROVE  /\ addr + i \in Block(o) /\ addr + i \in Addr
             /\ mem[addr + i].bytes \in [0..(WordBytes - 1) -> Byte \cup {Junk}]
             /\ \A k \in 0..(WordBytes - 1) :
                   ByteOK(len, (i - 1) * WordBytes + k, mem[addr + i].bytes[k])
  <2>1. i \in 0..(WordsOf(objs[o].type, len) - 1) /\ i # 0
    BY <1>2, <1>3
  <2>2. addr + i \in Block(o) /\ addr + i \in Addr /\ mem[addr + i] \in Cell
    BY <2>1, BlockFacts DEF len, addr
  <2>3. CellOK("string", len, i, mem[addr + i], Values)
    BY <1>1, <2>1, ObjectFacts DEF CellsOK, len, addr
  <2>4. mem[addr + i].kind = "raw"
        /\ \A k \in 0..(WordBytes - 1) : ByteOK(len, (i - 1) * WordBytes + k, mem[addr + i].bytes[k])
    BY <2>1, <2>3 DEF CellOK
  <2>5. mem[addr + i].bytes \in [0..(WordBytes - 1) -> Byte \cup {Junk}]
    BY <2>2, <2>4 DEF Cell
  <2> QED BY <2>2, <2>4, <2>5
<1> QED BY <1>1, <1>2, <1>3, <1>4 DEF len, addr, q

\* The value of a character is a byte.
LEMMA CharacterByte ==
  ASSUME NEW c \in Characters
  PROVE  character_value(c) \in Byte
<1>1. c \in Nat
  BY ImmediatesAssumption DEF Characters
<1>2. c \div 4 \in Nat
  BY <1>1
<1> QED BY <1>2 DEF character_value, Byte

\* string-set!, whose position is checked against the length.
LEMMA StringSetChanges ==
  ASSUME IInv, NEW o \in DOMAIN objs, StringSet(o)
  PROVE  ChangesObject(o)
<1> DEFINE len == objs[o].len
           addr == objs[o].addr
<1>1. /\ objs[o].type = "string" /\ AddrOf(o) = addr /\ addr \in Nat /\ len \in Nat
      /\ length_of(mem, o) = len
      /\ WordsOf(objs[o].type, len) = 2 + len \div WordBytes /\ len \div WordBytes \in Nat
  BY StringFacts DEF StringSet
<1>2. PICK pos \in Indices, c \in Characters :
        /\ ~(pos < 0 \/ pos >= len)
        /\ Poke(addr + 1 + pos \div WordBytes,
                Raw([mem[addr + 1 + pos \div WordBytes].bytes EXCEPT ![pos % WordBytes] = character_value(c)]))
  BY <1>1 DEF StringSet
<1> DEFINE i == 1 + pos \div WordBytes
           k == pos % WordBytes
           old == mem[addr + i].bytes
           new == [old EXCEPT ![k] = character_value(c)]
<1>3. pos \in 0..len /\ pos # len /\ pos \in Nat
  BY <1>1, <1>2, InputsAssumption
<1>4. /\ pos \div WordBytes \in Nat /\ pos \div WordBytes <= len \div WordBytes
      /\ k \in 0..(WordBytes - 1) /\ (pos \div WordBytes) * WordBytes + k = pos
  BY <1>1, <1>3, DivFacts
<1>5. i \in 1..(1 + len \div WordBytes) /\ (i - 1) * WordBytes + k = pos
      /\ i \in 0..(WordsOf(objs[o].type, len) - 1) /\ i # 0
      /\ addr + 1 + pos \div WordBytes = addr + i
  <2> DEFINE q == pos \div WordBytes
             n == len \div WordBytes
  <2>1. q \in Nat /\ n \in Nat /\ q <= n /\ i = 1 + q /\ WordsOf(objs[o].type, len) = 2 + n
        /\ q * WordBytes + k = pos
    BY <1>1, <1>4
  <2> HIDE DEF q, n, i, k
  <2>2. i \in 1..(1 + n) /\ i \in 0..(WordsOf(objs[o].type, len) - 1) /\ i # 0 /\ i - 1 = q
        /\ addr + 1 + q = addr + i
    BY <1>1, <2>1
  <2> QED BY <2>1, <2>2 DEF q, n
<1>6. Poke(addr + i, Raw(new))
  BY <1>2, <1>5
<1> HIDE DEF i, k, len, addr
<1>7. /\ old \in [0..(WordBytes - 1) -> Byte \cup {Junk}]
      /\ \A j \in 0..(WordBytes - 1) : ByteOK(len, (i - 1) * WordBytes + j, old[j])
  BY <1>1, <1>5, StringFacts DEF StringSet, len, addr
<1> HIDE DEF old
<1>8. new \in [0..(WordBytes - 1) -> Byte \cup {Junk}]
      /\ \A j \in 0..(WordBytes - 1) : new[j] = IF j = k THEN character_value(c) ELSE old[j]
  BY <1>4, <1>7, CharacterByte
<1> HIDE DEF new
<1>9. Raw(new) \in Cell
  BY <1>8 DEF Raw, Cell
<1>10. \A j \in 0..(WordBytes - 1) : ByteOK(len, (i - 1) * WordBytes + j, new[j])
  <2>1. ByteOK(len, (i - 1) * WordBytes + k, character_value(c))
    BY <1>3, <1>5, CharacterByte DEF ByteOK
  <2> QED BY <1>7, <1>8, <2>1
<1>11. CellOK("string", len, i, Raw(new), Values)
  BY <1>5, <1>10 DEF CellOK, Raw
<1> QED BY <1>1, <1>5, <1>6, <1>9, <1>11, PokeChanges DEF len, addr

\* string-fill!, which writes the bytes of the text and not its NUL.
LEMMA StringFillChanges ==
  ASSUME IInv, NEW o \in DOMAIN objs, StringFill(o)
  PROVE  ChangesObject(o)
<1> DEFINE len == objs[o].len
           addr == objs[o].addr
           q == len \div WordBytes
<1>1. /\ objs[o].type = "string" /\ AddrOf(o) = addr /\ addr \in Nat /\ len \in Nat
      /\ length_of(mem, o) = len /\ WordsOf(objs[o].type, len) = 2 + q /\ q \in Nat
      /\ \A i \in 1..(1 + q) :
           /\ addr + i \in Block(o) /\ addr + i \in Addr
           /\ mem[addr + i].bytes \in [0..(WordBytes - 1) -> Byte \cup {Junk}]
           /\ \A k \in 0..(WordBytes - 1) :
                ByteOK(len, (i - 1) * WordBytes + k, mem[addr + i].bytes[k])
  BY StringFacts DEF StringFill
<1>2. PICK c \in Characters :
        mem' = [a \in Addr |->
                  LET first == (a - addr - 1) * WordBytes
                  IN  IF a > addr /\ first < len
                      THEN Raw([k \in 0..WordBytes-1 |->
                                  IF first + k < len THEN character_value(c) ELSE mem[a].bytes[k]])
                      ELSE mem[a]]
  BY <1>1 DEF StringFill
<1>3. UNCHANGED <<freeptr, objs>> /\ mem \in [Addr -> Cell] /\ Addr \subseteq Int
  BY HeapAssumption DEF StringFill, IInv, Addr, HeapEnd
<1>4. ASSUME NEW a \in Addr, a > addr, (a - addr - 1) * WordBytes < len
      PROVE  a - addr \in 1..(1 + q)
  <2>1. \A j \in Nat : j * WordBytes < len => j <= len \div WordBytes
    <3>1. CASE WordBytes = 4
      BY <1>1, <3>1
    <3>2. CASE WordBytes = 8
      BY <1>1, <3>2
    <3> QED BY <3>1, <3>2, WordBytesAssumption
  <2>2. a - addr - 1 \in Nat
    BY <1>1, <1>3, <1>4
  <2>3. a - addr - 1 <= q
    BY <1>4, <2>1, <2>2
  <2> HIDE DEF q, addr
  <2> QED BY <1>1, <1>3, <2>2, <2>3
<1> DEFINE filled(i) == [k \in 0..(WordBytes - 1) |->
                           IF (i - 1) * WordBytes + k < len THEN character_value(c)
                           ELSE mem[addr + i].bytes[k]]
<1>5. ASSUME NEW a \in Addr
      PROVE  \/ mem'[a] = mem[a]
             \/ \E i \in 1..(1 + q) : a = addr + i /\ mem'[a] = Raw(filled(i))
  <2>1. CASE a > addr /\ (a - addr - 1) * WordBytes < len
    <3>1. PICK i \in 1..(1 + q) : i = a - addr
      BY <1>4, <2>1
    <3>2. a = addr + i /\ a - addr - 1 = i - 1
      BY <1>1, <1>3, <3>1
    <3>3. mem'[a] = Raw([k \in 0..(WordBytes - 1) |->
                           IF (a - addr - 1) * WordBytes + k < len THEN character_value(c)
                           ELSE mem[a].bytes[k]])
      BY <1>2, <2>1
    <3> QED BY <3>2, <3>3
  <2>2. CASE ~(a > addr /\ (a - addr - 1) * WordBytes < len)
    BY <1>2, <2>2
  <2> QED BY <2>1, <2>2
<1> HIDE DEF len, addr, q
<1>6. ASSUME NEW i \in 1..(1 + q)
      PROVE  Raw(filled(i)) \in Cell /\ CellOK("string", len, i, Raw(filled(i)), Values)
  <2>1. filled(i) \in [0..(WordBytes - 1) -> Byte \cup {Junk}]
    BY <1>1, CharacterByte
  <2>2. ASSUME NEW k \in 0..(WordBytes - 1)
        PROVE  ByteOK(len, (i - 1) * WordBytes + k, filled(i)[k])
    <3>1. CASE (i - 1) * WordBytes + k < len
      <4>1. filled(i)[k] = character_value(c)
        BY <3>1
      <4>2. (i - 1) * WordBytes + k # len
        BY <1>1, <3>1
      <4> QED BY <4>1, <4>2, CharacterByte DEF ByteOK
    <3>2. CASE ~((i - 1) * WordBytes + k < len)
      <4>1. filled(i)[k] = mem[addr + i].bytes[k]
        BY <3>2
      <4> QED BY <1>1, <4>1
    <3> QED BY <3>1, <3>2
  <2> HIDE DEF filled
  <2>3. Raw(filled(i)) \in Cell
    BY <2>1 DEF Raw, Cell
  <2>4. i # 0
    BY <1>1
  <2> QED BY <2>2, <2>3, <2>4 DEF CellOK, Raw
<1> HIDE DEF filled
<1>7. mem' \in [Addr -> Cell]
  <2>1. \A a \in Addr : mem'[a] \in Cell
    BY <1>3, <1>5, <1>6
  <2>2. mem' = [a \in Addr |-> mem'[a]]
    BY <1>2
  <2> QED BY <2>1, <2>2
<1>8. \A a \in Addr \ Block(o) : mem'[a] = mem[a]
  BY <1>1, <1>5
<1>9. ASSUME NEW i \in 0..(WordsOf(objs[o].type, len) - 1)
      PROVE  CellOK(objs[o].type, len, i, mem'[addr + i], Values)
  <2>1. addr + i \in Addr
    BY BlockFacts DEF len, addr
  <2>2. CellOK(objs[o].type, len, i, mem[addr + i], Values)
    BY ObjectFacts DEF CellsOK, len, addr
  <2>3. \A j \in 1..(1 + q) : addr + i = addr + j => i = j
    BY <1>1
  <2> QED BY <1>1, <1>5, <1>6, <2>1, <2>2, <2>3
<1> QED BY <1>1, <1>3, <1>7, <1>8, <1>9 DEF ChangesObject, CellsOK, len, addr

\* Every mutator changes one object.
LEMMA MutateChanges ==
  ASSUME IInv, Mutate
  PROVE  \E o \in DOMAIN objs : ChangesObject(o)
BY SetPairChanges, VectorSetChanges, VectorFillChanges, StringSetChanges, StringFillChanges,
   SetPortClosedChanges DEF Mutate

-----------------------------------------------------------------------------
(* The invariant holds. *)

\* The five constants scheme_init makes first.
LEMMA InitOK ==
  ASSUME Init
  PROVE  IInv
<1> DEFINE types == {Constants[i] : i \in 1..5}
<1>1. /\ HeapWords >= 5 /\ freeptr = HeapBase + 5
      /\ mem = [a \in Addr |->
              IF a < HeapBase + 4 THEN Word(TypeTag[Constants[a - HeapBase + 1]])
              ELSE IF a = HeapBase + 4 THEN Word(TypeTag["boolean"] + 256)
              ELSE Raw([k \in 0..WordBytes-1 |-> Junk])]
      /\ objs = [o \in {TheConstant(i) : i \in 1..5} |->
               LET i == CHOOSE i \in 1..5 : o = TheConstant(i)
               IN  [type |-> Constants[i], len |-> 0, addr |-> HeapBase + i - 1]]
  BY DEF Init
<1>2. HeapBase \in Nat \ {0} /\ HeapEnd \in Nat /\ freeptr \in HeapBase..HeapEnd
  BY <1>1, HeapAssumption DEF HeapEnd
<1>3. /\ Constants[1] = "nil" /\ Constants[2] = "eof" /\ Constants[3] = "unspecified"
      /\ Constants[4] = "boolean" /\ Constants[5] = "boolean"
  BY DEF Constants
<1>4. \A i \in 1..5 : Constants[i] \in DOMAIN TypeTag /\ FixedSize[Constants[i]] = 0
  <2>1. \A i \in 1..5 : i = 1 \/ i = 2 \/ i = 3 \/ i = 4 \/ i = 5
    OBVIOUS
  <2>2. /\ FixedSize["nil"] = 0 /\ FixedSize["eof"] = 0 /\ FixedSize["unspecified"] = 0
        /\ FixedSize["boolean"] = 0
    BY DEF FixedSize
  <2> QED BY <1>3, <2>1, <2>2, TagFacts
<1>5. \A i \in 1..5 : TheConstant(i) \div WordBytes = HeapBase + i - 1
  <2>1. SUFFICES ASSUME NEW i \in 1..5 PROVE TheConstant(i) \div WordBytes = HeapBase + i - 1
    OBVIOUS
  <2>2. HeapBase + i - 1 \in Nat
    BY <1>2
  <2> QED BY <2>2, RefFacts DEF TheConstant
<1>6. \A i, j \in 1..5 : TheConstant(i) = TheConstant(j) => i = j
  BY <1>2, <1>5
<1>7. DOMAIN objs = {TheConstant(i) : i \in 1..5}
  BY <1>1
<1>8. \A i \in 1..5 : objs[TheConstant(i)] = [type |-> Constants[i], len |-> 0, addr |-> HeapBase + i - 1]
  <2>1. SUFFICES ASSUME NEW i \in 1..5
                 PROVE  objs[TheConstant(i)] = [type |-> Constants[i], len |-> 0, addr |-> HeapBase + i - 1]
    OBVIOUS
  <2>2. (CHOOSE j \in 1..5 : TheConstant(i) = TheConstant(j)) = i
    BY <1>6
  <2> QED BY <1>1, <2>2
<1> HIDE DEF types
<1>9. ASSUME NEW i \in 1..5, NEW r, r = [type |-> Constants[i], len |-> 0, addr |-> HeapBase + i - 1]
      PROVE  /\ ObjectOK(TheConstant(i), r) /\ WordsOf(r.type, r.len) = 1
             /\ CellsOK(mem, r, Values)
  <2>1. r.type = Constants[i] /\ r.len = 0 /\ r.addr = HeapBase + i - 1
    BY <1>9
  <2>2. r.type \in ObjectTypes /\ r.type \notin {"pair", "string", "vector"}
    BY <1>4, <2>1, TagFacts DEF ObjectTypes
  <2>3. r.addr \in Nat /\ r.addr \in Addr
    BY <1>1, <1>2, <2>1 DEF Addr, HeapEnd
  <2>4. r \in [type : ObjectTypes, len : Nat, addr : Nat]
    BY <1>9, <2>1, <2>2, <2>3
  <2>5. ObjectOK(TheConstant(i), r)
    BY <1>4, <2>1, <2>2, <2>4 DEF ObjectOK, TagOf, TheConstant
  <2>6. WordsOf(r.type, r.len) = 1
    BY <2>1, <2>2 DEF WordsOf
  <2>7. mem[r.addr].kind = "word" /\ mem[r.addr].w % 256 = TypeTag[r.type]
    <3>1. CASE i # 5
      <4>1. r.addr < HeapBase + 4 /\ r.addr - HeapBase + 1 = i
        BY <1>2, <2>1, <3>1
      <4>2. mem[r.addr] = Word(TypeTag[Constants[i]])
        BY <1>1, <2>3, <4>1
      <4>3. TypeTag[Constants[i]] \in 0..255
        BY <1>4, TagFacts
      <4>4. \A w \in 0..255 : w % 256 = w
        OBVIOUS
      <4>5. TypeTag[Constants[i]] % 256 = TypeTag[Constants[i]]
        BY <4>3, <4>4, Zenon
      <4> QED BY <2>1, <4>2, <4>5 DEF Word
    <3>2. CASE i = 5
      <4>1. r.addr = HeapBase + 4 /\ ~(r.addr < HeapBase + 4)
        BY <1>2, <2>1, <3>2
      <4>2. mem[r.addr] = Word(TypeTag["boolean"] + 256)
        BY <1>1, <2>3, <4>1
      <4>3. TypeTag["boolean"] = 127 /\ (127 + 256) % 256 = 127
        BY DEF TypeTag
      <4> QED BY <1>3, <2>1, <3>2, <4>2, <4>3 DEF Word
    <3> QED BY <3>1, <3>2
  <2>8. CellOK(r.type, r.len, 0, mem[r.addr], Values)
    BY <2>2, <2>7, TagFacts DEF CellOK, HeaderOK
  <2>9. r.addr + 0 = r.addr
    BY <2>3
  <2>10. CellsOK(mem, r, Values)
    BY <2>6, <2>8, <2>9 DEF CellsOK
  <2> QED BY <2>5, <2>6, <2>10
<1>10. \A o \in DOMAIN objs : ObjectOK(o, objs[o]) /\ CellsOK(mem, objs[o], Values)
  BY <1>7, <1>8, <1>9
<1>11. NoOverlap
  <2>1. \A i \in 1..5 : Block(TheConstant(i)) = {HeapBase + i - 1}
    <3>1. SUFFICES ASSUME NEW i \in 1..5 PROVE Block(TheConstant(i)) = {HeapBase + i - 1}
      OBVIOUS
    <3>2. WordsOf(objs[TheConstant(i)].type, objs[TheConstant(i)].len) = 1
          /\ objs[TheConstant(i)].addr = HeapBase + i - 1
      BY <1>8, <1>9
    <3> QED BY <1>2, <3>2, BlockIs DEF BlockOf
  <2>2. \A i \in 1..5 : {HeapBase + i - 1} \subseteq HeapBase..(freeptr - 1)
    BY <1>1, <1>2
  <2>3. \A i, j \in 1..5 : HeapBase + i - 1 = HeapBase + j - 1 => i = j
    BY <1>2
  <2> QED BY <1>7, <2>1, <2>2, <2>3 DEF NoOverlap
<1>12. mem \in [Addr -> Cell]
  <2>1. \A a \in Addr : a < HeapBase + 4 => TypeTag[Constants[a - HeapBase + 1]] \in Nat
    <3>1. SUFFICES ASSUME NEW a \in Addr, a < HeapBase + 4
                   PROVE  TypeTag[Constants[a - HeapBase + 1]] \in Nat
      OBVIOUS
    <3>2. a - HeapBase + 1 \in 1..5
      BY <1>2, <3>1 DEF Addr
    <3>3. TypeTag[Constants[a - HeapBase + 1]] \in 0..255
      BY <1>4, <3>2, TagFacts
    <3> QED BY <3>3
  <2>2. TypeTag["boolean"] + 256 \in Nat
    BY DEF TypeTag
  <2>3. \A w \in Nat : Word(w) \in Cell
    BY DEF Word, Cell
  <2>4. Raw([k \in 0..WordBytes-1 |-> Junk]) \in Cell
    BY DEF Raw, Cell
  <2> QED BY <1>1, <2>1, <2>2, <2>3, <2>4
<1>13. objs = [o \in DOMAIN objs |-> objs[o]]
  BY <1>1
<1> QED BY <1>2, <1>10, <1>11, <1>12, <1>13 DEF IInv

\* Every step keeps the invariant.
LEMMA StepOK ==
  ASSUME IInv, [Next]_vars
  PROVE  IInv'
<1>1. CASE Construct
  BY <1>1, ConstructMakes, MakesKeeps
<1>2. CASE Mutate
  BY <1>2, MutateChanges, ChangesKeeps
<1>3. CASE UNCHANGED vars
  <2>1. mem' = mem /\ freeptr' = freeptr /\ objs' = objs
    BY <1>3 DEF vars
  <2>2. Values' = Values /\ NoOverlap' = NoOverlap
    BY <2>1 DEF Values, NoOverlap, Block
  <2> QED BY <2>1, <2>2 DEF IInv
<1> QED BY <1>1, <1>2, <1>3 DEF Next

\* The inductive invariant is one.
LEMMA IInvCorrect == Spec => []IInv
<1>1. Init => IInv
  BY InitOK
<1>2. IInv /\ [Next]_vars => IInv'
  BY StepOK
<1> QED BY <1>1, <1>2, PTL DEF Spec

-----------------------------------------------------------------------------
(* The invariants that are checked. *)

\* The heap holds words and bytes, the bump pointer stays inside the heap, and
\* every object has a type, a length and an address there.
THEOREM TypeCorrect == Spec => []TypeOK
<1>1. ASSUME IInv PROVE TypeOK
  <2>1. ASSUME NEW o \in DOMAIN objs
        PROVE  objs[o] \in [type : Types, len : Nat, addr : HeapBase..HeapEnd]
    <3>1. objs[o].addr \in Block(o) /\ objs[o].addr \in Nat
      <4>1. 0 \in 0..(WordsOf(objs[o].type, objs[o].len) - 1) /\ objs[o].addr + 0 = objs[o].addr
        BY <1>1, BlockFacts, ObjectFacts
      <4> QED BY <1>1, <4>1, BlockFacts, ObjectFacts
    <3>2. objs[o].addr \in HeapBase..(freeptr - 1)
      BY <1>1, <3>1, BlockFacts
    <3>3. objs[o].addr \in HeapBase..HeapEnd
      BY <1>1, <3>2, HeapAssumption DEF IInv, HeapEnd
    <3>4. ObjectTypes \subseteq Types
      BY DEF ObjectTypes, Types
    <3>5. objs[o] \in [type : ObjectTypes, len : Nat, addr : Nat]
      BY <1>1, ObjectFacts
    <3> QED BY <3>3, <3>4, <3>5
  <2> QED BY <1>1, <2>1 DEF IInv, TypeOK
<1> QED BY <1>1, IInvCorrect, PTL

\* The constructors reserve every word they write: no two objects share a word,
\* none reaches past the bump pointer.
THEOREM BlocksApart == Spec => []NoOverlap
<1>1. IInv => NoOverlap
  BY DEF IInv
<1> QED BY <1>1, IInvCorrect, PTL

\* One type predicate recognises an object for ever, the one of the constructor
\* that made it, and the length in its header is the one it was made with.
THEOREM TypesKept == Spec => []TypesDecode
<1>1. ASSUME IInv PROVE TypesDecode
  <2>1. ASSUME NEW o \in DOMAIN objs
        PROVE  /\ {t \in Types : is_type(mem, o, t)} = {objs[o].type}
               /\ objs[o].type \in {"string", "vector"} => length_of(mem, o) = objs[o].len
    <3>1. objs[o].type \in Types
      BY <1>1, ObjectFacts DEF ObjectTypes, Types
    <3> QED BY <1>1, <3>1, Decoded
  <2> QED BY <2>1 DEF TypesDecode
<1> QED BY <1>1, IInvCorrect, PTL

\* The words of an object that hold objects are words of its layout.
LEMMA SlotFacts ==
  ASSUME IInv, NEW o \in DOMAIN objs, NEW i \in Slots(o)
  PROVE  /\ i \in 0..(WordsOf(objs[o].type, objs[o].len) - 1)
         /\ mem[objs[o].addr + i].kind = "word"
         /\ mem[objs[o].addr + i].w \in Values
<1> DEFINE type == objs[o].type
           len == objs[o].len
<1>1. type \in ObjectTypes /\ len \in Nat /\ ObjectOK(o, objs[o])
  BY ObjectFacts DEF IInv
<1>2. i \in 0..(WordsOf(type, len) - 1)
      /\ (type = "pair" \/ (type \in {"vector", "symbol", "procedure", "macro"} /\ i # 0))
      /\ type # "string"
  <2>1. CASE type = "pair"
    BY <2>1 DEF Slots, WordsOf
  <2>2. CASE type = "vector"
    BY <1>1, <2>2 DEF Slots, WordsOf
  <2>3. CASE type = "symbol"
    <3>1. len = 1
      BY <1>1, <2>3, TagFacts DEF ObjectOK, FixedSize
    <3> QED BY <2>3, <3>1 DEF Slots, WordsOf
  <2>4. CASE type \in {"procedure", "macro"}
    <3>1. len = 3
      BY <1>1, <2>4, TagFacts DEF ObjectOK, FixedSize
    <3> QED BY <2>4, <3>1 DEF Slots, WordsOf
  <2>5. CASE type \notin {"pair", "vector", "symbol", "procedure", "macro"}
    BY <2>5 DEF Slots
  <2> QED BY <2>1, <2>2, <2>3, <2>4, <2>5
<1>3. CellOK(type, len, i, mem[objs[o].addr + i], Values)
  BY <1>2, ObjectFacts DEF CellsOK
<1> QED BY <1>2, <1>3 DEF CellOK

\* A word of an object that holds an object holds one that was made, or an
\* immediate, through every mutation.
THEOREM NothingDangles == Spec => []NoDangling
<1>1. ASSUME IInv PROVE NoDangling
  BY <1>1, SlotFacts DEF NoDangling
<1> QED BY <1>1, IInvCorrect, PTL

\* The bytes of a string up to its length, and the NUL behind them.
LEMMA ByteFacts ==
  ASSUME IInv, NEW o \in DOMAIN objs, objs[o].type = "string", NEW k \in 0..objs[o].len
  PROVE  /\ ByteOK(objs[o].len, k, ByteAt(mem, o, k))
         /\ objs[o].addr + 1 + k \div WordBytes \in Block(o)
<1> DEFINE len == objs[o].len
           i == 1 + k \div WordBytes
<1>1. is_string(mem, o)
  BY Decoded
<1>2. /\ k \in Nat /\ len \in Nat /\ objs[o].addr \in Nat /\ AddrOf(o) = objs[o].addr
      /\ len \div WordBytes \in Nat
  BY <1>1, StringFacts
<1>3. /\ k \div WordBytes \in Nat /\ k \div WordBytes <= len \div WordBytes
      /\ k % WordBytes \in 0..(WordBytes - 1)
      /\ (k \div WordBytes) * WordBytes + (k % WordBytes) = k
  BY <1>2, DivFacts
<1>4. i \in 1..(1 + len \div WordBytes) /\ i - 1 = k \div WordBytes
      /\ objs[o].addr + 1 + k \div WordBytes = objs[o].addr + i
  BY <1>2, <1>3
<1> HIDE DEF i, len
<1>5. /\ objs[o].addr + i \in Block(o)
      /\ \A j \in 0..(WordBytes - 1) :
           ByteOK(len, (i - 1) * WordBytes + j, mem[objs[o].addr + i].bytes[j])
  BY <1>1, <1>4, StringFacts DEF len
<1> QED BY <1>2, <1>3, <1>4, <1>5 DEF ByteAt, len

\* Every string keeps the NUL behind its last byte, and no byte of it is one
\* that nobody has written.
THEOREM NulsKept == Spec => []StringsTerminated
<1>1. ASSUME IInv PROVE StringsTerminated
  <2>1. ASSUME NEW o \in DOMAIN objs, objs[o].type = "string"
        PROVE  /\ ByteAt(mem, o, objs[o].len) = 0
               /\ \A k \in 0..(objs[o].len - 1) : ByteAt(mem, o, k) \in Byte
    <3>1. objs[o].len \in Nat
      BY <1>1, ObjectFacts
    <3>2. objs[o].len \in 0..objs[o].len /\ \A k \in 0..(objs[o].len - 1) : k \in 0..objs[o].len /\ k < objs[o].len
      BY <3>1
    <3> QED BY <1>1, <2>1, <3>2, ByteFacts DEF ByteOK
  <2> QED BY <2>1 DEF StringsTerminated
<1> QED BY <1>1, IInvCorrect, PTL

-----------------------------------------------------------------------------
(* The heap implements the abstract store. *)

\* What an object of this layout means, in this memory.
WordAt(m, r, i) == m[r.addr + i].w
Meaning(m, r) ==
  [type   |-> r.type,
   fields |-> CASE r.type = "pair"   -> <<WordAt(m, r, 0), WordAt(m, r, 1)>>
                [] r.type = "vector" -> [i \in 1..r.len |-> WordAt(m, r, i)]
                [] r.type = "symbol" -> <<WordAt(m, r, 1)>>
                [] r.type \in {"procedure", "macro"} -> <<WordAt(m, r, 1), WordAt(m, r, 2), WordAt(m, r, 3)>>
                [] OTHER -> << >>,
   raw    |-> CASE r.type = "string" ->
                     [k \in 1..r.len |->
                        m[r.addr + 1 + (k - 1) \div WordBytes].bytes[(k - 1) % WordBytes]]
                [] r.type = "port"   -> <<WordAt(m, r, 1), WordAt(m, r, 2)>>
                [] r.type = "primitive" -> <<WordAt(m, r, 1)>>
                [] r.type = "boolean"   -> <<WordAt(m, r, 0)>>
                [] OTHER -> << >>]

\* How many slots and how much raw part an object of this layout has.
FieldCount(r) ==
  CASE r.type = "pair" -> 2 [] r.type = "vector" -> r.len [] r.type = "symbol" -> 1
    [] r.type \in {"procedure", "macro"} -> 3 [] OTHER -> 0
RawCount(r) ==
  CASE r.type = "string" -> r.len [] r.type = "port" -> 2 [] r.type \in {"primitive", "boolean"} -> 1
    [] OTHER -> 0

AbstractStore == [o \in DOMAIN objs |-> Meaning(mem, objs[o])]

\* The accessors decode from the words of an object what its layout means.
LEMMA DecodeIs ==
  ASSUME IInv, NEW o \in DOMAIN objs
  PROVE  Decode(o) = Meaning(mem, objs[o])
<1>1. AddrOf(o) = objs[o].addr /\ objs[o].type \in Types
  BY ObjectFacts DEF ObjectTypes, Types
<1>2. (CHOOSE t \in Types : is_type(mem, o, t)) = objs[o].type
  BY <1>1, Decoded
<1>3. objs[o].type \in {"string", "vector"} => length_of(mem, o) = objs[o].len
  BY Decoded
<1>4. Decode(o).type = objs[o].type
  BY <1>2 DEF Decode
<1>5. Decode(o).fields = Meaning(mem, objs[o]).fields
  <2>1. CASE objs[o].type = "vector"
    BY <1>1, <1>2, <1>3, <2>1 DEF Decode, Meaning, WordAt
  <2>2. CASE objs[o].type # "vector"
    BY <1>1, <1>2, <2>2 DEF Decode, Meaning, WordAt
  <2> QED BY <2>1, <2>2
<1>6. Decode(o).raw = Meaning(mem, objs[o]).raw
  <2>1. CASE objs[o].type = "string"
    <3>1. Decode(o).raw = [k \in 1..objs[o].len |-> ByteAt(mem, o, k - 1)]
      BY <1>2, <1>3, <2>1 DEF Decode
    <3> QED BY <1>1, <2>1, <3>1 DEF Meaning, ByteAt
  <2>2. CASE objs[o].type # "string"
    BY <1>1, <1>2, <2>2 DEF Decode, Meaning, WordAt
  <2> QED BY <2>1, <2>2
<1>7. /\ Decode(o) = [type |-> Decode(o).type, fields |-> Decode(o).fields, raw |-> Decode(o).raw]
      /\ Meaning(mem, objs[o]) = [type |-> objs[o].type, fields |-> Meaning(mem, objs[o]).fields,
                                  raw |-> Meaning(mem, objs[o]).raw]
  BY DEF Decode, Meaning
<1> QED BY <1>4, <1>5, <1>6, <1>7

\* The length of a sequence given by its elements.
LEMMA LenOf ==
  ASSUME NEW n \in Nat, NEW f, f = [i \in 1..n |-> f[i]]
  PROVE  Len(f) = n
OBVIOUS

\* The size of what an object means depends on its layout only.
LEMMA MeaningSize ==
  ASSUME NEW m, NEW r, r.type \in ObjectTypes, r.len \in Nat
  PROVE  /\ Meaning(m, r).type = r.type
         /\ Len(Meaning(m, r).fields) = FieldCount(r)
         /\ Len(Meaning(m, r).raw) = RawCount(r)
<1>1. Meaning(m, r).type = r.type
  BY DEF Meaning
<1>2. Len(Meaning(m, r).fields) = FieldCount(r)
  <2>1. CASE r.type = "vector"
    <3> DEFINE f == [i \in 1..r.len |-> WordAt(m, r, i)]
    <3>1. Meaning(m, r).fields = f
      BY <2>1 DEF Meaning
    <3>2. Len(f) = r.len
      BY LenOf
    <3> QED BY <2>1, <3>1, <3>2 DEF FieldCount
  <2>2. CASE r.type # "vector"
    BY <2>2 DEF Meaning, FieldCount
  <2> QED BY <2>1, <2>2
<1>3. Len(Meaning(m, r).raw) = RawCount(r)
  <2>1. CASE r.type = "string"
    <3> DEFINE f == [k \in 1..r.len |->
                        m[r.addr + 1 + (k - 1) \div WordBytes].bytes[(k - 1) % WordBytes]]
    <3>1. Meaning(m, r).raw = f
      BY <2>1 DEF Meaning
    <3>2. Len(f) = r.len
      BY LenOf
    <3> QED BY <2>1, <3>1, <3>2 DEF RawCount
  <2>2. CASE r.type # "string"
    BY <2>2 DEF Meaning, RawCount
  <2> QED BY <2>1, <2>2
<1> QED BY <1>1, <1>2, <1>3

\* An object means the same as long as its block is left alone.
LEMMA MeaningSame ==
  ASSUME IInv, NEW o \in DOMAIN objs, NEW m, \A a \in Block(o) : m[a] = mem[a]
  PROVE  Meaning(m, objs[o]) = Meaning(mem, objs[o])
<1> DEFINE r == objs[o]
           w == WordsOf(r.type, r.len)
<1>1. r.type \in ObjectTypes /\ r.len \in Nat /\ r.addr \in Nat
      /\ (r.type \in DOMAIN FixedSize => r.len = FixedSize[r.type])
  BY ObjectFacts DEF IInv, ObjectOK
<1>2. \A i \in 0..(w - 1) : WordAt(m, r, i) = WordAt(mem, r, i)
  BY BlockFacts DEF WordAt
<1>3. CASE r.type = "string"
  <2>1. ASSUME NEW k \in 1..r.len
        PROVE  m[r.addr + 1 + (k - 1) \div WordBytes] = mem[r.addr + 1 + (k - 1) \div WordBytes]
    <3>1. k - 1 \in 0..r.len
      BY <1>1
    <3> QED BY <1>3, <3>1, ByteFacts
  <2> QED BY <1>3, <2>1 DEF Meaning
<1>4. CASE r.type = "vector"
  <2>1. \A i \in 1..r.len : WordAt(m, r, i) = WordAt(mem, r, i)
    <3>1. \A i \in 1..r.len : i \in 0..(w - 1)
      BY <1>1, <1>4 DEF WordsOf
    <3> QED BY <1>2, <3>1
  <2> QED BY <1>4, <2>1 DEF Meaning
<1>5. CASE r.type = "pair"
  <2>1. 0 \in 0..(w - 1) /\ 1 \in 0..(w - 1)
    BY <1>5 DEF WordsOf
  <2> QED BY <1>2, <1>5, <2>1 DEF Meaning
<1>6. CASE r.type \in DOMAIN TypeTag
  <2>1. w = 1 + FixedSize[r.type]
    BY <1>1, <1>6, TagFacts DEF WordsOf
  <2>2. 0 \in 0..(w - 1)
    BY BlockFacts
  <2>3. r.type \in {"symbol", "primitive"} => 1 \in 0..(w - 1)
    BY <2>1 DEF FixedSize
  <2>4. r.type = "port" => 1 \in 0..(w - 1) /\ 2 \in 0..(w - 1)
    BY <2>1 DEF FixedSize
  <2>5. r.type \in {"procedure", "macro"} => 1 \in 0..(w - 1) /\ 2 \in 0..(w - 1) /\ 3 \in 0..(w - 1)
    BY <2>1 DEF FixedSize
  <2> HIDE DEF w
  <2>6. r.type \notin {"pair", "vector", "string"}
    BY <1>6, TagFacts
  <2>7. Meaning(m, r).fields = Meaning(mem, r).fields
    BY <1>2, <2>3, <2>5, <2>6 DEF Meaning
  <2>8. Meaning(m, r).raw = Meaning(mem, r).raw
    BY <1>2, <2>2, <2>3, <2>4, <2>6 DEF Meaning
  <2> QED BY <2>7, <2>8 DEF Meaning
<1> QED BY <1>1, <1>3, <1>4, <1>5, <1>6 DEF ObjectTypes

\* The fields of what an object means are words of the program.
LEMMA MeaningClosed ==
  ASSUME IInv, NEW o \in DOMAIN objs, NEW i \in 1..FieldCount(objs[o])
  PROVE  Meaning(mem, objs[o]).fields[i] \in Values
<1> DEFINE r == objs[o]
<1>1. r.type \in ObjectTypes /\ r.len \in Nat
  BY ObjectFacts
<1>2. \A j \in Slots(o) : WordAt(mem, r, j) \in Values
  BY SlotFacts DEF WordAt
<1>3. CASE r.type = "vector"
  <2>1. Slots(o) = 1..r.len /\ FieldCount(r) = r.len
    BY <1>3 DEF Slots, FieldCount
  <2>2. Meaning(mem, r).fields = [j \in 1..r.len |-> WordAt(mem, r, j)]
    BY <1>3 DEF Meaning
  <2>3. Meaning(mem, r).fields[i] = WordAt(mem, r, i) /\ i \in Slots(o)
    BY <2>1, <2>2
  <2> QED BY <1>2, <2>3
<1>4. CASE r.type = "pair"
  <2>1. Slots(o) = 0..1 /\ FieldCount(r) = 2
    BY <1>4 DEF Slots, FieldCount
  <2>2. i = 1 \/ i = 2
    BY <2>1
  <2>3. Meaning(mem, r).fields = <<WordAt(mem, r, 0), WordAt(mem, r, 1)>>
    BY <1>4 DEF Meaning
  <2>4. WordAt(mem, r, 0) \in Values /\ WordAt(mem, r, 1) \in Values
    BY <1>2, <2>1
  <2> QED BY <2>2, <2>3, <2>4
<1>5. CASE r.type = "symbol"
  <2>1. Slots(o) = 1..1 /\ FieldCount(r) = 1
    BY <1>5 DEF Slots, FieldCount
  <2>2. Meaning(mem, r).fields = <<WordAt(mem, r, 1)>>
    BY <1>5 DEF Meaning
  <2> QED BY <1>2, <2>1, <2>2
<1>6. CASE r.type \in {"procedure", "macro"}
  <2>1. Slots(o) = 1..3 /\ FieldCount(r) = 3
    BY <1>6 DEF Slots, FieldCount
  <2>2. i = 1 \/ i = 2 \/ i = 3
    BY <2>1
  <2>3. Meaning(mem, r).fields = <<WordAt(mem, r, 1), WordAt(mem, r, 2), WordAt(mem, r, 3)>>
    BY <1>6 DEF Meaning
  <2>4. WordAt(mem, r, 1) \in Values /\ WordAt(mem, r, 2) \in Values /\ WordAt(mem, r, 3) \in Values
    BY <1>2, <2>1
  <2> QED BY <2>2, <2>3, <2>4
<1>7. CASE r.type \notin {"pair", "vector", "symbol", "procedure", "macro"}
  BY <1>7 DEF FieldCount
<1> QED BY <1>3, <1>4, <1>5, <1>6, <1>7

StoreDecoded ==
  /\ [o \in DOMAIN objs |-> Decode(o)] = AbstractStore
  /\ Store!ClosedStore(AbstractStore)

\* The accessors decode the abstract store, and it is closed.
LEMMA StoreIs == IInv => StoreDecoded
<1> SUFFICES ASSUME IInv
             PROVE  StoreDecoded
  OBVIOUS
<1>1. [o \in DOMAIN objs |-> Decode(o)] = AbstractStore
  BY DecodeIs DEF AbstractStore
<1>2. ASSUME NEW o \in DOMAIN objs, NEW i \in 1..Len(AbstractStore[o].fields)
      PROVE  AbstractStore[o].fields[i] \in Values
  <2>1. AbstractStore[o] = Meaning(mem, objs[o])
    BY DEF AbstractStore
  <2>2. Len(Meaning(mem, objs[o]).fields) = FieldCount(objs[o])
    BY ObjectFacts, MeaningSize
  <2> QED BY <2>1, <2>2, MeaningClosed
<1>3. DOMAIN AbstractStore = DOMAIN objs
  BY DEF AbstractStore
<1>4. Store!ClosedStore(AbstractStore)
  BY <1>2, <1>3 DEF Store!ClosedStore, Values
<1> QED BY <1>1, <1>4 DEF StoreDecoded

\* A step that makes an object makes one in the store, one that changes an
\* object changes one, and no step does more.
LEMMA StoreStep ==
  ASSUME IInv, Next
  PROVE  Store!Makes(AbstractStore, AbstractStore') \/ Store!Mutates(AbstractStore, AbstractStore')
<1>1. CASE Construct
  <2>1. PICK cells, type, len : type \in ObjectTypes /\ len \in Nat /\ MakesObject(cells, type, len)
    BY <1>1, ConstructMakes
  <2>2. PICK new : /\ new \notin DOMAIN objs /\ DOMAIN objs' = DOMAIN objs \cup {new}
                   /\ \A o \in DOMAIN objs : objs'[o] = objs[o]
                   /\ \A o \in DOMAIN objs : \A a \in Block(o) : mem'[a] = mem[a]
    BY <2>1, MakesFacts
  <2>3. \A o \in DOMAIN objs : Meaning(mem', objs'[o]) = Meaning(mem, objs[o])
    BY <2>2, MeaningSame
  <2> QED BY <2>2, <2>3 DEF AbstractStore, Store!Makes
<1>2. CASE Mutate
  <2>1. PICK o \in DOMAIN objs : ChangesObject(o)
    BY <1>2, MutateChanges
  <2>2. objs' = objs /\ objs[o].type \in {"pair", "vector", "string", "port"}
    BY <2>1 DEF ChangesObject
  <2>3. \A p \in DOMAIN objs \ {o} : Meaning(mem', objs[p]) = Meaning(mem, objs[p])
    BY <2>1, ChangesKeeps, MeaningSame
  <2>4. /\ Meaning(mem', objs[o]).type = Meaning(mem, objs[o]).type
        /\ Meaning(mem, objs[o]).type = objs[o].type
        /\ Len(Meaning(mem', objs[o]).fields) = Len(Meaning(mem, objs[o]).fields)
        /\ Len(Meaning(mem', objs[o]).raw) = Len(Meaning(mem, objs[o]).raw)
    BY ObjectFacts, MeaningSize
  <2>5. /\ DOMAIN AbstractStore = DOMAIN objs /\ DOMAIN AbstractStore' = DOMAIN objs
        /\ \A p \in DOMAIN objs : AbstractStore[p] = Meaning(mem, objs[p])
        /\ \A p \in DOMAIN objs : AbstractStore'[p] = Meaning(mem', objs[p])
    BY <2>2 DEF AbstractStore
  <2> QED BY <2>2, <2>3, <2>4, <2>5 DEF Store!Mutates, Store!MutableTypes
<1> QED BY <1>1, <1>2 DEF Next

\* The heap of tagged words behind a bump pointer implements the store of typed
\* objects: a constructor makes one object and disturbs no other, a mutator
\* changes the contents of one mutable object, and no field ever names an object
\* that does not exist.
THEOREM HeapIsAStore == Spec => ImplementsObjectStore
<1>1. Init => Store!Init
  BY InitOK, StoreIs DEF Store!Init, StoreDecoded
<1>2. IInv' => StoreDecoded'
  BY StoreIs, PTL
<1>3. IInv /\ IInv' /\ [Next]_vars => [Store!Next]_([o \in DOMAIN objs |-> Decode(o)])
  <2>1. SUFFICES ASSUME IInv, IInv', [Next]_vars
                 PROVE  [Store!Next]_([o \in DOMAIN objs |-> Decode(o)])
    OBVIOUS
  <2>2. /\ [o \in DOMAIN objs |-> Decode(o)] = AbstractStore
        /\ [o \in DOMAIN objs |-> Decode(o)]' = AbstractStore'
        /\ Store!ClosedStore(AbstractStore')
    BY <1>2, <2>1, StoreIs DEF StoreDecoded
  <2>3. CASE Next
    BY <2>1, <2>2, <2>3, StoreStep DEF Store!Next, Store!Step
  <2>4. CASE UNCHANGED vars
    <3>1. AbstractStore' = AbstractStore
      BY <2>4 DEF vars, AbstractStore
    <3> QED BY <2>2, <3>1
  <2> QED BY <2>1, <2>3, <2>4
<1> QED BY <1>1, <1>3, IInvCorrect, PTL DEF Spec, ImplementsObjectStore, Store!Spec
=============================================================================
