# A TLA+ model of minime

minime is an interpreter for Scheme, written in C: a bump heap of tagged words,
a hash table of symbols, environments made of lists, a recursive evaluator with
syntax that can be rebound, and a read-eval-print loop that recovers from errors
with `longjmp`. It is sequential. What is hard in it is sharing: pairs, strings,
symbols and files are reached along several paths, and an operation along one
path changes what another one sees, often much later.

## Inventory

| component | source | state | operations | what makes it correct |
|---|---|---|---|---|
| object heap | `runtime.c`, `runtime.h` | `heap`, `freeptr` | `make_*`, `cons`, `set_car`, `set_cdr`, stores into vectors and strings, port flags | blocks are disjoint; a word decodes to the type it was made with; fields never dangle; strings keep their NUL |
| symbol table | `symbols.c` | chains of symbols, `gensym_counter` | `symbol`, `gensym`, `string->symbol`, `symbol->string` | one symbol per text for ever; a symbol keeps its text whatever strings the program writes to |
| environments | `environments.c`, the `apply:` part of `lisp_eval` | frames on shared pairs | `extend_environment`, `lookup_variable_value`, `set_variable_value`, `define_variable`, `fixup_varargs`, `list_of_values`, `list_of_apply_values` | lexical scope; frames aligned; the program's text and data untouched |
| evaluator | `minime.c` (`lisp_eval`) | the C stack | special forms found by the value of the operator, tail calls, `eval`, `apply`, `delay`, macros | one value or one error per expression; effects in the order of the code; tail calls in constant stack |
| derived syntax | `minime.c` (106-472, 572-648) | none | expansions of `let`, `let*`, `letrec`, `do`, `cond`, quasiquote; `scan_out_defines` | the expansion means what the form means, in every environment |
| read-eval-print loop | `minime.c` (`lisp_repl`, `main`), `io.c` (`io_load`, `error`) | nested loops, `err_jump` | read, evaluate, print, load, recover | an error ends the command, never the session; nothing is left half done |
| ports | `io.c`, `runtime.h`, `primitives.c` | port objects, `FILE`s | open, close, read, write, load | a port reaches its own stream; no descriptor is lost or closed twice |
| reader | `io.c` (14-480) | the input | recursive descent | reads back what the printer wrote; ends on every input |
| printer | `io.c` (486-684) | the output | `write`, `display` | what it writes of data is what they read as; it ends on circular lists |
| data primitives | `primitives.c` | none; they read and write the heap | numbers, lists, characters, strings, vectors | each returns what its loops are meant to compute, on circular data too; only the procedures named with `!` change an object |
| library | `lib/minime.scm` | promises | `map`, folds, `force`, `make-promise` | a promise is forced once |
| emacs interface | `emacs.c` | none | escapes around each command | between `s` and `f` or `z` lies exactly the time in which a command is read |
| utilities | `xutil.c` | none | `malloc` wrappers | |
| tests, examples | `tests/`, `ch4.scm`, `sample.scm` | none | | |

The components interact by calls and by shared objects. The reader asks the
symbol table for symbols; the symbol table owns strings on the heap; the
evaluator looks symbols up in environments, whose frames are pairs made by the
evaluator from operands, by `apply` from the program's own lists, and by
`lambda` from the program's text. Every primitive can call `error`, which writes
to the standard output port and jumps to the prompt.

The hard behaviours are listed one by one, each at its line, in `PROJECT.json`
under "hazards".

## Modules

`ObjectStore.tla` is what the heap promises: typed objects, made one at a time,
that keep their type and size; only contents of pairs, vectors and strings, and
the flags of a port, change, one object at a time.

`Runtime.tla` is the heap at the level of words: `mem` and `freeptr` are the
`heap` and `freeptr` of `runtime.c`, an object is a number whose low two bits are
its tag. `Allocate` is the common shape of the `make_*` functions: words written
through `*freeptr++`, then the tagged address of the first. How many words are
written and how many are reserved are separate arguments, because in
`make_string` they are separate computations. `objs` is a history variable, what
each object was made as; the properties compare it with what the accessors
decode. The model checks bounds of the heap where the code does not: it stops
where the heap ends.

`Interner.tla` is what a symbol table promises. `SymbolTable.tla` is `symbols.c`
on a heap of strings: `text` holds the bytes of each string object, `string` the
string object of each symbol, `buckets` the chains. The user's strings (`held`)
can be written to at any time. The counter's text, made by `snprintf`, is the
constant `GensymNames`; the hash is the constant `Hash`. `answer`, `fromReader`
and `fromGensym` are histories.

`Scopes.tla` is lexical scoping, as relations between the scopes before and
after an operation. `Environments.tla` is `environments.c` and the part of
`lisp_eval` from `apply:` on, over a heap of pairs: parameter lists are pairs of
the program's text, argument lists are consed by a call or supplied by `apply`,
frames share both. The body of a procedure is not run; instead any operation may
happen in any environment made so far, which is what a body or a closure could
do. `UsesApply` and `UsesSetCdr` say which class of programs a run is about.

`Ports.tla` is the life of ports over the `FILE` structures of the C library
(`fopen` and `fclose` are external: a freed `FILE` may be handed out again).
`program`, chosen in `Init` from the constant `Programs`, is what the user's
program does: pass closed ports to primitives, use output ports, close the
standard ports. The constants of `runtime.h` and the `&&` between mask and word
are kept, since what a closed port looks like depends on them.

`Expressions.tla` is the evaluator's data and its rewriting of derived forms:
`let_to_combination`, `letx_to_combination`, `letrec_to_combination`,
`do_to_combination`, `cond_to_ifs`, `scan_out_defines`, each a function from an
expression to the one evaluated in its place. `Quasiquote.tla` is `qq_expand`; it
is recursive, so the evaluator takes it as the constant operator `QqExpand`. `WellFormed` gathers what each form
takes apart with `car` and `cdr`, whose errors end the command.

`Evaluator.tla` is `lisp_eval`, `lisp_repl`, `io_load` and `error` as a machine.
`stack` is the C stack: a recursive call of `lisp_eval` pushes a frame named after
the form that waits for its value, `goto tail_call` does not. `ctl` says what the
innermost call does next. Special forms are found by the value of the operator,
as in the code. C leaves the order of `cons`'s two arguments in `list_of_values`
open, so operands are evaluated upwards with some left out, and those then
downwards; every such order is a behaviour (a compiler settles on one of them,
`gcc -O0` on x86-64 on the last first). `error` puts the stack back to the
prompt. `scopes` are the environments: that lists of names and values implement
them is the matter of `Environments.tla`, and so is what `apply` does to the
program's own lists; the sessions modelled here do not mutate pairs and do not
`apply` a procedure with a rest parameter to a list they use again. `ports` are
the commands left to read from the standard input and from each loaded file; the
text they are read from is the matter of `Repl.tla`. The library procedures are
the definitions of `lib/minime.scm`, run by the machine.

`Semantics.tla` says what a session means, form by form and without rewriting
anything: an expression has a set of outcomes, a value or an error and a store.
It allows any order of operands and of the definitions that open a body. It is
recursive, so it is for TLC only. Where the language's report leaves more open
than the repository does, the repository decides: the values of a named `let` see
its name, `letrec` assigns in order, `cond` without a true clause is `#f`, `eval`
takes its first operand as it stands.

`Lexer.tla` is what the reader makes of the characters from a position on, and
where it leaves off: a token that is an error has consumed what `fgetc` had taken
when `error` was called. `Reader.tla` is `lisp_read`, `read_pair` and
`read_vector` as a machine with the C stack in `stack`; a list costs one call for
each of its elements, and `MaxDepth` calls fill the stack. `Printer.tla` is
`lisp_print` of what can be read back. `Repl.tla` puts `lisp_repl`, `load`, `read`,
`read-char`, the recovery from errors and the escapes for Emacs on top of the
reader: `ports` are texts with a position, `sent` the letters of the escapes, `log`
the answers. Of evaluation it has only what reaches the reader.

`Fixnums.tla` has the arithmetic on words of `Bits` bits, the comparisons and the
numerals, as pure operators. `Data.tla` is the primitives on pairs, vectors and
strings: `given` is a store a program can have made and one call on it; the loops
that walk pairs (`is_finite_list`, `append`, `reverse`, `list-tail`, `member`,
`assoc`, `is_equal` with a frame for each of its calls) take a step for each turn,
so that a circle, a write in the middle of a walk and the end of the stack are
states; what works on objects of known length is one step. Its properties define
the answers again without the loops: a list by its `n`-th cdr, `equal?` by the
largest relation between objects that unfold alike, a comparison of many by all
pairs of them.

`SymbolTableProofs.tla`, `PortsProofs.tla`, `RuntimeProofs.tla`,
`EvaluatorProofs.tla`, `ReplProofs.tla`, `EnvironmentsProofs.tla` and
`DataProofs.tla` hold the proofs about the modules they are named after;
`EnvironmentsProofs.tla` also that `Environments.tla` implements `Scopes.tla`.
`SequenceFacts.tla` has the lemmas several of them need: pushing and popping a
stack, appending and joining sequences, induction over a set of numbers, the
smallest of a set, and that a function defined by recursion exists and is the only
one.

The `MC*.tla` modules give the constants values, one configuration per run.

## Runs

| run | configuration | what it shows |
|---|---|---|
| heap | `MCRuntime.cfg` | the words implement the object store; blocks disjoint, headers and terminators intact |
| symbols | `MCSymbolTable.cfg` | the table implements the interner under mutation of all strings held |
| calls | `MCEnvCalls.cfg` | without `apply`, frames on shared pairs implement lexical scopes, and each operation means what its name says on them |
| apply | `MCEnvApply.cfg` | with `apply` on lists the program keeps, variable walks still end and the text is intact |
| apply_alias | `MCEnvApplyAlias.cfg` | violated: a call changes the list given to `apply` |
| ports | `MCPorts.cfg` | programs that use no closed ports, and those that use input ports as they like, reach their own streams; no descriptor is lost or closed twice |
| ports_kind | `MCPortsKind.cfg` | violated: a closed input port is an output port |
| sessions | `MCEvalSessions.cfg` | in thirty-four sessions, six of them loops of tail calls, `lisp_eval` and the library answer what the semantics allows, once per command, in a flat stack where there are only tail calls, and end |
| redefining | `MCEvalRedefining.cfg` | violated: a parameter named `if`, `lambda` or `list` changes what `cond`, `let` or quasiquote means |
| reader | `MCRepl.cfg` | what is written is read back; an error costs one command and leaves the rest of its text; `read` and `read-char` start behind the command; the escapes are in step; every session ends, unless the text ends inside a list |
| comments | `MCReplComments.cfg` | violated: a commented form in front of a closing parenthesis is not discarded |
| data | `MCData.cfg` | the primitives answer what their loops are meant to compute, copy what they should and change nothing else, and return |

Bounds. The heap run has room for the five constants and one large or two small
objects, with lengths and texts on both sides of a word boundary; overlap and
misdecoding are between neighbours, so two objects are enough. The symbol run
has two identifiers and two gensym names in two buckets, so that texts collide
and gensym names can be interned first by the user. The environment runs have three
lambdas, with the parameter lists `(x)`, `(x . y)` and `y`, over two variables and
two values; `MaxPair` allows a few calls on one another's environments, or one with
a rest list and definitions after it. That the text is intact is asked only in the
run with `apply`, whose programs can do all that those without it can. The port runs have two `FILE`s
beside those of the standard streams and the library, and more openings than
`FILE`s, so that they are reused. `CHECK_DEADLOCK FALSE` stands in the heap and
environment configurations because the model stops when its heap is full.

The reader run has every kind of token and of compound, each datum in front of and
behind the others that could run into it, and each way a token can be an error;
`MaxDepth` is above the depth of every text that is whole, so that only the ones
cut off inside a list use it up. The data run has every structure of three pairs
and every chaining of four by their cdrs, which holds every circle the tortoise and
the hare can meet in up to four pairs; `MaxDepth`, 8, is more than `is_equal` needs
for two structures of which one is finite. Fixnums have ten bits there, so that the
ends of the range can be added and multiplied. Texts have up to three characters,
one of them above 127; those that `string->number` reads have up to five, NULs and all the
characters `strtol` skips among them.

The sessions are programs, so what they reach is what was thought of. Each is
about one hazard: side effects and errors among operands, definitions that use
one another, closures in loops, promises that force themselves or fail, macros,
errors two loads deep, keywords bound to other things, forms cut short. Their
loops go over lists of two or three elements, those of the tail call run over
more elements than the stack has room for frames, so that one frame kept per turn
would show. `MaxScopes` is never reached: the evaluator runs are checked for
deadlock, and an ended session is the only state in which nothing is left to do.

Fairness is weak fairness of `Next`, in `Evaluator.tla`, `Repl.tla` and `Data.tla`:
the interpreter is one thread, and in these sessions its input is there to be read,
so a next step that is possible is taken. `Terminates`, `Ends` and `Returns` need
it; the other properties are of safety.

## Proofs

What is proved holds for every value of the constants that the modules' `ASSUME`s
allow; the runs show the same properties on small instances.

| component | module | theorems |
|---|---|---|
| symbol table | `SymbolTableProofs` | `TypeOK`, `UniqueNames`, `Findable`, `GensymsDistinct`, `NamesNeverChange` always hold; the table implements `Interner` |
| object heap | `RuntimeProofs` | `TypeOK`, `NoOverlap`, `TypesDecode`, `NoDangling`, `StringsTerminated`; tagged words implement `ObjectStore` |
| ports | `PortsProofs` | `TypeOK` for all programs; `ReachesOwnStream` and `FilesAccounted` for those that are `Careful` |
| environments | `EnvironmentsProofs` | `TypeOK`, `WalksEnd`, `TextIntact` for all programs; without `apply`, `FramesAligned` and `CallsLeaveDataAlone` |
| environments | `EnvironmentsProofs` | without `apply`, pairs implement `Scopes`, and every operation means on the scopes what its name says |
| evaluator, loop | `EvaluatorProofs` | `OneAnswerEach` |
| reader, loop, Emacs | `ReplProofs` | `TypeOK`, `EmacsInStep` |
| data primitives | `DataProofs` | `ListsMean`, `CopiesMean`, `EqualMeans`, `ArithmeticMeans`, `ChainsMean` and `OnlyNamedChanges` always hold |

### Symbol table

For every set of texts, every hash function, every number of buckets and every
bound on objects. The assumptions are those of `SymbolTable.tla`: the set of
texts may be of any size, the hash is a natural number, `%lu` prints different
counters differently, and no identifier the reader accepts is a gensym name (none
starts with `#`).

`UniqueNames` is not inductive. A write to a string the program holds could give
a symbol the text of another, and a symbol on the wrong chain would be interned
again. The invariant `IInv` adds `Private`, that no symbol's string is in the
program's hands, `Findable`, that each symbol is on the chain of its present
text, and `Histories`, that the n-th symbol of gensym has the n-th name and those
of the reader have identifiers for names.

### Object heap

For words of four and of eight bytes, a heap of any size at any base, and any
immediates, C pointers, lengths, indices and texts that are words of their kind.

`TypesDecode` and `NoDangling` speak of words that any object's mutator might
write to, if objects overlapped; so the invariant has `NoOverlap` in it, and
`CellsOK`, which gives for each word of each object what its constructor put
there or its mutators may: the header, a word of the program's, a byte of a
string with the NUL at its length. The words an object occupies are a function of
type and length (`WordsOf`), so that `make_string`, which writes one number of
words and reserves another, has to be shown to reserve as many as it fills, for
all lengths on both sides of a word boundary. The refinement of `ObjectStore`
takes the steps one by one: a constructor makes one object of its type, a
mutator changes the contents of one, and reads leave all as they were.

### Ports

For every set of `FILE`s and every bound on openings. `Careful` programs leave
the standard ports open and, once they have closed a port, either do not use it
again or use input ports only. Others need not reach their own streams: a closed
input port answers as an output port (`ports_kind`), so a program that writes to
it reaches a `FILE` that may be another's by now.

A step can reach the wrong stream only because some earlier step left a port with
a `FILE` that had been freed and handed out again. `IInv` adds what excludes it:
the flag in a port's word tells whether it was closed (`FlagsTold`), an open
port's `FILE` serves its own opening and no `FILE` serves two (`OwnStreams`), and
every opening has one port, open for `load` as long as `load` reads from it
(`OneOpeningEach`).

### Environments and scopes

For any number of lambdas with any parameter lists, any arguments and data, and
any room (`RoomAssumption`: the text and the global environment fit in the heap).

All four kinds of list the component makes are pairs of one heap, and any list
may share pairs with any other; that walks end is then a fact about the whole
heap. The invariant says that the heap can be laid out: there are functions
`kind`, `rank` and `owner` such that the pairs of environments, of lists of names
and (without `apply`) of lists of values count down along their cdrs to the end
of the list; each environment has a frame of its own, each frame a list of names
and, without `apply`, as many values in a list of its own; the pairs of each
parameter list stand where the text put them; and what the program holds is data,
which may point to anything there is, in circles too. No step changes a pair's
kind unless it is data. With `apply` the values of frames are data like any other
and nothing is known of their length: `WalksEnd` and `TextIntact`, which are
about the other kinds, hold all the same; `FramesAligned` need not.

`~UsesApply` is an assumption of the last theorems because the code needs it:
`apply` makes the program's own list the values of a frame, `fixup_varargs` then
writes into it (`apply_alias`), and so may any `set-cdr!` of the program, after
which a frame has more or fewer values than variables, and a name a wrong value
or none. Everything else is allowed in these programs: closures, `define` in
any frame, rest lists kept and changed with `set-car!` and `set-cdr!`. The
comment in `fixup_varargs` that it is safe to mutate `args` is a theorem for them
(`OnlyApplyWritesData`).

`PairsImplementScopes` and `OperationsMeanWhatTheySay` follow the pairs of each
environment through each step. A step leaves the pairs of an environment alone
(`ScopeStays`), or changes one car of a list of values (`CellAssigned`), or puts
one name and one value in front of a frame's lists (`BindPushed`), or makes a new
environment on a new frame (`BindingNew`); in each case the scope it stands for is
the one the abstract step gives. `SetMeans`, `DefineMeans` and `CallMeans` are
the three operations, `DataMeansNothing` the program's own lists.

The walks are functions defined by recursion on the length left to walk.
`SequenceFacts` has the two lemmas that make them provable about: `Recursion`,
that such a function exists, and `SetInduction`, induction over a set of numbers
given as a set and not as a predicate.

### Evaluator and loop

`OneAnswerEach` holds for all programs and files, whatever their expressions are.
Between an error at some depth and the prompt the count of answers depends on
which ports are open and on the stack. `IInv` ties them: the loops on the stack
are numbered by the ports they read, the innermost last, and the prompt is the
outermost frame and the only one that prints (`Nested`); the control agrees with
the innermost frame (`ControlOK`); and the answers written, and the one owed if
the loop is busy, are the commands read (`Answered`).

`EmacsInStep` holds for all scripts and files. Whether `s` may be followed by `f`,
`z` or another letter depends on who reads: the prompt, or `load` or `read` within
a command. `IInv` says for each control and stack which letter was the last
(`LastSent`): `s` where nothing but the reader stands on the prompt
(`OnlyReader`), `f` where a command is under way.

`TypeOK` of `Repl` is about the reader: wherever it stops, at the end of a token,
in an error or at the end of the file, every port stands at a character of its
text or at its end. `IInv` has it that every port stands in its text
(`PlacesOK`), which follows for each token from where `skip_atmospheric` and the
readers of tokens can end, for every text; that the loops over files read ports
of their own, behind the first; and that the loop at the console is the outermost.
Where a number ends is found by induction along the text (`NumberRead`). It is
assumed that a text is a sequence (`CharactersAssumption`, `TextsAssumption`) and
that the end of a file is no character of an identifier (`EndAssumption`), which
is what keeps the tokenizer from reading on behind it.

### Data primitives

For every sequence of situations: stores of any size whose pairs may lie in any
circle or share any parts, and any arguments. `SituationsAssumption` says what a
store and a call are: objects of the three kinds that hold values, references to
objects of the store, and no more objects than a fixnum can count (`length` of
more would not fit one).

What lies behind a value is the function `After`, one cdr for each step, and the
proofs are about it, not about data: a list is a chain that comes to nil, and it
does so within as many steps as there are objects, for a chain that does not end
by then has come to some pair twice (`ChainRepeats`). `IInv` says of each loop how
far it has come:

- the tortoise is `k` cdrs behind the start and the rabbit `2k`, with nothing but
  pairs before it (`Running`). If they meet on a pair, the chain repeats and never
  ends (`MeetingTells`); if the rabbit is at an end, that end tells (`EndTells`).
- `append` has behind the situation's store one new pair for each element of the
  lists it is done with and of the part of the present list it has walked, each
  linked to the next (`Copies`); `reverse` the same backwards (`Reversed`). The
  situation's own objects are as they were (`Grown`), which is `OnlyNamedChanges`,
  also between the steps of a loop.
- `memq` and its kin have found that nothing before the present pair fits.
- The frames of `is_equal` are calls that wait for each other (`Frames`): what is
  asked at the bottom holds exactly if what is asked at the top does and the parts
  behind it agree. `Alike` is the largest relation that relates what agrees by it;
  `UnfoldedEnds` shows that the iteration that computes it has come to rest by the
  number of pairs of objects (each round but the last takes away a pair), so it is
  a fixpoint (`AlikeFixpoint`) and the answer of each comparison is that of its
  parts.
- Arithmetic and comparisons are one step (`OneStep`): the answer is that of
  `Fixnums.tla` for the arguments the call began with.

`ArithmeticMeans` holds for every width of a fixnum. A number cut to a fixnum
differs from it by a multiple of the width (`Wrapped`), and `ApartBy` such a
multiple is kept by addition and multiplication, so that a loop which cuts in each
turn, or where a `long` overflows, ends a multiple of the width from the sum
(`LoopsApart`). `quotient` and `modulo` are shown from division with rest, for
the four cases of the signs, at the ends of the range too.

`ChainsMean` is about all pairs of arguments, the code looks at neighbours: what
is transitive and holds of neighbours holds of all (`Neighbours`). For texts the
order of a dictionary has first to be shown to be one: two texts part in one place
and one way, or are the same (`PartSomewhere`, `PartOnce`, `PartThrough`), and
what `string_fun` finds at the first difference is that place (`FollowsIs`), if
the length it carries along is that of the text before. `string=?` needs no such
condition, since texts that have compared equal so far have the first one's length
(`TextsSorted`). That the families of comparisons are called with one of five
operators is part of `SituationsAssumption`.

`EqualMeans` is partial correctness: if `equal?` answers, the answer is right,
whatever circles there are. That it answers unless both arguments are circular is
`Returns`, which stays with TLC.

### What is only model-checked

`Terminates`, `Ends` and `Returns`: liveness is beyond the prover. `Agreement` and
`Answers` compare the code with recursive definitions over data of any depth, which
would need induction over data, and so would the `TypeOK` of the evaluator, which
speaks of the values that expressions nested to any depth can have. `NumeralsMean`
is about powers of the radix and the digits of a number, sums of products that the
SMT solver's arithmetic does not reach. The `TypeOK` of the data primitives is
not proved either: its step is a case for each primitive, with the type of what each
one builds, texts and numerals too; the theorems about what they answer do without
it. `StackFlat` is about the syntax
of the loops in the sessions. Scoping in programs with `apply` is not claimed at all.

## Findings

`apply_alias`: `fixup_varargs` writes into the argument list, which is safe for
the list a call has consed but not for the last argument of `apply`, which is the
program's own. `ports_kind`: the type and flag accessors of ports say `&&` for
`&`, so closing an input port turns it into an output port (and `is_port_closed`
is never true). `redefining`: the derived forms expand to the symbols `if`, `let`,
`lambda` and `letrec`, quasiquote to `cons`, `list` and `append`, which are then
looked up in the user's environment, so binding one of these names changes what
forms that were not redefined mean. `comments`: `#;` is read inside `lisp_read`,
which goes on to the next form; before a closing parenthesis there is none.

Two things no run is about. `testcases.primitives:151-153` expects
`(number->string 2 2)` to be `"10"`, with the remark that it is to fail as not
implemented; the code refuses every radix but 10. `string<?` and its kin carry the
length of the first text through the chain (`primitives.c:1006`), so they are right
for two texts, and for more if all but the last are as long as the first;
`ChainsMean` says so.

## Limits

The model leaves out what the code does when the machine gives out: writes past the
end of the heap (no constructor asks for room; a negative length of a vector is one
of them), identifiers longer than the 128 bytes `read_identifier` has, numbers too
long for a `long`. The reader's texts have no NUL characters, as `strchr` takes
them for delimiters of its sets; in strings they are modelled (`string->number` ends
at the first one). `strtol` is that of C17: a library of C23 also takes `0b` in
front of a numeral of radix 2, which decides what `(string->number "0b1" 2)` is.
Symbols that `string->symbol` makes of texts the reader does not take for identifiers
are not among the data of the round trip. `lisp_print` asks about circles along cdrs only; a
circle through a car or a vector recurs to the end of the stack.

Quasiquote is modelled as it is, but the sessions neither nest templates nor splice
before the end of a list, where the code loses the rest (`minime.c:637`): no text
of the repository says what is meant. Sessions do not call `for-each` on more than
one row with side effects in the operands.

Not modelled: `xutil.c`, `display`, the printed form of procedures, ports and
addresses, the type predicates and character classes (one test each), statistics,
option parsing.

## Plan

1. `TypeOK` of the data primitives: a lemma for each operator of `Data.tla` and
   `Fixnums.tla` about the type of what it returns, then one step for each group of
   primitives.
2. `StackFlat` and the part of the evaluator's `TypeOK` that is about frames and
   scopes in use.
