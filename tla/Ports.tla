------------------------------- MODULE Ports -------------------------------
(***************************************************************************)
(* Ports (runtime.h, io.c and the port primitives of primitives.c) over    *)
(* the streams of the C library.                                           *)
(*                                                                         *)
(* A port is a heap object, kept for ever: a word with its type and its    *)
(* closed flag, and a FILE *.  The FILE is the C library's: fclose gives   *)
(* it back, and a later fopen may hand out the same FILE.  So a port that  *)
(* is used after it was closed reaches a FILE that is free, or one that    *)
(* belongs to another port by then.  An `opening' names one successful     *)
(* fopen; the properties compare the opening a port was made for with the  *)
(* one an operation on it reaches.                                         *)
(***************************************************************************)
EXTENDS Integers, Sequences, FiniteSets

CONSTANTS
  Files,            \* FILE structures the C library hands out
  MaxOpening,       \* bound: successful fopens
  MaxOpenFiles,     \* descriptors the process may have open
  NoOpening,        \* what a free FILE holds
  Programs          \* what user programs do, a set of records of three flags:
                    \* reusesClosed, they pass closed ports to primitives;
                    \* usesOutput, they call primitives on output ports;
                    \* closesStandard, they close (current-input-port) or its twin

VARIABLES
  program,          \* the habits of the program that runs, never changed
  port,             \* port -> [word, file, opening]; opening is history
  stream,           \* FILE -> the opening it serves, or NoOpening
  opened,           \* the number of openings so far
  loads,            \* history: the openings of io_load
  shut,             \* history: the ports io_close_port has been called on
  last,             \* history: the last use of a FILE, [port, wants, finds]
  running           \* FALSE once the C library has stopped the process

vars == <<program, port, stream, opened, loads, shut, last, running>>

ASSUME PortsAssumption ==
  /\ IsFiniteSet(Files) /\ NoOpening \notin Nat
  /\ MaxOpening \in Nat \ 0..2 /\ MaxOpenFiles \in Nat
  /\ Programs \subseteq [reusesClosed : BOOLEAN, usesOutput : BOOLEAN, closesStandard : BOOLEAN]

-----------------------------------------------------------------------------
(* The accessors of runtime.h. *)

PORT_TYPE_INPUT  == 0
PORT_TYPE_OUTPUT == 1
PORT_FLAG_CLOSED == 256

\* a && b, in a place where a & b was meant: 1 unless the word is 0.
LogicalAnd(mask, w) == IF mask # 0 /\ w # 0 THEN 1 ELSE 0

is_input_port(p)  == PORT_TYPE_INPUT = LogicalAnd(255, port[p].word)
is_output_port(p) == PORT_TYPE_OUTPUT = LogicalAnd(255, port[p].word)

get_port_flags(w) == LogicalAnd(16776960, w)

\* flags & PORT_FLAG_CLOSED
is_port_closed(p) == (get_port_flags(port[p].word) \div PORT_FLAG_CLOSED) % 2 = 1

\* Bug: the flag is shifted once more on its way into the word.
BugShiftFlag(w) == (w % 256) + 256 * PORT_FLAG_CLOSED

\* Bug: the flag is masked away with the type.
BugSetPortClosed(w) == 0

\* set_port_closed, set_port_flags: the type byte stays, the flags are replaced
SetPortClosed(w) == (w % 256) + PORT_FLAG_CLOSED

StandardIn  == 1
StandardOut == 2
Ports == DOMAIN port

-----------------------------------------------------------------------------
(* The C library.  A FILE that is free when it is used, or closed twice,   *)
(* stops the process or does nothing.                                      *)

Use(p) ==
  /\ last' = [port |-> p, wants |-> port[p].opening, finds |-> stream[port[p].file]]
  /\ running' \in IF stream[port[p].file] = NoOpening THEN BOOLEAN ELSE {TRUE}

fclose(f) == stream' = [stream EXCEPT ![f] = NoOpening]

OpenFiles == {f \in Files : stream[f] # NoOpening}

\* Any FILE that is free; none if the process has no descriptor left.
CanOpen == Cardinality(OpenFiles) < MaxOpenFiles
fopen(f) ==
  /\ opened < MaxOpening
  /\ CanOpen
  /\ stream[f] = NoOpening
  /\ stream' = [stream EXCEPT ![f] = opened + 1]
  /\ opened' = opened + 1

\* Bug: the FILE of the library is taken for the new one.
BugMakePort(f, type) ==
  port' = Append(port, [word |-> type,
                        file |-> port[3].file,
                        opening |-> opened'])

make_port(f, type) ==
  port' = Append(port, [word |-> type, file |-> f, opening |-> opened'])

-----------------------------------------------------------------------------
(* The operations. *)

\* error(): the message goes to current_error_port, the standard output, and
\* control back to the prompt.
error ==
  /\ Use(StandardOut)
  /\ UNCHANGED <<port, stream, opened, loads, shut>>

\* The ports a program of this class passes to a primitive.
Argument(p) == p \in Ports /\ (program.reusesClosed \/ p \notin shut) /\ port[p].opening \notin loads

\* io_file_as_port; fopen fails without a descriptor, or for the file's sake
OpenFile(type) ==
  \/ /\ \E f \in Files : fopen(f) /\ make_port(f, type)
     /\ UNCHANGED <<loads, shut, last, running>>
  \/ error

OpenInputFile  == OpenFile(PORT_TYPE_INPUT)
OpenOutputFile == program.usesOutput /\ OpenFile(PORT_TYPE_OUTPUT)

\* Bug: the flag is not set.
BugIoClosePort(p) ==
  /\ ~is_port_closed(p)
  /\ Use(p)
  /\ fclose(port[p].file)
  /\ shut' = shut \cup {p}
  /\ UNCHANGED <<port, opened, loads>>

\* io_close_port
IoClosePort(p) ==
  /\ IF is_port_closed(p)
     THEN UNCHANGED <<port, stream, last, running>>
     ELSE /\ Use(p)
          /\ fclose(port[p].file)
          /\ port' = [port EXCEPT ![p].word = SetPortClosed(@)]
  /\ shut' = shut \cup {p}
  /\ UNCHANGED <<opened, loads>>

Closable(p) == Argument(p) /\ (program.closesStandard \/ p \notin {StandardIn, StandardOut})

CloseInputPort(p) ==
  Closable(p) /\ IF is_input_port(p) THEN IoClosePort(p) ELSE error

CloseOutputPort(p) ==
  program.usesOutput /\ Closable(p) /\ IF is_output_port(p) THEN IoClosePort(p) ELSE error

\* read, read-char, peek-char: io_read, io_read_char, io_peek_char
Read(p) ==
  /\ Argument(p)
  /\ \/ /\ is_input_port(p)
        /\ Use(p)
        /\ UNCHANGED <<port, stream, opened, loads, shut>>
     \/ error     \* not an input port, or text that read rejects

\* write, display, newline, write-char
Write(p) ==
  /\ program.usesOutput
  /\ Argument(p)
  /\ IF is_output_port(p)
     THEN Use(p) /\ UNCHANGED <<port, stream, opened, loads, shut>>
     ELSE error

\* lisp_repl reads a command from the standard input and writes its value to the
\* standard output, without asking what the ports are.
Repl ==
  \E p \in {StandardIn, StandardOut} :
     Use(p) /\ UNCHANGED <<port, stream, opened, loads, shut>>

\* io_load: the file is read to its end or to the first error, and its port is
\* dropped with the file still open.
Load ==
  \/ /\ \E f \in Files : fopen(f) /\ make_port(f, PORT_TYPE_INPUT)
     /\ loads' = loads \cup {opened'}
     /\ last' = [port |-> Len(port'), wants |-> opened', finds |-> opened']
     /\ UNCHANGED <<shut, running>>
  \/ error

-----------------------------------------------------------------------------
\* scheme_init: the standard ports, the openings 1 and 2, and the library's
\* file, which io_load has left open.
Init ==
  \E in, out, lib \in Files :
     /\ Cardinality({in, out, lib}) = 3
     /\ program \in Programs
     /\ port = <<[word |-> PORT_TYPE_INPUT, file |-> in, opening |-> 1],
                 [word |-> PORT_TYPE_OUTPUT, file |-> out, opening |-> 2],
                 [word |-> PORT_TYPE_INPUT, file |-> lib, opening |-> 3]>>
     /\ stream = [f \in Files |-> CASE f = in -> 1 [] f = out -> 2 [] f = lib -> 3
                                    [] OTHER -> NoOpening]
     /\ opened = 3
     /\ loads = {3} /\ shut = {}
     /\ last = [port |-> 3, wants |-> 3, finds |-> 3]
     /\ running = TRUE

Next ==
  /\ running
  /\ UNCHANGED program
  /\ \/ OpenInputFile
     \/ OpenOutputFile
     \/ Load
     \/ Repl
     \/ \E p \in Ports : CloseInputPort(p) \/ CloseOutputPort(p) \/ Read(p) \/ Write(p)

Spec == Init /\ [][Next]_vars

-----------------------------------------------------------------------------
(* Correctness. *)

\* The variables have their types: the word of a port is a type and perhaps
\* the closed flag.
TypeOK ==
  /\ program \in Programs
  /\ port \in Seq([word : {t + c : t \in {PORT_TYPE_INPUT, PORT_TYPE_OUTPUT},
                                   c \in {0, PORT_FLAG_CLOSED}},
                   file : Files, opening : 1..opened])
  /\ stream \in [Files -> (1..opened) \cup {NoOpening}]
  /\ opened \in 3..MaxOpening
  /\ loads \subseteq 1..opened /\ shut \subseteq Ports
  /\ last \in [port : Ports, wants : 1..opened, finds : (1..opened) \cup {NoOpening}]
  /\ running \in BOOLEAN

\* An operation on a port reaches the stream that was opened for it: never one
\* that was closed, never one that another port has got by now.
ReachesOwnStream == last.wants = last.finds

\* A FILE serves one opening; the open ones are those of the ports not closed
\* and of the files load has left open: no close is lost, none is repeated.
FilesAccounted ==
  {stream[f] : f \in OpenFiles}
    = loads \cup {port[p].opening : p \in Ports \ shut}

\* A port that was made for one direction answers to it for ever; tests/
\* testcases.primitives: "(output-port? (current-input-port)) ; #f".
InputIsNotOutput ==
  [][\A p \in Ports : is_input_port(p) => ~is_output_port(p)']_vars
=============================================================================
