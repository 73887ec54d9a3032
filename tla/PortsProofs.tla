---------------------------- MODULE PortsProofs ----------------------------
(***************************************************************************)
(* Proofs about Ports.tla, for every set of FILEs, every bound on openings *)
(* and on descriptors.                                                     *)
(***************************************************************************)
EXTENDS Ports, FiniteSetTheorems, SequenceTheorems, TLAPS

\* The programs whose ports stay apart: those that leave the standard ports
\* open and, once they have closed a port, either do not use it again or use
\* no output port at all.  Every closed port answers as an output port.
Careful ==
  /\ ~program.closesStandard
  /\ ~(program.reusesClosed /\ program.usesOutput)

\* A port that was closed has the flag in its word, and only such a port has.
FlagsTold ==
  \A p \in Ports : port[p].word \in {PORT_TYPE_INPUT, PORT_TYPE_OUTPUT} <=> p \notin shut

\* A port that was not closed holds the FILE that serves its opening, and no
\* FILE serves two openings.
OwnStreams ==
  /\ \A p \in Ports \ shut : stream[port[p].file] = port[p].opening
  /\ \A f, g \in OpenFiles : stream[f] = stream[g] => f = g

\* Every opening has one port; the standard ports and those of load are open.
OneOpeningEach ==
  /\ \A p, q \in Ports : port[p].opening = port[q].opening => p = q
  /\ {StandardIn, StandardOut} \subseteq Ports \ shut
  /\ \A p \in Ports : port[p].opening \in loads => p \notin shut

\* The inductive invariant.
IInv ==
  /\ TypeOK
  /\ ReachesOwnStream /\ FilesAccounted
  /\ FlagsTold /\ OwnStreams /\ OneOpeningEach

-----------------------------------------------------------------------------
\* What a port is: a word with the type and perhaps the flag, a FILE and the
\* opening it was made for, one of n.
Words == {t + c : t \in {PORT_TYPE_INPUT, PORT_TYPE_OUTPUT}, c \in {0, PORT_FLAG_CLOSED}}
PortRecord(n) == [word : Words, file : Files, opening : 1..n]

\* set_port_closed leaves a word of its type, with the flag.
LEMMA WordFacts ==
  /\ Words = {0, 1, 256, 257}
  /\ \A w \in Words : SetPortClosed(w) \in {256, 257}
  /\ \A w \in Words, m \in {255, 16776960} : LogicalAnd(m, w) = IF w = 0 THEN 0 ELSE 1
<1>1. Words = {0, 1, 256, 257}
  BY DEF Words, PORT_TYPE_INPUT, PORT_TYPE_OUTPUT, PORT_FLAG_CLOSED
<1> QED
  BY <1>1 DEF SetPortClosed, LogicalAnd, PORT_FLAG_CLOSED

\* The type of a port, found in the sequence of ports.
LEMMA PortType ==
  ASSUME TypeOK
  PROVE  /\ port \in Seq(PortRecord(opened)) /\ Ports = 1..Len(port) /\ Len(port) \in Nat
         /\ \A p \in Ports : port[p] \in PortRecord(opened)
<1>1. port \in Seq(PortRecord(opened))
  BY DEF TypeOK, PortRecord, Words
<1>2. Ports = 1..Len(port) /\ Len(port) \in Nat
  BY <1>1 DEF Ports
<1>3. \A p \in Ports : port[p] \in PortRecord(opened)
  BY <1>1, <1>2, ElementOfSeq
<1> QED BY <1>1, <1>2, <1>3

\* The types of the other variables, without that of the ports.
LEMMA TypeFacts ==
  ASSUME TypeOK
  PROVE  /\ opened \in 3..MaxOpening /\ opened \in Nat /\ opened \notin 0..2
         /\ stream \in [Files -> (1..opened) \cup {NoOpening}]
         /\ loads \subseteq 1..opened /\ shut \subseteq Ports /\ program \in Programs
         /\ last \in [port : Ports, wants : 1..opened, finds : (1..opened) \cup {NoOpening}]
         /\ running \in BOOLEAN
<1>1. opened \in 3..MaxOpening
  BY DEF TypeOK
<1>2. opened \in Nat /\ opened \notin 0..2
  BY <1>1, PortsAssumption
<1> QED BY <1>1, <1>2 DEF TypeOK

\* is_port_closed is never true, for its flags are 0 or 1; of the words only 0
\* is that of an input port.
LEMMA Answers ==
  ASSUME TypeOK, NEW p \in Ports
  PROVE  /\ port[p].word \in Words /\ port[p].file \in Files /\ port[p].opening \in 1..opened
         /\ ~is_port_closed(p)
         /\ is_input_port(p) <=> port[p].word = 0
<1>1. port[p] \in PortRecord(opened)
  BY PortType
<1>2. port[p].word \in Words /\ port[p].file \in Files /\ port[p].opening \in 1..opened
  BY <1>1 DEF PortRecord
<1>3. get_port_flags(port[p].word) \in {0, 1}
  BY <1>2, WordFacts DEF get_port_flags
<1>4. ~is_port_closed(p)
  BY <1>3 DEF is_port_closed, PORT_FLAG_CLOSED
<1>5. is_input_port(p) <=> port[p].word = 0
  BY <1>2, WordFacts DEF is_input_port, PORT_TYPE_INPUT
<1> QED BY <1>2, <1>4, <1>5

-----------------------------------------------------------------------------
(* The three things an operation can do. *)

Uses(p)   == Use(p) /\ UNCHANGED <<port, stream, opened, loads, shut>>
Closes(p) ==
  /\ Use(p) /\ fclose(port[p].file)
  /\ port' = [port EXCEPT ![p].word = SetPortClosed(@)]
  /\ shut' = shut \cup {p}
  /\ UNCHANGED <<opened, loads>>
Opens(f, type) ==
  /\ fopen(f) /\ make_port(f, type)
  /\ UNCHANGED <<shut, running>>
  /\ \/ UNCHANGED <<loads, last>>
     \/ /\ loads' = loads \cup {opened'}
        /\ last' = [port |-> Len(port'), wants |-> opened', finds |-> opened']

StandardPorts == {StandardIn, StandardOut}

\* Every operation does one of them; a careful program only uses ports that
\* were not closed, and closes none of the standard ports or of load.
LEMMA StepShapes ==
  ASSUME TypeOK, StandardPorts \subseteq Ports, Next
  PROVE  /\ program' = program
         /\ \/ \E p \in Ports : Uses(p) /\ (Careful /\ FlagsTold /\ OneOpeningEach => p \notin shut)
            \/ \E f \in Files, type \in {PORT_TYPE_INPUT, PORT_TYPE_OUTPUT} : Opens(f, type)
            \/ \E p \in Ports :
                 /\ Closes(p)
                 /\ Careful /\ FlagsTold /\ OneOpeningEach =>
                      p \notin shut /\ p \notin StandardPorts /\ port[p].opening \notin loads
<1> DEFINE Safe == Careful /\ FlagsTold /\ OneOpeningEach
           UseStep == \E p \in Ports : Uses(p) /\ (Safe => p \notin shut)
           OpenStep == \E f \in Files, type \in {PORT_TYPE_INPUT, PORT_TYPE_OUTPUT} : Opens(f, type)
           CloseStep == \E p \in Ports :
                          /\ Closes(p)
                          /\ Safe => p \notin shut /\ p \notin StandardPorts /\ port[p].opening \notin loads
<1>1. SUFFICES UseStep \/ OpenStep \/ CloseStep
  BY DEF Next
<1>2. \A p \in StandardPorts : Uses(p) => UseStep
  BY DEF OneOpeningEach, StandardPorts
<1>3. error => UseStep
  <2>1. ASSUME error PROVE Uses(StandardOut)
    BY <2>1 DEF error, Uses
  <2> QED BY <2>1, <1>2 DEF StandardPorts
<1>4. ASSUME NEW type \in {PORT_TYPE_INPUT, PORT_TYPE_OUTPUT}, OpenFile(type)
      PROVE  UseStep \/ OpenStep
  <2>1. CASE error
    BY <2>1, <1>3
  <2>2. CASE ~error
    <3>1. PICK f \in Files : fopen(f) /\ make_port(f, type) /\ UNCHANGED <<loads, shut, last, running>>
      BY <1>4, <2>2 DEF OpenFile
    <3>2. Opens(f, type)
      BY <3>1 DEF Opens
    <3> QED BY <3>2
  <2> QED BY <2>1, <2>2
<1>5. CASE OpenInputFile
  BY <1>5, <1>4 DEF OpenInputFile
<1>6. CASE OpenOutputFile
  BY <1>6, <1>4 DEF OpenOutputFile
<1>7. CASE Load
  <2>1. CASE error
    BY <2>1, <1>3
  <2>2. CASE ~error
    <3>1. PICK f \in Files :
            /\ fopen(f) /\ make_port(f, PORT_TYPE_INPUT) /\ loads' = loads \cup {opened'}
            /\ last' = [port |-> Len(port'), wants |-> opened', finds |-> opened']
            /\ UNCHANGED <<shut, running>>
      BY <1>7, <2>2 DEF Load
    <3>2. Opens(f, PORT_TYPE_INPUT)
      BY <3>1 DEF Opens
    <3> QED BY <3>2
  <2> QED BY <2>1, <2>2
<1>8. CASE Repl
  BY <1>8, <1>2 DEF Repl, Uses, StandardPorts
<1>9. \A p \in Ports : Safe /\ Argument(p) /\ (program.usesOutput \/ is_input_port(p)) => p \notin shut
  <2>1. SUFFICES ASSUME NEW p \in Ports, Safe, Argument(p), program.usesOutput \/ is_input_port(p)
                 PROVE  p \notin shut
    OBVIOUS
  <2>2. CASE program.usesOutput
    BY <2>1, <2>2 DEF Argument, Careful
  <2>3. CASE is_input_port(p)
    <3>1. port[p].word = PORT_TYPE_INPUT
      BY <2>3, Answers DEF PORT_TYPE_INPUT
    <3> QED BY <2>1, <3>1 DEF FlagsTold
  <2> QED BY <2>1, <2>2, <2>3
<1>10. ASSUME NEW p \in Ports, Closable(p), program.usesOutput \/ is_input_port(p), IoClosePort(p)
       PROVE  CloseStep
  <2>1. Closes(p)
    BY <1>10, Answers DEF IoClosePort, Closes
  <2>2. Safe => p \notin shut /\ p \notin StandardPorts /\ port[p].opening \notin loads
    BY <1>9, <1>10 DEF Closable, Argument, Careful, StandardPorts
  <2> QED BY <2>1, <2>2
<1>11. ASSUME NEW p \in Ports, CloseInputPort(p)
       PROVE  UseStep \/ CloseStep
  BY <1>3, <1>10, <1>11 DEF CloseInputPort
<1>12. ASSUME NEW p \in Ports, CloseOutputPort(p)
       PROVE  UseStep \/ CloseStep
  BY <1>3, <1>10, <1>12 DEF CloseOutputPort
<1>13. ASSUME NEW p \in Ports, Read(p)
       PROVE  UseStep
  <2>1. CASE error
    BY <2>1, <1>3
  <2>2. CASE ~error
    BY <1>9, <1>13, <2>2 DEF Read, Uses
  <2> QED BY <2>1, <2>2
<1>14. ASSUME NEW p \in Ports, Write(p)
       PROVE  UseStep
  BY <1>3, <1>9, <1>14 DEF Write, Uses
<1> QED
  BY <1>5, <1>6, <1>7, <1>8, <1>11, <1>12, <1>13, <1>14 DEF Next

-----------------------------------------------------------------------------
(* What each of the three does to the variables. *)

\* One more port, for the next opening, on a FILE that was free.
LEMMA OpensFacts ==
  ASSUME TypeOK, NEW f \in Files, NEW type \in {PORT_TYPE_INPUT, PORT_TYPE_OUTPUT}, Opens(f, type)
  PROVE  /\ Ports' = Ports \cup {Len(port) + 1} /\ Len(port) + 1 \notin Ports
         /\ Len(port') = Len(port) + 1
         /\ port'[Len(port) + 1] = [word |-> type, file |-> f, opening |-> opened + 1]
         /\ \A p \in Ports : port'[p] = port[p]
         /\ port' \in Seq(PortRecord(opened'))
         /\ opened' = opened + 1 /\ opened' \in 3..MaxOpening
         /\ stream[f] = NoOpening /\ stream' = [stream EXCEPT ![f] = opened + 1]
<1>1. /\ opened' = opened + 1 /\ opened \in 3..MaxOpening /\ opened < MaxOpening
      /\ stream[f] = NoOpening /\ stream' = [stream EXCEPT ![f] = opened + 1]
      /\ port' = Append(port, [word |-> type, file |-> f, opening |-> opened'])
  BY DEF Opens, fopen, make_port, TypeOK
<1>2. opened' \in 3..MaxOpening
  BY <1>1, PortsAssumption
<1> DEFINE new == [word |-> type, file |-> f, opening |-> opened + 1]
<1>3. port' = Append(port, new)
  BY <1>1
<1>4. new \in PortRecord(opened')
  <2>1. type \in Words
    BY WordFacts DEF PORT_TYPE_INPUT, PORT_TYPE_OUTPUT
  <2> QED BY <1>1, <2>1 DEF PortRecord
<1>5. port \in Seq(PortRecord(opened'))
  <2>1. PortRecord(opened) \subseteq PortRecord(opened')
    BY <1>1 DEF PortRecord
  <2> QED BY <2>1, PortType, SeqMonotonic
<1> HIDE DEF new
<1>6. /\ port' \in Seq(PortRecord(opened')) /\ Len(port') = Len(port) + 1
      /\ \A i \in 1..Len(port) : port'[i] = port[i]
      /\ port'[Len(port) + 1] = new
  BY <1>3, <1>4, <1>5, AppendProperties
<1>7. Ports' = 1..(Len(port) + 1)
  BY <1>6, LenProperties DEF Ports
<1>8. Ports = 1..Len(port) /\ Len(port) \in Nat
  BY PortType
<1> QED BY <1>1, <1>2, <1>6, <1>7, <1>8 DEF new

\* The same ports, one of them with the flag, and a FILE that is free.
LEMMA ClosesFacts ==
  ASSUME TypeOK, NEW p \in Ports, Closes(p)
  PROVE  /\ Ports' = Ports
         /\ port'[p].word \in {256, 257}
         /\ \A q \in Ports : port'[q].file = port[q].file /\ port'[q].opening = port[q].opening
         /\ \A q \in Ports \ {p} : port'[q].word = port[q].word
         /\ port' \in Seq(PortRecord(opened))
         /\ shut' = shut \cup {p}
         /\ stream' = [stream EXCEPT ![port[p].file] = NoOpening]
<1>1. /\ port' = [port EXCEPT ![p].word = SetPortClosed(@)]
      /\ shut' = shut \cup {p} /\ stream' = [stream EXCEPT ![port[p].file] = NoOpening]
  BY DEF Closes, fclose
<1>2. \A q \in Ports : port[q] \in PortRecord(opened)
  BY PortType
<1> DEFINE new == [port[p] EXCEPT !.word = SetPortClosed(port[p].word)]
<1>3. port' = [port EXCEPT ![p] = new]
  BY <1>1
<1>4. /\ new \in PortRecord(opened)
      /\ new.word \in {256, 257} /\ new.file = port[p].file /\ new.opening = port[p].opening
  <2>1. SetPortClosed(port[p].word) \in {256, 257} /\ SetPortClosed(port[p].word) \in Words
    BY <1>2, WordFacts DEF PortRecord
  <2> QED BY <1>2, <2>1 DEF PortRecord
<1> HIDE DEF new
<1>5. /\ port' \in Seq(PortRecord(opened)) /\ Ports' = Ports
      /\ \A q \in Ports : port'[q] = IF q = p THEN new ELSE port[q]
  <2>1. port \in Seq(PortRecord(opened)) /\ p \in 1..Len(port) /\ Ports = 1..Len(port)
    BY PortType
  <2>2. /\ port' \in Seq(PortRecord(opened)) /\ Len(port') = Len(port)
        /\ \A q \in 1..Len(port) : port'[q] = IF q = p THEN new ELSE port[q]
    BY <1>3, <1>4, <2>1, ExceptSeq
  <2>3. Ports' = 1..Len(port')
    BY <2>2, LenProperties DEF Ports
  <2> QED BY <2>1, <2>2, <2>3
<1>6. port'[p] = new
  BY <1>5
<1>7. \A q \in Ports \ {p} : port'[q] = port[q]
  BY <1>5
<1>8. \A q \in Ports : port'[q].file = port[q].file /\ port'[q].opening = port[q].opening
  BY <1>4, <1>6, <1>7
<1> QED BY <1>1, <1>4, <1>5, <1>6, <1>7, <1>8

\* Every use records what the port wanted and what it found.
LEMMA UseFacts ==
  ASSUME TypeOK, NEW p \in Ports, Use(p)
  PROVE  /\ last' = [port |-> p, wants |-> port[p].opening, finds |-> stream[port[p].file]]
         /\ port[p].opening \in 1..opened
         /\ stream[port[p].file] \in (1..opened) \cup {NoOpening}
         /\ running' \in BOOLEAN
<1>1. port[p].file \in Files /\ port[p].opening \in 1..opened
  BY Answers
<1>2. stream[port[p].file] \in (1..opened) \cup {NoOpening}
  BY <1>1, TypeFacts
<1> QED BY <1>1, <1>2 DEF Use

\* The type invariant of the next state, from its conjuncts.
LEMMA TypePrime ==
  ASSUME port' \in Seq(PortRecord(opened')), program' \in Programs,
         stream' \in [Files -> (1..opened') \cup {NoOpening}], opened' \in 3..MaxOpening,
         loads' \subseteq 1..opened', shut' \subseteq Ports', running' \in BOOLEAN,
         last' \in [port : Ports', wants : 1..opened', finds : (1..opened') \cup {NoOpening}]
  PROVE  TypeOK'
BY DEF TypeOK, PortRecord, Words

\* Type correctness, with the standard ports, which every error message uses.
LEMMA TypeStep ==
  ASSUME TypeOK, StandardPorts \subseteq Ports, [Next]_vars
  PROVE  TypeOK' /\ StandardPorts \subseteq Ports'
<1>1. CASE UNCHANGED vars
  BY <1>1 DEF vars, TypeOK, Ports
<1>2. CASE Next
  <2>1. program' \in Programs
    BY <1>2, StepShapes, TypeFacts
  <2>2. ASSUME NEW p \in Ports, Uses(p)
        PROVE  TypeOK' /\ StandardPorts \subseteq Ports'
    <3>1. /\ port' = port /\ stream' = stream /\ opened' = opened /\ loads' = loads /\ shut' = shut
          /\ Ports' = Ports
      BY <2>2 DEF Uses, Ports
    <3>2. last' \in [port : Ports', wants : 1..opened', finds : (1..opened') \cup {NoOpening}]
          /\ running' \in BOOLEAN
      BY <2>2, <3>1, UseFacts DEF Uses
    <3> QED BY <2>1, <3>1, <3>2, PortType, TypeFacts, TypePrime
  <2>3. ASSUME NEW f \in Files, NEW type \in {PORT_TYPE_INPUT, PORT_TYPE_OUTPUT}, Opens(f, type)
        PROVE  TypeOK' /\ StandardPorts \subseteq Ports'
    <3>1. /\ Ports' = Ports \cup {Len(port) + 1} /\ Len(port') = Len(port) + 1
          /\ opened' = opened + 1 /\ opened' \in 3..MaxOpening
          /\ stream' = [stream EXCEPT ![f] = opened + 1]
          /\ port' \in Seq(PortRecord(opened'))
      BY <2>3, OpensFacts
    <3>2. opened \in Nat /\ 1..opened \subseteq 1..opened' /\ opened' \in 1..opened'
      BY <3>1, TypeFacts
    <3>3. stream' \in [Files -> (1..opened') \cup {NoOpening}]
      BY <3>1, <3>2, TypeFacts
    <3>4. shut' \subseteq Ports' /\ running' \in BOOLEAN
      BY <2>3, <3>1, TypeFacts DEF Opens
    <3>5. loads' \subseteq 1..opened'
          /\ last' \in [port : Ports', wants : 1..opened', finds : (1..opened') \cup {NoOpening}]
      <4>1. CASE UNCHANGED <<loads, last>>
        BY <3>1, <3>2, <4>1, TypeFacts
      <4>2. CASE /\ loads' = loads \cup {opened'}
                 /\ last' = [port |-> Len(port'), wants |-> opened', finds |-> opened']
        BY <3>1, <3>2, <4>2, TypeFacts
      <4> QED BY <2>3, <4>1, <4>2 DEF Opens
    <3> QED
      BY <2>1, <3>1, <3>3, <3>4, <3>5, TypePrime
  <2>4. ASSUME NEW p \in Ports, Closes(p)
        PROVE  TypeOK' /\ StandardPorts \subseteq Ports'
    <3>1. /\ Ports' = Ports /\ port' \in Seq(PortRecord(opened)) /\ shut' = shut \cup {p}
          /\ stream' = [stream EXCEPT ![port[p].file] = NoOpening]
      BY <2>4, ClosesFacts
    <3>2. Use(p) /\ opened' = opened /\ loads' = loads
      BY <2>4 DEF Closes
    <3>3. stream' \in [Files -> (1..opened') \cup {NoOpening}]
      BY <3>1, <3>2, TypeFacts
    <3>4. last' \in [port : Ports', wants : 1..opened', finds : (1..opened') \cup {NoOpening}]
          /\ running' \in BOOLEAN
      BY <3>1, <3>2, UseFacts
    <3> QED
      BY <2>1, <3>1, <3>2, <3>3, <3>4, TypeFacts, TypePrime
  <2> QED BY <1>2, <2>2, <2>3, <2>4, StepShapes
<1> QED BY <1>1, <1>2

-----------------------------------------------------------------------------
(* The inductive invariant. *)

\* A set of two elements, the same or not, does not have three.
LEMMA PairCardinality ==
  ASSUME NEW a, NEW b
  PROVE  Cardinality({a, b}) # 3
<1>1. IsFiniteSet({b}) /\ Cardinality({b}) = 1
  BY FS_Singleton
<1>2. Cardinality({b} \cup {a}) # 3
  BY <1>1, FS_AddElement
<1>3. {a, b} = {b} \cup {a}
  OBVIOUS
<1> QED BY <1>2, <1>3

\* scheme_init leaves three ports, each with its own FILE.
LEMMA InitFacts ==
  ASSUME Init
  PROVE  /\ TypeOK /\ StandardPorts \subseteq Ports
         /\ IInv
<1>1. PICK in, out, lib \in Files :
        /\ Cardinality({in, out, lib}) = 3
        /\ program \in Programs
        /\ port = <<[word |-> PORT_TYPE_INPUT, file |-> in, opening |-> 1],
                    [word |-> PORT_TYPE_OUTPUT, file |-> out, opening |-> 2],
                    [word |-> PORT_TYPE_INPUT, file |-> lib, opening |-> 3]>>
        /\ stream = [f \in Files |-> CASE f = in -> 1 [] f = out -> 2 [] f = lib -> 3
                                       [] OTHER -> NoOpening]
        /\ opened = 3 /\ loads = {3} /\ shut = {}
        /\ last = [port |-> 3, wants |-> 3, finds |-> 3] /\ running = TRUE
  BY DEF Init
<1>2. in # out /\ in # lib /\ out # lib
  <2>2. in = out => {in, out, lib} = {in, lib}
    OBVIOUS
  <2>3. in = lib \/ out = lib => {in, out, lib} = {in, out}
    OBVIOUS
  <2>4. Cardinality({in, out}) # 3 /\ Cardinality({in, lib}) # 3
    BY PairCardinality
  <2> QED BY <1>1, <2>2, <2>3, <2>4, Zenon
<1>3. NoOpening \notin 1..3 /\ 3 \in 3..MaxOpening
  BY PortsAssumption
<1> DEFINE first == [word |-> PORT_TYPE_INPUT, file |-> in, opening |-> 1]
           second == [word |-> PORT_TYPE_OUTPUT, file |-> out, opening |-> 2]
           third == [word |-> PORT_TYPE_INPUT, file |-> lib, opening |-> 3]
<1>4. {first, second, third} \subseteq PortRecord(3)
  BY WordFacts DEF PortRecord, PORT_TYPE_INPUT, PORT_TYPE_OUTPUT
<1>5. port = <<first, second, third>>
  BY <1>1
<1>6. /\ first.word \in {PORT_TYPE_INPUT, PORT_TYPE_OUTPUT} /\ first.file = in /\ first.opening = 1
      /\ second.word \in {PORT_TYPE_INPUT, PORT_TYPE_OUTPUT} /\ second.file = out /\ second.opening = 2
      /\ third.word \in {PORT_TYPE_INPUT, PORT_TYPE_OUTPUT} /\ third.file = lib /\ third.opening = 3
  OBVIOUS
<1> HIDE DEF first, second, third
<1>7. /\ port \in Seq(PortRecord(3)) /\ Len(port) = 3
      /\ port[1] = first /\ port[2] = second /\ port[3] = third
  BY <1>4, <1>5
<1>8. Ports = 1..3
  BY <1>7, LenProperties DEF Ports
<1>9. Ports = {1, 2, 3}
  BY <1>8
<1>10. TypeOK /\ StandardPorts \subseteq Ports
  <2>1. stream \in [Files -> (1..3) \cup {NoOpening}]
    BY <1>1
  <2>2. last \in [port : Ports, wants : 1..3, finds : (1..3) \cup {NoOpening}]
    BY <1>1, <1>8
  <2>3. port \in Seq([word : {t + c : t \in {PORT_TYPE_INPUT, PORT_TYPE_OUTPUT},
                                    c \in {0, PORT_FLAG_CLOSED}},
                     file : Files, opening : 1..3])
    BY <1>7 DEF PortRecord, Words
  <2>4. StandardPorts \subseteq Ports
    BY <1>9 DEF StandardPorts, StandardIn, StandardOut
  <2>5. /\ program \in Programs /\ opened = 3 /\ opened \in 3..MaxOpening
        /\ loads \subseteq 1..3 /\ shut \subseteq Ports /\ running \in BOOLEAN
    BY <1>1, <1>3
  <2> QED BY <2>1, <2>2, <2>3, <2>4, <2>5 DEF TypeOK
<1>11. stream[in] = 1 /\ stream[out] = 2 /\ stream[lib] = 3
       /\ OpenFiles = {in, out, lib}
  BY <1>1, <1>2, <1>3 DEF OpenFiles
<1>12. ReachesOwnStream
  BY <1>1 DEF ReachesOwnStream
<1>13. FlagsTold
  BY <1>1, <1>6, <1>7, <1>9 DEF FlagsTold
<1>14. OwnStreams
  BY <1>1, <1>6, <1>7, <1>9, <1>11 DEF OwnStreams
<1>15. OneOpeningEach
  BY <1>1, <1>6, <1>7, <1>9 DEF OneOpeningEach, StandardIn, StandardOut
<1>16. FilesAccounted
  <2>1. {stream[f] : f \in OpenFiles} = {1, 2, 3}
    BY <1>11
  <2>2. {port[p].opening : p \in Ports \ shut} = {1, 2, 3}
    BY <1>1, <1>6, <1>7, <1>9
  <2> QED BY <1>1, <2>1, <2>2 DEF FilesAccounted
<1> QED BY <1>10, <1>12, <1>13, <1>14, <1>15, <1>16 DEF IInv

\* A use of a port that was not closed reaches its stream.
LEMMA UsesStep ==
  ASSUME IInv, NEW p \in Ports, Uses(p), p \notin shut
  PROVE  (ReachesOwnStream /\ FilesAccounted /\ FlagsTold /\ OwnStreams /\ OneOpeningEach)'
<1>1. last'.wants = last'.finds
  BY UseFacts DEF IInv, OwnStreams, Uses
<1> QED
  BY <1>1 DEF IInv, Uses, ReachesOwnStream, FilesAccounted, FlagsTold, OwnStreams, OneOpeningEach,
              Ports, OpenFiles

\* A new port serves a new opening on a FILE that no other port holds.
LEMMA OpensStep ==
  ASSUME IInv, NEW f \in Files, NEW type \in {PORT_TYPE_INPUT, PORT_TYPE_OUTPUT}, Opens(f, type)
  PROVE  (ReachesOwnStream /\ FilesAccounted /\ FlagsTold /\ OwnStreams /\ OneOpeningEach)'
<1> DEFINE n == Len(port) + 1
           new == opened + 1
<1>1. TypeOK
  BY DEF IInv
<1>2. /\ Ports' = Ports \cup {n} /\ n \notin Ports
      /\ port'[n].word = type /\ port'[n].file = f /\ port'[n].opening = new
      /\ \A p \in Ports : port'[p] = port[p]
      /\ opened' = new /\ stream[f] = NoOpening /\ stream' = [stream EXCEPT ![f] = new]
      /\ shut' = shut
  <2>1. port'[n] = [word |-> type, file |-> f, opening |-> new]
    BY <1>1, OpensFacts
  <2>2. port'[n].word = type /\ port'[n].file = f /\ port'[n].opening = new
    BY <2>1
  <2> HIDE DEF n, new
  <2> QED BY <1>1, <2>2, OpensFacts DEF Opens, n, new
<1>3. \/ loads' = loads /\ last' = last
      \/ loads' = loads \cup {new} /\ last'.wants = last'.finds
  BY <1>2 DEF Opens
<1>4. /\ \A p \in Ports : port[p].opening \in 1..opened /\ port[p].file \in Files
      /\ new \notin 1..opened /\ new # NoOpening /\ NoOpening \notin 1..opened
      /\ stream \in [Files -> (1..opened) \cup {NoOpening}]
      /\ loads \subseteq 1..opened /\ shut \subseteq Ports
  BY <1>1, Answers, TypeFacts, PortsAssumption
<1>5. n \notin shut
  BY <1>2, <1>4
<1>6. stream'[f] = new /\ \A g \in Files \ {f} : stream'[g] = stream[g]
  BY <1>2, <1>4
<1>7. OpenFiles' = OpenFiles \cup {f} /\ f \notin OpenFiles
  BY <1>2, <1>4, <1>6 DEF OpenFiles
<1> HIDE DEF n, new
<1>8. ReachesOwnStream'
  BY <1>3 DEF IInv, ReachesOwnStream
<1>9. FlagsTold'
  BY <1>2, <1>5 DEF IInv, FlagsTold
<1>10. \A g \in OpenFiles : stream'[g] = stream[g] /\ stream[g] \in 1..opened
  BY <1>4, <1>6, <1>7 DEF OpenFiles
<1>11. \A p \in Ports \ shut : port[p].file \in OpenFiles
  BY <1>4 DEF IInv, OwnStreams, OpenFiles
<1>12. OwnStreams'
  <2>1. \A p \in Ports' \ shut' : stream'[port'[p].file] = port'[p].opening
    BY <1>2, <1>6, <1>10, <1>11 DEF IInv, OwnStreams
  <2>2. \A g, h \in OpenFiles' : stream'[g] = stream'[h] => g = h
    BY <1>4, <1>6, <1>7, <1>10 DEF IInv, OwnStreams
  <2> QED BY <2>1, <2>2 DEF OwnStreams
<1>13. OneOpeningEach'
  <2>1. \A p, q \in Ports' : port'[p].opening = port'[q].opening => p = q
    BY <1>2, <1>4 DEF IInv, OneOpeningEach
  <2>2. \A p \in Ports' : port'[p].opening \in loads' => p \notin shut'
    BY <1>2, <1>3, <1>4, <1>5 DEF IInv, OneOpeningEach
  <2>3. {StandardIn, StandardOut} \subseteq Ports' \ shut'
    BY <1>2 DEF IInv, OneOpeningEach
  <2> QED BY <2>1, <2>2, <2>3 DEF OneOpeningEach
<1>14. FilesAccounted'
  <2>1. {stream'[g] : g \in OpenFiles'} = {stream[g] : g \in OpenFiles} \cup {new}
    BY <1>6, <1>7, <1>10
  <2>2. {port'[p].opening : p \in Ports' \ shut'} = {port[p].opening : p \in Ports \ shut} \cup {new}
    BY <1>2, <1>5
  <2>3. {stream[g] : g \in OpenFiles} = loads \cup {port[p].opening : p \in Ports \ shut}
    BY DEF IInv, FilesAccounted
  <2> QED BY <1>3, <2>1, <2>2, <2>3 DEF FilesAccounted
<1> QED BY <1>8, <1>9, <1>12, <1>13, <1>14

\* Closing a port gives back the FILE of that port and no other.
LEMMA ClosesStep ==
  ASSUME IInv, NEW p \in Ports, Closes(p),
         p \notin shut, p \notin StandardPorts, port[p].opening \notin loads
  PROVE  (ReachesOwnStream /\ FilesAccounted /\ FlagsTold /\ OwnStreams /\ OneOpeningEach)'
<1> DEFINE f == port[p].file
           closed == port[p].opening
<1>1. TypeOK
  BY DEF IInv
<1>2. /\ Ports' = Ports /\ port'[p].word \in {256, 257}
      /\ \A q \in Ports : port'[q].file = port[q].file /\ port'[q].opening = port[q].opening
      /\ \A q \in Ports \ {p} : port'[q].word = port[q].word
      /\ shut' = shut \cup {p} /\ stream' = [stream EXCEPT ![f] = NoOpening]
      /\ loads' = loads
  BY <1>1, ClosesFacts DEF Closes
<1>3. /\ \A q \in Ports : port[q].opening \in 1..opened /\ port[q].file \in Files
      /\ NoOpening \notin 1..opened /\ stream \in [Files -> (1..opened) \cup {NoOpening}]
  BY <1>1, Answers, TypeFacts, PortsAssumption
<1>4. stream'[f] = NoOpening /\ \A g \in Files \ {f} : stream'[g] = stream[g]
  BY <1>2, <1>3
<1>5. stream[f] = closed /\ closed # NoOpening
  BY <1>3 DEF IInv, OwnStreams
<1>6. OpenFiles' = OpenFiles \ {f} /\ f \in OpenFiles
  BY <1>3, <1>4, <1>5 DEF OpenFiles
<1>7. last'.wants = last'.finds
  BY <1>1, <1>5, UseFacts DEF Closes
<1>8. \A q \in Ports \ {p} : port[q].opening # closed
  BY DEF IInv, OneOpeningEach
<1> HIDE DEF f, closed
<1>9. FlagsTold'
  BY <1>2 DEF IInv, FlagsTold, PORT_TYPE_INPUT, PORT_TYPE_OUTPUT
<1>10. OwnStreams'
  <2>1. \A q \in Ports' \ shut' : stream'[port'[q].file] = port'[q].opening
    <3>1. \A q \in Ports \ (shut \cup {p}) : port[q].file \in Files \ {f} /\ stream[port[q].file] = port[q].opening
      BY <1>3, <1>5, <1>8 DEF IInv, OwnStreams
    <3> QED BY <1>2, <1>4, <3>1
  <2>2. \A g, h \in OpenFiles' : stream'[g] = stream'[h] => g = h
    BY <1>4, <1>6 DEF IInv, OwnStreams, OpenFiles
  <2> QED BY <2>1, <2>2 DEF OwnStreams
<1>11. OneOpeningEach'
  BY <1>2 DEF IInv, OneOpeningEach, closed, StandardPorts
<1>12. FilesAccounted'
  <2>1. {stream'[g] : g \in OpenFiles'} = {stream[g] : g \in OpenFiles} \ {closed}
    <3>1. \A g \in OpenFiles \ {f} : stream'[g] = stream[g] /\ stream[g] # closed
      BY <1>4, <1>5, <1>6 DEF IInv, OwnStreams, OpenFiles
    <3> QED BY <1>5, <1>6, <3>1
  <2>2. {port'[q].opening : q \in Ports' \ shut'} = {port[q].opening : q \in Ports \ shut} \ {closed}
    BY <1>2, <1>8 DEF closed
  <2>3. {stream[g] : g \in OpenFiles} = loads \cup {port[q].opening : q \in Ports \ shut}
    BY DEF IInv, FilesAccounted
  <2>4. closed \notin loads
    BY DEF closed
  <2> QED BY <1>2, <2>1, <2>2, <2>3, <2>4 DEF FilesAccounted
<1> QED BY <1>7, <1>9, <1>10, <1>11, <1>12 DEF ReachesOwnStream

\* The steps of a careful program keep the invariant.
LEMMA CarefulStep ==
  ASSUME IInv, Careful, [Next]_vars
  PROVE  IInv'
<1>1. StandardPorts \subseteq Ports /\ TypeOK
  BY DEF IInv, OneOpeningEach, StandardPorts
<1>2. TypeOK'
  BY <1>1, TypeStep
<1>3. (ReachesOwnStream /\ FilesAccounted /\ FlagsTold /\ OwnStreams /\ OneOpeningEach)'
  <2>1. CASE UNCHANGED vars
    BY <2>1 DEF vars, IInv, ReachesOwnStream, FilesAccounted, FlagsTold, OwnStreams, OneOpeningEach,
                Ports, OpenFiles
  <2>2. CASE Next
    <3>1. FlagsTold /\ OneOpeningEach
      BY DEF IInv
    <3> QED BY <1>1, <2>2, <3>1, StepShapes, UsesStep, OpensStep, ClosesStep
  <2> QED BY <2>1, <2>2
<1> QED BY <1>2, <1>3 DEF IInv

-----------------------------------------------------------------------------
(* The theorems. *)

\* Every word the port operations leave is a type and perhaps the closed flag,
\* and every port holds a FILE of the library and an opening that was made:
\* the invariant that is checked, for every set of FILEs and every bound.
THEOREM TypeCorrect == Spec => []TypeOK
<1>1. Init => TypeOK /\ StandardPorts \subseteq Ports
  BY InitFacts
<1>2. TypeOK /\ StandardPorts \subseteq Ports /\ [Next]_vars => (TypeOK /\ StandardPorts \subseteq Ports)'
  BY TypeStep
<1> QED BY <1>1, <1>2, PTL DEF Spec

\* A careful program stays one, and keeps the inductive invariant.
LEMMA CarefulCorrect == Spec => [](Careful => IInv)
<1>1. Init => (Careful => IInv)
  BY InitFacts
<1>2. TypeOK /\ StandardPorts \subseteq Ports /\ (Careful => IInv) /\ [Next]_vars
        => (TypeOK /\ StandardPorts \subseteq Ports)' /\ (Careful => IInv)'
  <2>1. SUFFICES ASSUME TypeOK, StandardPorts \subseteq Ports, Careful => IInv, [Next]_vars, Careful'
                 PROVE  IInv'
    BY TypeStep
  <2>2. program' = program
    BY <2>1, StepShapes DEF vars
  <2> QED BY <2>1, <2>2, CarefulStep DEF Careful
<1>3. Init => TypeOK /\ StandardPorts \subseteq Ports
  BY InitFacts
<1> QED BY <1>1, <1>2, <1>3, PTL DEF Spec

\* In every program that leaves the standard ports open, and that does not use
\* output ports and closed ports both, an operation on a port reaches the
\* stream that port was opened for.
THEOREM OwnStreamsReached == Spec => [](Careful => ReachesOwnStream)
<1>1. (Careful => IInv) => (Careful => ReachesOwnStream)
  BY DEF IInv
<1> QED BY <1>1, CarefulCorrect, PTL

\* In the same programs the FILEs in use are those of the ports that are open
\* and of the files load has left open: none is lost, none is given back twice.
THEOREM AllFilesAccounted == Spec => [](Careful => FilesAccounted)
<1>1. (Careful => IInv) => (Careful => FilesAccounted)
  BY DEF IInv
<1> QED BY <1>1, CarefulCorrect, PTL

=============================================================================
