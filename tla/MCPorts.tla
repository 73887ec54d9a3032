------------------------------ MODULE MCPorts ------------------------------
(***************************************************************************)
(* Five FILE structures: the standard streams, the library's file and two  *)
(* that are opened, closed and handed out again.                           *)
(***************************************************************************)
EXTENDS Ports, TLC

Habits(reuses, output, closes) ==
  [reusesClosed |-> reuses, usesOutput |-> output, closesStandard |-> closes]

\* A program that never uses a port once it has closed it, and one that works
\* with input ports only, closed ones too.
SafePrograms == {Habits(FALSE, TRUE, FALSE), Habits(TRUE, FALSE, FALSE)}

\* A program that closes the standard ports.
ClosingPrograms == {Habits(FALSE, TRUE, TRUE)}

FileSymmetry == Permutations(Files)
=============================================================================
