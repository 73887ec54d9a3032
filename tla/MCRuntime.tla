----------------------------- MODULE MCRuntime -----------------------------
(***************************************************************************)
(* A heap of a few words beyond the five constants, with one fixnum, one   *)
(* character, one C pointer, and texts and lengths around a word boundary. *)
(***************************************************************************)
EXTENDS Runtime

MCImmediates    == {4, 4 * 65 + 1}
MCCodeWords     == {12}
MCVectorLengths == {0, 2}
MCIndices       == {-1, 0, 1, 2, 3, 4}
MCStringTexts   == {<< >>, <<66, 66, 66>>, <<66, 66, 66, 66>>}
=============================================================================
