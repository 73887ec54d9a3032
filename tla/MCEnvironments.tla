--------------------------- MODULE MCEnvironments ---------------------------
(***************************************************************************)
(* Three lambdas, with the parameters (x), (x . y) and y, over two values.  *)
(***************************************************************************)
EXTENDS Environments, TLC

CONSTANTS x, y, u, v

MCVars    == {x, y}
MCVals    == {u, v}
MCFormals ==
  <<[names |-> <<x>>, rest |-> NoRest], [names |-> <<x>>, rest |-> y], [names |-> << >>, rest |-> y]>>

\* No operation tells the two values apart.
ValSymmetry == Permutations(MCVals)
=============================================================================
