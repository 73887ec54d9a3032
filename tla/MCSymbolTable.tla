--------------------------- MODULE MCSymbolTable ---------------------------
(***************************************************************************)
(* Two identifiers and the first two gensym names, which the user can also *)
(* spell in a string.  Identifiers collide in one bucket with a gensym.    *)
(***************************************************************************)
EXTENDS SymbolTable

MCTexts       == {"a", "b", "#:G1", "#:G2"}
MCIdentifiers == {"a", "b"}
MCGensymNames == <<"#:G1", "#:G2">>
MCSameLength  == [t \in MCTexts |-> IF t \in MCIdentifiers THEN MCIdentifiers
                                    ELSE MCTexts \ MCIdentifiers]
MCHash        == [t \in MCTexts |-> CASE t = "a" -> 2 [] t = "b" -> 4
                                      [] t = "#:G1" -> 3 [] t = "#:G2" -> 6]
=============================================================================
