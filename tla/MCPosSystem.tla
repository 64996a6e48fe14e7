----------------------------- MODULE MCPosSystem ----------------------------
(***************************************************************************)
(* Values of the constants of PosSystem for the model checker.             *)
(***************************************************************************)
EXTENDS PosSystem, TLC

CONSTANTS a, b, c   \* bytes

\* One column and two encoded ones, and a shape with longer rows.
OneShape  == {[pre |-> 1, enc |-> 2]}
TwoShapes == {[pre |-> 1, enc |-> 2], [pre |-> 2, enc |-> 4]}

\* The second shape is accepted by the client and refused for an upload.
RefusedShape == {[pre |-> 1, enc |-> 2], [pre |-> 3, enc |-> 4]}

OneBytePatch  == {<<b>>}
\* Patches that grow a file with and without adding a row to it.
LongPatches   == {<<b>>, <<b, c>>}

SmallFiles == [n \in Names |-> <<a>>]
\* Two field elements of two bytes, the second one partly filled.
PartialFiles == [n \in Names |-> <<a, a, a>>]

\* Four field elements, the last one partly filled: the row that one more byte
\* completes begins behind the end that the server computes for it.
LongFiles == [n \in Names |-> <<a, a, a, a, a, a, a>>]

Symmetry == Permutations(Ids) \cup Permutations(Slots)
=============================================================================
