----------------------- MODULE MCPolynomialEvaluation -----------------------
(***************************************************************************)
(* Values of the constants of PolynomialEvaluation for the model checker:  *)
(* bytes of one bit, elements of two, the field of five elements.          *)
(***************************************************************************)
EXTENDS PolynomialEvaluation

CONSTANT MaxLength    \* bound: the length of a file

Bits == 0..1

\* Every short file, and files of more than one row in every shape: one that
\* ends with an element, one in the middle of one, one at the end of a row.
SomeFiles ==
  UNION {[1..n -> Bits] : n \in 1..MaxLength}
    \cup {<<0, 1, 0, 0>>, <<1, 0, 1, 1>>, <<1, 1, 1, 0>>}
    \cup {<<1, 0, 0, 1, 1, 1>>, <<0, 1, 1, 1, 0, 1, 1>>, <<1, 1, 0, 1, 1, 0, 0, 1>>}

\* The default shapes of files of up to four elements, which have one column or
\* two, and a row that is no power of two.
FieldShapes == {SquareShape(n) : n \in 1..4} \cup {[pre |-> 3, enc |-> 4]}

TwoPoints == {2, 4}

\* Data that fills an element and data that does not.
BitPatches == {<<1>>, <<0, 1, 1>>}
=============================================================================
