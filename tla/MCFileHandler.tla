--------------------------- MODULE MCFileHandler ---------------------------
(***************************************************************************)
(* One Ulid, files of up to MaxLength bytes in rows of one and two bytes;  *)
(* one shape is refused by every conversion.                               *)
(***************************************************************************)
EXTENDS FileHandler

CONSTANTS a, b

HandlerShapes == {[pre |-> 1, enc |-> 2], [pre |-> 2, enc |-> 4], [pre |-> 2, enc |-> 2]}
SomeFiles     == {<< >>, <<a>>}
SomeAppends   == {<<a>>, <<a, a>>}
SomePatches   == {<<b, b>>}
=============================================================================
