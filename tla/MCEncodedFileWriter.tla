----------------------- MODULE MCEncodedFileWriter ------------------------
(***************************************************************************)
(* The writer on every file up to MaxLength, in three shapes; the fourth   *)
(* is one that convert_unencoded_file refuses.                             *)
(***************************************************************************)
EXTENDS EncodedFileWriter

CONSTANTS a, b

EncodedShapes == {[pre |-> 1, enc |-> 2], [pre |-> 2, enc |-> 4], [pre |-> 3, enc |-> 4],
                  [pre |-> 2, enc |-> 2]}
=============================================================================
