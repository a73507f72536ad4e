--------------------------- MODULE MCSharedService ---------------------------
(***************************************************************************)
(* Two sides and two arguments, each its own result.                       *)
(***************************************************************************)
EXTENDS SharedService

CONSTANTS a, b, v1, v2

MCSide == {a, b}
MCArguments == {v1, v2}
MCResult(v) == <<v>>
=============================================================================
