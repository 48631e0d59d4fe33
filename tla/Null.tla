-------------------------------- MODULE Null --------------------------------
(***************************************************************************)
(* None, as the sources of the tools use it: no row, no value, no outcome. *)
(***************************************************************************)

CONSTANT None
=============================================================================
