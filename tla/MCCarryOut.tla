----------------------------- MODULE MCCarryOut -----------------------------
(***************************************************************************)
(* Small instances of CarryOut: the default bound lies below the unit's,   *)
(* the bounds of the other plans above it, as 60 s, 120 s and ten minutes  *)
(* do.                                                                     *)
(***************************************************************************)
EXTENDS CarryOut
=============================================================================
