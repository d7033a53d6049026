----------------------------- MODULE MCHandoff -----------------------------
(* Small instances of Handoff for TLC. *)
EXTENDS Handoff

MCIds == 1..2
MCOneId == {1}

============================================================================
