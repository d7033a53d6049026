------------------------------ MODULE MCSurvey ------------------------------
(* A small instance of Survey for TLC. *)
EXTENDS Survey
=============================================================================
