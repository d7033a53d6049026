----------------------------- MODULE MCLogTail -----------------------------
(* Small instances of LogTail for TLC. *)
EXTENDS LogTail

MCInodes == 1..3
============================================================================
