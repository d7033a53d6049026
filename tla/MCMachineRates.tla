--------------------------- MODULE MCMachineRates ---------------------------
(* A small instance of MachineRates for TLC: one container of two processes, which
   are interchangeable, and one of one. *)
EXTENDS MachineRates, TLC

CONSTANTS p1, p2, p3

MCProcs == {p1, p2, p3}
MCHome == [p \in MCProcs |-> IF p = p3 THEN 1 ELSE 2]
Twins == Permutations({p1, p2})
=============================================================================
