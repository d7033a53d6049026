--------------------------- MODULE MCEngineMetrics ---------------------------
EXTENDS EngineMetrics, TLC

MCSymmetry == Permutations(Engines)
=============================================================================
