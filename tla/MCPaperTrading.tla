--------------------------- MODULE MCPaperTrading ---------------------------
(* TLC instances of PaperTrading.  Keys are interchangeable, and so are    *)
(* processes; the runs with liveness properties do not use the symmetry.   *)
EXTENDS PaperTrading, TLC

Symmetry == Permutations(Arms) \cup Permutations(Procs)
=============================================================================
