--------------------------- MODULE MCCurveReader ---------------------------
(* The TLC instance of CurveReader: one curve that is not deployed yet at  *)
(* the first block of the chain and funded at the second.                  *)
EXTENDS CurveReader

MCCurves   == {"x"}
MCCurveAt  == [c \in MCCurves |-> <<"none", "funded">>]
MCBase     == [Throughput |-> 1, Unavailable |-> 1, Quota |-> 2]
MCCap      == [Throughput |-> 1, Unavailable |-> 1, Quota |-> 2]
MCOffset   == [probeNear |-> 1, probeFar |-> 1]
=============================================================================
