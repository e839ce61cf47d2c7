--------------------------- MODULE MCEventPipeline ---------------------------
(* The TLC instance of EventPipeline: A is launched (1, 2) and bought (4), *)
(* B is bought (3); one log is of no known kind.                           *)
EXTENDS EventPipeline

MCEvents      == 1 .. 4
MCTokenOf     == [e \in MCEvents |-> IF e = 3 THEN "B" ELSE "A"]
MCTimeOf      == [e \in MCEvents |-> IF e <= 3 THEN 0 ELSE 1]
MCDecode      == [launch |-> <<1, 2>>, buyB |-> <<3>>, buyA |-> <<4>>,
                  noise |-> <<>>]
MCDiscoveries == {1}
=============================================================================
