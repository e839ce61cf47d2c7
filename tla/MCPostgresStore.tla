--------------------------- MODULE MCPostgresStore ---------------------------
(* Two events of one token and one of another; a market that is discovered   *)
(* on its curve and migrates to a pool; snapshots that tie on their time, or *)
(* on their time and version.                                                *)
EXTENDS PostgresStore, TLC
MCTokenOf == 1 :> "a" @@ 2 :> "a" @@ 3 :> "b"
MCMaxCalls == "events" :> 5 @@ "collection" :> 4 @@ "research" :> 3
MCShapes == {[curve |-> TRUE, pool |-> FALSE, quote |-> TRUE],
             [curve |-> FALSE, pool |-> TRUE, quote |-> FALSE]}
MCShots == {[time |-> 1, version |-> 1, kind |-> "MILESTONE"],
            [time |-> 1, version |-> 1, kind |-> "LIFECYCLE"],
            [time |-> 1, version |-> 2, kind |-> "MILESTONE"],
            [time |-> 2, version |-> 1, kind |-> "MILESTONE"]}
=============================================================================
