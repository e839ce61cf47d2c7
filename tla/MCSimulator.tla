----------------------------- MODULE MCSimulator -----------------------------
(* A curve of constant product 40000 at three prices, with few tokens left *)
(* and in its graduation gap; in the second set of histories one that is   *)
(* young and taxed, the pool it graduates to, and a market that is dead.   *)
(* Snapshots are at uneven times, so that fills fall on, between and after *)
(* them.                                                                   *)
EXTENDS Simulator
MCTimes == <<0, 1, 2, 3, 6, 12>>
Curve(q, life) == [kind |-> "curve", life |-> life, taxed |-> FALSE, age |-> 60,
                   quality |-> "Complete", quote |-> q, token |-> 40000 \div q,
                   realToken |-> 0, realQuote |-> 0]
Shot(m, buyers) == [market |-> m, buyers |-> buyers, sellers |-> 5 - buyers,
                    outflow |-> buyers < 3]
MCKinds == {Shot(Curve(100, "CurveActive"), 2), Shot(Curve(180, "CurveActive"), 5),
            Shot([Curve(320, "CurveActive") EXCEPT !.realToken = 5], 3),
            Shot(Curve(320, "GraduationGap"), 3)}
MCLate == {Shot([Curve(160, "CurveActive") EXCEPT !.taxed = TRUE, !.age = 5,
                                                  !.realQuote = 30], 3),
           Shot([Curve(250, "AmmActive") EXCEPT !.kind = "pool"], 5),
           Shot(Curve(125, "Inactive"), 2)}
MCHistories == [1 .. 6 -> MCKinds] \cup [1 .. 6 -> MCLate]
MCRetries == [k \in {"entry", "exit", "emergency"} |-> IF k = "entry" THEN 1 ELSE 2]
MCConfig == [entryDelay |-> 0, skipped |-> FALSE, exit |-> "partial", hold |-> 3,
             adverse |-> 0, failing |-> {}, accel |-> FALSE, eligibleAt |-> 1,
             rejectAt |-> 9, creatorAt |-> 9]
MCConfigs ==
  {[MCConfig EXCEPT !.exit = x] : x \in ExitIds} \cup
  {[MCConfig EXCEPT !.exit = x, !.accel = TRUE, !.creatorAt = 3, !.entryDelay = 1,
                    !.failing = {<<"Buy", 0>>, <<"Sell", 0>>}] : x \in {"flow", "dynamic"}}
  \cup {[MCConfig EXCEPT !.rejectAt = 2, !.adverse = 300]}
=============================================================================
