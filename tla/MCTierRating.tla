---------------------------- MODULE MCTierRating ----------------------------
(* A small instance of TierRating and TeamRating for TLC. *)
EXTENDS TeamRating, TLC

CONSTANTS p1, p2, d1, d2, d3, r1, r2, r3, i1, i2

\* The defaults; the override of classification_test.go:139, which leaves the
\* medium limit below the two others; and limits of a duration out of order.
MCConfigs ==
  { << >>,
    <<"cfr", "elite">> :> <<3, 10>> @@ <<"cfr", "high">> :> <<2, 5>>,
    <<"lt", "high">> :> 0 @@ <<"df", "elite">> :> <<1, 6>> }

\* Both sides of the limits.
MCDurations == {Hour - 1, Hour, Day, Week - 1, Week}

MCTimes == {Hour - 1, Week}

MCProjectOf == d1 :> p1 @@ d2 :> p1 @@ d3 :> p2

\* Two merge requests of one deployment, one of them in the next one too.
MCLinks == {<<d1, r1>>, <<d1, r2>>, <<d2, r2>>, <<d3, r3>>}

\* One incident of both projects, one of the second only.
MCAffected == i1 :> {p1, p2} @@ i2 :> {p2}

\* The project's window and the team share nothing but the thresholds: one of the
\* two is looked at while the other is empty.
HalfAtATime ==
  \/ shipped = [d \in Deployments |-> "outside"] /\ resolved = [i \in Incidents |-> -1] /\ ~exists
  \/ m.deploys = 0 /\ m.ltSample = 0 /\ m.mttrSample = 0
=============================================================================
