---------------------------- MODULE MCResidency ----------------------------
(* The launches TLC considers on a machine with NumWarps warps.            *)
EXTENDS Residency

Launch(usable, warps, cluster, total, bar, spawns, traced) ==
    [usable |-> usable, warpsPerCTA |-> warps, clusterSize |-> cluster, totalCTAs |-> total,
     barRanks |-> bar, maxSpawns |-> spawns, traced |-> traced]

\* CTAs of three ranks, two of which meet at a barrier; clusters of two; and
\* one CTA whose ranks exit and are restarted by WSPAWN.
MCGrid == {Launch(3, 3, 1, 3, {0, 1}, 0, FALSE),
           Launch(2, 2, 2, 4, {0, 1}, 0, TRUE),
           Launch(2, 3, 1, 1, {}, 2, TRUE)}

\* Two CTAs in flight, one WSPAWN.
MCHandoff == {Launch(2, 2, 1, 2, {}, 1, FALSE)}
=============================================================================
