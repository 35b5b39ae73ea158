----------------------------- MODULE GridLaunch -----------------------------
(***************************************************************************)
(* What a kernel launch promises its host: the CTAs of the grid become     *)
(* resident in grid order, the ranks of a resident CTA start in rank order *)
(* and once each, a finished rank restarts only while another rank of its  *)
(* CTA still runs (WSPAWN), and a CTA completes once, after all its ranks  *)
(* have finished.  Residency (the timing runner) and FunctionalCore (the     *)
(* functional kernel driver) both implement this specification.            *)
(***************************************************************************)
EXTENDS Integers

VARIABLES shape,  \* the launch: totalCTAs and warpsPerCTA
          phase,  \* phase[c]: "waiting", "resident" or "done"
          run     \* run[c][r]: "idle", "running" or "finished"

CTA == 0 .. shape.totalCTAs - 1
Rank == 0 .. shape.warpsPerCTA - 1

Init ==
    /\ phase = [c \in CTA |-> "waiting"]
    /\ run = [c \in CTA |-> [r \in Rank |-> "idle"]]

Finished == {c \in CTA : phase[c] = "resident" /\ \A r \in Rank : run[c][r] = "finished"}

SetRun(ranks, status) ==
    run' = [c \in CTA |-> [r \in Rank |-> IF <<c, r>> \in ranks THEN status ELSE run[c][r]]]

(* Between two steps of the warps: finished CTAs leave, the next CTAs of   *)
(* the grid become resident, and idle ranks of resident CTAs start.        *)
Boundary ==
    /\ phase' \in [CTA -> {"waiting", "resident", "done"}]
    /\ run' \in [CTA -> [Rank -> {"idle", "running", "finished"}]]
    /\ \A c \in CTA : phase'[c] # phase[c] =>
           \/ c \in Finished /\ phase'[c] = "done"
           \/ phase[c] = "waiting" /\ phase'[c] = "resident"
    /\ \A c, d \in CTA : d < c /\ phase'[c] # "waiting" => phase'[d] # "waiting"
    /\ \A c \in CTA : \A r \in Rank :
           /\ run'[c][r] # run[c][r] =>
                  /\ run[c][r] = "idle" /\ run'[c][r] = "running"
                  /\ phase'[c] = "resident"
           /\ run'[c][r] # "idle" => \A q \in Rank : q < r => run'[c][q] # "idle"

Finish(c, r) ==
    /\ run[c][r] = "running"
    /\ SetRun({<<c, r>>}, "finished")
    /\ phase' = phase

Respawn(c) ==
    /\ phase[c] = "resident"
    /\ \E r \in Rank : run[c][r] = "running"
    /\ \E T \in SUBSET {q \in Rank : run[c][q] = "finished"} :
           SetRun({c} \X T, "running")
    /\ phase' = phase

Next == /\ shape' = shape
        /\ \/ Boundary
           \/ \E c \in CTA : Respawn(c) \/ \E r \in Rank : Finish(c, r)

Spec == Init /\ [][Next]_<<shape, phase, run>>
=============================================================================
