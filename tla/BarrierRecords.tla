--------------------------- MODULE BarrierRecords ---------------------------
(***************************************************************************)
(* The record of one barrier address (emu/core/barrier.go) and the staged  *)
(* result of each request on it: the next record, whether the requesting   *)
(* warp blocks, and the waiters released.  A rejected request has no       *)
(* result (the empty set).                                                 *)
(***************************************************************************)
EXTENDS Integers, FiniteSets

CONSTANT MaxEvents  \* events one record can count (32)

ASSUME EventsAssumption == MaxEvents \in Nat \ {0}

NoRecord == [arrivals |-> {}, waiters |-> {}, count |-> 0, events |-> 0,
             phase |-> FALSE, done |-> FALSE]

(* A record that keeps its CTA from completing; the phase alone does not. *)
PendingRecord(r) ==
    r.arrivals # {} \/ r.waiters # {} \/ r.count # 0 \/ r.events # 0 \/ r.done

Result(record, block, releases) ==
    {[record |-> record, block |-> block, releases |-> releases]}

(* What is left of a record once its phase completes. *)
Released(r) == [NoRecord EXCEPT !.phase = ~r.phase]

(* BAR.arrive with the event bit attaches events to the record. *)
ExpectEvents(r, n) ==
    IF r.events + n > MaxEvents THEN {}
    ELSE Result([r EXCEPT !.events = @ + n], FALSE, {})

(* BAR.wait blocks while the phase its token names is still open. *)
WaitPhase(r, w, token) ==
    IF token # r.phase THEN Result(r, FALSE, {})
    ELSE IF w \in r.waiters THEN {}
    ELSE Result([r EXCEPT !.waiters = @ \cup {w}], TRUE, {})

(* BAR and BAR.arrive of warp w, n participants of a CTA of "members".  The *)
(* last arrival releases the waiters unless events are outstanding.         *)
Arrive(r, w, n, members, sync) ==
    LET arrived == [r EXCEPT !.count = n, !.arrivals = @ \cup {w},
                             !.waiters = IF sync THEN @ \cup {w} ELSE @]
    IN  IF ~(n \in 1 .. members) \/ r.done \/ (r.count # 0 /\ r.count # n) \/ w \in r.arrivals
        THEN {}
        ELSE IF Cardinality(arrived.arrivals) # n THEN Result(arrived, sync, {})
        ELSE IF r.events # 0 THEN Result([arrived EXCEPT !.done = TRUE], sync, {})
        ELSE Result(Released(r), FALSE, arrived.waiters)

(* One completion event of the txbar unit. *)
EventCompletion(r) ==
    IF r.events = 0 THEN {}
    ELSE IF r.events = 1 /\ r.done THEN Result(Released(r), FALSE, r.waiters)
    ELSE Result([r EXCEPT !.events = @ - 1], FALSE, {})
=============================================================================
