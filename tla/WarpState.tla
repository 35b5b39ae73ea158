----------------------------- MODULE WarpState -----------------------------
(***************************************************************************)
(* The canonical state of one warp (emu/state) and what the instructions   *)
(* that touch control do to it (isa/custom.go, isa/system.go).  Every      *)
(* operator gives the set of states the warp may commit: one state, or     *)
(* none when evaluation or staging rejects the instruction.                *)
(*                                                                         *)
(* A PC counts instructions.  Masks are sets of lanes.  Registers are kept *)
(* as the roles a program gives them: the SPLIT pointers, one data value   *)
(* per lane, a barrier phase token, a saved mask and a return address.     *)
(***************************************************************************)
EXTENDS Integers, Sequences, FiniteSets, FiniteSetsExt

CONSTANT NumLanes  \* lanes of a warp (4 in the frozen configuration)

ASSUME LanesAssumption == NumLanes \in Nat \ {0}

Lane == 0 .. NumLanes - 1
FrozenDivergenceDepth == NumLanes - 1  \* rows of the divergence stack
Reentry == 5                           \* instructions of the re-entry window

(* A warp no CTA has used yet. *)
NewWarp(pc) == [pc |-> pc, mask |-> {}, running |-> FALSE, stack |-> <<>>,
                saved |-> {}, mepc |-> pc, mscratch |-> 0,
                ptr |-> [r \in 1 .. 2 |-> 0], val |-> [l \in Lane |-> <<>>],
                tok |-> FALSE, tmask |-> {}, ra |-> pc]

(* CTA dispatch: the first use of a warp starts at the startup PC, a later *)
(* one re-enters before the PC its last CTA finished at.  Only PC, mask    *)
(* and mscratch change.                                                    *)
Launch(a, first, startup, mask, parameter) ==
    [a EXCEPT !.pc = IF first THEN startup ELSE @ - Reentry,
              !.mask = mask, !.running = TRUE, !.mscratch = parameter]

(* WSPAWN activates a target with lane 0 and the source's mscratch. *)
Spawned(a, target, mscratch) ==
    [a EXCEPT !.pc = target, !.mask = {0}, !.running = TRUE, !.mscratch = mscratch]

(* The lane whose operands decide a warp-wide instruction. *)
DecisionLane(a) == Max(a.mask)

Sequential(a) == [a EXCEPT !.pc = @ + 1]

Tmc(a, mask) == {[Sequential(a) EXCEPT !.mask = mask, !.running = mask # {}]}

Pred(a, selected, fallback) ==
    Tmc(a, IF a.mask \cap selected = {} THEN fallback ELSE a.mask \cap selected)

(* SPLIT runs the smaller side first, the "then" side when they tie. *)
ExecuteMask(then, else) == IF Cardinality(then) > Cardinality(else) THEN else ELSE then

(* SPLIT pushes a record only when its lanes disagree. *)
Split(a, condition, rd) ==
    LET then == a.mask \cap condition
        else == a.mask \ condition
        linked == [Sequential(a) EXCEPT !.ptr[rd] = Len(a.stack)]
    IN  IF then = {} \/ else = {} THEN {linked}
        ELSE IF Len(a.stack) >= FrozenDivergenceDepth THEN {}
        ELSE {[linked EXCEPT !.mask = ExecuteMask(then, else),
                             !.stack = Append(@, [orig |-> a.mask, pc |-> a.pc + 1,
                                                  elseVisited |-> FALSE])]}

(* Mutant: the second JOIN keeps the lanes of the side that ran last. *)
JoinKeepsMask(a, rs) ==
    LET p == a.ptr[rs] + 1 IN
    IF p = Len(a.stack) + 1 THEN {Sequential(a)}
    ELSE IF p > Len(a.stack) THEN {}
    ELSE IF a.stack[p].elseVisited
         THEN IF p # Len(a.stack) THEN {}
              ELSE {[Sequential(a) EXCEPT !.stack = SubSeq(@, 1, p - 1)]}
         ELSE LET rest == a.stack[p].orig \ a.mask
              IN  IF rest = {} THEN {}
                  ELSE {[a EXCEPT !.pc = a.stack[p].pc, !.mask = rest,
                                  !.stack[p].elseVisited = TRUE]}

(* JOIN on the pointer its SPLIT returned: no record was pushed when it    *)
(* equals the write pointer; the first visit of a record sends the other   *)
(* side back to the instruction after SPLIT, the second restores the mask. *)
Join(a, rs) ==
    LET p == a.ptr[rs] + 1 IN
    IF p = Len(a.stack) + 1 THEN {Sequential(a)}
    ELSE IF p > Len(a.stack) THEN {}
    ELSE IF a.stack[p].elseVisited
         THEN IF p # Len(a.stack) THEN {}
              ELSE {[Sequential(a) EXCEPT !.mask = a.stack[p].orig,
                                          !.stack = SubSeq(@, 1, p - 1)]}
         ELSE LET rest == a.stack[p].orig \ a.mask
              IN  IF rest = {} THEN {}
                  ELSE {[a EXCEPT !.pc = a.stack[p].pc, !.mask = rest,
                                  !.stack[p].elseVisited = TRUE]}

(* ECALL saves PC and mask and enters the vector; MRET goes back to MEPC   *)
(* with the saved mask, if there is one.                                   *)
TrapEnter(a, vector) == {[a EXCEPT !.pc = vector, !.mepc = a.pc, !.saved = a.mask]}
TrapReturn(a) == {[a EXCEPT !.pc = a.mepc,
                            !.mask = IF a.saved # {} THEN a.saved ELSE @]}
=============================================================================
