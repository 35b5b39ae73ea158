------------------------------ MODULE PipeParts ------------------------------
(***************************************************************************)
(* The building blocks of the core pipeline: instruction tokens, elastic   *)
(* buffers, arbiters and shift pipelines (src/timing/model/buffer.go,      *)
(* merge.go, execute.go).                                                  *)
(*                                                                         *)
(* A signal is a set with at most one token: {} is "not valid".  Every     *)
(* component computes its next state from the old state of all the others, *)
(* as CommitEdge installs it.                                              *)
(***************************************************************************)
EXTENDS Integers, Sequences, FiniteSets

CONSTANTS NumWarps,     \* warps of the core
          MaxId,        \* instructions fetched in a run
          Programs,     \* [kinds, warps, cancels, served] : kind of each instruction, warps used,
                        \* cancellations allowed, whether the memories are assumed to answer
          Lanes         \* lanes of a warp

ASSUME PipeAssumption == NumWarps \in Nat \ {0} /\ MaxId \in Nat /\ Lanes # {}

VARIABLE program        \* the program of the run, chosen at the start

Warp == 0 .. NumWarps - 1
Class == 0 .. 3
ALU == 0
LSU == 1
SFU == 2
FPU == 3

(***************************************************************************)
(* A token names a uop of an instruction of a warp.  `end' is FALSE only   *)
(* for a partial memory result.  A kind is what decode returns: the path,  *)
(* the source registers in operand order (0 is the suppressed x0), the     *)
(* status registers read, the registers and status registers written, the  *)
(* uops of a packed load and the scheduler event (ctl) the warp waits for. *)
(***************************************************************************)
Token == [id : 1 .. MaxId, warp : Warp, uop : Nat, end : BOOLEAN]

Kind(t) == program.kinds[t.id]

ClassOf == [int |-> ALU, mul |-> ALU, div |-> ALU, load |-> LSU, store |-> LSU, fence |-> LSU,
            wctl |-> SFU, csr |-> SFU, fma |-> FPU, ncp |-> FPU]

ClassOfToken(t) == ClassOf[Kind(t).path]

\* Branches, traps and the warp control instructions other than a barrier arrival
\* hold back the fetch of their warp until their scheduler event.
WarpStall(t) == Kind(t).ctl # "none"

\* The registers an instruction must find free: RAW and WAW (dependencyMask).
Uses(t) == Kind(t).writes \cup Kind(t).reads
             \cup ({Kind(t).srcs[i] : i \in DOMAIN Kind(t).srcs} \ {0})

SameUop(a, b) == a.id = b.id /\ a.uop = b.uop

Route(s, path) == {t \in s : Kind(t).path = path}

(***************************************************************************)
(* Elastic buffers.  A one-entry buffer is a pipe register that accepts    *)
(* while it empties; a larger one cannot borrow the slot being freed.      *)
(***************************************************************************)
Out(q) == IF q = <<>> THEN {} ELSE {Head(q)}

AsSeq(s) == IF s = {} THEN <<>> ELSE <<CHOOSE t \in s : TRUE>>

BufferReady(size, q, down) == IF size = 1 THEN q = <<>> \/ down ELSE Len(q) < size

BufferNext(size, q, in, down) ==
    (IF down /\ q # <<>> THEN Tail(q) ELSE q)
        \o (IF BufferReady(size, q, down) THEN AsSeq(in) ELSE <<>>)

\* The port an arbiter grants: the first requesting port from `next' on.
Winner(reqs, ports, next) ==
    {p \in reqs : \A q \in reqs : (p - next) % ports <= (q - next) % ports}

\* A shift pipeline: a blocked valid tail freezes every stage, bubbles included.
ShiftOut(stages) == stages[Len(stages)]

ShiftReady(stages, down) == down \/ ShiftOut(stages) = {}

ShiftNext(stages, in, down) ==
    IF ShiftReady(stages, down) THEN <<in>> \o SubSeq(stages, 1, Len(stages) - 1) ELSE stages

Bubbles(n) == [i \in 1 .. n |-> {}]

(***************************************************************************)
(* A cancellation scope removes the tokens of a warp younger than `after'  *)
(* and not younger than `through' (cancel.go).                             *)
(***************************************************************************)
Matches(c, t) == t.warp = c.warp /\ t.id > c.after /\ t.id <= c.through

Keep(c, s) == {t \in s : ~Matches(c, t)}

KeepSeq(c, q) == SelectSeq(q, LAMBDA t : ~Matches(c, t))

KeepStages(c, stages) == [i \in DOMAIN stages |-> Keep(c, stages[i])]

SeqSet(q) == {q[i] : i \in DOMAIN q}
==============================================================================
