------------------------------- MODULE Execute -------------------------------
(***************************************************************************)
(* The execution units, the commit port and the scheduler's accounting of  *)
(* issued instructions (src/timing/model/alu.go, lsu.go, sfu.go, csr.go,   *)
(* fpu.go, execute.go, commit.go, accounting.go).                          *)
(*                                                                         *)
(* The memory behind the LSU is external: it takes a request when it is    *)
(* ready and answers a load or a fence in one or several lane subsets.     *)
(***************************************************************************)
EXTENDS PipeParts

CONSTANTS MulDepth, DivLatency, CsrLatency, FpuDepth,  \* edges in a unit
          RequestSize,    \* LSU request queue
          LoadTags,       \* loads and fences waiting for memory
          FpuTags         \* instructions inside the FPU

ASSUME ExecuteAssumption ==
    /\ {MulDepth, DivLatency, FpuDepth, LoadTags, FpuTags} \subseteq Nat \ {0}
    /\ CsrLatency \in Nat /\ RequestSize \in Nat /\ RequestSize >= 2

VARIABLES
    alu,      \* [int, md, res : buffers, mul : pipeline, div, left, next, branch]
    lsu,      \* [disp, req, load, store, res, gather : buffers, tags, sent, fence]
    sfu,      \* [disp, wctl, csr, res, gather : buffers, wait, next, control]
    fpu,      \* [pipe, out : per path, res, next, tags, flags]
    commit,   \* [out : buffer, feedback]
    account   \* [issued, pending]

execVars == <<alu, lsu, sfu, fpu, commit, account>>

FpuPath == {"fma", "ncp"}

FpuPort == [fma |-> 0, ncp |-> 1]

ExecInit ==
    /\ alu = [int |-> <<>>, md |-> <<>>, res |-> <<>>, mul |-> Bubbles(MulDepth), div |-> {},
              left |-> 0, next |-> 0, branch |-> {}]
    /\ lsu = [disp |-> <<>>, req |-> <<>>, load |-> <<>>, store |-> <<>>, res |-> <<>>,
              gather |-> <<>>, tags |-> {}, sent |-> {}, fence |-> FALSE]
    /\ sfu = [disp |-> <<>>, wctl |-> <<>>, csr |-> <<>>, res |-> <<>>, gather |-> <<>>,
              wait |-> 0, next |-> 0, control |-> {}]
    /\ fpu = [pipe |-> [p \in FpuPath |-> Bubbles(FpuDepth)], out |-> [p \in FpuPath |-> <<>>],
              res |-> <<>>, next |-> 0, tags |-> {}, flags |-> {}]
    /\ commit = [out |-> <<>>, feedback |-> {}]
    /\ account = [issued |-> {}, pending |-> {}]

\* Ports among two queues a and b that request; an arbiter grants one if its
\* output buffer has room.
Requests(a, b) == (IF a = {} THEN {} ELSE {0}) \cup (IF b = {} THEN {} ELSE {1})

\* After a grant the round-robin cursor moves behind the winner.
Advance(next, grant, ports) ==
    IF grant = {} THEN next ELSE ((CHOOSE p \in grant : TRUE) + 1) % ports

(***************************************************************************)
(* Commit takes the result of the lowest class.                            *)
(***************************************************************************)
Results == [c \in Class |-> CASE c = ALU -> Out(alu.res) [] c = LSU -> Out(lsu.gather)
                              [] c = SFU -> Out(sfu.gather) [] c = FPU -> Out(fpu.res)]

Committing(c) == Results[c] # {} /\ \A d \in 0 .. c - 1 : Results[d] = {}

Writeback == Out(commit.out)

CommitStep ==
    commit' = [out |-> AsSeq(UNION {Results[c] : c \in {d \in Class : Committing(d)}}),
               feedback |-> {t \in Writeback : t.end}]

(***************************************************************************)
(* ALU: integer register, multiplier pipeline and serial divider.          *)
(***************************************************************************)
AluGrant ==
    IF Len(alu.res) < 2 THEN Winner(Requests(Out(alu.int), Out(alu.md)), 2, alu.next) ELSE {}

DivOut == IF alu.left = 0 THEN alu.div ELSE {}

MdGrant ==
    IF Len(alu.md) < 2 THEN Winner(Requests(ShiftOut(alu.mul), DivOut), 2, 0) ELSE {}

AluReady(in) ==
    \A t \in in : CASE Kind(t).path = "int" -> BufferReady(1, alu.int, 0 \in AluGrant)
                    [] Kind(t).path = "mul" -> ShiftReady(alu.mul, 0 \in MdGrant)
                    [] Kind(t).path = "div" -> alu.div = {}

AluStep(in) ==
    LET taken == IF AluReady(in) THEN in ELSE {}
    IN  alu' = [int    |-> BufferNext(1, alu.int, Route(in, "int"), 0 \in AluGrant),
                mul    |-> ShiftNext(alu.mul, Route(in, "mul"), 0 \in MdGrant),
                div    |-> (IF 1 \in MdGrant THEN {} ELSE alu.div) \cup Route(taken, "div"),
                left   |-> IF Route(taken, "div") # {} THEN DivLatency - 1
                           ELSE IF alu.left > 0 THEN alu.left - 1 ELSE 0,
                md     |-> BufferNext(2, alu.md, IF 0 \in MdGrant THEN ShiftOut(alu.mul)
                                                 ELSE IF 1 \in MdGrant THEN DivOut ELSE {},
                                      1 \in AluGrant),
                res    |-> BufferNext(2, alu.res, IF 0 \in AluGrant THEN Out(alu.int)
                                                  ELSE IF 1 \in AluGrant THEN Out(alu.md) ELSE {},
                                      Committing(ALU)),
                next   |-> Advance(alu.next, AluGrant, 2),
                branch |-> IF 0 \in AluGrant
                           THEN {t \in Out(alu.int) : Kind(t).ctl = "branch"} ELSE {}]

(***************************************************************************)
(* LSU: a load or a fence needs a tag, a store a place in the store result *)
(* queue; an accepted fence locks the unit until it is answered.           *)
(***************************************************************************)
IsStore(t) == Kind(t).path = "store"

LsuReady == Len(lsu.disp) < 2

LsuSlice ==
    /\ ~lsu.fence /\ Len(lsu.req) < RequestSize
    /\ \A t \in Out(lsu.disp) : IF IsStore(t) THEN Len(lsu.store) < 2
                                ELSE Cardinality(lsu.tags) < LoadTags

\* The tag entry of a response, and the result it makes.
Answered(response) == {e \in lsu.tags : Len(lsu.load) < 2 /\ \E r \in response : r.tok = e.tok}

\* Mutant: the lock outlives the fence.
FenceNextStuck(taken, done) == lsu.fence \/ Route(taken, "fence") # {}

FenceNext(taken, done) ==
    \/ Route(taken, "fence") # {}
    \/ lsu.fence /\ \A e \in done : Kind(e.tok).path # "fence"

LsuStep(in, response, requestReady) ==
    LET taken == IF LsuSlice THEN Out(lsu.disp) ELSE {}
        loads == {t \in taken : ~IsStore(t)}
        hits == Answered(response)
        left(e) == e.left \ UNION {r.mask : r \in response}
        done == {e \in hits : left(e) = {}}
        results == {[e.tok EXCEPT !.end = (e \in done)] : e \in hits}
        loadTaken == Len(lsu.res) < 2 /\ lsu.load # <<>>
        storeTaken == Len(lsu.res) < 2 /\ lsu.load = <<>>
        gatherReady == Len(lsu.gather) < 2
    IN  lsu' = [disp   |-> BufferNext(2, lsu.disp, in, LsuSlice),
                req    |-> BufferNext(RequestSize, lsu.req, taken, requestReady),
                tags   |-> (lsu.tags \ hits)
                              \cup {[e EXCEPT !.left = left(e)] : e \in hits \ done}
                              \cup {[tok |-> t, left |-> Lanes] : t \in loads},
                load   |-> BufferNext(2, lsu.load, results, loadTaken),
                store  |-> BufferNext(2, lsu.store, taken \ loads, storeTaken),
                res    |-> BufferNext(2, lsu.res, IF lsu.load # <<>> THEN Out(lsu.load)
                                                  ELSE Out(lsu.store), gatherReady),
                gather |-> BufferNext(2, lsu.gather, Out(lsu.res), Committing(LSU)),
                sent   |-> (lsu.sent \ {e.tok : e \in done})
                              \cup {t \in Out(lsu.req) : requestReady /\ ~IsStore(t)},
                fence  |-> FenceNext(taken, done)]

\* What a barrier waits for: no request queued and no load or fence unanswered.
LsuDrained == lsu.req = <<>> /\ lsu.tags = {}

(***************************************************************************)
(* SFU: warp control and CSR.  allowed is the drain condition of the warp  *)
(* control instruction at the head; a CSR access holds the head for its    *)
(* context wait.                                                           *)
(***************************************************************************)
SfuReady == Len(sfu.disp) < 2

SfuGrant ==
    IF Len(sfu.res) < 2 THEN Winner(Requests(Out(sfu.wctl), Out(sfu.csr)), 2, sfu.next) ELSE {}

SfuStep(in, allowed) ==
    LET wctl == {t \in Route(Out(sfu.disp), "wctl") : allowed /\ Len(sfu.wctl) < 2}
        waiting == Route(Out(sfu.disp), "csr")
        csr == {t \in waiting : sfu.wait = CsrLatency /\ Len(sfu.csr) < 2}
    IN  sfu' = [disp    |-> BufferNext(2, sfu.disp, in, wctl \cup csr # {}),
                wctl    |-> BufferNext(2, sfu.wctl, wctl, 0 \in SfuGrant),
                csr     |-> BufferNext(2, sfu.csr, csr, 1 \in SfuGrant),
                wait    |-> IF waiting = {} \/ csr # {} THEN 0
                            ELSE IF sfu.wait < CsrLatency THEN sfu.wait + 1 ELSE sfu.wait,
                res     |-> BufferNext(2, sfu.res, IF 0 \in SfuGrant THEN Out(sfu.wctl)
                                                   ELSE IF 1 \in SfuGrant THEN Out(sfu.csr) ELSE {},
                                       Len(sfu.gather) < 2),
                next    |-> Advance(sfu.next, SfuGrant, 2),
                gather  |-> BufferNext(2, sfu.gather, Out(sfu.res), Committing(SFU)),
                control |-> wctl]

(***************************************************************************)
(* FPU: one pipeline and output buffer per path; a tag is held from        *)
(* acceptance until the result leaves.  Two of the four paths, which       *)
(* differ in depth only, are modelled.                                     *)
(***************************************************************************)
FpuGrant ==
    IF Len(fpu.res) < 2
    THEN Winner({FpuPort[p] : p \in {q \in FpuPath : fpu.out[q] # <<>>}}, Cardinality(FpuPath), fpu.next)
    ELSE {}

FpuReady(in) ==
    /\ Cardinality(fpu.tags) < FpuTags
    /\ \A t \in in : ShiftReady(fpu.pipe[Kind(t).path], Len(fpu.out[Kind(t).path]) < 2)

FpuError == ~(Out(fpu.res) \subseteq fpu.tags)

FpuStep(in) ==
    LET taken == IF FpuReady(in) THEN in ELSE {}
        leaving == IF Committing(FPU) THEN Out(fpu.res) ELSE {}
    IN  fpu' = [pipe |-> [p \in FpuPath |-> ShiftNext(fpu.pipe[p], Route(taken, p), Len(fpu.out[p]) < 2)],
                out  |-> [p \in FpuPath |-> BufferNext(2, fpu.out[p], ShiftOut(fpu.pipe[p]),
                                                       FpuPort[p] \in FpuGrant)],
                res  |-> BufferNext(2, fpu.res,
                             UNION {Out(fpu.out[p]) : p \in {q \in FpuPath : FpuPort[q] \in FpuGrant}},
                             Committing(FPU)),
                next |-> Advance(fpu.next, FpuGrant, Cardinality(FpuPath)),
                tags |-> (fpu.tags \ leaving) \cup taken,
                flags |-> leaving]

(***************************************************************************)
(* Accounting: an instruction is pending from the edge after the collector *)
(* took it until the edge after its last writeback.                        *)
(***************************************************************************)
AccountError ==
    \E t \in commit.feedback : \A u \in account.pending \cup account.issued : ~SameUop(t, u)

\* Mutant: an issue is lost at the edge another instruction leaves.
StillPendingDropsIssued ==
    {t \in account.pending : \A u \in commit.feedback : ~SameUop(t, u)}
        \cup (IF commit.feedback = {} THEN account.issued ELSE {})

StillPending ==
    {t \in account.pending \cup account.issued : \A u \in commit.feedback : ~SameUop(t, u)}

AccountStep(issue) ==
    account' = [issued |-> issue, pending |-> StillPending]

(***************************************************************************)
(* Cancellation inside the units.  The fence lock falls with its fence.    *)
(***************************************************************************)
ExecCancel(c) ==
    /\ alu' = [alu EXCEPT !.int = KeepSeq(c, @), !.md = KeepSeq(c, @), !.res = KeepSeq(c, @),
                          !.mul = KeepStages(c, @), !.div = Keep(c, @), !.branch = Keep(c, @),
                          !.left = IF Keep(c, alu.div) = alu.div THEN @ ELSE 0]
    /\ lsu' = [lsu EXCEPT !.disp = KeepSeq(c, @), !.req = KeepSeq(c, @), !.load = KeepSeq(c, @),
                          !.store = KeepSeq(c, @), !.res = KeepSeq(c, @), !.gather = KeepSeq(c, @),
                          !.tags = {e \in @ : ~Matches(c, e.tok)}, !.sent = Keep(c, @),
                          !.fence = @ /\ \A e \in lsu.tags :
                                             Kind(e.tok).path = "fence" => ~Matches(c, e.tok)]
    /\ sfu' = [sfu EXCEPT !.disp = KeepSeq(c, @), !.wctl = KeepSeq(c, @), !.csr = KeepSeq(c, @),
                          !.res = KeepSeq(c, @), !.gather = KeepSeq(c, @), !.control = Keep(c, @),
                          !.wait = IF \E t \in Route(Out(sfu.disp), "csr") : Matches(c, t) THEN 0 ELSE @]
    /\ fpu' = [fpu EXCEPT !.pipe = [p \in FpuPath |-> KeepStages(c, @[p])],
                          !.out = [p \in FpuPath |-> KeepSeq(c, @[p])],
                          !.res = KeepSeq(c, @), !.tags = Keep(c, @), !.flags = Keep(c, @)]
    /\ commit' = [out |-> KeepSeq(c, commit.out), feedback |-> Keep(c, commit.feedback)]
    /\ account' = [issued |-> Keep(c, account.issued), pending |-> Keep(c, account.pending)]

\* Every token on its way through the units to the commit buffer.  A store in
\* the request queue has its result on the way as well, and may outlast it.
ExecTokens ==
    SeqSet(alu.int) \cup SeqSet(alu.md) \cup SeqSet(alu.res) \cup UNION SeqSet(alu.mul) \cup alu.div
    \cup UNION {SeqSet(q) : q \in {lsu.disp, lsu.load, lsu.store, lsu.res, lsu.gather}}
    \cup {e.tok : e \in lsu.tags}
    \cup UNION {SeqSet(q) : q \in {sfu.disp, sfu.wctl, sfu.csr, sfu.res, sfu.gather}}
    \cup UNION {UNION SeqSet(fpu.pipe[p]) \cup SeqSet(fpu.out[p]) : p \in FpuPath} \cup SeqSet(fpu.res)
    \cup SeqSet(commit.out)
==============================================================================
