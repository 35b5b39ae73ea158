------------------------------ MODULE CacheBank ------------------------------
(***************************************************************************)
(* One bank of the L1 cache (src/timing/memsys/cache_bank.go) with its data *)
(* array (cache_array.go) and MSHR table (CacheMshr).  Two pipeline         *)
(* registers: an operation selected at one edge sits in s0, accesses the    *)
(* array at the next edge and commits from s1 at the one after.  One action *)
(* is one clock edge, named after what the bank's arbitration selects.      *)
(*                                                                         *)
(* The bank's surroundings choose, at every edge, whether the oldest        *)
(* response and the oldest memory request are taken, which outstanding      *)
(* refill is offered and whether a flush begins.  The next memory level is  *)
(* external: it serves accepted requests in order (`backing'), and a read   *)
(* becomes a refill in `pending' that may be offered at any later edge.     *)
(***************************************************************************)
EXTENDS CacheMshr, Sequences

CONSTANTS Sets, Ways,          \* geometry of the bank
          RspSize, MemSize,    \* capacities of the response and memory queues
          Latency,             \* pipeline depth behind the almost-full threshold
          Bank,                \* the bank's number: bank 0 reports a flush early
          Writeback,           \* TRUE in the data cache, FALSE in the instruction cache
          FillErrs,            \* whether refills may fail: a subset of BOOLEAN
          MaxReq, MaxFlush     \* bounds: requests accepted and flushes begun

ASSUME BankAssumption ==
    /\ Sets \in Nat \ {0} /\ Ways \in Nat \ {0}
    /\ RspSize \in Nat \ {0} /\ MemSize \in Nat /\ Latency = 2 /\ MemSize > Latency
    /\ Bank \in Nat /\ Writeback \in BOOLEAN /\ FillErrs \subseteq BOOLEAN
    /\ MaxReq \in Nat /\ MaxFlush \in Nat

VARIABLES lines, fifo, initialized,             \* cacheArray
          reserved, s0, s1, responses, memory,  \* cacheBank
          initNext, flushing, flushIndex, forwarding, forwarded,
          fault,             \* step() has returned an error
          backing, pending,  \* the next memory level (external)
          issued, flushes,   \* requests accepted and flushes begun so far
          answered,          \* history: requests whose completion has left the bank
          newest,            \* history: newest accepted store of each line
          stored,            \* history: newest store applied to each line
          relaxed            \* history: lines whose request order is not promised

arrayVars == <<lines, fifo, initialized>>
bankVars == <<reserved, s0, s1, responses, memory, initNext, flushing, flushIndex,
              forwarding, forwarded, fault>>
envVars == <<backing, pending, issued, flushes, answered, newest, stored, relaxed>>
vars == <<mshrVars, arrayVars, bankVars, envVars>>

SetIds == 0..(Sets - 1)
WayIds == 0..(Ways - 1)

\* DecodeAddress and lineAddress on line numbers within the bank.
SetOf(line) == line % Sets
TagOf(line) == line \div Sets
LineAddress(set, tag) == tag * Sets + set

-----------------------------------------------------------------------------
(* The data array.                                                         *)

NoLine == [valid |-> FALSE, dirty |-> FALSE, tag |-> 0, data |-> 0]

\* lookup(): the ways that hold the line; more than one never happens.
Hits(line) == {w \in WayIds : lines[SetOf(line)][w].valid /\ lines[SetOf(line)][w].tag = TagOf(line)}
HitWay(line) == CHOOSE w \in Hits(line) : \A v \in Hits(line) : w <= v

\* victim(): a detached copy of a dirty line.
Victim(set, way) ==
    LET l == lines[set][way]
    IN  IF l.valid /\ l.dirty THEN {[line |-> LineAddress(set, l.tag), data |-> l.data]} ELSE {}

\* read(): the word of a resident line.
ReadWord(line) == lines[SetOf(line)][HitWay(line)].data

\* Mutant: a store does not mark its line dirty.
WrittenClean(r) ==
    IF Hits(r.line) = {} THEN lines
    ELSE [lines EXCEPT ![SetOf(r.line)][HitWay(r.line)].data = r.id]

\* write(): only a resident line is updated, and becomes dirty.
Written(r) ==
    IF Hits(r.line) = {} THEN lines
    ELSE [lines EXCEPT ![SetOf(r.line)][HitWay(r.line)].data = r.id,
                       ![SetOf(r.line)][HitWay(r.line)].dirty = TRUE]

\* fill(): the FIFO way, unless the line is resident already.
FillWay(line) == IF Hits(line) = {} THEN fifo[SetOf(line)] ELSE HitWay(line)
Filled(line, data) ==
    [lines EXCEPT ![SetOf(line)][FillWay(line)] =
        [valid |-> TRUE, dirty |-> FALSE, tag |-> TagOf(line), data |-> data]]
FillVictim(line) == IF Hits(line) = {} THEN Victim(SetOf(line), FillWay(line)) ELSE {}

\* flushWay(); a read-only cache clears every way of the set at once.
FlushedWays(op) == IF Writeback THEN {op.way} ELSE WayIds
Flushed(op) ==
    [lines EXCEPT ![op.set] =
        [w \in WayIds |-> IF w \in FlushedWays(op)
                          THEN [@[w] EXCEPT !.valid = FALSE, !.dirty = FALSE] ELSE @[w]]]

-----------------------------------------------------------------------------
(* Operations of the pipeline.                                             *)

CoreOp(r) == [kind |-> "core", req |-> r]
ReplayOp(r) == [kind |-> "replay", req |-> r, err |-> forwarded.err]
FillOp(f) == [kind |-> "fill", line |-> Entry(f.handle).req.line, data |-> f.data, err |-> f.err]
InitOp == [kind |-> "init", set |-> initNext]
FlushOp == [kind |-> "flush", set |-> flushIndex % Sets, way |-> flushIndex \div Sets]

IsAccess(op) == op.kind \in {"core", "replay"}
FailedReplay(op) == op.kind = "replay" /\ op.err

\* What an operation finds in the array when it leaves s0.
HitOf(op) == IsAccess(op) /\ (FailedReplay(op) \/ Hits(op.req.line) # {})
ValueOf(op) == IF HitOf(op) /\ ~FailedReplay(op) THEN ReadWord(op.req.line) ELSE 0
VictimOf(op) ==
    CASE op.kind = "fill" /\ ~op.err -> FillVictim(op.line)
      [] op.kind = "flush" /\ Writeback -> Victim(op.set, op.way)
      [] OTHER -> {}

ArrayAfter(op) ==
    CASE op.kind = "init" -> [lines EXCEPT ![op.set] = [w \in WayIds |-> NoLine]]
      [] op.kind = "flush" -> Flushed(op)
      [] op.kind = "fill" /\ ~op.err -> Filled(op.line, op.data)
      [] IsAccess(op) /\ ~FailedReplay(op) /\ op.req.write -> Written(op.req)
      [] OTHER -> lines

FifoAfter(op) ==
    CASE op.kind = "init" -> [fifo EXCEPT ![op.set] = 0]
      [] op.kind = "fill" /\ ~op.err -> [fifo EXCEPT ![SetOf(op.line)] = (@ + 1) % Ways]
      [] OTHER -> fifo

\* location() refuses a set the reset scan has not reached, and a replay whose
\* line is gone is an internal error.
AccessOk(op) ==
    /\ IsAccess(op) /\ ~FailedReplay(op) => initialized[SetOf(op.req.line)]
    /\ op.kind = "fill" /\ ~op.err => initialized[SetOf(op.line)]
    /\ op.kind = "replay" => HitOf(op)

-----------------------------------------------------------------------------
(* Predicates on the registers at the start of an edge.                    *)

RspSpace == Len(responses) < RspSize
MemSpace == Len(memory) < MemSize

MemAlmostFull == Len(memory) >= MemSize - Latency
Empty == s0 = {} /\ s1 = {} /\ memory = <<>>

IsCommitRead(c) == IsAccess(c.op) /\ ~c.op.req.write /\ c.hit
IsPrimaryMiss(c) == c.op.kind = "core" /\ ~c.hit /\ \A a \in c.alloc : a.previous = {}
CommitRead == \E c \in s1 : IsCommitRead(c)
CommitMemory == \E c \in s1 : c.victim # {} \/ IsPrimaryMiss(c)
Stalled == (CommitRead /\ ~RspSpace) \/ (CommitMemory /\ ~MemSpace)

\* Mutant: forwarding does not give way to a load committing from s1.
ForwardHeadGreedy == forwarding /\ (\E e \in Replay : ~e.req.write) /\ ~Stalled

\* The chain head is a plain read that the staged refill can answer.
ForwardHead == forwarding /\ (\E e \in Replay : ~e.req.write) /\ ~CommitRead /\ ~Stalled
Forwards == ForwardHead /\ RspSpace

\* What s1 emits when it is not stalled.
Committing == IF Stalled THEN {} ELSE s1
Finalize ==
    UNION {{[handle |-> a.handle, release |-> c.hit, previous |-> a.previous] : a \in c.alloc} :
              c \in Committing}
PushedResponses ==
    {[id |-> c.op.req.id, req |-> c.op.req, value |-> c.value, err |-> FailedReplay(c.op)] :
        c \in {d \in Committing : IsCommitRead(d)}}
    \cup
    {[id |-> e.req.id, req |-> e.req, value |-> IF forwarded.err THEN 0 ELSE forwarded.data,
      err |-> forwarded.err] : e \in {r \in Replay : Forwards}}
PushedMemory ==
    UNION {IF c.victim # {}
           THEN {[write |-> TRUE, line |-> v.line, data |-> v.data] : v \in c.victim}
           ELSE IF IsPrimaryMiss(c)
           THEN {[write |-> FALSE, line |-> c.op.req.line, handle |-> a.handle] : a \in c.alloc}
           ELSE {} : c \in Committing}
AppliedStores == {c \in Committing : IsAccess(c.op) /\ c.op.req.write /\ c.hit}
Allocate == IF Stalled THEN {} ELSE {op.req : op \in {o \in s0 : o.kind = "core"}}

Append1(queue, pushed) == IF pushed = {} THEN queue ELSE Append(queue, CHOOSE x \in pushed : TRUE)
TailIf(queue, pop) == IF pop THEN Tail(queue) ELSE queue

-----------------------------------------------------------------------------
(* One clock edge.                                                         *)

Init ==
    /\ MshrInit
    /\ lines = [s \in SetIds |-> [w \in WayIds |-> NoLine]]
    /\ fifo = [s \in SetIds |-> 0]
    /\ initialized = [s \in SetIds |-> FALSE]
    /\ reserved = 0 /\ s0 = {} /\ s1 = {} /\ responses = <<>> /\ memory = <<>>
    /\ initNext = 0 /\ flushing = "idle" /\ flushIndex = 0
    /\ forwarding = FALSE /\ forwarded = [data |-> 0, err |-> FALSE]
    /\ fault = FALSE
    /\ backing = [l \in Lines |-> 0] /\ pending = {}
    /\ issued = 0 /\ flushes = 0 /\ answered = {}
    /\ newest = [l \in Lines |-> 0] /\ stored = [l \in Lines |-> 0] /\ relaxed = {}

\* The commit record of an operation that leaves s0 at this edge.
CommitOf(op, deq) ==
    [op |-> op, hit |-> HitOf(op), value |-> ValueOf(op), victim |-> VictimOf(op),
     alloc |-> IF op.kind = "core"
               THEN {[handle |-> NewHandle, previous |-> Previous(op.req.line, Finalize, deq)]}
               ELSE {}]

\* The MSHR events of the edge, then the array access of s0.
AdvancePipeline(selected, fill, deq) ==
    /\ MshrStep(Allocate, Finalize, fill, deq)
    /\ fault' = ~( /\ MshrOk(Allocate, Finalize, fill, deq)
                   /\ ~Stalled => \A op \in s0 : AccessOk(op) )
    /\ IF Stalled
       THEN UNCHANGED <<s0, s1, arrayVars>>
       ELSE /\ s1' = {CommitOf(op, deq) : op \in s0}
            /\ s0' = selected
            /\ lines' = IF s0 = {} THEN lines ELSE ArrayAfter(CHOOSE op \in s0 : TRUE)
            /\ fifo' = IF s0 = {} THEN fifo ELSE FifoAfter(CHOOSE op \in s0 : TRUE)
            /\ initialized' = [s \in SetIds |-> initialized[s]
                                  \/ \E op \in s0 : op.kind = "init" /\ op.set = s]

\* The two queues: an old head leaves, then this edge's push enters.
AdvanceQueues(delivered, memAccepted) ==
    /\ delivered => responses # <<>>
    /\ memAccepted => memory # <<>>
    /\ responses' = Append1(TailIf(responses, delivered), PushedResponses)
    /\ memory' = Append1(TailIf(memory, memAccepted), PushedMemory)

\* Mutant: a hit does not give its reservation back.
AdvanceReservedKeepsHits(accepted, deq) ==
    reserved' = reserved + (IF accepted THEN 1 ELSE 0) - (IF deq THEN 1 ELSE 0)

\* VX_pending_size: counts requests from acceptance to release or dequeue.
AdvanceReserved(accepted, deq) ==
    reserved' = reserved + (IF accepted THEN 1 ELSE 0) - (IF deq THEN 1 ELSE 0)
                         - (IF \E f \in Finalize : f.release THEN 1 ELSE 0)

\* Mutant: the walk stops one position early.
FlushCountShort == (IF Writeback THEN Sets * Ways ELSE Sets) - 1

\* Positions of the flush walk: every way, or every set of a read-only cache.
FlushCount == IF Writeback THEN Sets * Ways ELSE Sets

\* The flush sequencer; its checks read the registers of the old edge.
FlushStep(kind) ==
    CASE flushing = "wait" /\ initNext' = Sets /\ reserved = 0 /\ Empty -> "walk"
      [] flushing = "walk" /\ kind = "flush" /\ flushIndex + 1 = FlushCount ->
            IF Bank = 0 THEN "done" ELSE "drain"
      [] flushing = "drain" /\ Empty -> "done"
      [] flushing = "done" -> "idle"
      [] OTHER -> flushing

\* A flush that arrives during the reset scan is acknowledged by the scan itself.
AdvanceFlush(kind, begin) ==
    /\ begin => flushing = "idle" /\ flushes < MaxFlush
    /\ flushes' = flushes + (IF begin THEN 1 ELSE 0)
    /\ initNext' = initNext + (IF kind = "init" THEN 1 ELSE 0)
    /\ LET stepped == IF begin THEN "wait" ELSE FlushStep(kind)
       IN  flushing' = IF kind = "init" /\ initNext' = Sets /\ stepped = "wait"
                       THEN "done" ELSE stepped
    /\ flushIndex' = CASE flushing = "wait" /\ FlushStep(kind) = "walk" -> 0
                        [] flushing = "walk" /\ kind = "flush" -> flushIndex + 1
                        [] OTHER -> flushIndex

\* The next memory level takes the oldest request; a read is answered by one
\* refill carrying the data of that moment.
NextLevel(memAccepted, fill) ==
    LET m == Head(memory)
    IN  /\ backing' = IF memAccepted /\ m.write THEN [backing EXCEPT ![m.line] = m.data] ELSE backing
        /\ pending' = {f \in pending : f.handle \notin fill} \cup
                       IF memAccepted /\ ~m.write
                       THEN {[handle |-> m.handle, line |-> m.line, data |-> backing[m.line]]}
                       ELSE {}

\* History: completions that leave the bank, and the stores applied.
Record(delivered) ==
    /\ answered' = answered \cup {c.op.req.id : c \in AppliedStores}
                            \cup (IF delivered THEN {Head(responses).id} ELSE {})
    /\ stored' = [l \in Lines |->
           IF ~Stalled /\ \E op \in s0 : /\ IsAccess(op) /\ ~FailedReplay(op) /\ HitOf(op)
                                         /\ op.req.write /\ op.req.line = l
           THEN (CHOOSE op \in s0 : TRUE).req.id ELSE stored[l]]

(***************************************************************************)
(* Everything an edge does besides selecting: selected is the operation    *)
(* that enters s0 ({} for none), kind its kind, fill the accepted refill,  *)
(* begin the flush pulse, delivered and memAccepted the queue heads taken. *)
(***************************************************************************)
Edge(selected, kind, fill, deq, begin, delivered, memAccepted) ==
    /\ AdvancePipeline(selected, fill, deq)
    /\ AdvanceQueues(delivered, memAccepted)
    /\ AdvanceReserved(kind = "core", deq)
    /\ AdvanceFlush(kind, begin)
    /\ NextLevel(memAccepted, fill)
    /\ Record(delivered)

\* Mutant: a write at the head of the chain leaves the window open.
CloseWindowNever == UNCHANGED <<forwarding, forwarded>>

\* A write at the head of the chain closes the forwarding window.
CloseWindow ==
    /\ forwarding' = (forwarding /\ ~\E e \in Replay : e.req.write)
    /\ UNCHANGED forwarded

\* Failed stores leave their line without an order promise.
FailedLines == {c.op.req.line : c \in {d \in AppliedStores : FailedReplay(d.op)}}
RelaxFailed == relaxed' = relaxed \cup FailedLines

Selecting == ~fault /\ ~Stalled
Scanned == initNext >= Sets
ReplayWaits == Replay # {} /\ ~ForwardHead
VictimRoom == ~Writeback \/ ~MemAlmostFull

SelectInit(delivered, memAccepted) ==
    /\ Selecting /\ ~Scanned
    /\ \E begin \in BOOLEAN : Edge({InitOp}, "init", {}, Forwards, begin, delivered, memAccepted)
    /\ CloseWindow /\ RelaxFailed
    /\ UNCHANGED <<issued, newest>>

SelectReplay(delivered, memAccepted) ==
    /\ Selecting /\ Scanned /\ ReplayWaits
    /\ \E begin \in BOOLEAN :
           Edge({ReplayOp(e.req) : e \in Replay}, "replay", {}, TRUE, begin, delivered, memAccepted)
    /\ CloseWindow /\ RelaxFailed
    /\ UNCHANGED <<issued, newest>>

SelectFill(slot, delivered, memAccepted) ==
    /\ Selecting /\ Scanned /\ ~ReplayWaits
    /\ ~(forwarding /\ Replay # {})
    /\ VictimRoom
    /\ \E p \in {q \in pending : q.handle.slot = slot}, err \in FillErrs, begin \in BOOLEAN :
          LET f == [handle |-> p.handle, data |-> p.data, err |-> err]
          IN  /\ Edge({FillOp(f)}, "fill", {p.handle}, FALSE, begin, delivered, memAccepted)
              /\ forwarding' = TRUE
              /\ forwarded' = [data |-> f.data, err |-> f.err]
    /\ RelaxFailed
    /\ UNCHANGED <<issued, newest>>

SelectFlush(delivered, memAccepted) ==
    /\ Selecting /\ Scanned /\ ~ReplayWaits
    /\ flushing = "walk"
    /\ VictimRoom
    /\ Edge({FlushOp}, "flush", {}, Forwards, FALSE, delivered, memAccepted)
    /\ CloseWindow /\ RelaxFailed
    /\ UNCHANGED <<issued, newest>>

\* A request accepted while the chain of its own line is being forwarded may
\* pass the rest of the chain: its line's order is no longer promised.
SelectCore(delivered, memAccepted) ==
    /\ Selecting /\ Scanned /\ ~ReplayWaits
    /\ flushing = "idle" /\ ~MemAlmostFull /\ reserved < MshrSize
    /\ issued < MaxReq
    /\ issued' = issued + 1
    /\ \E l \in Lines, write \in IF Writeback THEN BOOLEAN ELSE {FALSE} :
          LET r == [id |-> issued + 1, line |-> l, write |-> write, sees |-> newest[l]]
          IN  /\ Edge({CoreOp(r)}, "core", {}, Forwards, FALSE, delivered, memAccepted)
              /\ newest' = IF write THEN [newest EXCEPT ![l] = r.id] ELSE newest
              /\ relaxed' = relaxed \cup FailedLines
                                    \cup {e.req.line : e \in {x \in Replay : x.req.line = l}}
    /\ CloseWindow

\* Nothing is selected: no candidate is offered, or s1 is stalled.
SelectNone(delivered, memAccepted) ==
    /\ ~fault
    /\ Stalled \/ (Scanned /\ ~ReplayWaits /\ ~(flushing = "walk" /\ VictimRoom))
    /\ \E begin \in BOOLEAN : Edge({}, "none", {}, Forwards, begin, delivered, memAccepted)
    /\ CloseWindow /\ RelaxFailed
    /\ UNCHANGED <<issued, newest>>

Step(delivered, memAccepted) ==
    \/ SelectInit(delivered, memAccepted)
    \/ SelectReplay(delivered, memAccepted)
    \/ \E slot \in Slots : SelectFill(slot, delivered, memAccepted)
    \/ SelectFlush(delivered, memAccepted)
    \/ SelectCore(delivered, memAccepted)
    \/ SelectNone(delivered, memAccepted)

Next == \E delivered, memAccepted \in BOOLEAN : Step(delivered, memAccepted)

(***************************************************************************)
(* The clock always ticks; a waiting response and a waiting memory request *)
(* are eventually taken; and a refill, which stays at the head of its      *)
(* queue until the bank takes it, is not passed over for ever.             *)
(***************************************************************************)
Fairness ==
    /\ WF_vars(Next)
    /\ WF_vars(\E memAccepted \in BOOLEAN : Step(TRUE, memAccepted))
    /\ WF_vars(\E delivered \in BOOLEAN : Step(delivered, TRUE))
    /\ \A slot \in Slots :
          SF_vars(\E delivered, memAccepted \in BOOLEAN : SelectFill(slot, delivered, memAccepted))

Spec == Init /\ [][Next]_vars
FairSpec == Spec /\ Fairness

-----------------------------------------------------------------------------
(* Properties.                                                             *)

CacheLine == [valid : BOOLEAN, dirty : BOOLEAN, tag : Nat, data : Nat]
Eviction == [line : Lines, data : Nat]
Op == [kind : {"core"}, req : Request]
      \cup [kind : {"replay"}, req : Request, err : BOOLEAN]
      \cup [kind : {"fill"}, line : Lines, data : Nat, err : BOOLEAN]
      \cup [kind : {"init"}, set : SetIds]
      \cup [kind : {"flush"}, set : SetIds, way : WayIds]
Allocation == [handle : Handle, previous : Opt(Handle)]
Commit == [op : Op, hit : BOOLEAN, value : Nat, victim : Opt(Eviction), alloc : Opt(Allocation)]
Response == [id : Nat, req : Request, value : Nat, err : BOOLEAN]
MemoryRequest == [write : {TRUE}, line : Lines, data : Nat]
                 \cup [write : {FALSE}, line : Lines, handle : Handle]
FlushState == {"idle", "wait", "walk", "drain", "done"}

\* Type invariant of the registers of cacheBank, cacheArray and cacheMSHR and of the
\* refills on their way; valid tags name lines, and a walking flush stays in the array.
TypeOK ==
    /\ entries \in [Slots -> MshrEntry] /\ ready \in BOOLEAN /\ free \in Slots
    /\ head \in Opt(Handle)
    /\ lines \in [SetIds -> [WayIds -> CacheLine]]
    /\ \A s \in SetIds, w \in WayIds : lines[s][w].valid => LineAddress(s, lines[s][w].tag) \in Lines
    /\ fifo \in [SetIds -> WayIds] /\ initialized \in [SetIds -> BOOLEAN]
    /\ reserved \in Int /\ s0 \in Opt(Op) /\ s1 \in Opt(Commit)
    /\ responses \in Seq(Response) /\ memory \in Seq(MemoryRequest)
    /\ initNext \in 0..Sets /\ flushing \in FlushState
    /\ flushIndex \in 0..FlushCount /\ (flushing = "walk" => flushIndex < FlushCount)
    /\ forwarding \in BOOLEAN /\ forwarded \in [data : Nat, err : BOOLEAN]
    /\ fault \in BOOLEAN
    /\ backing \in [Lines -> Nat] /\ pending \subseteq [handle : Handle, line : Lines, data : Nat]
    /\ issued \in Nat /\ newest \in [Lines -> Nat]

\* No error path of cacheBank.step, cacheMSHR.step or cacheArray is reachable: no
\* stale or doubly finalized handle, no predecessor that already has a successor,
\* no allocation without registered space, no refill during a replay, no replay
\* whose line is gone again, and no access to an uninitialised set.
NoFault == ~fault

\* `reserved' (VX_pending_size) is exactly the number of live MSHR entries plus the
\* accepted request still waiting in s0 to allocate.
ReservedExact ==
    reserved = Cardinality({s \in Slots : entries[s].valid})
                 + Cardinality({op \in s0 : op.kind = "core"})

\* A request leaving s0 finds the registered free slot really free: the allocation check
\* of cacheMSHR.step cannot fail, because acceptance is limited by `reserved'.
AllocationHasSpace ==
    (~fault /\ \E op \in s0 : op.kind = "core") => ready /\ ~entries[free].valid

\* The almost-full threshold (memory queue size less the pipeline latency) leaves room
\* for every push already in the pipeline: s1 never stalls on the memory queue.
MemoryNeverStalls == CommitMemory => MemSpace

\* An operation that may push a memory request when it commits.
MayPush(op) == op.kind = "core" \/ (Writeback /\ op.kind \in {"fill", "flush"})

\* The credit behind MemoryNeverStalls: queued requests plus the pushes that s1 and s0
\* may still make fit in the queue; and a read-only cache has nothing dirty to push.
MemoryCredit ==
    /\ Len(memory) + (IF CommitMemory THEN 1 ELSE 0)
                   + (IF \E op \in s0 : MayPush(op) THEN 1 ELSE 0) <= MemSize
    /\ ~Writeback =>
          /\ \A s \in Slots : ~entries[s].req.write
          /\ \A op \in s0 : IsAccess(op) => ~op.req.write
          /\ \A s \in SetIds, w \in WayIds : ~lines[s][w].dirty

\* Where the completion of request id is held.
InS0(id) == \E op \in s0 : IsAccess(op) /\ op.req.id = id
InMshr(id) == \E s \in Slots : entries[s].valid /\ entries[s].req.id = id
InS1Replay(id) == \E c \in s1 : c.op.kind = "replay" /\ c.op.req.id = id
InResponses(id) == {i \in 1..Len(responses) : responses[i].id = id}

\* Every accepted request is held in exactly one place until its one completion (load
\* response or store receipt) leaves the bank, and nowhere after that: none is lost
\* and none is answered twice, through hits, misses, chains, forwarding and replay.
Conservation ==
    \A id \in 1..issued :
        LET places == (IF InS0(id) THEN 1 ELSE 0) + (IF InMshr(id) THEN 1 ELSE 0)
                      + (IF InS1Replay(id) THEN 1 ELSE 0) + Cardinality(InResponses(id))
        IN  places = IF id \in answered THEN 0 ELSE 1

\* The one current copy of a line: in the array, else in an eviction on its way out,
\* youngest first, else in the next level.
WritesOf(l) == {i \in 1..Len(memory) : memory[i].write /\ memory[i].line = l}
CurrentCopy(l) ==
    IF Hits(l) # {} THEN ReadWord(l)
    ELSE IF \E c \in s1 : \E v \in c.victim : v.line = l
    THEN (CHOOSE v \in UNION {c.victim : c \in s1} : v.line = l).data
    ELSE IF WritesOf(l) # {}
    THEN memory[CHOOSE i \in WritesOf(l) : \A j \in WritesOf(l) : j <= i].data
    ELSE backing[l]

\* An applied store is never lost or undone: after any eviction, writeback, refill and
\* flush the current copy of a line is the last store applied to it, and a refill on
\* its way to the array carries that copy and never overwrites a resident line.
StoresSurvive ==
    (initNext = Sets) =>
        /\ \A l \in Lines : CurrentCopy(l) = stored[l] /\ Cardinality(Hits(l)) <= 1
        /\ \A p \in pending : Hits(p.line) = {} /\ p.data = stored[p.line]
        /\ \A op \in s0 : op.kind = "fill" /\ ~op.err =>
               Hits(op.line) = {} /\ op.data = stored[op.line]

\* A load observes the newest store to its line that was accepted before it, however
\* the two were split between hits, the miss chain, fill forwarding and replay.  The
\* lines in `relaxed' are excepted: those where a request was accepted while its own
\* line's chain was being forwarded, and those with a failed store.  The staged refill
\* from which a chain is forwarded holds on every line nothing younger than its reads.
ProgramOrder ==
    /\ \A i \in 1..Len(responses) :
          LET r == responses[i]
          IN  ~r.err /\ r.req.line \notin relaxed => r.value = r.req.sees
    /\ \A e \in Replay : forwarding /\ ~forwarded.err => forwarded.data < e.req.id

\* When a flush is reported done no line is left in the array, but for the way bank
\* 0's last flush operation is about to clear; a bank other than 0 reports only after
\* every dirty line has reached the next level.
FlushClean ==
    flushing = "done" =>
        /\ \A s \in SetIds, w \in WayIds :
              lines[s][w].valid => \E op \in s0 : op.kind = "flush" /\ op.set = s /\ w \in FlushedWays(op)
        /\ Bank # 0 => \A l \in Lines : backing[l] = stored[l]

\* Every accepted request is eventually answered: no waiter is stranded in a chain that
\* nobody dequeues, and neither forwarding, replay nor a flush starves another.
EveryRequestAnswered == \A id \in 1..MaxReq : issued >= id ~> id \in answered

\* A flush that has begun is eventually reported done and the bank reopens.
FlushEnds == flushing = "wait" ~> flushing = "idle"

\* The bank never hangs: both of the above (the arbitration of cacheBank.step).
EverythingEnds == EveryRequestAnswered /\ FlushEnds
=============================================================================
