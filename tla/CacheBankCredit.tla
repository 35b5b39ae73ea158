--------------------------- MODULE CacheBankCredit ---------------------------
(***************************************************************************)
(* The two credit arguments of the cache bank, for every geometry, queue   *)
(* size and number of MSHR entries.                                        *)
(*   - The memory queue: an operation that may push is selected only while *)
(*     at most MemSize - 3 requests are queued, and at most three pushes   *)
(*     (from s1, s0 and the operation itself) can follow: s1 never stalls. *)
(*   - The MSHR table: `reserved' counts live entries plus the request in  *)
(*     s0, so a request that was accepted finds a free entry.              *)
(***************************************************************************)
EXTENDS CacheBankProofs, FiniteSetTheorems

-----------------------------------------------------------------------------
(* The memory queue.                                                       *)

\* What leaves s0 pushes a memory request only if it was an operation that may.
LEMMA CommitPushes ==
    ASSUME TypeOK, MemoryCredit, NEW op \in Op, NEW deq, op \in s0,
           LET c == CommitOf(op, deq) IN c.victim # {} \/ IsPrimaryMiss(c)
    PROVE  MayPush(op)
<1> DEFINE c == CommitOf(op, deq)
<1>1. c.op = op /\ c.victim = VictimOf(op)
  BY DEF CommitOf
<1>2. CASE IsPrimaryMiss(c)
  BY <1>1, <1>2 DEF IsPrimaryMiss, MayPush
<1>3. CASE c.victim # {}
  <2>1. op.kind \in {"fill", "flush"} /\ (op.kind = "flush" => Writeback)
    BY <1>1, <1>3 DEF VictimOf
  <2>2. CASE Writeback
    BY <2>1, <2>2 DEF MayPush
  <2>3. CASE ~Writeback
    <3>1. op.kind = "fill" /\ op.line \in Lines /\ VictimOf(op) = FillVictim(op.line)
      BY <1>1, <1>3, <2>1, <2>3 DEF VictimOf, Op
    <3>2. SetOf(op.line) \in SetIds
      BY <3>1, LineRoundTrip
    <3>3. FillWay(op.line) \in WayIds
      BY <3>2, HitWayType DEF FillWay, TypeOK
    <3>4. ~lines[SetOf(op.line)][FillWay(op.line)].dirty
      BY <2>3, <3>2, <3>3 DEF MemoryCredit
    <3>5. FillVictim(op.line) = {}
      BY <3>4 DEF FillVictim, Victim
    <3> QED
      BY <1>1, <1>3, <3>1, <3>5
  <2> QED
    BY <2>2, <2>3
<1> QED
  BY <1>2, <1>3

\* A read-only cache stays clean.
LEMMA StaysClean ==
    ASSUME TypeOK, MemoryCredit, ~Writeback,
           NEW selected, NEW kind, NEW fill, NEW deq, NEW begin, NEW delivered, NEW memAccepted,
           Selects(selected, kind, fill, deq, begin),
           Edge(selected, kind, fill, deq, begin, delivered, memAccepted)
    PROVE  /\ \A s \in Slots : ~entries'[s].req.write
           /\ \A op \in s0' : IsAccess(op) => ~op.req.write
           /\ \A s \in SetIds, w \in WayIds : ~lines'[s][w].dirty
<1>1. \A s \in Slots : ~entries'[s].req.write
  <2>1. \A s \in Slots : Settled(Finalize, deq)[s].req = entries[s].req
    BY ZenonT(40) DEF Settled, TypeOK, MshrEntry
  <2>2. CASE Allocate = {}
    BY <2>1, <2>2 DEF Edge, AdvancePipeline, MshrStep, MemoryCredit
  <2>3. CASE Allocate # {}
    <3> DEFINE r == CHOOSE q \in Allocate : TRUE
    <3>1. \A q \in Allocate : ~q.write
      BY DEF Allocate, MemoryCredit, IsAccess
    <3>2. ~r.write
      BY <2>3, <3>1
    <3>3. entries' = [Settled(Finalize, deq) EXCEPT ![free] =
                        [valid |-> TRUE, finalized |-> FALSE, gen |-> NewHandle.gen,
                         req |-> r, next |-> {}]]
      BY <2>3 DEF Edge, AdvancePipeline, MshrStep
    <3>4. DOMAIN Settled(Finalize, deq) = Slots
      BY DEF Settled
    <3> HIDE DEF r
    <3> QED
      BY <2>1, <3>2, <3>3, <3>4 DEF MemoryCredit
  <2> QED
    BY <2>2, <2>3
<1>2. \A op \in s0' : IsAccess(op) => ~op.req.write
  <2>1. \A e \in Replay : ~e.req.write
    BY DEF Replay, Entry, TypeOK, Opt, Handle, MemoryCredit
  <2>2. CASE Stalled
    BY <2>2 DEF Edge, AdvancePipeline, MemoryCredit
  <2>3. CASE ~Stalled
    BY <2>1, <2>3 DEF Edge, AdvancePipeline, Selects
  <2> QED
    BY <2>2, <2>3
<1>3. \A s \in SetIds, w \in WayIds : ~lines'[s][w].dirty
  <2>1. CASE Stalled \/ s0 = {}
    BY <2>1 DEF Edge, AdvancePipeline, arrayVars, MemoryCredit
  <2>2. CASE ~Stalled /\ s0 # {}
    <3> DEFINE op == CHOOSE o \in s0 : TRUE
    <3>1. op \in s0 /\ op \in Op
      BY <2>2 DEF TypeOK, Opt
    <3>2. lines' = ArrayAfter(op)
      BY <2>2 DEF Edge, AdvancePipeline
    <3>3. IsAccess(op) => ~op.req.write
      BY <3>1 DEF MemoryCredit
    <3> HIDE DEF op
    <3>4. CASE op.kind = "init"
      <4>1. ArrayAfter(op) = [lines EXCEPT ![op.set] = [w \in WayIds |-> NoLine]]
        BY <3>4 DEF ArrayAfter, IsAccess
      <4> QED
        BY <3>2, <4>1 DEF NoLine, TypeOK, MemoryCredit
    <3>5. CASE op.kind = "flush"
      <4>1. ArrayAfter(op) = Flushed(op) /\ op.set \in SetIds
        BY <3>1, <3>5 DEF ArrayAfter, IsAccess, Op
      <4>2. ASSUME NEW s \in SetIds, NEW w \in WayIds PROVE ~Flushed(op)[s][w].dirty
        <5>1. Flushed(op)[s][w] = IF s = op.set /\ w \in FlushedWays(op)
                                  THEN [lines[s][w] EXCEPT !.valid = FALSE, !.dirty = FALSE]
                                  ELSE lines[s][w]
          BY <4>1 DEF Flushed, TypeOK
        <5>2. lines[s][w] \in CacheLine /\ ~lines[s][w].dirty
          BY DEF TypeOK, MemoryCredit
        <5> QED
          BY <5>1, <5>2 DEF CacheLine
      <4> QED
        BY <3>2, <4>1, <4>2
    <3>6. CASE op.kind = "fill" /\ ~op.err
      <4>1. ArrayAfter(op) = Filled(op.line, op.data)
        BY <3>6 DEF ArrayAfter, IsAccess
      <4> QED
        BY <3>2, <4>1 DEF Filled, TypeOK, MemoryCredit
    <3>7. CASE ~(op.kind = "init" \/ op.kind = "flush" \/ (op.kind = "fill" /\ ~op.err))
      <4>1. ArrayAfter(op) = lines
        BY <3>3, <3>7 DEF ArrayAfter, IsAccess
      <4> QED
        BY <3>2, <4>1 DEF MemoryCredit
    <3> QED
      BY <3>4, <3>5, <3>6, <3>7
  <2> QED
    BY <2>1, <2>2
<1> QED
  BY <1>1, <1>2, <1>3

\* One edge keeps the queue's credit.
LEMMA CreditStep ==
    ASSUME TypeOK, TypeOK', MemoryCredit,
           NEW selected, NEW kind, NEW fill, NEW deq, NEW begin,
           NEW delivered \in BOOLEAN, NEW memAccepted \in BOOLEAN,
           Selects(selected, kind, fill, deq, begin),
           Edge(selected, kind, fill, deq, begin, delivered, memAccepted)
    PROVE  MemoryCredit'
<1> DEFINE now == IF CommitMemory THEN 1 ELSE 0
           soon == IF \E op \in s0 : MayPush(op) THEN 1 ELSE 0
           nowNext == IF CommitMemory' THEN 1 ELSE 0
           soonNext == IF \E op \in s0' : MayPush(op) THEN 1 ELSE 0
<1>1. /\ Len(memory) \in Nat /\ Len(memory') \in Nat /\ MemSize \in Nat /\ Latency = 2
      /\ now \in 0..1 /\ soon \in 0..1 /\ nowNext \in 0..1 /\ soonNext \in 0..1
  BY BankAssumption DEF TypeOK
<1>2. Len(memory) + now + soon <= MemSize
  BY DEF MemoryCredit
<1>3. Len(memory') <= Len(memory) + (IF PushedMemory = {} THEN 0 ELSE 1)
  <2>1. /\ memAccepted => memory # <<>>
        /\ memory' = Append1(TailIf(memory, memAccepted), PushedMemory)
    BY DEF Edge, AdvanceQueues
  <2>2. memory \in Seq(MemoryRequest) /\ PushedMemory \in SUBSET MemoryRequest
    BY PushesTyped DEF TypeOK
  <2> QED
    BY <2>1, <2>2, QueueStep
<1>4. PushedMemory # {} => CommitMemory /\ ~Stalled
  BY PushesTyped
<1>5. Len(memory') + nowNext + soonNext <= MemSize
  <2>1. CASE Stalled
    <3>1. s0' = s0 /\ s1' = s1
      BY <2>1 DEF Edge, AdvancePipeline
    <3>2. CommitMemory' = CommitMemory
      BY <3>1 DEF CommitMemory, IsPrimaryMiss
    <3>3. Len(memory') <= Len(memory)
      BY <1>1, <1>3, <1>4, <2>1
    <3>4. nowNext = now /\ soonNext = soon
      BY <3>1, <3>2
    <3> HIDE DEF now, soon, nowNext, soonNext
    <3> QED
      BY <1>1, <1>2, <3>3, <3>4
  <2>2. CASE ~Stalled
    <3>1. s0' = selected /\ s1' = {CommitOf(op, deq) : op \in s0}
      BY <2>2 DEF Edge, AdvancePipeline
    <3>2. Len(memory') <= Len(memory) + now
      BY <1>1, <1>3, <1>4
    <3>3. CommitMemory' => soon = 1
      <4> SUFFICES ASSUME CommitMemory' PROVE \E op \in s0 : MayPush(op)
        OBVIOUS
      <4>1. PICK op \in s0 : LET c == CommitOf(op, deq) IN c.victim # {} \/ IsPrimaryMiss(c)
        BY <3>1 DEF CommitMemory, IsPrimaryMiss
      <4>2. op \in Op
        BY DEF TypeOK, Opt
      <4> QED
        BY <4>1, <4>2, CommitPushes
    <3>4. (\E op \in s0' : MayPush(op)) => Len(memory) < MemSize - 2
      BY <1>1, <3>1 DEF Selects, MemAlmostFull
    <3>5. nowNext <= soon
      BY <3>3
    <3>6. soonNext = 1 => Len(memory) < MemSize - 2
      BY <3>4
    <3> HIDE DEF now, soon, nowNext, soonNext
    <3> QED
      BY <1>1, <1>2, <3>2, <3>5, <3>6
  <2> QED
    BY <2>1, <2>2
<1> QED
  BY <1>5, StaysClean DEF MemoryCredit, MayPush, IsAccess

\* s1 never stalls on the memory queue: the almost-full threshold of cacheBank.step leaves
\* room for everything in the pipeline, whatever the surroundings do.
THEOREM MemoryQueueNeverStalls == Spec => []MemoryNeverStalls
<1>1. Init => MemoryCredit
  BY BankAssumption DEF Init, MshrInit, MemoryCredit, CommitMemory, NoRequest, NoLine
<1>2. TypeOK /\ TypeOK' /\ MemoryCredit /\ [Next]_vars => MemoryCredit'
  <2> SUFFICES ASSUME TypeOK, TypeOK', MemoryCredit, [Next]_vars PROVE MemoryCredit'
    OBVIOUS
  <2>1. CASE UNCHANGED vars
    BY <2>1 DEF vars, mshrVars, arrayVars, bankVars, MemoryCredit, CommitMemory, IsPrimaryMiss,
                MayPush, IsAccess
  <2>2. ASSUME NEW delivered \in BOOLEAN, NEW memAccepted \in BOOLEAN, Step(delivered, memAccepted)
        PROVE  MemoryCredit'
    <3>1. PICK selected, kind, fill, deq, begin :
            /\ Selects(selected, kind, fill, deq, begin)
            /\ Edge(selected, kind, fill, deq, begin, delivered, memAccepted)
      BY <2>2, StepIsEdge
    <3> QED
      BY <3>1, CreditStep
  <2> QED
    BY <2>1, <2>2 DEF Next
<1>3. TypeOK /\ MemoryCredit => MemoryNeverStalls
  BY BankAssumption DEF TypeOK, MemoryCredit, MemoryNeverStalls, MemSpace
<1> QED
  BY <1>1, <1>2, <1>3, TypeCorrect, PTL DEF Spec

-----------------------------------------------------------------------------
(* The MSHR table.                                                         *)

Valid == {s \in Slots : entries[s].valid}
CoreInS0 == {op \in s0 : op.kind = "core"}
One(b) == IF b THEN 1 ELSE 0

\* The strengthening: the count is exact and within the table, and once something is in
\* s0 the registered free slot is up to date (at reset it is not: ready is low).
ReservedInv ==
    ~fault => /\ ReservedExact
              /\ reserved <= MshrSize
              /\ s0 # {} => /\ ready <=> \E s \in Slots : ~entries[s].valid
                            /\ ready => ~entries[free].valid

\* The table's slots are a finite set of MshrSize elements.
LEMMA SlotsFinite ==
    /\ IsFiniteSet(Slots) /\ Cardinality(Slots) = MshrSize /\ MshrSize \in Nat
    /\ IsFiniteSet(Valid) /\ Cardinality(Valid) \in Nat
<1>1. MshrSize \in Nat /\ MshrSize >= 1
  BY MshrAssumption
<1>2. IsFiniteSet(Slots) /\ Cardinality(Slots) = MshrSize
  BY <1>1, FS_Interval DEF Slots
<1>3. Valid \in SUBSET Slots
  BY DEF Valid
<1> QED
  BY <1>1, <1>2, <1>3, FS_Subset, FS_CardinalityType

\* At most one request is in s0.
LEMMA CoreCount == TypeOK => Cardinality(CoreInS0) = One(\E op \in s0 : op.kind = "core")
<1> SUFFICES ASSUME TypeOK PROVE Cardinality(CoreInS0) = One(\E op \in s0 : op.kind = "core")
  OBVIOUS
<1>1. s0 \in Opt(Op)
  BY DEF TypeOK
<1>2. CoreInS0 = {} \/ \E x : CoreInS0 = {x}
  BY <1>1 DEF CoreInS0, Opt
<1> QED
  BY <1>2, FS_EmptySet, FS_Singleton DEF CoreInS0, One

\* Dequeue and release free one live entry each, and never the same one; allocation
\* takes a free one.
LEMMA ValidAfter ==
    ASSUME TypeOK, NEW deq \in BOOLEAN, NEW fill,
           MshrOk(Allocate, Finalize, fill, deq), MshrStep(Allocate, Finalize, fill, deq)
    PROVE  Cardinality(Valid') = Cardinality(Valid) - One(deq)
                - One(\E f \in Finalize : f.release) + One(Allocate # {})
<1> DEFINE gone == {h.slot : h \in {g \in head : deq}}
           released == {f.handle.slot : f \in {g \in Finalize : g.release}}
           taken == {s \in {free} : Allocate # {}}
<1>1. head \in Opt(Handle) /\ Finalize \in Opt(Finalization) /\ free \in Slots
  BY FinalizeType DEF TypeOK
<1>2. Valid' = ((Valid \ gone) \ released) \cup taken
  <2>1. \A s \in Slots : Settled(Finalize, deq)[s].valid <=> (s \in Valid /\ s \notin gone /\ s \notin released)
    BY DEF Settled, Valid, TypeOK, MshrEntry
  <2>2. CASE Allocate = {}
    BY <2>1, <2>2 DEF MshrStep, Valid
  <2>3. CASE Allocate # {}
    <3>1. \A s \in Slots : entries'[s].valid <=> (s = free \/ Settled(Finalize, deq)[s].valid)
      BY <2>3, <1>1 DEF MshrStep, Settled
    <3> QED
      BY <1>1, <2>1, <2>3, <3>1 DEF Valid
  <2> QED
    BY <2>2, <2>3
<1>3. gone \cap released = {}
  <2> SUFFICES ASSUME NEW h \in head, deq, NEW f \in Finalize, h.slot = f.handle.slot PROVE FALSE
    OBVIOUS
  <2>1. h \in Handle /\ f.handle \in Handle
    BY <1>1 DEF Opt, Finalization
  <2>2. Live(h) /\ Live(f.handle) /\ f.handle # h
    BY <1>1 DEF MshrOk, FinalizeOk, Opt
  <2> QED
    BY <2>1, <2>2 DEF Live, Handle
<1>4. taken \cap Valid = {}
  BY DEF MshrOk, Valid
<1>5. gone \subseteq Valid /\ released \subseteq Valid
  BY <1>1 DEF MshrOk, FinalizeOk, Live, Valid, Opt, Handle, Finalization
<1>6. IF deq THEN \E x : gone = {x} ELSE gone = {}
  <2>1. CASE ~deq
    BY <2>1
  <2>2. CASE deq
    <3>1. PICK h \in head : head = {h}
      BY <1>1, <2>2 DEF MshrOk, Opt
    <3>2. gone = {h.slot}
      BY <2>2, <3>1
    <3> QED
      BY <2>2, <3>2
  <2> QED
    BY <2>1, <2>2
<1>7. IF \E f \in Finalize : f.release THEN \E x : released = {x} ELSE released = {}
  <2>1. CASE ~\E f \in Finalize : f.release
    BY <2>1
  <2>2. CASE \E f \in Finalize : f.release
    <3>1. PICK f \in Finalize : f.release /\ Finalize = {f}
      BY <1>1, <2>2 DEF Opt
    <3>2. released = {f.handle.slot}
      BY <3>1
    <3> QED
      BY <2>2, <3>2
  <2> QED
    BY <2>1, <2>2
<1>8. IF Allocate # {} THEN taken = {free} ELSE taken = {}
  OBVIOUS
<1> HIDE DEF gone, released, taken
<1>9. /\ IsFiniteSet(Valid \ gone)
      /\ Cardinality(Valid \ gone) = Cardinality(Valid) - One(deq)
  <2>1. IsFiniteSet(Valid) /\ Cardinality(Valid) \in Nat
    BY SlotsFinite
  <2>2. CASE deq
    <3>1. PICK x : gone = {x}
      BY <1>6, <2>2
    <3> QED
      BY <1>5, <2>1, <2>2, <3>1, FS_RemoveElement DEF One
  <2>3. CASE ~deq
    BY <1>6, <2>1, <2>3 DEF One
  <2> QED
    BY <2>2, <2>3
<1> DEFINE kept == Valid \ gone
<1>10. /\ IsFiniteSet(kept \ released) /\ Cardinality(kept) \in Nat
       /\ Cardinality(kept \ released) = Cardinality(kept) - One(\E f \in Finalize : f.release)
  <2>1. IsFiniteSet(kept) /\ Cardinality(kept) \in Nat /\ released \subseteq kept
    BY <1>3, <1>5, <1>9, FS_CardinalityType
  <2> HIDE DEF kept
  <2>2. CASE \E f \in Finalize : f.release
    <3>1. PICK x : released = {x}
      BY <1>7, <2>2
    <3> QED
      BY <2>1, <2>2, <3>1, FS_RemoveElement DEF One
  <2>3. CASE ~\E f \in Finalize : f.release
    BY <1>7, <2>1, <2>3 DEF One
  <2> QED
    BY <2>2, <2>3
<1> DEFINE left == kept \ released
<1>11. Cardinality(left \cup taken) = Cardinality(left) + One(Allocate # {})
  <2>1. IsFiniteSet(left) /\ Cardinality(left) \in Nat /\ taken \cap left = {}
    BY <1>4, <1>10, FS_CardinalityType
  <2> HIDE DEF left, kept
  <2>2. CASE Allocate # {}
    <3>1. taken = {free} /\ free \notin left
      BY <1>8, <2>1, <2>2
    <3>2. Cardinality(left \cup {free}) = Cardinality(left) + 1
      BY <2>1, <3>1, FS_AddElement
    <3> QED
      BY <2>2, <3>1, <3>2 DEF One
  <2>3. CASE Allocate = {}
    <3>1. left \cup taken = left /\ One(Allocate # {}) = 0
      BY <1>8, <2>3 DEF One
    <3> QED
      BY <2>1, <3>1
  <2> QED
    BY <2>2, <2>3
<1>12. Valid' = left \cup taken
  BY <1>2
<1> QED
  BY <1>9, <1>10, <1>11, <1>12

\* One edge keeps the count exact, unless the edge ends in an error.
LEMMA ReservedStep ==
    ASSUME TypeOK, TypeOK', ReservedInv,
           NEW selected, NEW kind, NEW fill, NEW deq, NEW begin, NEW delivered, NEW memAccepted,
           Selects(selected, kind, fill, deq, begin),
           Edge(selected, kind, fill, deq, begin, delivered, memAccepted)
    PROVE  ReservedInv'
<1> SUFFICES ASSUME ~fault'
             PROVE  /\ ReservedExact' /\ reserved' <= MshrSize
                    /\ ready' <=> \E s \in Slots : ~entries'[s].valid
                    /\ ready' => ~entries'[free'].valid
  BY DEF ReservedInv
<1>1. ~fault /\ deq \in BOOLEAN
  BY DEF Selects
<1>2. MshrOk(Allocate, Finalize, fill, deq) /\ MshrStep(Allocate, Finalize, fill, deq)
  BY DEF Edge, AdvancePipeline
<1> DEFINE left == One(deq) + One(\E f \in Finalize : f.release)
           alloc == One(Allocate # {})
           core == One(\E op \in s0 : op.kind = "core")
           coreNext == One(\E op \in s0' : op.kind = "core")
<1>3. Cardinality(Valid') = Cardinality(Valid) - left + alloc
  <2>1. Cardinality(Valid') = Cardinality(Valid) - One(deq)
                - One(\E f \in Finalize : f.release) + One(Allocate # {})
    BY <1>1, <1>2, ValidAfter
  <2> QED
    BY <2>1, SlotsFinite DEF One
<1>4. reserved' = reserved + One(kind = "core") - left
  BY DEF Edge, AdvanceReserved, One, TypeOK
<1>5. Cardinality(CoreInS0) = core /\ Cardinality(CoreInS0') = coreNext
  <2>1. Cardinality(CoreInS0') = coreNext
    <3>1. s0' \in Opt(Op)
      BY DEF TypeOK
    <3>2. CoreInS0' = {} \/ \E x : CoreInS0' = {x}
      BY <3>1 DEF CoreInS0, Opt
    <3> QED
      BY <3>2, FS_EmptySet, FS_Singleton DEF CoreInS0, One
  <2> QED
    BY <2>1, CoreCount
<1>6. coreNext = core - alloc + One(kind = "core")
  <2>1. CASE Stalled
    <3>1. s0' = s0 /\ Allocate = {} /\ kind # "core"
      BY <2>1 DEF Edge, AdvancePipeline, Allocate, Selects
    <3> QED
      BY <3>1 DEF One
  <2>2. CASE ~Stalled
    <3>1. s0' = selected /\ (Allocate # {} <=> \E op \in s0 : op.kind = "core")
      <4>1. s0' = selected
        BY <2>2 DEF Edge, AdvancePipeline
      <4>2. Allocate = {op.req : op \in {o \in s0 : o.kind = "core"}}
        BY <2>2 DEF Allocate
      <4>3. Allocate # {} <=> \E op \in s0 : op.kind = "core"
        BY ONLY <4>2
      <4> QED
        BY <4>1, <4>3
    <3>2. (\E op \in s0' : op.kind = "core") <=> kind = "core"
      BY <3>1 DEF Selects
    <3> QED
      BY <3>1, <3>2 DEF One
  <2> QED
    BY <2>1, <2>2
<1>7. /\ left \in Nat /\ alloc \in Nat /\ core \in Nat /\ coreNext \in Nat
      /\ One(kind = "core") \in 0..1 /\ reserved \in Int /\ MshrSize \in Nat
      /\ Cardinality(Valid) \in Nat
  BY SlotsFinite, SMTT(30) DEF One, TypeOK
<1>8. reserved = Cardinality(Valid) + Cardinality(CoreInS0) /\ reserved <= MshrSize
  BY <1>1 DEF ReservedInv, ReservedExact, Valid, CoreInS0
<1>9. kind = "core" => reserved < MshrSize
  BY DEF Selects
<1> HIDE DEF left, alloc, core, coreNext
<1>10. reserved' = Cardinality(Valid') + Cardinality(CoreInS0')
  BY <1>3, <1>4, <1>5, <1>6, <1>7, <1>8
<1>11. reserved' <= MshrSize
  BY <1>4, <1>7, <1>8, <1>9 DEF One
<1>12. ready' <=> \E s \in Slots : ~entries'[s].valid
  BY <1>2 DEF MshrStep
<1>13. ready' => ~entries'[free'].valid
  <2> DEFINE vacant == {s \in Slots : ~entries'[s].valid}
  <2> SUFFICES ASSUME ready' PROVE free' \in vacant
    OBVIOUS
  <2>1. vacant # {} /\ vacant \in SUBSET Nat
    BY <1>12 DEF Slots
  <2>2. PICK m \in vacant : \A t \in vacant : m <= t
    BY <2>1, NonEmptyHasMin
  <2>3. free' = CHOOSE s \in vacant : \A t \in vacant : s <= t
    BY <1>2, <2>1 DEF MshrStep
  <2> QED
    BY <2>2, <2>3
<1> QED
  BY <1>10, <1>11, <1>12, <1>13 DEF ReservedExact, Valid, CoreInS0

\* The count is an invariant.
LEMMA ReservedInductive == Spec => []ReservedInv
<1>1. Init => ReservedInv
  <2> SUFFICES ASSUME Init PROVE ReservedExact /\ reserved <= MshrSize /\ s0 = {}
    BY DEF ReservedInv
  <2>1. {s \in Slots : entries[s].valid} = {} /\ {op \in s0 : op.kind = "core"} = {}
    BY DEF Init, MshrInit
  <2>2. reserved = 0 /\ s0 = {} /\ MshrSize \in Nat
    BY SlotsFinite DEF Init
  <2>3. ReservedExact
    BY <2>1, <2>2, FS_EmptySet DEF ReservedExact
  <2> QED
    BY <2>2, <2>3
<1>2. TypeOK /\ TypeOK' /\ ReservedInv /\ [Next]_vars => ReservedInv'
  <2> SUFFICES ASSUME TypeOK, TypeOK', ReservedInv, [Next]_vars PROVE ReservedInv'
    OBVIOUS
  <2>1. CASE UNCHANGED vars
    BY <2>1 DEF vars, mshrVars, arrayVars, bankVars, ReservedInv, ReservedExact
  <2>2. ASSUME NEW delivered \in BOOLEAN, NEW memAccepted \in BOOLEAN, Step(delivered, memAccepted)
        PROVE  ReservedInv'
    <3>1. PICK selected, kind, fill, deq, begin :
            /\ Selects(selected, kind, fill, deq, begin)
            /\ Edge(selected, kind, fill, deq, begin, delivered, memAccepted)
      BY <2>2, StepIsEdge
    <3> QED
      BY <3>1, ReservedStep
  <2> QED
    BY <2>1, <2>2 DEF Next
<1> QED
  BY <1>1, <1>2, TypeCorrect, PTL DEF Spec

\* As long as no edge has ended in an error, `reserved' is exactly the number of live
\* MSHR entries plus the request in s0 (cacheBank.step's VX_pending_size): no release,
\* dequeue or acceptance is counted twice or missed, whatever edge they share.
THEOREM ReservedIsExact == Spec => [](~fault => ReservedExact)
<1>1. ReservedInv => (~fault => ReservedExact)
  BY DEF ReservedInv
<1> QED
  BY <1>1, ReservedInductive, PTL

\* A request that cacheBank.step accepted finds a free MSHR entry when it leaves s0: the
\* "allocation without registered space" error of cacheMSHR.step is unreachable.
THEOREM AllocationFindsSpace == Spec => []AllocationHasSpace
<1>1. TypeOK /\ ReservedInv => AllocationHasSpace
  <2> SUFFICES ASSUME TypeOK, ReservedInv, ~fault, NEW op \in s0, op.kind = "core"
               PROVE  ready /\ ~entries[free].valid
    BY DEF AllocationHasSpace
  <2>1. Cardinality(CoreInS0) = 1
    BY CoreCount DEF One
  <2>2. reserved = Cardinality(Valid) + 1 /\ reserved <= MshrSize
    BY <2>1 DEF ReservedInv, ReservedExact, Valid, CoreInS0
  <2>3. Cardinality(Valid) < Cardinality(Slots)
    BY <2>2, SlotsFinite
  <2>4. Valid # Slots
    BY <2>3, SlotsFinite
  <2>5. \E s \in Slots : ~entries[s].valid
    BY <2>4 DEF Valid
  <2> QED
    BY <2>5 DEF ReservedInv
<1> QED
  BY <1>1, ReservedInductive, TypeCorrect, PTL
=============================================================================
