--------------------------- MODULE CacheBankProofs ---------------------------
(***************************************************************************)
(* Proofs about one cache bank, for every geometry and every queue size:   *)
(* type correctness, and the memory-queue credit behind MemoryNeverStalls. *)
(***************************************************************************)
EXTENDS CacheBank, WellFoundedInduction, TLAPS

-----------------------------------------------------------------------------
(* Arithmetic of the geometry.                                             *)

\* Quotient and remainder, as DecodeAddress takes them.
LEMMA DivMod ==
    ASSUME NEW n \in Nat, NEW d \in Nat \ {0}
    PROVE  n \div d \in Nat /\ n % d \in 0..(d - 1) /\ (n \div d) * d + (n % d) = n
BY SMT

\* Multiplication by a natural number is monotone.
LEMMA TimesMonotone ==
    ASSUME NEW d \in Nat, NEW a \in Nat, NEW b \in Nat, a >= b
    PROVE  a * d >= b * d
BY SMT

\* A walk position below Sets * Ways names a way.
LEMMA QuotientBound ==
    ASSUME NEW n \in Nat, NEW d \in Nat \ {0}, NEW w \in Nat \ {0}, n < d * w
    PROVE  n \div d \in 0..(w - 1)
<1> DEFINE q == n \div d
<1>1. q \in Nat /\ n % d \in Nat /\ q * d + (n % d) = n
  BY DivMod
<1>2. SUFFICES ASSUME q >= w PROVE FALSE
  BY <1>1
<1>3. q * d >= w * d
  BY <1>1, <1>2, TimesMonotone
<1>4. w * d = d * w /\ q * d \in Nat
  BY <1>1, SMT
<1> HIDE DEF q
<1> QED
  BY <1>1, <1>3, <1>4

\* lineAddress undoes DecodeAddress.
LEMMA LineRoundTrip ==
    ASSUME NEW l \in Lines
    PROVE  /\ SetOf(l) \in SetIds /\ TagOf(l) \in Nat
           /\ LineAddress(SetOf(l), TagOf(l)) = l
<1>1. l \in Nat /\ Sets \in Nat \ {0}
  BY MshrAssumption, BankAssumption
<1> QED
  BY <1>1, DivMod DEF SetOf, TagOf, LineAddress, SetIds

\* A nonempty set of slots has a least element, which the priority encoder picks.
LEMMA NonEmptyHasMin ==
    ASSUME NEW T \in SUBSET Nat, T # {}
    PROVE  \E x \in T : \A y \in T : x <= y
<1> DEFINE R == OpToRel(<, Nat)
<1>1. IsWellFoundedOn(R, Nat)
  BY NatLessThanWellFounded
<1>2. \E x \in T : \A y \in T : ~(<<y, x>> \in R)
  <2> HIDE DEF R
  <2> QED BY <1>1, WFMin
<1>3. \A x, y \in Nat : y < x => <<y, x>> \in R
  BY DEF OpToRel
<1> HIDE DEF R
<1>4. PICK x \in T : \A y \in T : ~(<<y, x>> \in R)
  BY <1>2
<1>5. ASSUME NEW y \in T PROVE x <= y
  <2>1. x \in Nat /\ y \in Nat
    OBVIOUS
  <2>2. ~(y < x)
    BY <1>3, <1>4, <2>1
  <2> QED
    BY <2>1, <2>2
<1> QED
  BY <1>5

-----------------------------------------------------------------------------
(* Optional values.                                                        *)

\* A pointer is nil or points to one element.
LEMMA OptCases ==
    ASSUME NEW S, NEW t \in Opt(S)
    PROVE  t = {} \/ \E x \in S : t = {x}
BY DEF Opt

\* nil and a pointer to an element are pointers; so is every part of one.
LEMMA OptIntro ==
    ASSUME NEW S
    PROVE  {} \in Opt(S) /\ \A x \in S : {x} \in Opt(S)
BY DEF Opt

-----------------------------------------------------------------------------
(* The events of one edge are well typed.                                  *)

Finalization == [handle : Handle, release : BOOLEAN, previous : Opt(Handle)]

\* What leaves s1 finalizes at most one MSHR entry per edge.
LEMMA FinalizeType == TypeOK => Finalize \in Opt(Finalization)
<1> SUFFICES ASSUME TypeOK PROVE Finalize \in Opt(Finalization)
  OBVIOUS
<1>1. Committing \in Opt(Commit)
  BY OptIntro DEF TypeOK, Committing
<1>2. CASE Committing = {}
  BY <1>2, OptIntro DEF Finalize
<1>3. ASSUME NEW c \in Commit, Committing = {c} PROVE Finalize \in Opt(Finalization)
  <2>1. Finalize = {[handle |-> a.handle, release |-> c.hit, previous |-> a.previous] : a \in c.alloc}
    BY <1>3 DEF Finalize
  <2>2. c.alloc \in Opt(Allocation) /\ c.hit \in BOOLEAN
    BY DEF Commit
  <2>3. CASE c.alloc = {}
    BY <2>1, <2>3, OptIntro
  <2>4. ASSUME NEW a \in Allocation, c.alloc = {a}
        PROVE  Finalize \in Opt(Finalization)
    <3>1. Finalize = {[handle |-> a.handle, release |-> c.hit, previous |-> a.previous]}
      BY <2>1, <2>4
    <3>2. [handle |-> a.handle, release |-> c.hit, previous |-> a.previous] \in Finalization
      BY <2>2 DEF Finalization, Allocation
    <3> QED
      BY <3>1, <3>2, OptIntro
  <2>5. c.alloc = {} \/ \E a \in Allocation : c.alloc = {a}
    BY <2>2, OptCases
  <2> QED
    BY <2>3, <2>4, <2>5
<1> QED
  BY <1>1, <1>2, <1>3, OptCases

\* What leaves s0 allocates at most one MSHR entry per edge.
LEMMA AllocateType == TypeOK => Allocate \in Opt(Request)
<1> SUFFICES ASSUME TypeOK PROVE Allocate \in Opt(Request)
  OBVIOUS
<1>1. s0 \in Opt(Op)
  BY DEF TypeOK
<1>2. CASE s0 = {}
  BY <1>2, OptIntro DEF Allocate
<1>3. ASSUME NEW o \in Op, s0 = {o} PROVE Allocate \in Opt(Request)
  <2>1. CASE o.kind = "core" /\ ~Stalled
    <3>1. Allocate = {o.req}
      BY <1>3, <2>1 DEF Allocate
    <3>2. o.req \in Request
      BY <2>1 DEF Op
    <3> QED
      BY <3>1, <3>2, OptIntro
  <2>2. CASE ~(o.kind = "core" /\ ~Stalled)
    <3>1. Allocate = {}
      BY <1>3, <2>2 DEF Allocate
    <3> QED
      BY <3>1, OptIntro
  <2> QED
    BY <2>1, <2>2
<1> QED
  BY <1>1, <1>2, <1>3, OptCases

-----------------------------------------------------------------------------
(* Each part of an edge preserves its part of the type invariant.          *)

\* cacheMSHR.step keeps the table, its head and its registered free slot well typed.
LEMMA MshrTyped ==
    ASSUME entries \in [Slots -> MshrEntry], free \in Slots, head \in Opt(Handle),
           NEW alloc \in Opt(Request), NEW fin \in Opt(Finalization),
           NEW fill \in Opt(Handle), NEW deq \in BOOLEAN,
           MshrStep(alloc, fin, fill, deq)
    PROVE  /\ entries' \in [Slots -> MshrEntry] /\ ready' \in BOOLEAN
           /\ free' \in Slots /\ head' \in Opt(Handle)
<1>1. \A s \in Slots : entries[s] \in MshrEntry
  OBVIOUS
<1>2. {f.handle : f \in fin} \in Opt(Handle)
  BY DEF Opt, Finalization
<1>3. Settled(fin, deq) \in [Slots -> MshrEntry]
  <2> SUFFICES ASSUME NEW s \in Slots PROVE Settled(fin, deq)[s] \in MshrEntry
    BY DEF Settled
  <2>1. entries[s] \in MshrEntry
    BY <1>1
  <2> QED
    BY <2>1, <1>2 DEF Settled, MshrEntry
<1>4. entries' \in [Slots -> MshrEntry]
  <2>1. CASE alloc = {}
    BY <2>1, <1>3 DEF MshrStep
  <2>2. CASE alloc # {}
    <3>1. (CHOOSE r \in alloc : TRUE) \in Request
      BY <2>2 DEF Opt
    <3>2. NewHandle.gen \in Nat
      BY <1>1 DEF NewHandle, MshrEntry
    <3>3. {} \in Opt(Handle)
      BY OptIntro
    <3>4. [valid |-> TRUE, finalized |-> FALSE, gen |-> NewHandle.gen,
           req |-> CHOOSE r \in alloc : TRUE, next |-> {}] \in MshrEntry
      BY <3>1, <3>2, <3>3 DEF MshrEntry
    <3> QED
      BY <2>2, <3>4, <1>3 DEF MshrStep
  <2> QED
    BY <2>1, <2>2
<1>5. head' \in Opt(Handle)
  <2>1. UNION {Entry(h).next : h \in head} \in Opt(Handle)
    <3>1. CASE head = {}
      BY <3>1, OptIntro
    <3>2. ASSUME NEW h \in Handle, head = {h}
          PROVE  UNION {Entry(g).next : g \in head} \in Opt(Handle)
      <4>1. UNION {Entry(g).next : g \in head} = Entry(h).next
        BY <3>2
      <4>2. h.slot \in Slots
        BY DEF Handle
      <4> QED
        BY <4>1, <4>2, <1>1 DEF Entry, MshrEntry
    <3> QED
      BY <3>1, <3>2, OptCases
  <2>2. {f.handle : f \in {g \in fin : ~g.release /\ g.previous = head}} \in Opt(Handle)
    BY DEF Opt, Finalization
  <2> QED
    BY <2>1, <2>2 DEF MshrStep, HeadAfter
<1>6. ready' \in BOOLEAN /\ free' \in Slots
  <2> DEFINE vacant == {s \in Slots : ~entries'[s].valid}
  <2>1. CASE vacant = {}
    BY <2>1, MshrAssumption DEF MshrStep, Slots
  <2>2. CASE vacant # {}
    <3>1. vacant \in SUBSET Nat
      BY MshrAssumption DEF Slots
    <3>2. \E s \in vacant : \A t \in vacant : s <= t
      BY <2>2, <3>1, NonEmptyHasMin
    <3>3. free' = CHOOSE s \in vacant : \A t \in vacant : s <= t
      BY <2>2 DEF MshrStep
    <3>4. free' \in vacant
      BY <3>2, <3>3
    <3> QED
      BY <3>4 DEF MshrStep
  <2> QED
    BY <2>1, <2>2
<1> QED
  BY <1>4, <1>5, <1>6

ArrayTyped(a) ==
    /\ a \in [SetIds -> [WayIds -> CacheLine]]
    /\ \A s \in SetIds, w \in WayIds : a[s][w].valid => LineAddress(s, a[s][w].tag) \in Lines

\* lookup() returns a way of the set.
LEMMA HitWayType ==
    ASSUME NEW l, Hits(l) # {}
    PROVE  HitWay(l) \in Hits(l) /\ HitWay(l) \in WayIds
<1>1. Hits(l) \in SUBSET Nat
  BY BankAssumption DEF Hits, WayIds
<1>2. \E w \in Hits(l) : \A v \in Hits(l) : w <= v
  BY <1>1, NonEmptyHasMin
<1> QED
  BY <1>2 DEF HitWay, Hits

\* Replacing one line by a well-typed one keeps the array well typed.
LEMMA ReplaceTyped ==
    ASSUME NEW a, ArrayTyped(a), NEW s \in SetIds, NEW w \in WayIds, NEW c \in CacheLine,
           c.valid => LineAddress(s, c.tag) \in Lines
    PROVE  ArrayTyped([a EXCEPT ![s][w] = c])
BY DEF ArrayTyped

\* cacheArray: initSet, write, fill and flushWay keep the array well typed.
LEMMA ArrayStepTyped ==
    ASSUME TypeOK, NEW op \in Op
    PROVE  ArrayTyped(ArrayAfter(op)) /\ FifoAfter(op) \in [SetIds -> WayIds]
<1>1. ArrayTyped(lines)
  BY DEF TypeOK, ArrayTyped
<1>2. 0 \in WayIds /\ Ways \in Nat \ {0}
  BY BankAssumption DEF WayIds
<1>3. CASE op.kind = "init"
  <2>1. op.set \in SetIds
    BY <1>3 DEF Op
  <2>2. ArrayAfter(op) = [lines EXCEPT ![op.set] = [w \in WayIds |-> NoLine]]
    BY <1>3 DEF ArrayAfter, IsAccess
  <2>3. FifoAfter(op) = [fifo EXCEPT ![op.set] = 0]
    BY <1>3 DEF FifoAfter
  <2>4. NoLine \in CacheLine /\ ~NoLine.valid
    BY DEF NoLine, CacheLine
  <2> QED
    BY <1>1, <1>2, <2>1, <2>2, <2>3, <2>4 DEF ArrayTyped, TypeOK
<1>4. CASE op.kind = "flush"
  <2>1. op.set \in SetIds
    BY <1>4 DEF Op
  <2>2. ArrayAfter(op) = Flushed(op) /\ FifoAfter(op) = fifo
    BY <1>4 DEF ArrayAfter, FifoAfter, IsAccess
  <2>3. ASSUME NEW w \in WayIds
        PROVE  [lines[op.set][w] EXCEPT !.valid = FALSE, !.dirty = FALSE] \in CacheLine
    <3>1. lines[op.set][w] \in CacheLine
      BY <1>1, <2>1 DEF ArrayTyped
    <3> QED
      BY <3>1 DEF CacheLine
  <2>4. \A s \in SetIds, w \in WayIds :
          /\ Flushed(op)[s][w] \in CacheLine
          /\ Flushed(op)[s][w].valid => Flushed(op)[s][w] = lines[s][w]
    <3> SUFFICES ASSUME NEW s \in SetIds, NEW w \in WayIds
                 PROVE  /\ Flushed(op)[s][w] \in CacheLine
                        /\ Flushed(op)[s][w].valid => Flushed(op)[s][w] = lines[s][w]
      OBVIOUS
    <3>1. lines[s][w] \in CacheLine
      BY <1>1 DEF ArrayTyped
    <3>2. Flushed(op)[s][w] = IF s = op.set /\ w \in FlushedWays(op)
                              THEN [lines[s][w] EXCEPT !.valid = FALSE, !.dirty = FALSE]
                              ELSE lines[s][w]
      BY <1>1, <2>1 DEF Flushed, ArrayTyped
    <3> QED
      BY <3>1, <3>2 DEF CacheLine
  <2>5. Flushed(op) \in [SetIds -> [WayIds -> CacheLine]]
    BY <1>1, <2>1, <2>3 DEF Flushed, ArrayTyped
  <2> QED
    BY <1>1, <2>2, <2>4, <2>5 DEF ArrayTyped, TypeOK
<1>5. CASE op.kind = "fill" /\ ~op.err
  <2>1. op.line \in Lines /\ op.data \in Nat
    BY <1>5 DEF Op
  <2>2. /\ ArrayAfter(op) = Filled(op.line, op.data)
        /\ FifoAfter(op) = [fifo EXCEPT ![SetOf(op.line)] = (@ + 1) % Ways]
    BY <1>5 DEF ArrayAfter, FifoAfter, IsAccess
  <2>3. /\ SetOf(op.line) \in SetIds /\ TagOf(op.line) \in Nat
        /\ LineAddress(SetOf(op.line), TagOf(op.line)) = op.line
    BY <2>1, LineRoundTrip
  <2>4. FillWay(op.line) \in WayIds
    BY <2>3, HitWayType DEF FillWay, TypeOK
  <2> DEFINE c == [valid |-> TRUE, dirty |-> FALSE, tag |-> TagOf(op.line), data |-> op.data]
  <2>5. c \in CacheLine /\ c.tag = TagOf(op.line)
    BY <2>1, <2>3 DEF CacheLine
  <2>6. Filled(op.line, op.data) = [lines EXCEPT ![SetOf(op.line)][FillWay(op.line)] = c]
    BY DEF Filled
  <2>7. ArrayTyped(ArrayAfter(op))
    <3> HIDE DEF c
    <3>1. LineAddress(SetOf(op.line), c.tag) \in Lines
      BY <2>1, <2>3, <2>5
    <3>2. ArrayTyped([lines EXCEPT ![SetOf(op.line)][FillWay(op.line)] = c])
      BY <1>1, <2>3, <2>4, <2>5, <3>1, ReplaceTyped
    <3> QED BY <2>2, <2>6, <3>2
  <2>8. \A k \in WayIds : (k + 1) % Ways \in WayIds
    BY <1>2, DivMod DEF WayIds
  <2> QED
    BY <2>2, <2>3, <2>7, <2>8 DEF TypeOK
<1>6. CASE IsAccess(op) /\ ~FailedReplay(op) /\ op.req.write
  <2>1. op.req \in Request /\ op.req.line \in Lines /\ op.req.id \in Nat
    BY <1>6 DEF Op, IsAccess, Request
  <2>2. ArrayAfter(op) = Written(op.req) /\ FifoAfter(op) = fifo
    BY <1>6 DEF ArrayAfter, FifoAfter, IsAccess
  <2>3. CASE Hits(op.req.line) = {}
    BY <1>1, <2>2, <2>3 DEF Written, TypeOK
  <2>4. CASE Hits(op.req.line) # {}
    <3> DEFINE s == SetOf(op.req.line)
               w == HitWay(op.req.line)
               c == [lines[s][w] EXCEPT !.data = op.req.id, !.dirty = TRUE]
    <3>1. s \in SetIds /\ w \in WayIds
      BY <2>1, <2>4, LineRoundTrip, HitWayType
    <3>2. lines[s][w] \in CacheLine
      BY <1>1, <3>1 DEF ArrayTyped
    <3>3. c \in CacheLine /\ c.valid = lines[s][w].valid /\ c.tag = lines[s][w].tag
      BY <2>1, <3>2 DEF CacheLine
    <3>4. Written(op.req) = [lines EXCEPT ![s][w] = c]
      BY <1>1, <2>4, <3>1, <3>2 DEF Written, ArrayTyped, CacheLine
    <3>5. c.valid => LineAddress(s, c.tag) \in Lines
      BY <1>1, <3>1, <3>3 DEF ArrayTyped
    <3> HIDE DEF s, w, c
    <3>6. ArrayTyped(Written(op.req))
      BY <1>1, <3>1, <3>3, <3>4, <3>5, ReplaceTyped
    <3> QED
      BY <2>2, <3>6 DEF TypeOK
  <2> QED
    BY <2>3, <2>4
<1>7. CASE ~(op.kind = "init" \/ op.kind = "flush" \/ (op.kind = "fill" /\ ~op.err)
             \/ (IsAccess(op) /\ ~FailedReplay(op) /\ op.req.write))
  <2>1. ArrayAfter(op) = lines /\ FifoAfter(op) = fifo
    BY <1>7 DEF ArrayAfter, FifoAfter
  <2> QED
    BY <1>1, <2>1 DEF TypeOK
<1> QED
  BY <1>3, <1>4, <1>5, <1>6, <1>7

\* A dirty line's address is a line of the bank: evictions are well typed.
LEMMA VictimTyped ==
    ASSUME TypeOK, NEW op \in Op
    PROVE  VictimOf(op) \in Opt(Eviction)
<1>1. ASSUME NEW s \in SetIds, NEW w \in WayIds PROVE Victim(s, w) \in Opt(Eviction)
  <2>1. /\ lines[s][w] \in CacheLine
        /\ lines[s][w].valid => LineAddress(s, lines[s][w].tag) \in Lines
    BY DEF TypeOK
  <2> DEFINE v == [line |-> LineAddress(s, lines[s][w].tag), data |-> lines[s][w].data]
  <2>2. CASE lines[s][w].valid /\ lines[s][w].dirty
    <3>1. v \in Eviction
      BY <2>1, <2>2 DEF Eviction, CacheLine
    <3>2. Victim(s, w) = {v}
      BY <2>2 DEF Victim
    <3> QED
      BY <3>1, <3>2, OptIntro
  <2>3. CASE ~(lines[s][w].valid /\ lines[s][w].dirty)
    BY <2>3, OptIntro DEF Victim
  <2> QED
    BY <2>2, <2>3
<1>2. CASE op.kind = "fill" /\ ~op.err
  <2>1. op.line \in Lines
    BY <1>2 DEF Op
  <2>2. SetOf(op.line) \in SetIds
    BY <2>1, LineRoundTrip
  <2>3. FillWay(op.line) \in WayIds
    BY <2>2, HitWayType DEF FillWay, TypeOK
  <2>4. VictimOf(op) = FillVictim(op.line)
    BY <1>2 DEF VictimOf
  <2> QED
    BY <1>1, <2>2, <2>3, <2>4, OptIntro DEF FillVictim
<1>3. CASE op.kind = "flush" /\ Writeback
  <2>1. op.set \in SetIds /\ op.way \in WayIds
    BY <1>3 DEF Op
  <2>2. VictimOf(op) = Victim(op.set, op.way)
    BY <1>3 DEF VictimOf
  <2> QED
    BY <1>1, <2>1, <2>2
<1>4. CASE ~(op.kind = "fill" /\ ~op.err) /\ ~(op.kind = "flush" /\ Writeback)
  <2>1. VictimOf(op) = {}
    BY <1>4 DEF VictimOf
  <2> QED
    BY <2>1, OptIntro
<1> QED
  BY <1>2, <1>3, <1>4

\* The handle and the predecessor an allocation returns are handles.
LEMMA AllocationTyped ==
    ASSUME TypeOK, NEW line, NEW fin, NEW deq
    PROVE  [handle |-> NewHandle, previous |-> Previous(line, fin, deq)] \in Allocation
<1>1. NewHandle \in Handle
  BY DEF NewHandle, Handle, TypeOK, MshrEntry
<1>2. Previous(line, fin, deq) \in Opt(Handle)
  <2> DEFINE tails == {s \in Slots : /\ entries[s].valid
                                     /\ entries[s].req.line = line
                                     /\ Settled(fin, deq)[s].next = {}
                                     /\ ~(deq /\ \E h \in head : h.slot = s)}
             least == {t \in tails : \A u \in tails : t <= u}
  <2>1. \A s, t \in least : s = t /\ s \in Slots
    BY MshrAssumption DEF Slots
  <2>2. \A s \in Slots : [slot |-> s, gen |-> entries[s].gen] \in Handle
    BY DEF Handle, TypeOK, MshrEntry
  <2>3. Previous(line, fin, deq) = {[slot |-> s, gen |-> entries[s].gen] : s \in least}
    BY DEF Previous
  <2> HIDE DEF least
  <2> QED
    BY <2>1, <2>2, <2>3 DEF Opt
<1> QED
  BY <1>1, <1>2 DEF Allocation

\* An operation that leaves s0 becomes a well-typed commit record.
LEMMA CommitTyped ==
    ASSUME TypeOK, NEW op \in Op, NEW deq
    PROVE  CommitOf(op, deq) \in Commit
<1>1. HitOf(op) \in BOOLEAN
  BY DEF HitOf, IsAccess, FailedReplay
<1>2. ValueOf(op) \in Nat
  <2>1. CASE HitOf(op) /\ ~FailedReplay(op)
    <3>1. IsAccess(op) /\ op.req.line \in Lines /\ Hits(op.req.line) # {}
      BY <2>1 DEF HitOf, IsAccess, Op, Request
    <3>2. SetOf(op.req.line) \in SetIds /\ HitWay(op.req.line) \in WayIds
      BY <3>1, LineRoundTrip, HitWayType
    <3>3. lines[SetOf(op.req.line)][HitWay(op.req.line)] \in CacheLine
      BY <3>2 DEF TypeOK
    <3> QED
      BY <2>1, <3>3 DEF ValueOf, ReadWord, CacheLine
  <2> QED
    BY <2>1 DEF ValueOf
<1>3. VictimOf(op) \in Opt(Eviction)
  BY VictimTyped
<1> DEFINE a == IF op.kind = "core"
                THEN {[handle |-> NewHandle, previous |-> Previous(op.req.line, Finalize, deq)]}
                ELSE {}
<1>4. a \in Opt(Allocation)
  BY AllocationTyped, OptIntro
<1>5. CommitOf(op, deq) = [op |-> op, hit |-> HitOf(op), value |-> ValueOf(op),
                           victim |-> VictimOf(op), alloc |-> a]
  BY DEF CommitOf
<1> HIDE DEF a
<1> QED
  BY <1>1, <1>2, <1>3, <1>4, <1>5 DEF Commit

\* A queue of well-typed elements stays one, and grows by at most the one push.
LEMMA QueueStep ==
    ASSUME NEW S, NEW q \in Seq(S), NEW pushed \in SUBSET S, NEW pop \in BOOLEAN, pop => q # <<>>
    PROVE  LET r == Append1(TailIf(q, pop), pushed)
           IN  /\ r \in Seq(S)
               /\ Len(r) <= Len(q) + (IF pushed = {} THEN 0 ELSE 1)
               /\ (pushed = {} /\ ~pop) => r = q
<1>1. TailIf(q, pop) \in Seq(S) /\ Len(TailIf(q, pop)) <= Len(q) /\ (~pop => TailIf(q, pop) = q)
  BY DEF TailIf
<1>2. CASE pushed = {}
  BY <1>1, <1>2 DEF Append1
<1>3. CASE pushed # {}
  <2>1. (CHOOSE x \in pushed : TRUE) \in S
    BY <1>3
  <2> QED
    BY <1>1, <1>3, <2>1 DEF Append1
<1> QED
  BY <1>2, <1>3

\* What s1 and the forwarding window push into the two queues is well typed, and each
\* push has the condition that step() checks for it.
LEMMA PushesTyped ==
    ASSUME TypeOK
    PROVE  /\ PushedResponses \in SUBSET Response
           /\ PushedMemory \in SUBSET MemoryRequest
           /\ PushedResponses # {} => RspSpace
           /\ PushedMemory # {} => CommitMemory /\ ~Stalled
<1>1. Committing \in SUBSET Commit /\ Committing \subseteq s1 /\ (Committing # {} => ~Stalled)
  BY DEF Committing, TypeOK, Opt
<1>2. Replay \in SUBSET MshrEntry
  <2> SUFFICES ASSUME NEW h \in head PROVE Entry(h) \in MshrEntry
    BY DEF Replay
  <2>1. h.slot \in Slots
    BY DEF TypeOK, Opt, Handle
  <2> QED
    BY <2>1 DEF Entry, TypeOK
<1>3. PushedResponses \in SUBSET Response
  <2>1. ASSUME NEW c \in Committing, IsCommitRead(c)
        PROVE  [id |-> c.op.req.id, req |-> c.op.req, value |-> c.value,
                err |-> FailedReplay(c.op)] \in Response
    <3>1. c.op \in Op /\ IsAccess(c.op) /\ c.value \in Nat
      BY <1>1, <2>1 DEF Commit, IsCommitRead
    <3>2. c.op.req \in Request /\ c.op.req.id \in Nat
      BY <3>1 DEF IsAccess, Op, Request
    <3>3. FailedReplay(c.op) \in BOOLEAN
      BY <3>1 DEF FailedReplay, Op
    <3> QED
      BY <3>1, <3>2, <3>3 DEF Response
  <2>2. ASSUME NEW e \in Replay
        PROVE  [id |-> e.req.id, req |-> e.req,
                value |-> IF forwarded.err THEN 0 ELSE forwarded.data,
                err |-> forwarded.err] \in Response
    <3>1. e.req \in Request /\ e.req.id \in Nat
      BY <1>2 DEF MshrEntry, Request
    <3>2. forwarded.err \in BOOLEAN /\ forwarded.data \in Nat
      BY DEF TypeOK
    <3> QED
      BY <3>1, <3>2 DEF Response
  <2> QED
    BY <2>1, <2>2 DEF PushedResponses
<1>4. PushedMemory \in SUBSET MemoryRequest
  <2> SUFFICES ASSUME NEW c \in Committing
               PROVE  (IF c.victim # {}
                       THEN {[write |-> TRUE, line |-> v.line, data |-> v.data] : v \in c.victim}
                       ELSE IF IsPrimaryMiss(c)
                       THEN {[write |-> FALSE, line |-> c.op.req.line, handle |-> a.handle] :
                                a \in c.alloc}
                       ELSE {}) \in SUBSET MemoryRequest
    BY DEF PushedMemory
  <2>1. c \in Commit
    BY <1>1
  <2>2. \A v \in c.victim : [write |-> TRUE, line |-> v.line, data |-> v.data] \in MemoryRequest
    <3>1. c.victim \in SUBSET Eviction
      BY <2>1 DEF Commit, Opt
    <3> QED
      BY <3>1 DEF Eviction, MemoryRequest
  <2>3. ASSUME IsPrimaryMiss(c), NEW a \in c.alloc
        PROVE  [write |-> FALSE, line |-> c.op.req.line, handle |-> a.handle] \in MemoryRequest
    <3>1. c.alloc \in SUBSET Allocation /\ c.op \in Op
      BY <2>1 DEF Commit, Opt
    <3>2. a.handle \in Handle
      BY <3>1 DEF Allocation
    <3>3. c.op.req.line \in Lines
      BY <2>3, <3>1 DEF IsPrimaryMiss, Op, Request
    <3> QED
      BY <3>2, <3>3 DEF MemoryRequest
  <2> QED
    BY <2>2, <2>3
<1>5. PushedResponses # {} => RspSpace
  <2>1. ASSUME NEW c \in Committing, IsCommitRead(c) PROVE RspSpace
    BY <1>1, <2>1 DEF Stalled, CommitRead
  <2> QED
    BY <2>1 DEF PushedResponses, Forwards
<1>6. PushedMemory # {} => CommitMemory /\ ~Stalled
  <2> SUFFICES ASSUME PushedMemory # {} PROVE CommitMemory /\ ~Stalled
    OBVIOUS
  <2>1. PICK c \in Committing : c.victim # {} \/ IsPrimaryMiss(c)
    BY DEF PushedMemory
  <2> QED
    BY <1>1, <2>1 DEF CommitMemory
<1> QED
  BY <1>3, <1>4, <1>5, <1>6

Kinds == {"core", "replay", "fill", "init", "flush", "none"}

\* The flush sequencer and the reset scan stay within the array.
LEMMA FlushTyped ==
    ASSUME TypeOK, NEW kind \in Kinds, NEW begin \in BOOLEAN, AdvanceFlush(kind, begin),
           kind = "init" => initNext < Sets
    PROVE  /\ initNext' \in 0..Sets /\ flushing' \in FlushState /\ flushIndex' \in 0..FlushCount
           /\ flushing' = "walk" => flushIndex' < FlushCount
<1>1. FlushCount \in Nat \ {0} /\ Sets \in Nat
  <2>1. Sets \in Nat \ {0} /\ Ways \in Nat \ {0}
    BY BankAssumption
  <2>2. Sets * Ways \in Nat \ {0}
    BY <2>1, SMT
  <2> QED
    BY <2>1, <2>2 DEF FlushCount
<1>2. initNext' \in 0..Sets
  BY <1>1 DEF TypeOK, AdvanceFlush
<1>3. FlushStep(kind) \in FlushState
  BY DEF FlushStep, TypeOK, FlushState
<1>4. flushing' \in FlushState
  BY <1>3 DEF AdvanceFlush, FlushState
<1>5. flushIndex \in Nat /\ flushIndex <= FlushCount /\ (flushing = "walk" => flushIndex + 1 <= FlushCount)
  BY <1>1 DEF TypeOK
<1>6. CASE flushing = "wait" /\ FlushStep(kind) = "walk"
  BY <1>1, <1>2, <1>4, <1>6 DEF AdvanceFlush
<1>7. CASE flushing = "walk"
  <2>1. ~begin
    BY <1>7 DEF AdvanceFlush
  <2>2. CASE kind = "flush"
    <3>1. flushIndex' = flushIndex + 1
      BY <1>7, <2>2 DEF AdvanceFlush
    <3>2. flushIndex + 1 = FlushCount => flushing' # "walk"
      BY <1>7, <2>1, <2>2 DEF AdvanceFlush, FlushStep
    <3> QED
      BY <1>1, <1>2, <1>4, <1>5, <1>7, <3>1, <3>2
  <2>3. CASE kind # "flush"
    <3>1. flushIndex' = flushIndex
      BY <1>7, <2>3 DEF AdvanceFlush
    <3> QED
      BY <1>1, <1>2, <1>4, <1>5, <1>7, <3>1
  <2> QED
    BY <2>2, <2>3
<1>8. CASE flushing # "walk" /\ ~(flushing = "wait" /\ FlushStep(kind) = "walk")
  <2>1. flushIndex' = flushIndex
    BY <1>8 DEF AdvanceFlush
  <2>2. FlushStep(kind) # "walk"
    BY <1>8 DEF FlushStep
  <2>3. flushing' # "walk"
    BY <2>2 DEF AdvanceFlush
  <2> QED
    BY <1>1, <1>2, <1>4, <1>5, <2>1, <2>3
<1> QED
  BY <1>6, <1>7, <1>8

\* A refill takes the data of a line of the next level.
LEMMA NextLevelTyped ==
    ASSUME TypeOK, NEW memAccepted \in BOOLEAN, memAccepted => memory # <<>>, NEW fill,
           NextLevel(memAccepted, fill)
    PROVE  /\ backing' \in [Lines -> Nat]
           /\ pending' \subseteq [handle : Handle, line : Lines, data : Nat]
<1>1. CASE ~memAccepted
  BY <1>1 DEF NextLevel, TypeOK
<1>2. CASE memAccepted
  <2>1. Head(memory) \in MemoryRequest
    BY <1>2 DEF TypeOK
  <2>2. CASE Head(memory).write
    <3>1. Head(memory).line \in Lines /\ Head(memory).data \in Nat
      BY <2>1, <2>2 DEF MemoryRequest
    <3> QED
      BY <1>2, <2>2, <3>1 DEF NextLevel, TypeOK
  <2>3. CASE ~Head(memory).write
    <3>1. Head(memory).line \in Lines /\ Head(memory).handle \in Handle
      BY <2>1, <2>3 DEF MemoryRequest
    <3>2. backing' = backing
      BY <2>3 DEF NextLevel
    <3>3. backing \in [Lines -> Nat] /\ pending \subseteq [handle : Handle, line : Lines, data : Nat]
      BY DEF TypeOK
    <3> DEFINE refill == [handle |-> Head(memory).handle, line |-> Head(memory).line,
                          data |-> backing[Head(memory).line]]
    <3>4. pending' = {f \in pending : f.handle \notin fill} \cup {refill}
      BY <1>2, <2>3 DEF NextLevel
    <3>5. refill \in [handle : Handle, line : Lines, data : Nat]
      BY <3>1, <3>3
    <3> HIDE DEF refill
    <3> QED
      BY <3>2, <3>3, <3>4, <3>5
  <2> QED
    BY <2>2, <2>3
<1> QED
  BY <1>1, <1>2

\* One edge keeps everything but the forwarding registers well typed.
LEMMA EdgeTyped ==
    ASSUME TypeOK, NEW selected \in Opt(Op), NEW kind \in Kinds, NEW fill \in Opt(Handle),
           NEW deq \in BOOLEAN, NEW begin \in BOOLEAN,
           NEW delivered \in BOOLEAN, NEW memAccepted \in BOOLEAN,
           kind = "init" => initNext < Sets,
           Edge(selected, kind, fill, deq, begin, delivered, memAccepted),
           forwarding' \in BOOLEAN, forwarded' \in [data : Nat, err : BOOLEAN],
           issued' \in Nat, newest' \in [Lines -> Nat]
    PROVE  TypeOK'
<1>1. /\ entries' \in [Slots -> MshrEntry] /\ ready' \in BOOLEAN
      /\ free' \in Slots /\ head' \in Opt(Handle)
  <2>1. MshrStep(Allocate, Finalize, fill, deq)
    BY DEF Edge, AdvancePipeline
  <2>2. entries \in [Slots -> MshrEntry] /\ free \in Slots /\ head \in Opt(Handle)
    BY DEF TypeOK
  <2>3. Allocate \in Opt(Request) /\ Finalize \in Opt(Finalization)
    BY AllocateType, FinalizeType
  <2> QED
    BY <2>1, <2>2, <2>3, MshrTyped
<1>2. ArrayTyped(lines)' /\ fifo' \in [SetIds -> WayIds] /\ initialized' \in [SetIds -> BOOLEAN]
  <2>1. CASE Stalled
    BY <2>1 DEF Edge, AdvancePipeline, arrayVars, ArrayTyped, TypeOK
  <2>2. CASE ~Stalled /\ s0 = {}
    BY <2>2 DEF Edge, AdvancePipeline, ArrayTyped, TypeOK
  <2>3. CASE ~Stalled /\ s0 # {}
    <3> DEFINE op == CHOOSE o \in s0 : TRUE
    <3>1. op \in Op
      BY <2>3 DEF TypeOK, Opt
    <3>2. lines' = ArrayAfter(op) /\ fifo' = FifoAfter(op)
      BY <2>3 DEF Edge, AdvancePipeline
    <3>3. initialized' \in [SetIds -> BOOLEAN]
      BY <2>3 DEF Edge, AdvancePipeline, TypeOK
    <3> HIDE DEF op
    <3>4. ArrayTyped(ArrayAfter(op)) /\ FifoAfter(op) \in [SetIds -> WayIds]
      BY <3>1, ArrayStepTyped
    <3> QED
      BY <3>2, <3>3, <3>4 DEF ArrayTyped
  <2> QED
    BY <2>1, <2>2, <2>3
<1>3. s0' \in Opt(Op) /\ s1' \in Opt(Commit) /\ fault' \in BOOLEAN
  <2>1. fault' \in BOOLEAN
    BY DEF Edge, AdvancePipeline
  <2>2. CASE Stalled
    BY <2>1, <2>2 DEF Edge, AdvancePipeline, TypeOK
  <2>3. CASE ~Stalled
    <3>1. s0' = selected /\ s1' = {CommitOf(op, deq) : op \in s0}
      BY <2>3 DEF Edge, AdvancePipeline
    <3>2. \A op \in s0 : CommitOf(op, deq) \in Commit
      BY CommitTyped DEF TypeOK, Opt
    <3>3. {CommitOf(op, deq) : op \in s0} \in Opt(Commit)
      <4>1. s0 = {} \/ \E op \in Op : s0 = {op}
        <5>1. s0 \in Opt(Op)
          BY DEF TypeOK
        <5> QED
          BY <5>1, OptCases
      <4>2. CASE s0 = {}
        <5>1. {CommitOf(op, deq) : op \in s0} = {}
          BY <4>2
        <5> QED
          BY <5>1, OptIntro
      <4>3. CASE \E op \in Op : s0 = {op}
        <5>1. PICK op \in Op : s0 = {op}
          BY <4>3
        <5>2. {CommitOf(o, deq) : o \in s0} = {CommitOf(op, deq)} /\ CommitOf(op, deq) \in Commit
          BY <3>2, <5>1
        <5> QED
          BY <5>2, OptIntro
      <4> QED
        BY <4>1, <4>2, <4>3
    <3> QED
      BY <2>1, <3>1, <3>3
  <2> QED
    BY <2>2, <2>3
<1>4. responses' \in Seq(Response) /\ memory' \in Seq(MemoryRequest)
  <2>1. /\ delivered => responses # <<>>
        /\ memAccepted => memory # <<>>
        /\ responses' = Append1(TailIf(responses, delivered), PushedResponses)
        /\ memory' = Append1(TailIf(memory, memAccepted), PushedMemory)
    BY DEF Edge, AdvanceQueues
  <2>2. responses \in Seq(Response) /\ memory \in Seq(MemoryRequest)
    BY DEF TypeOK
  <2> QED
    BY <2>1, <2>2, PushesTyped, QueueStep
<1>5. reserved' \in Int
  BY DEF Edge, AdvanceReserved, TypeOK
<1>6. /\ initNext' \in 0..Sets /\ flushing' \in FlushState /\ flushIndex' \in 0..FlushCount
      /\ flushing' = "walk" => flushIndex' < FlushCount
  BY FlushTyped DEF Edge
<1>7. /\ backing' \in [Lines -> Nat]
      /\ pending' \subseteq [handle : Handle, line : Lines, data : Nat]
  BY NextLevelTyped DEF Edge, AdvanceQueues
<1> QED
  BY <1>1, <1>2, <1>3, <1>4, <1>5, <1>6, <1>7 DEF TypeOK, ArrayTyped, FlushCount

-----------------------------------------------------------------------------
(* Every action is an edge whose selection obeys the arbitration's guards. *)

Selects(selected, kind, fill, deq, begin) ==
    /\ selected \in Opt(Op) /\ kind \in Kinds /\ fill \in Opt(Handle)
    /\ deq \in BOOLEAN /\ begin \in BOOLEAN /\ ~fault
    /\ kind = "init" => initNext < Sets
    /\ (\E op \in selected : MayPush(op)) => ~MemAlmostFull
    /\ (\E op \in selected : op.kind = "core") <=> kind = "core"
    /\ kind = "core" => reserved < MshrSize
    /\ selected # {} => ~Stalled
    /\ \A op \in selected : IsAccess(op) /\ op.req.write =>
          Writeback \/ \E e \in Replay : e.req.write

RegistersTyped ==
    /\ forwarding' \in BOOLEAN /\ forwarded' \in [data : Nat, err : BOOLEAN]
    /\ issued' \in Nat /\ newest' \in [Lines -> Nat]

\* The chain head's entry is an entry of the table.
LEMMA ReplayType == TypeOK => Replay \in Opt(MshrEntry)
<1> SUFFICES ASSUME TypeOK PROVE Replay \in Opt(MshrEntry)
  OBVIOUS
<1>1. \A h \in head : Entry(h) \in MshrEntry
  BY DEF TypeOK, Opt, Handle, Entry
<1>2. head = {} \/ \E h \in Handle : head = {h}
  <2>1. head \in Opt(Handle)
    BY DEF TypeOK
  <2> QED
    BY <2>1, OptCases
<1>3. CASE head = {}
  <2>1. Replay = {}
    BY <1>3 DEF Replay
  <2> QED
    BY <2>1, OptIntro
<1>4. CASE \E h \in Handle : head = {h}
  <2>1. PICK h \in Handle : head = {h}
    BY <1>4
  <2>2. Replay = {Entry(h)} /\ Entry(h) \in MshrEntry
    BY <1>1, <2>1 DEF Replay
  <2> QED
    BY <2>2, OptIntro
<1> QED
  BY <1>2, <1>3, <1>4

\* Each of the six outcomes of the arbitration is an edge that obeys the guards in Selects.
LEMMA StepIsEdge ==
    ASSUME TypeOK, NEW delivered \in BOOLEAN, NEW memAccepted \in BOOLEAN,
           Step(delivered, memAccepted)
    PROVE  \E selected, kind, fill, deq, begin :
              /\ Selects(selected, kind, fill, deq, begin)
              /\ Edge(selected, kind, fill, deq, begin, delivered, memAccepted)
              /\ RegistersTyped
<1> DEFINE Goal == \E selected, kind, fill, deq, begin :
              /\ Selects(selected, kind, fill, deq, begin)
              /\ Edge(selected, kind, fill, deq, begin, delivered, memAccepted)
              /\ RegistersTyped
<1>1. {} \in Opt(Op) /\ {} \in Opt(Handle) /\ Forwards \in BOOLEAN
  BY OptIntro DEF Forwards, ForwardHead, RspSpace, TypeOK
<1>2. /\ CloseWindow => forwarding' \in BOOLEAN /\ forwarded' \in [data : Nat, err : BOOLEAN]
      /\ UNCHANGED <<issued, newest>> => issued' \in Nat /\ newest' \in [Lines -> Nat]
  BY DEF CloseWindow, TypeOK
<1>3. CASE SelectInit(delivered, memAccepted)
  <2>1. PICK begin \in BOOLEAN : Edge({InitOp}, "init", {}, Forwards, begin, delivered, memAccepted)
    BY <1>3 DEF SelectInit
  <2>2. initNext \in SetIds /\ ~Stalled /\ ~fault /\ initNext < Sets
    BY <1>3, BankAssumption DEF SelectInit, Selecting, Scanned, TypeOK, SetIds
  <2>3. InitOp \in Op /\ ~MayPush(InitOp) /\ InitOp.kind = "init" /\ ~IsAccess(InitOp)
    BY <2>2 DEF InitOp, Op, MayPush, IsAccess
  <2>4. {InitOp} \in Opt(Op)
    BY <2>3, OptIntro
  <2>5. Selects({InitOp}, "init", {}, Forwards, begin)
    BY <1>1, <2>2, <2>3, <2>4 DEF Selects, Kinds
  <2> QED
    BY <1>2, <1>3, <2>1, <2>5 DEF SelectInit, RegistersTyped
<1>4. CASE SelectReplay(delivered, memAccepted)
  <2>1. PICK begin \in BOOLEAN :
          Edge({ReplayOp(e.req) : e \in Replay}, "replay", {}, TRUE, begin, delivered, memAccepted)
    BY <1>4 DEF SelectReplay
  <2>2. ~Stalled /\ ~fault
    BY <1>4 DEF SelectReplay, Selecting
  <2>3. ASSUME NEW e \in Replay
        PROVE  /\ ReplayOp(e.req) \in Op /\ ~MayPush(ReplayOp(e.req))
               /\ ReplayOp(e.req).kind = "replay" /\ ReplayOp(e.req).req = e.req
    <3>1. e.req \in Request /\ forwarded.err \in BOOLEAN
      BY ReplayType DEF Opt, MshrEntry, TypeOK
    <3> QED
      BY <3>1 DEF ReplayOp, Op, MayPush
  <2>4. {ReplayOp(e.req) : e \in Replay} \in Opt(Op)
    BY <2>3, ReplayType DEF Opt
  <2>5. Selects({ReplayOp(e.req) : e \in Replay}, "replay", {}, TRUE, begin)
    BY <1>1, <2>2, <2>3, <2>4 DEF Selects, Kinds
  <2> QED
    BY <1>2, <1>4, <2>1, <2>5 DEF SelectReplay, RegistersTyped
<1>5. ASSUME NEW slot \in Slots, SelectFill(slot, delivered, memAccepted) PROVE Goal
  <2>1. PICK p \in pending, err \in FillErrs, begin \in BOOLEAN :
          /\ Edge({FillOp([handle |-> p.handle, data |-> p.data, err |-> err])}, "fill",
                  {p.handle}, FALSE, begin, delivered, memAccepted)
          /\ forwarding' = TRUE
          /\ forwarded' = [data |-> p.data, err |-> err]
    BY <1>5 DEF SelectFill
  <2> DEFINE op == FillOp([handle |-> p.handle, data |-> p.data, err |-> err])
  <2>2. p.handle \in Handle /\ p.data \in Nat /\ err \in BOOLEAN
    BY BankAssumption DEF TypeOK
  <2>3. Entry(p.handle).req.line \in Lines
    BY <2>2 DEF TypeOK, Handle, Entry, MshrEntry, Request
  <2>4. op \in Op /\ op.kind = "fill"
    BY <2>2, <2>3 DEF FillOp, Op
  <2>5. ~fault /\ ~Stalled /\ (Writeback => ~MemAlmostFull)
    BY <1>5 DEF SelectFill, Selecting, VictimRoom
  <2>6. MayPush(op) => ~MemAlmostFull
    BY <2>4, <2>5 DEF MayPush
  <2>7. {op} \in Opt(Op) /\ {p.handle} \in Opt(Handle)
    BY <2>2, <2>4, OptIntro
  <2> HIDE DEF op
  <2>8. Selects({op}, "fill", {p.handle}, FALSE, begin)
    BY <2>4, <2>5, <2>6, <2>7 DEF Selects, Kinds, IsAccess
  <2>9. RegistersTyped
    BY <1>2, <1>5, <2>1, <2>2 DEF SelectFill, RegistersTyped
  <2> QED
    BY <2>1, <2>8, <2>9 DEF op
<1>6. CASE SelectFlush(delivered, memAccepted)
  <2>1. Edge({FlushOp}, "flush", {}, Forwards, FALSE, delivered, memAccepted)
    BY <1>6 DEF SelectFlush
  <2>2. ~fault /\ ~Stalled /\ (Writeback => ~MemAlmostFull) /\ flushing = "walk"
    BY <1>6 DEF SelectFlush, Selecting, VictimRoom
  <2>3. flushIndex \in Nat /\ Sets \in Nat \ {0} /\ Ways \in Nat \ {0} /\ flushIndex < FlushCount
    BY <2>2, BankAssumption DEF TypeOK, FlushCount
  <2>4. flushIndex % Sets \in SetIds
    BY <2>3, DivMod DEF SetIds
  <2>5. flushIndex < Sets * Ways
    <3>1. Ways >= 1
      BY <2>3
    <3>2. Ways * Sets >= 1 * Sets
      BY <2>3, <3>1, TimesMonotone
    <3>3. Ways * Sets = Sets * Ways /\ 1 * Sets = Sets /\ Sets * Ways \in Nat
      BY <2>3, SMT
    <3>4. CASE Writeback
      BY <2>3, <3>4 DEF FlushCount
    <3>5. CASE ~Writeback
      BY <2>3, <3>2, <3>3, <3>5 DEF FlushCount
    <3> QED
      BY <3>4, <3>5
  <2>6. flushIndex \div Sets \in WayIds
    BY <2>3, <2>5, QuotientBound DEF WayIds
  <2>7. FlushOp \in Op /\ FlushOp.kind = "flush"
    BY <2>4, <2>6 DEF FlushOp, Op
  <2>8. {FlushOp} \in Opt(Op)
    BY <2>7, OptIntro
  <2>9. Selects({FlushOp}, "flush", {}, Forwards, FALSE)
    BY <1>1, <2>2, <2>7, <2>8 DEF Selects, Kinds, IsAccess, MayPush
  <2> QED
    BY <1>2, <1>6, <2>1, <2>9 DEF SelectFlush, RegistersTyped
<1>7. CASE SelectCore(delivered, memAccepted)
  <2>1. PICK l \in Lines, write \in IF Writeback THEN BOOLEAN ELSE {FALSE} :
          LET r == [id |-> issued + 1, line |-> l, write |-> write, sees |-> newest[l]]
          IN  /\ Edge({CoreOp(r)}, "core", {}, Forwards, FALSE, delivered, memAccepted)
              /\ newest' = IF write THEN [newest EXCEPT ![l] = r.id] ELSE newest
    BY <1>7 DEF SelectCore
  <2> DEFINE r == [id |-> issued + 1, line |-> l, write |-> write, sees |-> newest[l]]
  <2>2. r \in Request /\ (r.write => Writeback) /\ r.id \in Nat
    <3>1. write \in BOOLEAN /\ (write => Writeback)
      <4>1. CASE Writeback
        BY <4>1
      <4>2. CASE ~Writeback
        BY <4>2
      <4> QED
        BY <4>1, <4>2
    <3>2. issued + 1 \in Nat /\ newest[l] \in Nat
      BY DEF TypeOK
    <3> QED
      BY <3>1, <3>2 DEF Request
  <2>3. newest' \in [Lines -> Nat] /\ issued' \in Nat
    BY <1>7, <2>1, <2>2 DEF TypeOK, SelectCore
  <2>4. ~fault /\ ~Stalled /\ ~MemAlmostFull /\ reserved < MshrSize
    BY <1>7 DEF SelectCore, Selecting
  <2>5. Edge({CoreOp(r)}, "core", {}, Forwards, FALSE, delivered, memAccepted)
    BY <2>1
  <2> HIDE DEF r
  <2>6. CoreOp(r) \in Op /\ CoreOp(r).kind = "core" /\ CoreOp(r).req = r
    BY <2>2 DEF CoreOp, Op
  <2>7. {CoreOp(r)} \in Opt(Op)
    BY <2>6, OptIntro
  <2>8. Selects({CoreOp(r)}, "core", {}, Forwards, FALSE)
    BY <1>1, <2>2, <2>4, <2>6, <2>7 DEF Selects, Kinds
  <2> QED
    BY <1>2, <1>7, <2>3, <2>5, <2>8 DEF SelectCore, RegistersTyped
<1>8. CASE SelectNone(delivered, memAccepted)
  <2>1. PICK begin \in BOOLEAN : Edge({}, "none", {}, Forwards, begin, delivered, memAccepted)
    BY <1>8 DEF SelectNone
  <2>2. Selects({}, "none", {}, Forwards, begin)
    BY <1>1, <1>8 DEF SelectNone, Selects, Kinds
  <2> QED
    BY <1>2, <1>8, <2>1, <2>2 DEF SelectNone, RegistersTyped
<1> HIDE DEF Goal
<1>9. Goal
  BY <1>3, <1>4, <1>5, <1>6, <1>7, <1>8 DEF Step, Goal
<1> QED
  BY <1>9 DEF Goal

-----------------------------------------------------------------------------
(* Type correctness.                                                       *)

\* The type invariant holds initially and is kept by every edge.
THEOREM TypeCorrect == Spec => []TypeOK
<1>1. Init => TypeOK
  <2> SUFFICES ASSUME Init PROVE TypeOK
    OBVIOUS
  <2>1. Sets \in Nat \ {0} /\ Ways \in Nat \ {0} /\ MshrSize \in Nat \ {0} /\ 0 \in Lines
    BY BankAssumption, MshrAssumption
  <2>2. NoRequest \in Request
    BY <2>1 DEF NoRequest, Request
  <2>3. {} \in Opt(Handle) /\ {} \in Opt(Op) /\ {} \in Opt(Commit)
    BY OptIntro
  <2> DEFINE e == [valid |-> FALSE, finalized |-> FALSE, gen |-> 0, req |-> NoRequest, next |-> {}]
  <2>4. e \in MshrEntry
    BY <2>2, <2>3 DEF MshrEntry
  <2>5. entries \in [Slots -> MshrEntry] /\ ready \in BOOLEAN /\ free \in Slots /\ head \in Opt(Handle)
    <3>1. entries = [s \in Slots |-> e] /\ ready = FALSE /\ free = 0 /\ head = {}
      BY DEF Init, MshrInit
    <3>2. 0 \in Slots
      BY <2>1 DEF Slots
    <3> HIDE DEF e
    <3> QED
      BY <2>3, <2>4, <3>1, <3>2
  <2>6. NoLine \in CacheLine /\ ~NoLine.valid
    BY DEF NoLine, CacheLine
  <2>7. /\ lines \in [SetIds -> [WayIds -> CacheLine]]
        /\ \A s \in SetIds, w \in WayIds : lines[s][w].valid => LineAddress(s, lines[s][w].tag) \in Lines
        /\ fifo \in [SetIds -> WayIds] /\ initialized \in [SetIds -> BOOLEAN]
    BY <2>1, <2>6 DEF Init, WayIds
  <2>8. 0 \in 0..FlushCount
    <3>1. Sets * Ways \in Nat
      BY <2>1
    <3> QED
      BY <2>1, <3>1 DEF FlushCount
  <2>9. /\ reserved \in Int /\ s0 \in Opt(Op) /\ s1 \in Opt(Commit)
        /\ responses \in Seq(Response) /\ memory \in Seq(MemoryRequest)
    BY <2>3 DEF Init
  <2>10. /\ initNext \in 0..Sets /\ flushing \in FlushState
         /\ flushIndex \in 0..FlushCount /\ (flushing = "walk" => flushIndex < FlushCount)
    BY <2>1, <2>8 DEF Init, FlushState
  <2>11. /\ forwarding \in BOOLEAN /\ forwarded \in [data : Nat, err : BOOLEAN]
         /\ fault \in BOOLEAN
    BY DEF Init
  <2>12. /\ backing \in [Lines -> Nat]
         /\ pending \subseteq [handle : Handle, line : Lines, data : Nat]
         /\ issued \in Nat /\ newest \in [Lines -> Nat]
    BY DEF Init
  <2> QED
    BY <2>5, <2>7, <2>9, <2>10, <2>11, <2>12 DEF TypeOK
<1>2. TypeOK /\ [Next]_vars => TypeOK'
  <2> SUFFICES ASSUME TypeOK, [Next]_vars PROVE TypeOK'
    OBVIOUS
  <2>1. CASE UNCHANGED vars
    BY <2>1 DEF vars, mshrVars, arrayVars, bankVars, envVars, TypeOK, FlushCount
  <2>2. ASSUME NEW delivered \in BOOLEAN, NEW memAccepted \in BOOLEAN, Step(delivered, memAccepted)
        PROVE  TypeOK'
    <3>1. PICK selected, kind, fill, deq, begin :
            /\ Selects(selected, kind, fill, deq, begin)
            /\ Edge(selected, kind, fill, deq, begin, delivered, memAccepted)
            /\ RegistersTyped
      BY <2>2, StepIsEdge
    <3> QED
      BY <3>1, EdgeTyped DEF Selects, RegistersTyped
  <2> QED
    BY <2>1, <2>2 DEF Next
<1> QED
  BY <1>1, <1>2, PTL DEF Spec
=============================================================================
