--------------------------- MODULE FunctionalCore ---------------------------
(***************************************************************************)
(* The functional machine: the four warp slots of emu/core, the warp       *)
(* executor of emu/warp on the state of WarpState, the barrier and CTA     *)
(* owners, the routed local and global memory, and the two drivers of      *)
(* Core.Step: KernelExecution.Run (emu/device/kernel.go), which walks the  *)
(* grid, admits, reclaims and steps, and Core.Run (emu/core/run.go) on a   *)
(* statically admitted CTA, where WSPAWN starts the other warps.           *)
(*                                                                         *)
(* One thread runs the machine.  "at" is where in the loop body it stands, *)
(* and the caller acts only while mode = "stopped": it completes barrier   *)
(* events, blocks and resumes warps (Core driver), and calls Run again.    *)
(* The choices left open are the program and launch (chosen initially),    *)
(* the pending-work bits of the read context, the step budget and the      *)
(* caller's acts.                                                          *)
(*                                                                         *)
(* A program is a sequence of instruction records.  Threads are numbered   *)
(* from their CSR coordinates; a condition is a set of threads, or "trips",*)
(* a loop bound that depends on the thread.                                *)
(***************************************************************************)
EXTENDS CtaManager, BarrierRecords

CONSTANTS Inputs,     \* launches with their programs, valid or not
          MaxBlocks   \* Core.Block calls of the caller

VARIABLES
    launch,           \* the launch and program, fixed
    slots,            \* scheduler slot of every warp
    arch,             \* canonical state of every warp
    initialized,      \* warps some CTA of this kernel has used
    next,             \* round-robin cursor
    ctas,             \* resident CTAs: an id has no CTA or one
    bars,             \* barrier records by <<CTA, address warp, id>>
    lmem, out,        \* local memory; global memory by <<block, thread>>
    walker, pending,  \* grid walk; the generated cluster not yet admitted
    resident,         \* kernel's record of the grid position of a CTA
    mode, at,         \* the driver: running or stopped, and where
    store,            \* the store transaction in progress
    context,          \* what the read context of this step says is outstanding
    outcome,          \* what the last Run call returned
    blocks            \* Core.Block calls so far

coreVars == <<slots, arch, initialized, next, ctas, bars, lmem, out>>
kernelVars == <<walker, pending, resident>>
driverVars == <<mode, at, store, context, outcome, blocks>>
vars == <<launch, coreVars, kernelVars, driverVars>>

Kernel == launch.driver = "kernel"
Program == launch.program

NoKey == <<>>
NoStore == [warp |-> NumWarps]
Idle == [life |-> "inactive", why |-> "none", part |-> FALSE, key |-> NoKey,
         wait |-> FALSE, drain |-> FALSE]
Runnable == [Idle EXCEPT !.life = "runnable", !.part = TRUE]
Finished == [Runnable EXCEPT !.life = "finished"]
Blocked(why) == [Runnable EXCEPT !.life = "blocked", !.why = why]
Draining == [Blocked("barrier") EXCEPT !.drain = TRUE]
WaitingOn(key) == [Blocked("barrier") EXCEPT !.wait = TRUE, !.key = key]

Resident == {c \in CtaId : ctas[c] # {}}
Cta(c) == CHOOSE x \in ctas[c] : TRUE
Members(cta) == {cta.members[k].warp : k \in DOMAIN cta.members}
OwnerOf(w) == {c \in Resident : w \in Members(Cta(c))}
CtaOf(w) == CHOOSE c \in OwnerOf(w) : TRUE
RankOf(w) == (CHOOSE k \in DOMAIN Cta(CtaOf(w)).members :
                  Cta(CtaOf(w)).members[k].warp = w) - 1
SizeOf(w) == Len(Cta(CtaOf(w)).members)

(* The thread a lane runs, as a kernel computes it from its CSRs. *)
Thread(w, lane) ==
    LET v == ThreadCoordinates(RankOf(w), lane, launch)
    IN  v[1] + launch.block[1] * (v[2] + launch.block[2] * v[3])

(* Member records of a CTA on the given warps, in rank order. *)
NewMembers(warps) == [k \in 1 .. Len(warps) |-> [warp |-> warps[k], finished |-> FALSE]]

Record(key) == IF key \in DOMAIN bars THEN bars[key] ELSE NoRecord
SetRecord(key, r) == [k \in DOMAIN bars \cup {key} |-> IF k = key THEN r ELSE bars[k]]
PendingBarrier(c) == \E k \in DOMAIN bars : k[1] = c /\ PendingRecord(bars[k])

ActiveWarps == {w \in Warp : arch[w].running}

(* A CTA completes when every member is finished for its owner and for the *)
(* scheduler and no barrier of it is pending.                              *)
Complete(cta, c, s) ==
    /\ \A k \in DOMAIN cta.members :
           cta.members[k].finished /\ s[cta.members[k].warp].life = "finished"
    /\ ~PendingBarrier(c)
CompleteIds == {c \in Resident : Complete(Cta(c), c, slots)}

-----------------------------------------------------------------------------
(* Construction.  The Core driver starts from one statically admitted CTA  *)
(* whose first warp runs alone, lane 0 active.                             *)
Static == [block |-> Zero, offset |-> 0, size |-> AlignUp(launch.lmem),
           members |-> NewMembers([k \in 1 .. WarpsPerCTA(launch) |-> k - 1])]

Init ==
    /\ launch \in {l \in Inputs : ValidateLaunch(l)}
    /\ slots = [w \in Warp |-> IF ~Kernel /\ w = 0 THEN Runnable ELSE Idle]
    /\ arch = [w \in Warp |-> IF ~Kernel /\ w = 0
                              THEN [NewWarp(1) EXCEPT !.running = TRUE, !.mask = {0}]
                              ELSE NewWarp(1)]
    /\ initialized = [w \in Warp |-> FALSE]
    /\ next = 0
    /\ ctas = [c \in CtaId |-> IF ~Kernel /\ c = 0 THEN {Static} ELSE {}]
    /\ bars = [k \in {} |-> NoRecord]
    /\ lmem = [x \in 0 .. LocalSize - 1 |-> <<>>]
    /\ out = [x \in {} |-> <<>>]
    /\ walker = NewWalker /\ pending = <<>> /\ resident = [c \in CtaId |-> {}]
    /\ mode = "running" /\ at = (IF Kernel THEN "reclaim" ELSE "step")
    /\ store = NoStore /\ context = "drained" /\ outcome = "none" /\ blocks = 0

Stop(o) == /\ mode' = "stopped" /\ outcome' = o
           /\ at' = (IF Kernel THEN "reclaim" ELSE "step")
           /\ context' = "drained" /\ store' = NoStore
Goto(place) == /\ mode' = "running" /\ at' = place /\ outcome' = "none"
               /\ context' = "drained" /\ store' = NoStore

-----------------------------------------------------------------------------
(* The kernel loop up to Core.Step. *)

(* ReclaimCTA of every complete CTA: its slots are free again, its barrier *)
(* records are gone; registers and LMEM words stay as they are.            *)
Reclaim(done) ==
    LET warps == UNION {Members(Cta(c)) : c \in done}
    IN  /\ slots' = [w \in Warp |-> IF w \in warps THEN Idle ELSE slots[w]]
        /\ ctas' = [c \in CtaId |-> IF c \in done THEN {} ELSE ctas[c]]
        /\ bars' = [k \in {k \in DOMAIN bars : k[1] \notin done} |-> bars[k]]

ReclaimCompleted ==
    /\ mode = "running" /\ at = "reclaim"
    /\ LET done == CompleteIds
       IN  IF \E c \in done : resident[c] = {}
           THEN Stop("fault") /\ UNCHANGED <<coreVars, kernelVars>>
           ELSE /\ Reclaim(done)
                /\ resident' = [c \in CtaId |-> IF c \in done THEN {} ELSE resident[c]]
                /\ Goto("generate")
                /\ UNCHANGED <<arch, initialized, next, lmem, out, walker, pending>>
    /\ UNCHANGED <<launch, blocks>>

KernelDone == Remaining(walker, launch) = 0 /\ pending = <<>> /\ \A c \in CtaId : resident[c] = {}

(* A whole cluster is generated when none waits. *)
RECURSIVE Generated(_, _)
Generated(walk, n) ==
    IF n = 0 THEN <<>>
    ELSE <<[num |-> walk.emitted, block |-> BlockOf(walk)]>>
         \o Generated(AdvanceWalker(walk, launch), n - 1)

(* Mutant: the walker is left inside the cluster it has generated. *)
WalkedOnce(walk, n) == AdvanceWalker(walk, launch)

RECURSIVE Walked(_, _)
Walked(walk, n) == IF n = 0 THEN walk ELSE Walked(AdvanceWalker(walk, launch), n - 1)

Generate ==
    /\ mode = "running" /\ at = "generate"
    /\ IF KernelDone
       THEN /\ Stop(IF \A w \in Warp : slots[w] = Idle /\ ~arch[w].running /\ Resident = {}
                    THEN "complete" ELSE "fault")
            /\ UNCHANGED <<walker, pending>>
       ELSE IF pending = <<>> /\ Remaining(walker, launch) \in 1 .. ClusterSize(launch) - 1
       THEN Stop("fault") /\ UNCHANGED <<walker, pending>>
       ELSE /\ Goto("admit")
            /\ IF pending = <<>> /\ Remaining(walker, launch) # 0
               THEN /\ pending' = Generated(walker, ClusterSize(launch))
                    /\ walker' = Walked(walker, ClusterSize(launch))
               ELSE UNCHANGED <<walker, pending>>
    /\ UNCHANGED <<launch, coreVars, resident, blocks>>

(* AdmitCTACluster.  Every CTA of the cluster takes the lowest free warps, *)
(* the lowest free id and the first LMEM hole left by the ones before it.  *)
(* It is admitted as a whole or not at all.                                *)
FreeWarps == SetToSortSeq({w \in Warp : slots[w].life = "inactive" /\ ~slots[w].part}, <)
FreeIds == SetToSortSeq(CtaId \ Resident, <)
Occupied == {[start |-> Cta(c).offset, end |-> Cta(c).offset + Cta(c).size] : c \in Resident}

RECURSIVE Offsets(_, _)
Offsets(n, intervals) ==
    IF n = 0 THEN <<>>
    ELSE LET size == AlignUp(launch.lmem)
             o == FirstFit(size, intervals)
         IN  <<o>> \o Offsets(n - 1, intervals \cup {[start |-> o, end |-> o + size]})

Candidate(k) ==
    LET n == WarpsPerCTA(launch)
    IN  [id |-> FreeIds[k], num |-> pending[k].num,
         cta |-> [block |-> pending[k].block, size |-> AlignUp(launch.lmem),
                  offset |-> Offsets(Len(pending), Occupied)[k],
                  members |-> NewMembers(SubSeq(FreeWarps, (k - 1) * n + 1, k * n))]]

Admissible ==
    /\ Len(FreeWarps) >= Len(pending) * WarpsPerCTA(launch)
    /\ Len(FreeIds) >= Len(pending)
    /\ \A k \in 1 .. Len(pending) :
           Offsets(Len(pending), Occupied)[k] + AlignUp(launch.lmem) <= LocalSize

CommitAdmission(new) ==
    LET launched == UNION {Members(x.cta) : x \in new}
        rank(w) == CHOOSE r \in 0 .. NumWarps - 1 :
                       \E x \in new : r < Len(x.cta.members) /\ x.cta.members[r + 1].warp = w
    IN  /\ ctas' = [c \in CtaId |-> IF \E x \in new : x.id = c
                                    THEN {(CHOOSE x \in new : x.id = c).cta} ELSE ctas[c]]
        /\ resident' = [c \in CtaId |-> IF \E x \in new : x.id = c
                                        THEN {(CHOOSE x \in new : x.id = c).num} ELSE resident[c]]
        /\ slots' = [w \in Warp |-> IF w \in launched THEN Runnable ELSE slots[w]]
        /\ initialized' = [w \in Warp |-> initialized[w] \/ w \in launched]
        /\ arch' = [w \in Warp |-> IF w \notin launched THEN arch[w]
                                   ELSE Launch(arch[w], ~initialized[w], 1,
                                               MaskOfRank(rank(w), launch), launch.parameter)]

Admit ==
    /\ mode = "running" /\ at = "admit"
    /\ IF pending # <<>> /\ Admissible
       THEN /\ CommitAdmission({Candidate(k) : k \in 1 .. Len(pending)})
            /\ pending' = <<>> /\ Goto("reclaim")
       ELSE /\ IF pending # <<>> /\ \A c \in CtaId : resident[c] = {}
               THEN Stop("fault") ELSE Goto("step")
            /\ UNCHANGED <<ctas, resident, slots, initialized, arch, pending>>
    /\ UNCHANGED <<launch, next, bars, lmem, out, walker, blocks>>

BudgetExceeded ==
    /\ mode = "running" /\ at = "step"
    /\ Stop("budget")
    /\ UNCHANGED <<launch, coreVars, kernelVars, blocks>>

-----------------------------------------------------------------------------
(* Core.Step.  First the waits a changed view releases, then the next      *)
(* runnable warp in round-robin order executes one instruction.            *)

Context == {"drained", "lsu", "prior"}

(* The caller's ReadContext for this step. *)
ReadContext(c) ==
    /\ mode = "running" /\ at = "step"
    /\ at' = "execute" /\ context' = c
    /\ UNCHANGED <<launch, coreVars, kernelVars, mode, store, outcome, blocks>>

Refreshed ==
    [w \in Warp |->
        IF slots[w].life = "blocked"
           /\ \/ slots[w].why = "spawn" /\ ActiveWarps = {w}
              \/ slots[w].why = "prior" /\ context # "prior"
              \/ slots[w].why = "barrier" /\ slots[w].drain /\ context # "lsu"
        THEN Runnable ELSE slots[w]]

SelectRunnable(s) ==
    LET distance(w) == (w + NumWarps - next) % NumWarps
        ready == {w \in Warp : s[w].life = "runnable"}
    IN  {w \in ready : \A v \in ready : distance(w) <= distance(v)}

Selected(ops) ==
    {w \in SelectRunnable(Refreshed) :
         arch[w].pc \in DOMAIN Program /\ Program[arch[w].pc].op \in ops}

(* The condition an instruction tests on a lane. *)
Holds(i, w, lane) ==
    IF i.when = "trips" THEN Len(arch[w].val[lane]) <= 2 + (Thread(w, lane) % 3)
    ELSE Thread(w, lane) % 4 \in i.threads
LanesWhere(i, w) == {l \in Lane : Holds(i, w, l)}
Decides(i, w) == Holds(i, w, DecisionLane(arch[w]))

UpdateVal(a, new) == [Sequential(a) EXCEPT !.val = [l \in Lane |-> IF l \in a.mask THEN new[l] ELSE @[l]]]

(* How a step ends.  The selected warp moves the cursor in every case. *)
Moved(w) == next' = (w + 1) % NumWarps
AllComplete == Resident # {} /\ \A c \in Resident : Complete(Cta(c), c, slots)

FinishMember(w) ==
    LET c == CtaOf(w)
    IN  [ctas EXCEPT ![c] = {[Cta(c) EXCEPT !.members[RankOf(w) + 1].finished = TRUE]}]

(* Mutant: the CTA owner is not told that the warp has finished. *)
RetireUnobserved(w, a) ==
    /\ Moved(w)
    /\ arch' = [arch EXCEPT ![w] = a]
    /\ slots' = [Refreshed EXCEPT ![w] = IF a.running THEN Runnable ELSE Finished]
    /\ ctas' = ctas

Retire(w, a) ==
    /\ Moved(w)
    /\ arch' = [arch EXCEPT ![w] = a]
    /\ slots' = [Refreshed EXCEPT ![w] = IF a.running THEN Runnable ELSE Finished]
    /\ ctas' = IF a.running THEN ctas ELSE FinishMember(w)

Continue == IF ~Kernel /\ AllComplete' THEN Stop("complete")
            ELSE Goto(IF Kernel THEN "reclaim" ELSE "step")

Fault(w) ==
    /\ Moved(w) /\ Stop("fault")
    /\ slots' = [Refreshed EXCEPT ![w] = Blocked("fault")]
    /\ UNCHANGED <<arch, ctas, bars, lmem, out>>

(* An error of barrier coordination leaves the slot as it was. *)
Reject(w) ==
    /\ Moved(w) /\ Stop("fault")
    /\ slots' = Refreshed
    /\ UNCHANGED <<arch, ctas, bars, lmem, out>>

Defer(w, slot) ==
    /\ Moved(w) /\ Stop("deferred")
    /\ slots' = [Refreshed EXCEPT ![w] = slot]
    /\ UNCHANGED <<arch, ctas, bars, lmem, out>>

(* Instructions that only touch their warp: evaluate, stage, commit. *)
LocalOps == {"nop", "tid", "mark", "mask", "tmc", "exit", "pred", "split", "join",
             "branch", "jump", "call", "return", "skip"}

Evaluate(w, i) ==
    LET a == arch[w]
    IN  CASE i.op = "nop" -> {Sequential(a)}
          [] i.op = "tid" -> {UpdateVal(a, [l \in Lane |-> <<Cta(CtaOf(w)).block, Thread(w, l)>>])}
          [] i.op = "mark" -> {UpdateVal(a, [l \in Lane |-> Append(a.val[l], i.mark)])}
          [] i.op = "mask" -> {[Sequential(a) EXCEPT !.tmask = a.mask]}
          [] i.op = "tmc" -> Tmc(a, Lane)
          [] i.op = "exit" -> Tmc(a, {})
          [] i.op = "pred" -> Pred(a, LanesWhere(i, w), a.tmask)
          [] i.op = "split" -> Split(a, LanesWhere(i, w), i.reg)
          [] i.op = "join" -> Join(a, i.reg)
          [] i.op = "branch" -> {IF Decides(i, w) THEN [a EXCEPT !.pc = i.target] ELSE Sequential(a)}
          [] i.op = "jump" -> {[a EXCEPT !.pc = i.target]}
          [] i.op = "call" -> {[a EXCEPT !.pc = i.target, !.ra = a.pc + 1]}
          [] i.op = "return" -> {[a EXCEPT !.pc = a.ra]}
          [] i.op = "skip" -> {[Sequential(a) EXCEPT !.mepc = @ + 1]}

StepLocal ==
    \E w \in Selected(LocalOps) :
        LET after == Evaluate(w, Program[arch[w].pc])
        IN  \/ after = {} /\ Fault(w)
            \/ \E a \in after : Retire(w, a) /\ UNCHANGED <<bars, lmem, out>> /\ Continue

(* ECALL and MRET commit, and end the Run call with a trap outcome. *)
StepTrap ==
    \E w \in Selected({"ecall", "mret"}) :
        /\ LET i == Program[arch[w].pc]
           IN  \E a \in IF i.op = "ecall" THEN TrapEnter(arch[w], i.target)
                        ELSE TrapReturn(arch[w]) : Retire(w, a)
        /\ Stop("trap") /\ UNCHANGED <<bars, lmem, out>>

(* No instruction can be fetched. *)
StepFetchFault ==
    \E w \in SelectRunnable(Refreshed) :
        arch[w].pc \notin DOMAIN Program /\ Fault(w)

(* No warp can run. *)
StepIdle ==
    /\ SelectRunnable(Refreshed) = {}
    /\ slots' = Refreshed
    /\ Stop(IF ~Kernel /\ AllComplete THEN "complete" ELSE "blocked")
    /\ UNCHANGED <<arch, next, ctas, bars, lmem, out>>

-----------------------------------------------------------------------------
(* Loads and stores.  An address is <<"local", word>> or <<"global", t>>;  *)
(* thread t of the block owns global word t and local word t.              *)
Address(i, w, l) ==
    LET t == Thread(w, l)
    IN  CASE i.at = "own" -> <<"local", t>>
          [] i.at = "partner" -> <<"local", (t + NumLanes) % launch.blockSize>>
          [] i.at = "shared" -> <<"local", 0>>
          [] i.at = "global" -> <<"global", t>>
          [] i.at = "mixed" -> <<IF t % 2 = 0 THEN "local" ELSE "global", t>>
          [] i.at = "clash" -> IF t % 2 = 0 THEN <<"local", t>> ELSE <<"global", 0>>

Accesses(i, w) == [l \in arch[w].mask |-> Address(i, w, l)]

(* CTA memory routes a local address into the CTA's own allocation. *)
InRange(w, x) == IF x[1] = "local" THEN x[2] < Cta(CtaOf(w)).size ELSE x[2] < launch.globalSize
Backing(w, x) == Cta(CtaOf(w)).offset + x[2]

StepLoad ==
    \E w \in Selected({"load"}) :
        LET access == Accesses(Program[arch[w].pc], w)
        IN  IF \E l \in DOMAIN access : ~InRange(w, access[l]) THEN Fault(w)
            ELSE /\ Retire(w, UpdateVal(arch[w], [l \in DOMAIN access |-> lmem[Backing(w, access[l])]]))
                 /\ UNCHANGED <<bars, lmem, out>> /\ Continue

(* A store is a transaction over the lanes of its warp.  Every lane is     *)
(* read once, an error being kept while the others are read, and the       *)
(* warp's next state is staged; a lane that could not be read ends it      *)
(* there.  Then CommitWithExternal writes the lanes and replaces the       *)
(* state.  "todo" are the lanes not yet written, "image" is the state      *)
(* before the store.                                                       *)
StepStore ==
    \E w \in Selected({"store"}) :
        LET access == Accesses(Program[arch[w].pc], w)
        IN  IF \E l \in DOMAIN access : ~InRange(w, access[l]) THEN Fault(w)
            ELSE /\ store' = [warp |-> w, access |-> access, todo |-> SetToSortSeq(arch[w].mask, <),
                              before |-> arch[w], after |-> Sequential(arch[w]),
                              image |-> <<arch, lmem, out, bars>>]
                 /\ at' = "local"
                 /\ UNCHANGED <<mode, context, outcome, slots, arch, next, ctas, bars, lmem, out>>

GoOn(place) == UNCHANGED <<mode, context, outcome, slots, arch, next, ctas, bars>> /\ at' = place

(* The write failed: CommitWithExternal puts the warp's state back. *)
RollBack ==
    /\ Moved(store.warp) /\ Stop("fault")
    /\ slots' = [Refreshed EXCEPT ![store.warp] = Blocked("fault")]
    /\ arch' = [arch EXCEPT ![store.warp] = store.before]
    /\ UNCHANGED <<ctas, bars, lmem, out>>

Routed(route) == {l \in DOMAIN store.access : store.access[l][1] = route}
Overlap(lanes) == \E l, m \in lanes : l # m /\ store.access[l] = store.access[m]

CopyLane(l) ==
    LET x == store.access[l]
        v == arch[store.warp].val[l]
    IN  IF x[1] = "local"
        THEN lmem' = [lmem EXCEPT ![Backing(store.warp, x)] = v] /\ UNCHANGED out
        ELSE /\ out' = LET y == <<Cta(CtaOf(store.warp)).block, x[2]>>
                       IN  [z \in DOMAIN out \cup {y} |-> IF z = y THEN v ELSE out[z]]
             /\ UNCHANGED lmem

(* Mutant: the local words are written as they are checked, before the     *)
(* global batch has been accepted.                                         *)
WriteLocalFirst ==
    LET mine == SelectSeq(store.todo, LAMBDA l : l \in Routed("local"))
    IN  /\ at = "local"
        /\ IF Overlap(Routed("local")) THEN RollBack
           ELSE IF mine = <<>>
           THEN store' = store /\ GoOn("global") /\ UNCHANGED <<lmem, out>>
           ELSE /\ CopyLane(Head(mine)) /\ GoOn("local")
                /\ store' = [store EXCEPT !.todo = SelectSeq(@, LAMBDA l : l # Head(mine))]

(* WriteBatch holds the local words' lock over three phases: the local     *)
(* ranges are checked against each other, then the global batch is checked *)
(* and written, and the local words, which can no longer fail, come last.  *)
WriteLocal ==
    /\ at = "local"
    /\ IF Overlap(Routed("local")) THEN RollBack
       ELSE store' = store /\ GoOn("global") /\ UNCHANGED <<lmem, out>>

WriteGlobal ==
    /\ at = "global"
    /\ IF Overlap(Routed("global")) THEN RollBack
       ELSE /\ store' = [store EXCEPT !.todo = SelectSeq(@, LAMBDA l : l \in Routed("global"))
                                              \o SelectSeq(@, LAMBDA l : l \in Routed("local"))]
            /\ GoOn("copy") /\ UNCHANGED <<lmem, out>>

CopyStore ==
    /\ at = "copy" /\ store.todo # <<>>
    /\ CopyLane(Head(store.todo)) /\ GoOn("copy")
    /\ store' = [store EXCEPT !.todo = Tail(@)]

CommitStore ==
    /\ at = "copy" /\ store.todo = <<>>
    /\ Retire(store.warp, store.after)
    /\ UNCHANGED <<bars, lmem, out>> /\ Continue

-----------------------------------------------------------------------------
(* Instructions the Core coordinates. *)
BarrierOps == {"bar", "arrive", "wait", "expect"}

(* A barrier is addressed through the first warp of the CTA. *)
KeyOf(w, i) == <<CtaOf(w), Cta(CtaOf(w)).members[1].warp, i.id>>

StageBarrier(w, i) ==
    LET r == Record(KeyOf(w, i))
        n == IF i.count = 0 THEN SizeOf(w) ELSE i.count
    IN  CASE i.op = "expect" -> ExpectEvents(r, i.count)
          [] i.op = "wait" -> WaitPhase(r, w, arch[w].tok)
          [] OTHER -> Arrive(r, w, n, SizeOf(w), i.op = "bar")

Waits(s, key) == {v \in Warp : s[v] = WaitingOn(key)}

(* The slots after the waiters of a record are released. *)
Woken(s, releases) == [v \in Warp |-> IF v \in releases THEN Runnable ELSE s[v]]

StepBarrier ==
    \E w \in Selected(BarrierOps) :
        LET i == Program[arch[w].pc]
            key == KeyOf(w, i)
            staged == StageBarrier(w, i)
            after == [Sequential(arch[w]) EXCEPT
                          !.tok = IF i.op = "arrive" THEN Record(key).phase ELSE @]
        IN  \/ context = "lsu" /\ Defer(w, Draining)
            \/ context # "lsu" /\ staged = {} /\ Reject(w)
            \/ \E r \in staged :
                   /\ context # "lsu"
                   /\ IF r.releases \ {w} \subseteq Waits(Refreshed, key)
                      THEN /\ Moved(w)
                           /\ arch' = [arch EXCEPT ![w] = after]
                           /\ bars' = SetRecord(key, r.record)
                           /\ slots' = [Woken(Refreshed, r.releases)
                                            EXCEPT ![w] = IF r.block THEN WaitingOn(key) ELSE Runnable]
                           /\ UNCHANGED <<ctas, lmem, out>> /\ Continue
                      ELSE Reject(w)

StepSync ==
    \E w \in Selected({"wsync"}) :
        \/ context = "prior" /\ Defer(w, Blocked("prior"))
        \/ /\ context # "prior"
           /\ Retire(w, Sequential(arch[w])) /\ UNCHANGED <<bars, lmem, out>> /\ Continue

(* WSPAWN waits to be alone and then starts the other warps of its CTA. *)
StepSpawn ==
    \E w \in Selected({"wspawn"}) :
        LET i == Program[arch[w].pc]
            targets == (0 .. i.count - 1) \ {w}
            s == Refreshed
        IN  IF targets \cup {w} # Members(Cta(CtaOf(w))) THEN Fault(w)
            ELSE IF ActiveWarps # {w} THEN Defer(w, Blocked("spawn"))
            ELSE IF \E v \in targets : s[v].life # "inactive" \/ s[v].part THEN Fault(w)
            ELSE /\ Moved(w)
                 /\ arch' = [v \in Warp |-> IF v = w THEN Sequential(arch[v])
                                            ELSE IF v \in targets
                                                 THEN Spawned(arch[v], i.target, arch[w].mscratch)
                                            ELSE arch[v]]
                 /\ slots' = [v \in Warp |-> IF v \in targets \cup {w} THEN Runnable ELSE s[v]]
                 /\ UNCHANGED <<ctas, bars, lmem, out>> /\ Continue

Step ==
    /\ mode = "running" /\ at = "execute"
    /\ \/ StepLocal \/ StepTrap \/ StepFetchFault \/ StepIdle
       \/ StepLoad \/ StepStore \/ StepBarrier
       \/ StepSync \/ StepSpawn
    /\ UNCHANGED <<launch, initialized, kernelVars, blocks>>

StoreStep ==
    /\ mode = "running"
    /\ \/ WriteLocal \/ WriteGlobal \/ CopyStore \/ CommitStore
    /\ UNCHANGED <<launch, initialized, kernelVars, blocks>>

-----------------------------------------------------------------------------
(* The caller, between two Run calls. *)
CompleteBarrierEvent(key) ==
    /\ mode = "stopped" /\ outcome \notin {"complete", "fault"}
    /\ \E r \in EventCompletion(bars[key]) :
           /\ r.releases \subseteq Waits(slots, key)
           /\ bars' = SetRecord(key, r.record)
           /\ slots' = Woken(slots, r.releases)
    /\ UNCHANGED <<launch, arch, initialized, next, ctas, lmem, out, kernelVars, driverVars>>

BlockWarp(w) ==
    /\ mode = "stopped" /\ outcome \notin {"complete", "fault"} /\ ~Kernel
    /\ blocks < MaxBlocks /\ slots[w].life = "runnable"
    /\ slots' = [slots EXCEPT ![w] = Blocked("explicit")] /\ blocks' = blocks + 1
    /\ UNCHANGED <<launch, arch, initialized, next, ctas, bars, lmem, out, kernelVars, mode, at, store, context, outcome>>

(* Mutant: a warp parked on a barrier record can be resumed as well. *)
ResumeParked(w) ==
    /\ mode = "stopped" /\ outcome \notin {"complete", "fault"} /\ ~Kernel
    /\ slots[w].life = "blocked"
    /\ slots' = [slots EXCEPT ![w] = Runnable]
    /\ UNCHANGED <<launch, arch, initialized, next, ctas, bars, lmem, out, kernelVars, driverVars>>

(* Core.Resume; a barrier releases its own waiters. *)
ResumeWarp(w) ==
    /\ mode = "stopped" /\ outcome \notin {"complete", "fault"} /\ ~Kernel
    /\ slots[w].life = "blocked" /\ slots[w].why # "barrier"
    /\ slots' = [slots EXCEPT ![w] = Runnable]
    /\ UNCHANGED <<launch, arch, initialized, next, ctas, bars, lmem, out, kernelVars, driverVars>>

Run ==
    /\ mode = "stopped" /\ outcome \notin {"complete", "fault"}
    /\ IF ~Kernel /\ AllComplete THEN Stop("complete") ELSE Goto(at)
    /\ UNCHANGED <<launch, coreVars, kernelVars, blocks>>

Done == outcome \in {"complete", "fault"} /\ UNCHANGED vars

CompleteSomeEvent == \E key \in DOMAIN bars : CompleteBarrierEvent(key)
ResumeSome == \E w \in Warp : ResumeWarp(w)

Next ==
    \/ ReclaimCompleted \/ Generate \/ Admit \/ BudgetExceeded
    \/ Step \/ StoreStep \/ \E c \in Context : ReadContext(c)
    \/ CompleteSomeEvent \/ ResumeSome \/ Run \/ Done
    \/ \E w \in Warp : BlockWarp(w)

Spec == Init /\ [][Next]_vars

(* The loop never stops between its places (every place has a step), the   *)
(* caller runs again, delivers the events it owes and lifts the blocks it  *)
(* made, and its outstanding work drains infinitely often.                 *)
FairSpec ==
    /\ Spec
    /\ WF_at(mode = "running" /\ at' \in {"reclaim", "generate", "admit", "step", "execute",
                                          "local", "global", "copy"})
    /\ WF_vars(Run)
    /\ SF_vars(ReadContext("drained")) /\ SF_vars(CompleteSomeEvent) /\ SF_vars(ResumeSome)

-----------------------------------------------------------------------------
(* Reference: what one thread alone computes, instruction by instruction,  *)
(* with SPLIT, JOIN, masks and barriers left out.                          *)
ScalarStart(b, t) == [pc |-> 1, val |-> <<>>, ra |-> 1, mepc |-> 1, block |-> b, thread |-> t,
                      stored |-> <<>>, result |-> <<>>]
ScalarHolds(i, x) == IF i.when = "trips" THEN Len(x.val) <= 2 + (x.thread % 3)
                     ELSE x.thread % 4 \in i.threads

RECURSIVE Scalar(_, _)
Scalar(x, toStore) ==
    LET i == Program[x.pc]
        seq == [x EXCEPT !.pc = @ + 1]
        partner == ScalarStart(x.block, (x.thread + NumLanes) % launch.blockSize)
    IN  CASE i.op = "exit" \/ (toStore /\ i.op = "store") -> x
          [] i.op = "tid" -> Scalar([seq EXCEPT !.val = <<x.block, x.thread>>], toStore)
          [] i.op = "mark" -> Scalar([seq EXCEPT !.val = Append(@, i.mark)], toStore)
          [] i.op = "branch" -> Scalar(IF ScalarHolds(i, x) THEN [x EXCEPT !.pc = i.target] ELSE seq, toStore)
          [] i.op = "jump" -> Scalar([x EXCEPT !.pc = i.target], toStore)
          [] i.op = "call" -> Scalar([x EXCEPT !.pc = i.target, !.ra = x.pc + 1], toStore)
          [] i.op = "return" -> Scalar([x EXCEPT !.pc = x.ra], toStore)
          [] i.op = "ecall" -> Scalar([x EXCEPT !.pc = i.target, !.mepc = x.pc], toStore)
          [] i.op = "mret" -> Scalar([x EXCEPT !.pc = x.mepc], toStore)
          [] i.op = "skip" -> Scalar([seq EXCEPT !.mepc = @ + 1], toStore)
          [] i.op = "load" -> Scalar([seq EXCEPT !.val = Scalar(partner, TRUE).val], toStore)
          [] i.op = "store" /\ i.at = "global" -> Scalar([seq EXCEPT !.result = x.val], toStore)
          [] OTHER -> Scalar(seq, toStore)

Block == IF Kernel THEN {b \in (0 .. 7) \X (0 .. 7) \X (0 .. 7) : \A x \in Axis : b[x] < launch.grid[x]}
         ELSE {Zero}
Expected == [x \in Block \X (0 .. launch.blockSize - 1) |-> Scalar(ScalarStart(x[1], x[2]), FALSE).result]

-----------------------------------------------------------------------------
(* Properties *)

(* Core.validate, which every entry point of the core calls first, never   *)
(* fails: slot and canonical warp state agree, a participating warp has a  *)
(* CTA and barrier metadata exists only in a barrier block (core.go,       *)
(* validateSlot).                                                          *)
SlotsValid ==
    \A w \in Warp :
        LET s == slots[w] IN
        /\ s.part => OwnerOf(w) # {}
        /\ s.why # "barrier" => ~s.wait /\ ~s.drain /\ s.key = NoKey
        /\ ~(s.wait /\ s.drain)
        /\ s.part = (s.life # "inactive")
        /\ (s.why = "none") = (s.life # "blocked")
        /\ (s.life \in {"runnable", "blocked"}) = arch[w].running
        /\ arch[w].running = (arch[w].mask # {})

(* The waiters of a barrier record are exactly the warps parked on it: a   *)
(* release wakes everyone it should and no warp is left parked on a record *)
(* that forgot it (coordinateBarrier, CompleteBarrierEvent, reclaim).      *)
WaitersExact ==
    /\ \A key \in DOMAIN bars : bars[key].waiters = Waits(slots, key)
    /\ \A w \in Warp : slots[w].wait => slots[w].key \in DOMAIN bars

(* A launch ValidateLaunch accepts runs a well-formed program without any  *)
(* error: no cluster is stuck outside an empty core, no barrier request is *)
(* rejected and no divergence record is missing.                           *)
NoFault == outcome = "fault" => launch.faulty

(* Two resident CTAs never share a word of local memory, and no CTA        *)
(* reaches outside it (allocateFromIntervals).                             *)
LocalDisjoint ==
    \A c \in Resident :
        /\ Cta(c).offset + Cta(c).size <= LocalSize
        /\ \A d \in Resident \ {c} :
               \/ Cta(c).offset + Cta(c).size <= Cta(d).offset
               \/ Cta(d).offset + Cta(d).size <= Cta(c).offset

(* The tables of the core agree with each other: the three facts above.    *)
TablesAgree == SlotsValid /\ WaitersExact /\ LocalDisjoint

(* A completed run leaves in global memory what each thread of each block  *)
(* computes on its own: divergence, masks, re-entry of a used warp, local  *)
(* memory, barriers and thread coordinates are invisible in the result.    *)
KernelResult == outcome = "complete" => out = Expected

(* A store happens for all its lanes or for none: when it faults, at       *)
(* whichever lane and in whichever phase, registers, PC and every word of  *)
(* local and global memory are what they were before its first read, and   *)
(* when it retires every lane's word holds the lane's value (prepareStore, *)
(* writeStores, WriteBatch, writeLocalWithExternal, CommitWithExternal).   *)
StoreAllOrNothing ==
    [][store # NoStore /\ store' = NoStore =>
           IF outcome' = "fault" THEN <<arch, lmem, out, bars>>' = store.image
           ELSE \A l \in DOMAIN store.access :
                    LET x == store.access[l]
                    IN  store.before.val[l] =
                            IF x[1] = "local" THEN lmem'[Backing(store.warp, x)]
                            ELSE out'[<<Cta(CtaOf(store.warp)).block, x[2]>>]]_vars

(* While splits and joins pair up, the divergence stack nests, so SPLIT    *)
(* always finds a free row, and is empty when a warp is handed to the next *)
(* CTA (stageDivergence; Launch does not reset it).                        *)
DivergenceNested ==
    launch.faulty \/ \A w \in Warp :
        LET a == arch[w] IN
        /\ Cardinality(a.mask) + Len(a.stack) <= NumLanes
        /\ \A k \in DOMAIN a.stack :
               /\ a.mask \subseteq a.stack[k].orig
               /\ \A j \in 1 .. k - 1 : a.stack[k].orig \subseteq a.stack[j].orig
                                        /\ a.stack[k].orig # a.stack[j].orig
        /\ ~a.running => a.stack = <<>>

(* What the programs compute: the result of every thread, by way of a      *)
(* properly nested divergence stack.                                       *)
ComputesRight == KernelResult /\ DivergenceNested

(* The kernel driver is a grid launch: CTAs become resident in grid order, *)
(* their ranks start once each and a CTA completes after all its ranks.    *)
NumAt(n) == {c \in CtaId : resident[c] = {n}}
PhaseOf(n) == IF NumAt(n) # {} THEN "resident"
              ELSE IF n >= walker.emitted \/ \E k \in DOMAIN pending : pending[k].num = n
                   THEN "waiting" ELSE "done"
RunOf(n, r) ==
    CASE PhaseOf(n) = "waiting" -> "idle"
      [] PhaseOf(n) = "done" -> "finished"
      [] OTHER -> IF slots[Cta(CHOOSE c \in NumAt(n) : TRUE).members[r + 1].warp].life = "finished"
                  THEN "finished" ELSE "running"

GridShape == [totalCTAs |-> IF Kernel THEN TotalCTAs(launch) ELSE 0,
              warpsPerCTA |-> WarpsPerCTA(launch)]
Grid == INSTANCE GridLaunch WITH
    shape <- GridShape,
    phase <- [n \in 0 .. GridShape.totalCTAs - 1 |-> PhaseOf(n)],
    run <- [n \in 0 .. GridShape.totalCTAs - 1 |-> [r \in 0 .. GridShape.warpsPerCTA - 1 |-> RunOf(n, r)]]
FunctionalGrid == Grid!Spec

(* Every launch of a well-formed program completes, however the budget     *)
(* cuts the Run calls: waits for LSU drain, prior work, barrier events,    *)
(* single activity and explicit blocks all end.                            *)
RunCompletes == launch.faulty \/ <>(outcome = "complete")
=============================================================================
