# Formal model of the Vortex timing simulator

TLA+ models of the Go program in `src/`, a cycle-level simulator of one frozen
Vortex GPU core (RV32, four warps of four lanes, L1 instruction and data
caches), the TLC configurations that check them on small instances, and TLAPS
proofs. `PROJECT.json` maps every definition to the lines it models.

## 1. The system

The simulator separates *when* (`timing/`) from *what* (`isa/`, `emu/`). A
clocked runner evaluates every unit of the core against the state before the
edge, commits all proposals at once, applies the functional effect of each
instruction at the edge where the hardware would, and steps the memory
hierarchy. A kernel object above it hands the CTAs of a grid to the four warps.

| Part | State | Operations that change it |
| --- | --- | --- |
| Cache bank (`timing/memsys/cache_bank.go`, `cache_mshr.go`, `cache_array.go`) | two pipeline registers, MSHR table and chain head, lines and FIFO pointers, response and memory queues, reset scan, flush sequencer, forwarding window | one `step` per edge |
| Cache wrapper (`cache.go`) | crossbar and response queues, bypass, flush control | one `Step` per edge |
| SIMD path (`split.go`, `coalescer.go`, adapters, `local_memory.go`, `dcache_port_buffer.go`, `system.go`) | request and response buffers, slots, reassembly records | one `Step` per edge |
| Backends (`backend.go`, `external.go`) | queue in flight, client pointer, held offers, sticky write error | `Step`; `PreviewResponses` only reads |
| Front end (`timing/model/scheduler.go`, `fetch.go`, `frontend.go`, `uop.go`) | active, stalled and parked warps, fetch counters, tags, instruction buffers | edge, feedback, `DispatchWarp`, cancel, restart |
| Issue (`scoreboard.go`, `operands.go`, `dispatch.go`) | staging, reservations, credits, collector, dispatch queues | edge, cancel |
| Execution (`alu.go`, `lsu.go`, `sfu.go`, `fpu.go`, `commit.go`, `accounting.go`) | pipelines, divider, tags, fence lock, pending list | edge, cancel |
| Runner (`timing/runner/multi.go`, `release.go`, `cancel.go`, `restart.go`) | blocked warps, queued releases, cancelled warps, receipts, epoch | `Run`, `Release`, `Cancel`, `Restart`, `Flush` |
| Runner memory (`memory_system.go`, `cache_flush.go`, `visibility.go`, `power.go`) | offered requests, tokens by identity, tombstones of cancelled requests | edge, cancel, `MakeVisible`, `FlushCaches` |
| Kernel (`kernel.go`, `kernel_dispatch.go`, `emu/core/residency.go`) | grid walker, CTA slots and generations, dispatch FSM, retirement pipe, barriers, leases | `Run`, `NextLaunch`, `MakeVisible` |
| Effects (`timing/effects`, `emu/state`) | receipts per instruction, control frontier, deadlines | observe, deliver, reap, reset |
| Functional core (`emu/core`, `emu/device`) | warp lifecycles, CTA table, barrier records | step, admit, reclaim, barrier stage and commit |
| Runtime device (`integration/vortexruntime`) | busy and latch, launch registers, last error | `Start`, `Busy`, `flush`, `Close` |

What is hard here is not any single unit but what happens between edges and
between units. Registered decisions are used one edge after they were computed.
Credits are taken in one unit and returned in another. Memories stall and answer
out of order. A cancellation removes instructions from the middle of the
pipeline. Warps are rebound to a new CTA while old instructions drain.
`PROJECT.json` lists these hazards with the line where each bites.

## 2. Modules

| Module | Models |
| --- | --- |
| `CacheMshr`, `CacheBank` | one L1 bank with its MSHR table and data array |
| `CacheBankProofs`, `CacheBankCredit` | theorems about the bank |
| `MemoryOps`, `ExternalMemory` | what a memory request does; the abstract memory a backend promises to be |
| `Backend`, `AsyncBackend`, `ExternalBackend` | the fixed-latency backend, the one behind a DRAM library, and either of them |
| `LanePath`, `LocalPath`, `GlobalPath` | requests, lanes and queues of the data memory path; its local and its global branch |
| `MemoryPath` | the branches composed on one edge, with the split before them and the runner's binding |
| `GridLaunch` | the abstract launch: CTAs in grid order, every rank dispatched once |
| `Residency`, `ResidencyProofs` | the kernel dispatcher; theorems about it |
| `PipeParts` | tokens, elastic buffers, shift pipelines, cancellation filters |
| `Frontend`, `Issue`, `Execute` | the three parts of the core |
| `Pipeline` | the parts composed on one edge, with the runner around them |
| `Effects` | how instructions in flight become visible in the canonical state |
| `WarpState`, `BarrierRecords`, `CtaManager` | warp state and control instructions; barrier records; launch validation, grid walk, local memory and coordinates |
| `FunctionalCore` | the functional machine built of these, under both of its drivers |
| `RuntimeDevice`, `RuntimeDeviceProofs` | the native runtime's device with its host threads; theorems about it |
| `MC*` | instances for TLC |

Conventions. A nilable Go pointer, or a `Signal` with a valid bit, is a set with
at most one element. An error return sets `fault`, after which nothing moves, so
`NoFault` says no error path is reachable. Where a definition is followed by a
variant commented *Mutant*, the variant is a plausible bug that makes the
property named in `PROJECT.json` fail.

### Cache bank

One step is one clock edge. The six `Select...` actions are the arms of the
selection in `cacheBank.step`: reset scan, replay, refill, flush, core request,
or nothing. `Edge` is everything the edge does besides. Whether the response and
the memory request at the queue heads are taken is the environment's choice. The
next level (`NextLevel`, external) applies writes and answers reads in any order.
A line holds one datum: a store writes its own number, and a load remembers in
`sees` the newest store accepted before it, so lost, duplicated and misordered
data are all visible. `relaxed` names the lines excepted from `ProgramOrder`:
those where a request was accepted while the line's own miss chain was being
forwarded, and those with a failed store. The repository leaves the order of new
hits against older chained requests open (`cache_bank_test.go:141-143`,
`u-t12-cache-hit-order`). What it does claim, that forwarded reads sample the
staged sector unmodified, `ProgramOrder` states of every line.

### Backends

An edge receives an offer per client and a readiness per client and returns
acceptances and replies, as `Step` does. `ExternalBackend` chooses in `Init`
which backend is behind the interface. `ImplementsMemory` is a refinement: with
the contents, the sticky write error and the unanswered requests as the abstract
state, every edge is one step of `ExternalMemory` or a stutter. The DRAM library
is the environment: it acknowledges every submitted transfer once, in any order.

### Kernel dispatcher

`Residency` alternates the two halves of the loop in `Kernel.Run`: `residency()`
on the state of the previous edge (`DispatchStep`, `IdleStep`), then the edge
with the callback after it (`Tick`, or `Tmc`, `Bar`, `WspawnExecute` when a
warp's control signal arrives at that edge). The launch is a variable chosen in
`Init`, so one run covers several launches. Programs are legal ones: each rank
meets its barrier, if it has one, and then exits. Code started by a WSPAWN
executes no barrier. Cancellation and restart are modelled in `Pipeline`, not
here. One traced instruction token stands for the tails that outlive a binding.

### Core pipeline

`Clock` is one `MultiRunner.step`. It samples the old outputs, forms the
scheduler feedback, computes the readiness of all units backwards from commit,
and moves every unit at once. `Release`, `DispatchWarp`, `Cancel` and `Restart`
are the calls that may come between two edges. The environment chooses whether
the instruction and data memories are ready and which outstanding request they
answer, in any order, a SIMD load in pieces. Instructions are records (path,
source registers, registers written, uops, control kind). Programs and the
number of cancellations are chosen in `Init`.

Abstracted or left out:

- PCs, masks and data are not carried. `tmc` is the TMC that ends a warp; a TMC
  with a non-zero mask behaves as `split` does.
- Two of the four FPU paths are modelled; they differ in depth only.
- Unit locks have no effect: the decoder sets lock and unlock together.
- `Cancel` always reaches to the newest instruction of the warp. `Restart` keeps
  the owner's activity.
- A cancelled request's late answer is dropped by the environment; the
  bookkeeping that does so is in `MemoryPath`.
- A barrier instruction waits for the LSU request queue and tags only, as the
  code does. An older store blocked before that queue is not waited for.
- WSPAWN is modelled in `Residency`.
- With `RestartWaiting = FALSE`, as in the `pipeline` run, the caller restarts no
  warp that waits at a barrier (`Restartable`). The code accepts that call; run
  `pipeline_restart` makes it, and finding 2 says what happens.

### Data memory path

`Clock` is one edge of the data half of `System.Step` with the runner's binding
around it. A SIMD request is split into a global and a local subset. The global
one is coalesced into batches, unpacked onto the two D-cache ports and answered
block by block. The local one fans out to the banks through one crossbar and
comes back through another. `Cancel` removes a request from the core while its
transport goes on. The environment chooses when the LSU has a request and takes
a response. The value of a cell is the request and lane that wrote it, so lost,
repeated and misordered lanes are all visible.

The D-cache (`cache.go` and the banks) is abstracted. It accepts or stalls, and
serves accepted words in any order, also words of one line, because a hit may
pass an older miss. On one edge a port gets at most one load reply, and any
number of stores may be applied. `LoadLatency` is the number of edges a load
waits at least; a hit in `cache.go` needs 3 more than the model's own registers.
`memorypath` uses 0, which allows every real schedule and more, and
`memorypath_mixed` uses 3. The order of global words is therefore the
bank's matter (`ProgramOrder`), and `OwnOrder` speaks of local words only.

A store in which lanes of both coalescing groups write one global word has no
defined order; the split refuses it (`UnresolvedStore`), and no traffic contains
one. The repeated check at the coalescer, which can then not fail, and the
refusal of mixed cacheability within a word are left out.

Left out: cacheability, `NoMerge` (the runner never sets it), byte enables, data errors that travel with answers, flush and fence
words (the host flushes a drained system), the fetch side, the report-only
`rtlMixedHazard` flag, re-checks that a stalled producer repeats its payload, and
the tag capacity of the LSU (the traffics hold at most four requests).

### Effects

The pipeline is the environment here. At every edge it reports a set of events
that keeps the order a correct pipeline guarantees, which `Pipeline` is checked
for: in-order issue, in-order execution per unit, fetch stalled behind control.
`Effects` samples operands, applies register, flag, CSR, memory and control
groups as they are reported, keeps the control frontier of each warp and reaps
receipts. Values are terms over the instruction that made them. A CSR request is
read and written again on every edge on which it is held, so a held one reads its
own write (`adapter.go:216-237`); `held` records which were. When a CSR request
meets flags or a trap of its warp, the two are one transaction (`DeliverCsr`,
`JointFlags`, `JointTrap`), and a BAR.arrive of that warp is delivered before it
(`Joint`, `Rank`, `Remaining`). `gold` executes every instruction at once in
decode order, for every set of held requests, and is the reference.

Left out: packed loads; operand reads over several edges (an instruction has one
source register); CSR accesses to FCSR and FFLAGS, whose order with flags in
flight is the hardware's; cancellation. The memory system is taken to keep the
order of accesses to one word (`Serviceable`, external).

### Functional machine

`FunctionalCore` is one thread of control, `at` says where in the loop body it
stands. Its drivers are `KernelExecution.Run`, which walks a grid, and
`Core.Run` on a static CTA. The program and launch are chosen in `Init`; pending
bits of the read context, step budgets, barrier events and host blocks are the
environment's. A store takes several steps: the reads of all lanes, the check of
the local words against each other, the check of the global batch, the copy of
the words one lane at a time, global ones first, and the commit. Reads and checks
may fail, which puts the warp's state back (`RollBack`); `StoreAllOrNothing`
compares the end with the state before the first read. ECALL and MRET commit and
end the `Run` call with a trap outcome. `ScalarStart` and the operators after it execute one thread alone
with no masks, SPLIT, JOIN or barriers: the reference for `ComputesRight`.
`ValidateLaunch` is evaluated on every launch of the instance. `FunctionalGrid`
is a refinement of the same `GridLaunch` that the timing dispatcher implements.

### Runtime device

Each action of `RuntimeDevice` is one critical section of `Device.mu`, one audit
write or one stretch of kernel work. Between them any other thread may run. A
call looks its handle up first and goes on with that device even if it is closed
meanwhile. Audit writes, launches and both stages of the flush may fail. Memory
is one word of code, one of input and one of output, with the cached copies. The
host uploads only to an idle, flushed device: nothing in the code orders uploads
with a launch, the native runtime does.

`Completed` is what `FlushCaches` requires of a kernel, `Transferable` what
`NextLaunch` does. A failed runner makes its kernel fail, the kernel taken over is
dropped, and one clock drives runner and memory system, so the `runner.failed`,
`transferred` and clock checks have no state of their own. The loop around
`Run(stepChunk)` is unbounded; a chunk that ends on its budget changes nothing in
the model.

## 3. Runs

| Run | Instance | Shows |
| --- | --- | --- |
| `bank_data` | write-back, two lines in conflict for one way, two MSHR entries, four requests, refills may fail | nothing is lost or answered twice; stores survive eviction, refill and failure; program order |
| `bank_live` | two ways, three requests, one flush at any edge, also during the reset scan | a flush leaves nothing behind and ends; every request is answered |
| `backend` | either backend, two clients, a good and a refused sector, two banks | refinement, honest previews, stable replies, fairness, ticket order |
| `residency_grid` | four warps, three launches: CTAs of three ranks with a barrier, clusters of two, one CTA with two WSPAWNs | refinement of `GridLaunch`; bindings, contexts, leases and completion stay right; every launch completes |
| `residency_handoff` | three warps, two CTAs in flight, one WSPAWN | finding 1 |
| `pipeline` | two warps, nine programs of three or four instructions, a cancellation in three of them; one warp with three programs of eight | reservations, credits, fetch counters and the pending list agree with what is in flight; nothing passes a control instruction; the core becomes idle |
| `pipeline_restart` | restarts also of warps that wait at a barrier | finding 2 |
| `functional` | four warps of four lanes, twelve programs in sixteen launches, some of them faulty | every thread computes what it computes alone; CTA, warp and barrier tables agree; a store happens for all its lanes or none; refinement of `GridLaunch`; completion |
| `device` | two host threads, both modes, two launches, one upload | one owner at a time, truthful results, no lost error, every launch published |
| `effects` | two warps of two lanes, seven programs, three instructions in flight | nothing correct is refused; the drained state is the in-order one but for what a held CSR reads; the frontier never moves back; receipts end |
| `memorypath` | four lanes, four banks, five traffics of two to four requests, one cancellation | no broken protocol, every lane applied and reported once, order of a lane's local words, everything drains |
| `memorypath_mixed` | three conflicting local loads, then a mixed load; load latency of a hit | finding 3 |

**Bounds.** `MshrSize`, queue sizes, `Limit`, `IBufSize` and the latencies are
the smallest values at which the structure can be full, contended and bypassed.
An MSHR of two lets a miss chain while its predecessor leaves. A memory queue of
three is one more than the bank latency, the smallest that accepts anything.
`Limit = 2` is the smallest at which the registered eligibility admits an issue.
`IBufSize = 2` fills with eight instructions. Instances were probed
for the cases that matter: credits at the limit, two units contending for
commit, a blocked LSU slice, a full instruction buffer with a response waiting,
a restart followed by fetches, two feedbacks on one edge. In the memory path two
coalescer slots, queues of two and four lanes in one bank fill every queue, and a
mixed store may be applied on one branch while it waits on the other. In the
functional run a cluster of two just fits the local memory, a grid has more CTAs
than warps, and a loop bound differs between lanes. Two host threads are enough
for a call to overtake a launch, a flush and a Close; section 4 removes the
bound. `MaxReq`, `MaxFlush`,
`MaxId`, `MaxTx`, `Budget`,
`MaxLaunch`, `MaxUpload`, `MaxEvents` and `MaxBlocks` bound what the environment asks for in one
behaviour. The one narrow counter of the code, the 3-bit fetch counter, keeps
its width.

**Fairness.** The clock always ticks: `Run` is a loop. Beyond that:

- Bank: a waiting response and a waiting memory request are eventually taken
  (weak), and a refill at the head of its queue is not passed over for ever
  (strong). Requests are bounded, so the liveness results do not say what happens
  under an endless stream of new requests.
- Backend: receivers become ready, and the DRAM library acknowledges.
- Residency: each warp's program reaches its barrier, WSPAWN and exit. This is
  strong because the control port is shared.
- Pipeline: again and again there is an edge at which the memories are ready and
  answer, and a waiting barrier is released.
- Memory path: again and again there is an edge at which the core takes what it
  is shown and offers its next request, and the D-cache takes and serves a word
  of each port.
- Effects: the pipeline keeps reporting (weak fairness of the whole edge).
- Functional machine: the loop runs, the caller calls `Run` again, and the pending
  bits drain, events complete and blocked warps are resumed (strong, because a
  step of the loop can disable them).
- Device: goroutines and threads inside a call keep running, and every kernel
  terminates. The code bounds no launch, so this is an assumption on programs. No
  host call need ever be made.

**Deadlock** is checked in every run. `Residency` has an explicit `Return` step,
because `Run` returns once the launch is complete, and `RuntimeDevice` an `Ended`
step after Close; the other clocks tick for ever.

## 4. Proofs

### The cache bank

Four theorems, for every geometry, table size, queue size and latency allowed by
`MshrAssumption` and `BankAssumption`.

- `TypeCorrect` (`CacheBankProofs`): `Spec => []TypeOK`. `TypeOK` is inductive
  because it also says that a valid tag names a line and that a walking flush
  stays inside the array. Each part of the edge has its lemma: MSHR step, array
  step, victim, commit, queues, flush. `StepIsEdge` reduces the six actions to
  one edge with a typed selection.
- `MemoryQueueNeverStalls` (`CacheBankCredit`): the pipeline never stalls on the
  memory queue. `MemoryNeverStalls` is not inductive. `MemoryCredit` is: queued
  requests, plus the push s1 will make, plus the one s0 may make, fit. A
  read-only bank moreover has nothing dirty, so its refills push nothing.
- `ReservedIsExact`: as long as no edge has ended in an error, `reserved` counts
  the live MSHR entries plus the request in s0. The invariant is `ReservedInv`;
  `ValidAfter` says which entries are live after an edge.
- `AllocationFindsSpace`: a request leaving s0 finds its registered slot free,
  because acceptance was limited by `reserved` and the registered `ready` and
  `free` describe the table exactly. In the runs this is part of `NoFault`, as
  an allocation without space is an error of `cacheMSHR.step`.

`MemoryNeverStalls` and the bank's `TypeOK` are proved and not run.

### The runtime device

Three theorems, for every set of host threads and any number of launches and
uploads; no assumption on the constants is used.

- `KernelHasOneOwner`: `Spec => []OwnershipSafe`.
- `HostSeesTheTruth`: `Spec => []HostSeesLaunch`.
- `NoErrorIsLost`: `Spec => ErrorsKept`, directly from the actions.

The first two share the inductive invariant `DeviceInv`. Neither property is
inductive: that a flush is not refused depends on how the last launch ended, and
that a result is exact depends on caches nobody looks at while the device is
idle. `DeviceInv` therefore says who may own the kernel (`Exclusive`) and what
holds of kernel, caches and memory at every place of an owner: `IdleStage`
between owners, `HostStage` inside `Start` and a flush, `TaskStage` inside the
goroutine. The argument follows the hand-over. An idle device without error has a
transferable kernel whose result is in the cache or in memory. `Start` demands
that it was flushed, so the caches are empty and the next launch reads what was
uploaded. A flush demands no error, so it meets a complete kernel. Any failure
ends in `lastError`, after which neither starts again. Lemmas `BystanderStep`,
`OwnerStep`, `OwnerLeaves` and `TaskMoves` reduce each action to the one stage it
can disturb.

### The kernel dispatcher

Two theorems, for every machine and launch allowed by `MachineAssumption` and
`LaunchAssumption`, WSPAWN included.

- `LatchIsFinal`: `Spec => []HardwareDoneFinal`. The latch looks at active warps
  only, so the invariant `LatchInv` adds that a warp blocked in a barrier or
  waiting for its WSPAWN is still active: neither can deliver TMC 0. With no
  warp active, nothing is left that could start one.
- `InstructionKeepsItsLease`: `Spec => []LeaseHeld`, a conjunct of `BindingsHold`.
  An instruction is fetched under its warp's present binding, so `LeaseInv` says
  that every warp that is active or may be made so holds the lease of that
  binding: launched, selected by the dispatcher, named by a pending WSPAWN, or a
  member of a resident CTA, from which WSPAWN takes its targets. `Dispatching`
  keeps the CTA being dispatched in its slot. The proof covers the situation of
  finding 1: a warp started after it was handed over still has its lease.

Only model-checked: all liveness, the refinements, the data properties of the
bank, the other properties of `Residency`, and everything about the backends, the
pipeline, the memory path, the effects and the functional machine. Liveness under fairness is outside
the prover's reach, and `FunctionalCore` uses recursive operators, which are too.

## 5. Findings

1. **`residency_handoff`**: a WSPAWN binds its target pool at decode and checks
   only inactivity at activation, so with two CTAs in flight it can start a warp
   that has been handed to the other CTA, which
   `docs/runtime/incremental-warp-handoff.md` excludes. `residency_grid`
   therefore spawns only in a launch of one CTA.
2. **`pipeline_restart`**: `Restart` does not look at `r.blocked`. A warp that
   waits at a barrier can be cancelled behind it and restarted, and the wake of
   the old barrier, kept by `Cancel`, is then delivered to the restarted warp.
   `model/restart.go:6-7` says no old control operation may survive to overwrite
   the restart context.
3. **`memorypath_mixed`**: a load with lanes on both paths can jam the data
   memory for good. The runner pops a response only when its request is accepted
   as a whole (`memory_system.go:111`). If the global word is answered while the
   local word still waits to enter, the answer keeps the only response register;
   local answers cannot leave, the local queues stay full and the rest of the
   request never enters. `memory_system.go:249-250` says every result is drained. It
   takes a core that leaves local answers untaken for some edges, as the LSU does
   when the stage after its tags is stalled; from then on it may take everything
   it is shown. With a core that always takes at once this traffic does not jam.
   The traffics of `memorypath` contain mixed loads, but none behind enough
   conflicting loads.

## 6. Limits of what is shown

- `FlushClean` says of a bank other than 0 that all dirty data has reached the
  next level when it reports. Bank 0 reports one edge earlier, with its last
  flush operation still in the pipeline; for it only the first conjunct speaks,
  and waiting for the tail is the cache wrapper's duty.
- The abstract memory accepts the requests of one edge in any order. The error
  paths of the DRAM driver and cycle-counter overflow are not modelled.
  `AcceptsPerCycle` is 1, so two acceptances on one edge do not occur.
- `Depth` is the number of edges between an activation and the first control
  signal; the run uses its minimum, 2, and larger depths only delay.
- Two warps that execute WSPAWN at once wait for each other for ever, because
  each waits to be the only active warp. `LaunchCompletes` excepts exactly that
  state (`SpawnsWaitForEachOther`), which the `residency_grid` run reaches.
- The runner and the scheduler each keep a parked flag. After `Cancel` keeps an
  older branch, that branch's feedback clears the runner's flag while the
  scheduler's gate stays shut, and `Restart` then refuses the warp
  (`multi.go:294`). `Pipeline` contains both flags; no run states their agreement.
- `cleanupRedirects` in `runner/release.go` never finds work in an uncancelled
  warp: that is what `ControlWaits` says. It is not modelled as an action.
- `Effects` assumes the event order that `Pipeline` guarantees; the two are not
  composed in one run. Cancellation of receipts is not in `Effects`.
- One connection error, such as a write to an unknown register, makes `Start`
  refuse every later launch of that device. That is what the code does, and
  `ErrorsKept` with `Startable` says it; whether it is wanted is not decided here.

## 7. Not modelled

- `memsys/cache.go`, the wrapper around the banks: crossbar, bypass, flush
  control. Several complete banks in one run exceed what TLC explores; the bank
  is modelled in full below it and the memory path abstracts the wrapper above.
- The fetch half of `System`, `MakeVisible`, power-on and the epoch reset
  `MultiRunner.Flush`. They reuse the ports modelled here after a fault or before
  the first launch, and every model stops at its first fault.
- Register values, IEEE arithmetic and soft floating point: pure data functions,
  meaningful only at full width.
- Traces, snapshots and performance counters: they only read.
- The timing IR reader, static checks, command lines, scripts, the reference RTL
  and vendored code.
