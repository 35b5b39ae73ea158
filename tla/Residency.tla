----------------------------- MODULE Residency -----------------------------
(***************************************************************************)
(* CTA residency and warp dispatch of one kernel launch: the loop body of  *)
(* Kernel.Run (timing/runner/kernel.go), which runs residency() on the     *)
(* state left by the previous edge and then one MultiRunner.step followed  *)
(* by the post-edge callback (kernel_dispatch.go, runner/cta.go,           *)
(* emu/core/residency.go, the scheduler's launch, TMC, WSPAWN and wake     *)
(* feedback).  "at" names which half of the loop body runs next.           *)
(*                                                                         *)
(* A Go pointer that may be nil is a set with at most one element.  An     *)
(* error returned by the code sets "fault", which ends the run.            *)
(*                                                                         *)
(* Programs are legal ones: every rank executes its barriers and then      *)
(* TMC 0, WSPAWN names warps of the pool the code binds at decode, and a   *)
(* barrier is addressed through a participating warp.                      *)
(***************************************************************************)
EXTENDS Integers, Sequences, FiniteSets, FiniteSetsExt

CONSTANTS NumWarps,      \* physical warps (4 in the frozen configuration)
          NumSlots,      \* CTA slots (4)
          Depth,         \* edges between an activation and a control signal
          Launches       \* the launches to consider

Warp == 0 .. NumWarps - 1
Slot == 0 .. NumSlots - 1

ASSUME MachineAssumption ==
    /\ NumWarps \in Nat \ {0} /\ NumSlots \in Nat \ {0} /\ Depth \in Nat /\ Depth >= 2
ASSUME LaunchAssumption ==
    \A l \in Launches :
        /\ l.warpsPerCTA \in 1 .. NumWarps /\ l.usable \in 1 .. NumSlots
        /\ l.clusterSize \in 1 .. l.usable /\ l.totalCTAs \in Nat \ {0}
        /\ l.totalCTAs % l.clusterSize = 0
        /\ l.barRanks \subseteq 0 .. l.warpsPerCTA - 1 /\ l.maxSpawns \in Nat
        /\ l.traced \in BOOLEAN  \* one instruction tail is followed

VARIABLES
    grid,            \* the launch, fixed when the kernel is created
    at,              \* "residency" or "edge"
    remaining,       \* CTAs the grid walker has not generated
    pending,         \* the generated CTA waiting for a slot
    dispatch,        \* the DISPATCH state: slot, selected warp, warps used
    resident,        \* the CTA of every slot
    gen, warpGen,    \* generations of slots and of warp bindings
    tail,            \* next slot the dispatcher tries
    retirePipe,      \* two registers between TMC 0 and the rank's bit
    retirementWrite, \* the table's write port is taken this edge
    active,          \* warps the scheduler runs
    launch,          \* the warp launched on the next edge
    singleActive,    \* registered "one warp active"
    spawn, spawned,  \* WSPAWN in flight per warp; how many were decoded
    age,             \* edges since activation, up to Depth
    met,             \* warps whose rank has passed its barrier
    arrived,         \* barrier arrivals per slot
    blocked,         \* warps waiting in a barrier
    releases,        \* wakes queued for the next edge
    contextWrites, contextReady,
    token,           \* one instruction in flight and its binding
    localOwners,     \* LMEM leases by warp binding
    hardwareDone,
    fault

dispatchVars == <<remaining, pending, dispatch, gen, warpGen, tail>>
schedulerVars == <<active, singleActive, spawn, spawned, arrived, blocked, releases>>
retireVars == <<retirePipe, retirementWrite, token, hardwareDone>>
vars == <<grid, at, dispatchVars, resident, schedulerVars, retireVars, launch, age, met,
          contextWrites, contextReady, localOwners, fault>>

WarpsPerCTA == grid.warpsPerCTA
ClusterSize == grid.clusterSize
TotalCTAs == grid.totalCTAs
Usable == grid.usable        \* slots the LMEM of this launch leaves usable
BarRanks == grid.barRanks    \* ranks that meet once at a sync barrier
MaxSpawns == grid.maxSpawns  \* WSPAWN instructions decoded in a run
Rank == 0 .. WarpsPerCTA - 1
CTA == 0 .. TotalCTAs - 1

Opt(S) == {t \in SUBSET S : \A x, y \in t : x = y}
The(S) == CHOOSE x \in S : TRUE

Cta == [cta : CTA, dispatched : 0 .. WarpsPerCTA, retired : SUBSET Rank,
        members : SUBSET (Warp \X Rank)]
Retirement == [slot : Slot, gen : 0 .. TotalCTAs, rank : Rank]

(* The identity of a warp's binding: <<slot, rank>>, if it has one. *)
ViewForWarp(res, w) ==
    {sr \in Slot \X Rank : \E c \in res[sr[1]] : <<w, sr[2]>> \in c.members}
SlotOf(w) == {v[1] : v \in ViewForWarp(resident, w)}
RankOf(w) == {v[2] : v \in ViewForWarp(resident, w)}

BarrierPending(s) == arrived[s] # {}

(* A warp can be dispatched when neither the scheduler nor its canonical   *)
(* owner holds it; the owner runs exactly while active or launching.       *)
Running == active \cup launch
WarpDispatchable(w) == w \notin Running

Init ==
    /\ grid \in Launches
    /\ at = "edge"
    /\ remaining = TotalCTAs /\ pending = {} /\ dispatch = {}
    /\ resident = [s \in Slot |-> {}]
    /\ gen = [s \in Slot |-> 0] /\ warpGen = [w \in Warp |-> 0]
    /\ tail = 0
    /\ retirePipe = <<{}, {}>> /\ retirementWrite = FALSE
    /\ active = {} /\ launch = {} /\ singleActive = FALSE
    /\ spawn = [w \in Warp |-> {}] /\ spawned = 0
    /\ age = [w \in Warp |-> 0] /\ met = {}
    /\ arrived = [s \in Slot |-> {}] /\ blocked = {} /\ releases = {}
    /\ contextWrites = {} /\ contextReady = {}
    /\ token = {} /\ localOwners = {}
    /\ hardwareDone = FALSE /\ fault = FALSE

-----------------------------------------------------------------------------
(* residency(): reclaim finished slots, then one state of the dispatch FSM *)

(* Mutant: a CTA is reclaimed once dispatched, finished or not. *)
ReclaimableOnDispatch(s) ==
    /\ \E c \in resident[s] : c.dispatched = WarpsPerCTA
    /\ ~BarrierPending(s)

(* Mutant: a CTA waits until its warps have been handed to another one. *)
ReclaimableUnbound(s) ==
    /\ \E c \in resident[s] : c.dispatched = WarpsPerCTA /\ c.retired = Rank /\ c.members = {}
    /\ ~BarrierPending(s)

Reclaimable(s) ==
    /\ \E c \in resident[s] : c.dispatched = WarpsPerCTA /\ c.retired = Rank
    /\ ~BarrierPending(s)

Reclaimed == [s \in Slot |-> IF Reclaimable(s) THEN {} ELSE resident[s]]

(* The lowest warp that is free, not yet used for this CTA and not held by *)
(* a pending barrier; read before the registered selection fires.          *)
Candidate(res, d) ==
    LET free == {w \in Warp \ d.mask : /\ WarpDispatchable(w)
                                       /\ \A v \in ViewForWarp(res, w) : ~BarrierPending(v[1])}
    IN  {w \in free : \A v \in free : w <= v}

(* DetachWarp then BindWarp: the candidate moves to the CTA being          *)
(* dispatched, as its next rank.                                           *)
Bind(res, s, rank, w) ==
    [t \in Slot |-> {[c EXCEPT !.members = {m \in @ : m[1] # w} \cup
                                           (IF t = s THEN {<<w, rank>>} ELSE {})] : c \in res[t]}]

(* DispatchWarp refuses a warp in use, DetachWarp one whose CTA has a      *)
(* pending barrier, BindWarp a rank already bound.                         *)
DispatchError(d, c, rank, selecting) ==
    \/ \E m \in d.selected : ~WarpDispatchable(m)
    \/ \E w \in selecting : \E v \in ViewForWarp(Reclaimed, w) : BarrierPending(v[1])
    \/ selecting # {} /\ (rank >= WarpsPerCTA \/ \E m \in c.members : m[2] = rank)

(* DispatchWarp for the registered selection, and its context write.       *)
Fire(selected) ==
    /\ launch' = selected
    /\ age' = [w \in Warp |-> IF w \in selected THEN 0 ELSE age[w]]
    /\ met' = met \ selected
    /\ contextReady' = contextReady \ selected
    /\ contextWrites' = contextWrites \cup
                            {[warp |-> w, gen |-> warpGen[w], left |-> 2] : w \in selected}

DispatchStep ==
    /\ at = "residency" /\ ~fault /\ dispatch # {}
    /\ LET d == The(dispatch)
           c == The(Reclaimed[d.slot])
           rank == c.dispatched + Cardinality(d.selected)
           res == [Reclaimed EXCEPT ![d.slot] = {[c EXCEPT !.dispatched = rank]}]
           last == d.selected # {} /\ rank = WarpsPerCTA
           new == IF last THEN {} ELSE Candidate(Reclaimed, d)
       IN  /\ Fire(d.selected)
           /\ fault' = DispatchError(d, c, rank, new)
           /\ resident' = IF new = {} THEN res ELSE Bind(res, d.slot, rank, The(new))
           /\ dispatch' = IF last THEN {}
                          ELSE {[d EXCEPT !.selected = new, !.mask = @ \cup new]}
           /\ warpGen' = [w \in Warp |-> IF w \in new THEN warpGen[w] + 1 ELSE warpGen[w]]
           /\ localOwners' = localOwners \cup {<<w, warpGen[w] + 1>> : w \in new}
    /\ at' = "edge"
    /\ UNCHANGED <<grid, remaining, pending, gen, tail, schedulerVars, retireVars>>

(* Mutant: the walker hands out the grid from its end. *)
OfferedReversed == IF pending # {} THEN pending
                   ELSE IF remaining > 0 THEN {remaining - 1} ELSE {}

(* The CTA the walker offers: the one already generated, or the next.      *)
Offered == IF pending # {} THEN pending
           ELSE IF remaining > 0 THEN {TotalCTAs - remaining} ELSE {}

FirstOfCluster(c) == c % ClusterSize = 0
Base(c) == IF FirstOfCluster(c) /\ tail + ClusterSize > Usable THEN 0 ELSE tail
Width(c) == IF FirstOfCluster(c) THEN ClusterSize ELSE 1

NextTail(c) == (Base(c) + 1) % Usable

(* A cluster's first CTA waits for the whole cluster's slots; every CTA    *)
(* waits while a retirement writes the slot table.                         *)
Admissible(c) ==
    /\ ~retirementWrite
    /\ \A i \in 0 .. Width(c) - 1 : Reclaimed[Base(c) + i] = {}

IdleStep ==
    /\ at = "residency" /\ ~fault /\ dispatch = {}
    /\ remaining' = IF pending = {} /\ remaining > 0 THEN remaining - 1 ELSE remaining
    /\ \/ /\ \A c \in Offered : ~Admissible(c)
          /\ pending' = Offered
          /\ resident' = Reclaimed
          /\ UNCHANGED <<dispatch, gen, tail>>
       \/ \E c \in Offered :
              /\ Admissible(c)
              /\ pending' = {}
              /\ resident' = [Reclaimed EXCEPT ![Base(c)] =
                    {[cta |-> c, dispatched |-> 0, retired |-> {}, members |-> {}]}]
              /\ gen' = [gen EXCEPT ![Base(c)] = @ + 1]
              /\ dispatch' = {[slot |-> Base(c), selected |-> {}, mask |-> {}]}
              /\ tail' = NextTail(c)
    /\ at' = "edge"
    /\ UNCHANGED <<grid, warpGen, schedulerVars, retireVars, launch, age, met,
                   contextWrites, contextReady, localOwners, fault>>

-----------------------------------------------------------------------------
(* MultiRunner.step and the post-edge callback of Kernel.Run               *)

ExecutionComplete ==
    /\ hardwareDone /\ ~fault /\ ~retirementWrite /\ retirePipe = <<{}, {}>>
    /\ remaining = 0 /\ pending = {} /\ releases = {}
    /\ \A s \in Slot : resident[s] = {}
    /\ Running = {} /\ token = {}

(* A warp that may deliver a control signal: its program has reached it    *)
(* and it is not stalled by a barrier or a WSPAWN of its own.              *)
Ready(w) == w \in active /\ age[w] = Depth /\ w \notin blocked /\ spawn[w] = {}

MustMeet(w) == w \notin met /\ RankOf(w) \cap BarRanks # {}

(* The pool Options.Spawn binds at decode: dispatched members of the CTA.  *)
SpawnPool(w) ==
    {v \in Warp \ {w} : \E s \in SlotOf(w) : \E c \in resident[s] :
        \E m \in c.members : m[1] = v /\ m[2] < c.dispatched}

(* A WSPAWN of n warps starts the warps below n other than its own.        *)
SpawnTargets(w) ==
    {T \in {{v \in Warp \ {w} : v < n} : n \in 1 .. NumWarps} : T # {} /\ T \subseteq SpawnPool(w)}

Decodes(busy) ==
    {{}} \cup (IF spawned = MaxSpawns THEN {}
               ELSE UNION {{{[warp |-> w, targets |-> T]} : T \in SpawnTargets(w)} :
                              w \in {v \in Warp \ busy : Ready(v)}})

(* Mutant: a pending WSPAWN activates whatever else runs. *)
FiringUngated == {w \in Warp : \E p \in spawn[w] : p.armed}

(* A pending WSPAWN activates once the registered popcount is one.         *)
Firing == {w \in Warp : singleActive /\ \E p \in spawn[w] : p.armed}

(* The scheduler refuses a spawn while another warp is active, and the     *)
(* delivery refuses a target whose owner is not inactive.                  *)
SpawnError(firing) ==
    \E w \in firing :
        \/ active # {w}
        \/ \E p \in spawn[w] : p.targets \cap Running # {}

(* The next value of the tracked instruction: kept, fetched or finished.   *)
Tokens == IF ~grid.traced THEN {{}}
          ELSE IF token # {} THEN {token, {}}
          ELSE {{}} \cup {{[warp |-> w, gen |-> warpGen[w]]} : w \in active}

(* advanceRetirement: the second register writes the rank's bit, then a    *)
(* WSPAWN firing on this edge clears the bits of its targets.              *)
RetiredNext(respawned) ==
    [s \in Slot |->
        {[c EXCEPT !.retired = (@ \cup {r.rank : r \in {q \in retirePipe[2] : q.slot = s}})
                               \ {m[2] : m \in {n \in c.members : n[1] \in respawned}}]
            : c \in resident[s]}]

RetirementError ==
    \E r \in retirePipe[2] : resident[r.slot] = {} \/ gen[r.slot] # r.gen

(* commitContextWrites: an entry whose time has come is exposed, if its    *)
(* binding is still the warp's.                                            *)
ContextDue == {x \in contextWrites : x.left = 0}
ContextError == \E x \in ContextDue : warpGen[x.warp] # x.gen

(* Leases of past bindings no in-flight instruction refers to are dropped. *)
Collect(tokens) ==
    {o \in localOwners : o[2] = warpGen[o[1]] \/ \E t \in tokens : t.warp = o[1] /\ t.gen = o[2]}

(* Kernel.control for a sync barrier: the last arrival releases all.       *)
BarrierAfter(w) ==
    LET s == The(SlotOf(w))
        all == arrived[s] \cup {w}
    IN  IF Cardinality(all) = Cardinality(BarRanks)
        THEN /\ arrived' = [arrived EXCEPT ![s] = {}]
             /\ releases' = all
        ELSE /\ arrived' = [arrived EXCEPT ![s] = all]
             /\ releases' = {}

(* Mutant: a dispatch in progress does not hold completion back. *)
HardwareQuietIgnoresDispatch(activeNext, quiet) ==
    remaining = 0 /\ pending = {} /\ activeNext = {} /\ quiet

(* The completion latch of Kernel.Run's callback: nothing left to admit or *)
(* dispatch, no warp active, and the instruction tails drained.            *)
HardwareQuiet(activeNext, quiet) ==
    remaining = 0 /\ pending = {} /\ dispatch = {} /\ activeNext = {} /\ quiet

(* One clock edge.  exit is the warp whose TMC 0 is delivered, arm the     *)
(* warp whose WSPAWN executes, decode the WSPAWN decoded on this edge;     *)
(* the barrier variables and met are the calling action's.                 *)
Clock(exit, arm, busy) ==
    /\ at = "edge" /\ ~fault /\ ~ExecutionComplete
    /\ \E decode \in Decodes(busy), tok \in Tokens :
       \E quiet \in (IF token \cup tok = {} THEN {TRUE} ELSE BOOLEAN) :
         LET firing == Firing
             respawned == UNION {UNION {p.targets : p \in spawn[w]} : w \in firing}
             activeNext == ((active \cup launch) \cup respawned) \ exit
         IN  /\ active' = activeNext
             /\ singleActive' = (Cardinality(active) = 1)
             /\ spawn' = [w \in Warp |->
                    IF w \in firing THEN {}
                    ELSE {[p EXCEPT !.armed = @ \/ w \in arm] : p \in spawn[w]} \cup
                         {[targets |-> d.targets, armed |-> FALSE] : d \in {e \in decode : e.warp = w}}]
             /\ spawned' = spawned + Cardinality(decode)
             /\ age' = [w \in Warp |->
                    IF w \in active THEN Min({age[w] + 1, Depth})
                    ELSE IF w \in respawned THEN 0 ELSE age[w]]
             /\ resident' = RetiredNext(respawned)
             /\ retirementWrite' = (retirePipe[2] # {})
             /\ retirePipe' = <<UNION {{[slot |-> v[1], gen |-> gen[v[1]], rank |-> v[2]] :
                                            v \in ViewForWarp(resident, w)} : w \in exit},
                                retirePipe[1]>>
             /\ contextWrites' = {[x EXCEPT !.left = @ - 1] : x \in contextWrites \ ContextDue}
             /\ contextReady' = contextReady \cup {x.warp : x \in ContextDue}
             /\ token' = tok
             /\ localOwners' = Collect(tok)
             /\ hardwareDone' = (hardwareDone \/ HardwareQuiet(activeNext, quiet))
             /\ fault' = (\/ SpawnError(firing) \/ RetirementError \/ ContextError
                          \/ \E w \in exit : ViewForWarp(resident, w) = {})
    /\ launch' = {}
    /\ at' = "residency"
    /\ UNCHANGED <<grid, dispatchVars>>

Wake == blocked' = blocked \ releases

Tick ==
    /\ Clock({}, {}, {}) /\ Wake
    /\ releases' = {} /\ UNCHANGED <<arrived, met>>

Tmc(w) ==
    /\ Ready(w) /\ ~MustMeet(w)
    /\ Clock({w}, {}, {w}) /\ Wake
    /\ releases' = {} /\ UNCHANGED <<arrived, met>>

Bar(w) ==
    /\ Ready(w) /\ MustMeet(w)
    /\ BarrierAfter(w)
    /\ Clock({}, {}, {w})
    /\ blocked' = (blocked \ releases) \cup {w}
    /\ met' = met \cup {w}

WspawnExecute(w) ==
    /\ \E p \in spawn[w] : ~p.armed
    /\ Clock({}, {w}, {}) /\ Wake
    /\ releases' = {} /\ UNCHANGED <<arrived, met>>

(* Run returns without an edge once the launch is complete, or failed.     *)
Return ==
    /\ ExecutionComplete \/ fault
    /\ UNCHANGED vars

Next ==
    \/ DispatchStep \/ IdleStep \/ Tick \/ Return
    \/ \E w \in Warp : Tmc(w) \/ Bar(w) \/ WspawnExecute(w)

Spec == Init /\ [][Next]_vars

-----------------------------------------------------------------------------
(* Properties *)

(* Every variable stays in its type. *)
TypeOK ==
    /\ grid \in Launches
    /\ at \in {"residency", "edge"}
    /\ remaining \in 0 .. TotalCTAs
    /\ pending \in Opt(CTA)
    /\ dispatch \in Opt([slot : Slot, selected : Opt(Warp), mask : SUBSET Warp])
    /\ \A s \in Slot : /\ resident[s] \subseteq Cta
                       /\ \A x, y \in resident[s] : x = y
    /\ gen \in [Slot -> 0 .. TotalCTAs]
    /\ warpGen \in [Warp -> 0 .. TotalCTAs * WarpsPerCTA]
    /\ tail \in 0 .. Usable - 1
    /\ \A i \in 1 .. 2 : retirePipe[i] \subseteq Retirement
    /\ {retirementWrite, singleActive, hardwareDone, fault} \subseteq BOOLEAN
    /\ active \subseteq Warp /\ launch \in Opt(Warp)
    /\ \A w \in Warp : \A p \in spawn[w] : p.targets \subseteq Warp /\ p.armed \in BOOLEAN
    /\ spawned \in 0 .. MaxSpawns
    /\ age \in [Warp -> 0 .. Depth] /\ met \subseteq Warp
    /\ arrived \in [Slot -> SUBSET Warp]
    /\ blocked \subseteq Warp /\ releases \subseteq Warp
    /\ contextWrites \subseteq [warp : Warp, gen : 0 .. TotalCTAs * WarpsPerCTA, left : 0 .. 2]
    /\ contextReady \subseteq Warp
    /\ token \subseteq [warp : Warp, gen : 0 .. TotalCTAs * WarpsPerCTA]
    /\ localOwners \subseteq Warp \X (0 .. TotalCTAs * WarpsPerCTA)

(* The state is well typed and no legal program reaches an error return: a *)
(* registered selection can always fire, a rank is bound once, a delayed   *)
(* retirement still finds the CTA it was captured for, a context write     *)
(* still finds its binding, and a spawn finds its targets inactive.        *)
NoFault == TypeOK /\ ~fault

(* Each physical warp has at most one binding, and every warp that runs or *)
(* is being launched has one whose rank the CTA counts as dispatched: no   *)
(* slot is reclaimed, and no warp rebound, under a running warp.           *)
RunningWarpsBound ==
    /\ \A w \in Warp : Cardinality(ViewForWarp(resident, w)) <= 1
    /\ \A w \in Running : \E s \in SlotOf(w), r \in RankOf(w) :
           \A c \in resident[s] : r < c.dispatched

(* A rank that runs is neither marked retired nor about to be: the two     *)
(* retirement registers and the registered popcount that gates WSPAWN are  *)
(* aligned, so a respawned rank's old retirement is written no later than  *)
(* the edge that clears it.                                                *)
RunningNotRetired ==
    \A w \in active : \A s \in SlotOf(w), r \in RankOf(w) :
        /\ \A c \in resident[s] : r \notin c.retired
        /\ \A i \in 1 .. 2 : ~\E q \in retirePipe[i] : q.slot = s /\ q.gen = gen[s] /\ q.rank = r

(* When a warp's program can first observe its CTA context, the two-deep   *)
(* context pipeline has written the context of its present binding.        *)
ContextOfBinding ==
    \A w \in active : age[w] = Depth =>
        w \in contextReady /\ ~\E x \in contextWrites : x.warp = w

(* An instruction in flight keeps the LMEM lease of the binding it was     *)
(* fetched under, though its warp may be bound to another CTA by now.      *)
LeaseHeld == \A t \in token : <<t.warp, t.gen>> \in localOwners

(* The hardware-done latch, once set, is final: no CTA is left to admit    *)
(* and no warp runs or will be launched.                                   *)
HardwareDoneFinal ==
    hardwareDone => /\ remaining = 0 /\ pending = {} /\ dispatch = {}
                    /\ Running = {} /\ blocked = {}

(* Once the first CTA of a cluster is admitted, the slots after it stay    *)
(* free for the CTAs of its cluster still to come: a cluster is never      *)
(* split by a CTA of another one.                                          *)
ClusterRoom ==
    \A s \in Slot : \A c \in resident[s] : FirstOfCluster(c.cta) =>
        \A i \in 1 .. ClusterSize - 1 :
            c.cta + i >= TotalCTAs - remaining - Cardinality(pending) =>
                s + i < Usable /\ resident[s + i] = {}

(* A warp blocked in a barrier is a recorded arrival of its own CTA or has *)
(* its wake queued, so no waiter is lost when warps are rebound.           *)
WaitersTracked ==
    \A w \in blocked : w \in releases \/ \E s \in SlotOf(w) : w \in arrived[s]

(* Binding, reclaiming and retirement agree with what runs: the six facts  *)
(* above together (Kernel.residency, advanceRetirement, Collect).          *)
BindingsHold ==
    /\ RunningWarpsBound /\ RunningNotRetired /\ ContextOfBinding
    /\ LeaseHeld /\ ClusterRoom /\ WaitersTracked

(* WSPAWN activates only warps still bound to the CTA of its own warp.     *)
SpawnStaysInCta ==
    [][\A w \in Warp : (spawn[w] # {} /\ spawn'[w] = {} /\ ~fault') =>
           \A p \in spawn[w] : \A v \in p.targets : SlotOf(v) = SlotOf(w)]_vars

(* The launch as its host sees it. *)
RankStatus(c, r) ==
    IF \E s \in Slot : \E x \in resident[s] : x.cta = c
    THEN LET x == The(UNION {{y \in resident[s] : y.cta = c} : s \in Slot})
         IN  IF r >= x.dispatched THEN "idle"
             ELSE IF \E m \in x.members : m[2] = r /\ m[1] \in Running THEN "running"
             ELSE "finished"
    ELSE IF c < TotalCTAs - remaining /\ c \notin pending THEN "finished" ELSE "idle"

CtaPhase(c) ==
    IF \E s \in Slot : \E x \in resident[s] : x.cta = c THEN "resident"
    ELSE IF c < TotalCTAs - remaining /\ c \notin pending THEN "done" ELSE "waiting"

Grid == INSTANCE GridLaunch WITH
            shape <- grid,
            phase <- [c \in CTA |-> CtaPhase(c)],
            run <- [c \in CTA |-> [r \in Rank |-> RankStatus(c, r)]]

(* The dispatcher implements the grid launch: grid order, rank order, each *)
(* rank dispatched once, CTAs complete only after all ranks finished.      *)
ImplementsGrid == Grid!Spec

(* Fairness: the clock keeps ticking, instruction tails drain, and among   *)
(* the warps with instructions left to execute - a barrier, a WSPAWN, the  *)
(* exit - some warp does.                                                  *)
Fairness ==
    /\ WF_vars(DispatchStep) /\ WF_vars(IdleStep) /\ WF_vars(Tick)
    /\ SF_vars(Tick /\ token' = {})
    /\ SF_vars(\E w \in Warp : Tmc(w) \/ Bar(w) \/ WspawnExecute(w))
FairSpec == Spec /\ Fairness

(* Two warps execute WSPAWN at once: each waits to be the only active one. *)
SpawnsWaitForEachOther ==
    \E v, w \in Warp : v # w /\ \A x \in {v, w} : \E p \in spawn[x] : p.armed

(* Every launch completes: all CTAs are admitted, dispatched, retired and  *)
(* reclaimed, and the completion latch and tails settle. The exception is  *)
(* a program in which two WSPAWNs wait for each other.                     *)
LaunchCompletes == <>(ExecutionComplete \/ SpawnsWaitForEachOther)
=============================================================================
