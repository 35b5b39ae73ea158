-------------------------- MODULE ResidencyProofs --------------------------
(***************************************************************************)
(* Two facts about a kernel launch, for every number of warps and slots    *)
(* and every set of launches: the hardware-done latch of Kernel.Run is     *)
(* final, and an instruction in flight keeps the LMEM lease it was fetched *)
(* under.                                                                  *)
(*                                                                         *)
(* The latch is final because a warp that waits in a barrier or for its    *)
(* WSPAWN is still active (WaitingIsActive): when no warp is active there  *)
(* is nothing left that could start one.                                   *)
(*                                                                         *)
(* The lease needs more.  An instruction is fetched under its warp's       *)
(* present binding, so every warp that may become active must hold the     *)
(* lease of that binding: those launched, selected by the dispatcher,      *)
(* named by a pending WSPAWN, or bound to a resident CTA, from which a     *)
(* WSPAWN takes its targets (LeaseInv).  The bindings make sense only      *)
(* while the CTA being dispatched keeps its slot (Dispatching).            *)
(***************************************************************************)
EXTENDS Residency, FiniteSetTheorems, TLAPS

-----------------------------------------------------------------------------
(* The completion latch *)

WaitingIsActive ==
    /\ blocked \subseteq active
    /\ \A w \in Warp : spawn[w] # {} => w \in active

LatchInv == WaitingIsActive /\ HardwareDoneFinal

(* One edge: what may be active, waiting or latched after it. *)
LEMMA ClockKeepsWaiting ==
    ASSUME LatchInv, NEW exit, NEW arm, NEW busy, Clock(exit, arm, busy),
           exit \subseteq busy, \A w \in exit : spawn[w] = {}
    PROVE  /\ \A w \in Warp : spawn'[w] # {} => w \in active'
           /\ active \ exit \subseteq active'
  <1> DEFINE respawned == UNION {UNION {p.targets : p \in spawn[w]} : w \in Firing}
  <1>1. PICK decode \in Decodes(busy) :
            /\ active' = ((active \cup launch) \cup respawned) \ exit
            /\ spawn' = [w \in Warp |->
                    IF w \in Firing THEN {}
                    ELSE {[p EXCEPT !.armed = @ \/ w \in arm] : p \in spawn[w]} \cup
                         {[targets |-> d.targets, armed |-> FALSE] : d \in {e \in decode : e.warp = w}}]
    BY DEF Clock
  <1>2. active \ exit \subseteq active'
    BY <1>1
  <1>3. \A e \in decode : e.warp \in active /\ e.warp \notin busy
    BY DEF Decodes, Ready
  <1>4. ASSUME NEW w \in Warp, spawn'[w] # {}
        PROVE  w \in active'
    <2>1. spawn[w] # {} \/ \E e \in decode : e.warp = w
      BY <1>1, <1>4
    <2>2. CASE spawn[w] # {}
      BY <2>2, <1>2 DEF LatchInv, WaitingIsActive
    <2>3. CASE \E e \in decode : e.warp = w
      BY <2>3, <1>2, <1>3
    <2>4. QED  BY <2>1, <2>2, <2>3
  <1>5. QED  BY <1>2, <1>4

(* Once the latch is set no edge starts a warp; an edge sets it only when  *)
(* nothing is left to admit, dispatch or run.                              *)
LEMMA ClockKeepsLatch ==
    ASSUME LatchInv, NEW exit, NEW arm, NEW busy, Clock(exit, arm, busy),
           hardwareDone'
    PROVE  /\ remaining' = 0 /\ pending' = {} /\ dispatch' = {}
           /\ active' = {} /\ launch' = {}
  <1>1. /\ launch' = {}
        /\ remaining' = remaining /\ pending' = pending /\ dispatch' = dispatch
    BY DEF Clock, dispatchVars
  <1> DEFINE respawned == UNION {UNION {p.targets : p \in spawn[w]} : w \in Firing}
  <1>2. PICK quiet \in BOOLEAN :
            /\ active' = ((active \cup launch) \cup respawned) \ exit
            /\ hardwareDone' = (hardwareDone \/ HardwareQuiet(active', quiet))
    BY DEF Clock
  <1>3. CASE hardwareDone
    <2>1. /\ remaining = 0 /\ pending = {} /\ dispatch = {}
          /\ active = {} /\ launch = {}
      BY <1>3 DEF LatchInv, HardwareDoneFinal, Running
    <2>2. Firing = {}
      BY <2>1 DEF Firing, LatchInv, WaitingIsActive
    <2>3. QED  BY <1>1, <1>2, <2>1, <2>2
  <1>4. CASE ~hardwareDone
    BY <1>1, <1>2, <1>4 DEF HardwareQuiet
  <1>5. QED  BY <1>3, <1>4

(* Every kind of edge, by what it leaves in blocked. *)
LEMMA EdgeKeepsLatchInv ==
    ASSUME LatchInv, NEW exit, NEW arm, NEW busy, Clock(exit, arm, busy),
           exit \subseteq busy, \A w \in exit : spawn[w] = {} /\ w \notin blocked,
           blocked' \subseteq active \ exit
    PROVE  LatchInv'
  <1>1. /\ \A w \in Warp : spawn'[w] # {} => w \in active'
        /\ active \ exit \subseteq active'
    BY ClockKeepsWaiting
  <1>2. WaitingIsActive'
    BY <1>1 DEF WaitingIsActive
  <1>3. HardwareDoneFinal'
    <2>1. SUFFICES ASSUME hardwareDone'
                   PROVE  /\ remaining' = 0 /\ pending' = {} /\ dispatch' = {}
                          /\ Running' = {} /\ blocked' = {}
      BY DEF HardwareDoneFinal
    <2>2. /\ remaining' = 0 /\ pending' = {} /\ dispatch' = {}
          /\ active' = {} /\ launch' = {}
      BY <2>1, ClockKeepsLatch
    <2>3. QED  BY <2>2, <1>2 DEF Running, WaitingIsActive
  <1>4. QED  BY <1>2, <1>3 DEF LatchInv

LEMMA LatchInductive == LatchInv /\ [Next]_vars => LatchInv'
  <1> SUFFICES ASSUME LatchInv, [Next]_vars
               PROVE  LatchInv'
    OBVIOUS
  <1>1. CASE DispatchStep
    <2>1. dispatch # {} /\ UNCHANGED <<active, spawn, blocked, hardwareDone>>
      BY <1>1 DEF DispatchStep, schedulerVars, retireVars
    <2>2. ~hardwareDone
      BY <2>1 DEF LatchInv, HardwareDoneFinal
    <2>3. QED  BY <2>1, <2>2 DEF LatchInv, HardwareDoneFinal, WaitingIsActive
  <1>2. CASE IdleStep
    <2>1. UNCHANGED <<active, spawn, blocked, hardwareDone, launch>>
      BY <1>2 DEF IdleStep, schedulerVars, retireVars
    <2>2. WaitingIsActive'
      BY <2>1 DEF LatchInv, WaitingIsActive
    <2>3. ASSUME hardwareDone
          PROVE  remaining' = 0 /\ pending' = {} /\ dispatch' = {}
      <3>1. remaining = 0 /\ pending = {} /\ dispatch = {}
        BY <2>3 DEF LatchInv, HardwareDoneFinal
      <3>2. Offered = {}
        BY <3>1 DEF Offered
      <3>3. remaining' = 0
        BY <3>1, <1>2 DEF IdleStep
      <3>4. pending' = {} /\ dispatch' = {}
        BY <3>1, <3>2, <1>2 DEF IdleStep
      <3>5. QED  BY <3>3, <3>4
    <2>4. HardwareDoneFinal'
      BY <2>1, <2>3 DEF LatchInv, HardwareDoneFinal, Running
    <2>5. QED  BY <2>2, <2>4 DEF LatchInv
  <1>3. CASE Tick
    <2>1. Clock({}, {}, {}) /\ blocked' \subseteq active \ {}
      BY <1>3 DEF Tick, Wake, LatchInv, WaitingIsActive
    <2>2. QED  BY <2>1, EdgeKeepsLatchInv
  <1>4. ASSUME NEW w \in Warp, Tmc(w)
        PROVE  LatchInv'
    <2>1. /\ Clock({w}, {}, {w}) /\ spawn[w] = {} /\ w \notin blocked
          /\ blocked' \subseteq active \ {w}
      BY <1>4 DEF Tmc, Wake, Ready, LatchInv, WaitingIsActive
    <2>2. QED  BY <2>1, EdgeKeepsLatchInv
  <1>5. ASSUME NEW w \in Warp, Bar(w)
        PROVE  LatchInv'
    <2>1. Clock({}, {}, {w}) /\ blocked' \subseteq active \ {}
      BY <1>5 DEF Bar, Ready, LatchInv, WaitingIsActive
    <2>2. QED  BY <2>1, EdgeKeepsLatchInv
  <1>6. ASSUME NEW w \in Warp, WspawnExecute(w)
        PROVE  LatchInv'
    <2>1. Clock({}, {w}, {}) /\ blocked' \subseteq active \ {}
      BY <1>6 DEF WspawnExecute, Wake, LatchInv, WaitingIsActive
    <2>2. QED  BY <2>1, EdgeKeepsLatchInv
  <1>7. CASE UNCHANGED vars
    BY <1>7 DEF vars, dispatchVars, schedulerVars, retireVars, LatchInv, HardwareDoneFinal,
                WaitingIsActive, Running
  <1>8. QED  BY <1>1, <1>2, <1>3, <1>4, <1>5, <1>6, <1>7 DEF Next, Return

(* The hardware-done latch is final, whatever the machine and the launch.  *)
THEOREM LatchIsFinal == Spec => []HardwareDoneFinal
  <1>1. Init => LatchInv
    BY DEF Init, LatchInv, WaitingIsActive, HardwareDoneFinal
  <1>2. LatchInv => HardwareDoneFinal
    BY DEF LatchInv
  <1>3. QED  BY <1>1, <1>2, LatchInductive, PTL DEF Spec

-----------------------------------------------------------------------------
(* The leases *)

(* The warps that hold the lease of their present binding. *)
Leased == {w \in Warp : <<w, warpGen[w]>> \in localOwners}

CtaShape(c) ==
    /\ c = [cta |-> c.cta, dispatched |-> c.dispatched, retired |-> c.retired, members |-> c.members]
    /\ c.dispatched \in Nat
SpawnShape(p) == p = [targets |-> p.targets, armed |-> p.armed]

LeaseType ==
    /\ grid \in Launches /\ tail \in 0 .. Usable - 1
    /\ warpGen \in [Warp -> Nat]
    /\ \A s \in Slot : \A c \in resident[s] : CtaShape(c)
    /\ \A w \in Warp : \A p \in spawn[w] : SpawnShape(p)
    /\ dispatch \subseteq [slot : Slot, selected : SUBSET Warp, mask : SUBSET Warp]

(* The CTA being dispatched is in its slot with a rank still to come, so   *)
(* residency() does not reclaim it; at most one warp is selected.          *)
Dispatching ==
    \A d \in dispatch :
        /\ resident[d.slot] # {}
        /\ \A c \in resident[d.slot] : c.dispatched < WarpsPerCTA
        /\ \A x, y \in d.selected : x = y

MembersLeased == \A s \in Slot : \A c \in resident[s] : \A m \in c.members : m[1] \in Leased

(* Every warp that runs or may be made to run holds its lease. *)
Holders ==
    /\ active \subseteq Leased /\ launch \subseteq Leased
    /\ \A d \in dispatch : d.selected \subseteq Leased
    /\ \A w \in Warp : \A p \in spawn[w] : p.targets \subseteq Leased
    /\ MembersLeased

LeaseInv == LeaseType /\ Dispatching /\ Holders /\ LeaseHeld

(* The bounds of a launch. *)
LEMMA LaunchBounds ==
    ASSUME grid \in Launches
    PROVE  /\ NumWarps \in Nat /\ NumSlots \in Nat
           /\ WarpsPerCTA \in Nat /\ WarpsPerCTA >= 1
           /\ Usable \in Nat /\ Usable >= 1 /\ Usable <= NumSlots
  BY MachineAssumption, LaunchAssumption DEF WarpsPerCTA, Usable

(* Reclaiming only empties slots, and never the one being dispatched to.   *)
LEMMA ReclaimedShrinks ==
    ASSUME NEW s \in Slot
    PROVE  /\ Reclaimed[s] \subseteq resident[s]
           /\ (\A c \in resident[s] : c.dispatched # WarpsPerCTA) => Reclaimed[s] = resident[s]
  BY DEF Reclaimed, Reclaimable

(* A clock edge drops no lease of a present binding, and what it fetches   *)
(* is leased.                                                              *)
LEMMA ClockKeepsLeases ==
    ASSUME LeaseInv, NEW exit, NEW arm, NEW busy, Clock(exit, arm, busy)
    PROVE  Leased \subseteq Leased' /\ LeaseHeld'
  <1>1. PICK tok \in Tokens : token' = tok /\ localOwners' = Collect(tok)
    BY DEF Clock
  <1>2. warpGen' = warpGen
    BY DEF Clock, dispatchVars
  <1>3. Leased \subseteq Leased'
    BY <1>1, <1>2 DEF Leased, Collect
  <1>4. ASSUME NEW t \in tok
        PROVE  <<t.warp, t.gen>> \in localOwners
    <2>1. CASE token # {}
      BY <2>1, <1>4 DEF Tokens, LeaseInv, LeaseHeld
    <2>2. CASE token = {}
      <3>1. PICK w \in active : t = [warp |-> w, gen |-> warpGen[w]]
        BY <2>2, <1>4 DEF Tokens
      <3>2. QED  BY <3>1 DEF LeaseInv, Holders, Leased
    <2>3. QED  BY <2>1, <2>2
  <1>5. \A t \in tok : <<t.warp, t.gen>> \in Collect(tok)
    BY <1>4 DEF Collect
  <1>6. QED  BY <1>1, <1>3, <1>5 DEF LeaseHeld

LEMMA ClockKeepsLeaseInv ==
    ASSUME LeaseInv, NEW exit, NEW arm, NEW busy, Clock(exit, arm, busy)
    PROVE  LeaseInv'
  <1> DEFINE respawned == UNION {UNION {p.targets : p \in spawn[w]} : w \in Firing}
  <1>1. PICK decode \in Decodes(busy) :
            /\ active' = ((active \cup launch) \cup respawned) \ exit
            /\ spawn' = [w \in Warp |->
                    IF w \in Firing THEN {}
                    ELSE {[p EXCEPT !.armed = @ \/ w \in arm] : p \in spawn[w]} \cup
                         {[targets |-> d.targets, armed |-> FALSE] : d \in {e \in decode : e.warp = w}}]
            /\ resident' = RetiredNext(respawned)
    BY DEF Clock
  <1>2. UNCHANGED <<grid, dispatch, warpGen, tail>> /\ launch' = {}
    BY DEF Clock, dispatchVars
  <1>3. Leased \subseteq Leased' /\ LeaseHeld'
    BY ClockKeepsLeases
  <1> HIDE DEF respawned
  <1>4. ASSUME NEW s \in Slot
        PROVE  /\ resident[s] # {} => resident'[s] # {}
               /\ \A x \in resident'[s] : \E c \in resident[s] :
                     CtaShape(x) /\ x.dispatched = c.dispatched /\ x.members = c.members
    <2> DEFINE Kept(c) == (c.retired \cup {r.rank : r \in {q \in retirePipe[2] : q.slot = s}})
                              \ {m[2] : m \in {n \in c.members : n[1] \in respawned}}
    <2>1. resident'[s] = {[c EXCEPT !.retired = Kept(c)] : c \in resident[s]}
      BY <1>1 DEF RetiredNext
    <2> HIDE DEF Kept
    <2>2. ASSUME NEW c \in resident[s], NEW x, x = [c EXCEPT !.retired = Kept(c)]
          PROVE  CtaShape(x) /\ x.dispatched = c.dispatched /\ x.members = c.members
      <3>1. CtaShape(c)
        BY DEF LeaseInv, LeaseType
      <3>2. x = [cta |-> c.cta, dispatched |-> c.dispatched, retired |-> Kept(c), members |-> c.members]
        BY <3>1, <2>2 DEF CtaShape
      <3>3. QED  BY <3>1, <3>2 DEF CtaShape
    <2>3. resident[s] # {} => resident'[s] # {}
      BY <2>1
    <2>4. ASSUME NEW x \in resident'[s]
          PROVE  \E c \in resident[s] :
                     CtaShape(x) /\ x.dispatched = c.dispatched /\ x.members = c.members
      <3>1. PICK c \in resident[s] : x = [c EXCEPT !.retired = Kept(c)]
        BY <2>1, <2>4
      <3>2. QED  BY <3>1, <2>2
    <2>5. QED  BY <2>3, <2>4
  <1>5. \A e \in decode : e.targets \subseteq Leased
    <2>1. SUFFICES ASSUME NEW w \in Warp, NEW T \in SpawnTargets(w)
                   PROVE  T \subseteq Leased
      BY DEF Decodes
    <2>2. SpawnPool(w) \subseteq Leased
      BY DEF SpawnPool, SlotOf, ViewForWarp, LeaseInv, Holders, MembersLeased
    <2>3. QED  BY <2>2 DEF SpawnTargets
  <1>6. \A w \in Warp : \A p \in spawn'[w] : SpawnShape(p) /\ p.targets \subseteq Leased
    BY <1>1, <1>5 DEF LeaseInv, LeaseType, Holders, SpawnShape
  <1>7. LeaseType'
    BY <1>2, <1>4, <1>6 DEF LeaseInv, LeaseType, Usable
  <1>8. Dispatching'
    BY <1>2, <1>4 DEF LeaseInv, LeaseType, Dispatching, WarpsPerCTA
  <1>9. active' \subseteq Leased
    <2>1. respawned \subseteq Leased
      BY DEF respawned, Firing, LeaseInv, Holders
    <2>2. QED  BY <2>1, <1>1 DEF LeaseInv, Holders
  <1>10. MembersLeased'
    BY <1>3, <1>4 DEF LeaseInv, Holders, MembersLeased
  <1>11. Holders'
    BY <1>2, <1>3, <1>6, <1>9, <1>10 DEF LeaseInv, Holders
  <1>12. QED  BY <1>3, <1>7, <1>8, <1>11 DEF LeaseInv

(* A state of the dispatch FSM: the selection fires and, unless it was the *)
(* last rank, a candidate is bound to the CTA under a new lease.           *)
LEMMA DispatchKeepsLeaseInv == LeaseInv /\ DispatchStep => LeaseInv'
  <1> SUFFICES ASSUME LeaseInv, DispatchStep
               PROVE  LeaseInv'
    OBVIOUS
  <1>a. PICK d \in dispatch : d = The(dispatch)
    BY DEF DispatchStep, The
  <1>b. PICK c \in Reclaimed[d.slot] : c = The(Reclaimed[d.slot])
    <2>1. Reclaimed[d.slot] # {}
      BY ReclaimedShrinks, LaunchBounds DEF LeaseInv, LeaseType, Dispatching, CtaShape
    <2>2. QED  BY <2>1 DEF The
  <1> DEFINE rank == c.dispatched + Cardinality(d.selected)
             res == [Reclaimed EXCEPT ![d.slot] = {[c EXCEPT !.dispatched = rank]}]
             last == d.selected # {} /\ rank = WarpsPerCTA
             new == IF last THEN {} ELSE Candidate(Reclaimed, d)
  <1>2. /\ launch' = d.selected
        /\ resident' = IF new = {} THEN res ELSE Bind(res, d.slot, rank, The(new))
        /\ dispatch' = IF last THEN {} ELSE {[d EXCEPT !.selected = new, !.mask = @ \cup new]}
        /\ warpGen' = [w \in Warp |-> IF w \in new THEN warpGen[w] + 1 ELSE warpGen[w]]
        /\ localOwners' = localOwners \cup {<<w, warpGen[w] + 1>> : w \in new}
    BY <1>a, <1>b DEF DispatchStep, Fire
  <1>3. UNCHANGED <<grid, tail, active, spawn, token>>
    BY DEF DispatchStep, schedulerVars, retireVars
  <1>4. /\ d.slot \in Slot /\ d.selected \subseteq Warp /\ d.mask \subseteq Warp
        /\ c \in resident[d.slot] /\ CtaShape(c) /\ c.dispatched < WarpsPerCTA
    BY ReclaimedShrinks DEF LeaseInv, LeaseType, Dispatching
  <1>5. rank \in Nat /\ (~last => rank < WarpsPerCTA)
    <2>1. CASE d.selected = {}
      BY <2>1, <1>4, FS_EmptySet, LaunchBounds DEF CtaShape, LeaseInv, LeaseType
    <2>2. CASE d.selected # {}
      <3>1. PICK x \in d.selected : d.selected = {x}
        BY <2>2 DEF LeaseInv, Dispatching
      <3>2. Cardinality(d.selected) = 1
        BY <3>1, FS_Singleton
      <3>3. QED  BY <2>2, <3>2, <1>4, LaunchBounds DEF CtaShape, LeaseInv, LeaseType
    <2>3. QED  BY <2>1, <2>2
  <1>6. new \subseteq Warp /\ \A x, y \in new : x = y
    <2>1. new \subseteq Candidate(Reclaimed, d)
      OBVIOUS
    <2> HIDE DEF new
    <2>2. Candidate(Reclaimed, d) \subseteq Warp
      BY DEF Candidate
    <2>3. \A x, y \in Candidate(Reclaimed, d) : x <= y /\ y <= x
      BY DEF Candidate
    <2>4. \A x, y \in Warp : x <= y /\ y <= x => x = y
      BY LaunchBounds DEF Warp, LeaseInv, LeaseType
    <2>5. QED  BY <2>1, <2>2, <2>3, <2>4
  <1> HIDE DEF rank, new, last
  <1>7. Leased \cup new \subseteq Leased'
    BY <1>2, <1>6 DEF Leased, LeaseInv, LeaseType
  <1>8. ASSUME NEW s \in Slot, NEW x \in res[s]
        PROVE  /\ CtaShape(x) /\ \A m \in x.members : m[1] \in Leased
               /\ s = d.slot => x.dispatched = rank
    <2>1. CASE s = d.slot
      <3>1. x = [cta |-> c.cta, dispatched |-> rank, retired |-> c.retired, members |-> c.members]
        BY <1>4, <2>1, <1>8 DEF CtaShape, Reclaimed
      <3>2. QED  BY <3>1, <1>4, <1>5, <2>1 DEF CtaShape, LeaseInv, Holders, MembersLeased
    <2>2. CASE s # d.slot
      <3>1. x \in resident[s]
        BY <2>2, <1>8, ReclaimedShrinks DEF Reclaimed
      <3>2. QED  BY <3>1, <2>2 DEF LeaseInv, LeaseType, Holders, MembersLeased
    <2>3. QED  BY <2>1, <2>2
  <1>9. res[d.slot] # {}
    BY <1>4 DEF Reclaimed
  <1>10. ASSUME NEW s \in Slot, NEW y \in resident'[s]
         PROVE  /\ CtaShape(y) /\ \A m \in y.members : m[1] \in Leased'
                /\ s = d.slot => y.dispatched = rank
    <2>1. CASE new = {}
      BY <2>1, <1>2, <1>7, <1>8, <1>10
    <2>2. CASE new # {}
      <3> DEFINE w == The(new)
                 Bound(x) == {m \in x.members : m[1] # w} \cup (IF s = d.slot THEN {<<w, rank>>} ELSE {})
      <3>1. w \in new
        BY <2>2 DEF The
      <3>2. resident'[s] = {[x EXCEPT !.members = Bound(x)] : x \in res[s]}
        BY <1>2, <2>2 DEF Bind
      <3> HIDE DEF res
      <3>3. PICK x \in res[s] : y = [x EXCEPT !.members = Bound(x)]
        BY <3>2, <1>10
      <3>4. CtaShape(x) /\ (\A m \in x.members : m[1] \in Leased) /\ (s = d.slot => x.dispatched = rank)
        BY <1>8
      <3>5. \A m \in Bound(x) : m[1] \in Leased'
        BY <3>1, <3>4, <1>7
      <3> HIDE DEF Bound
      <3>6. y = [cta |-> x.cta, dispatched |-> x.dispatched, retired |-> x.retired, members |-> Bound(x)]
        BY <3>3, <3>4 DEF CtaShape
      <3>7. QED  BY <3>4, <3>5, <3>6 DEF CtaShape
    <2>3. QED  BY <2>1, <2>2
  <1>11. resident'[d.slot] # {}
    <2> HIDE DEF res
    <2>1. CASE new = {}
      BY <2>1, <1>2, <1>9
    <2>2. CASE new # {}
      <3> DEFINE Bound(x) == [x EXCEPT !.members = {m \in @ : m[1] # The(new)} \cup {<<The(new), rank>>}]
      <3>1. resident'[d.slot] = {Bound(x) : x \in res[d.slot]}
        BY <2>2, <1>2, <1>4 DEF Bind
      <3> HIDE DEF Bound
      <3>2. QED  BY <3>1, <1>9
    <2>3. QED  BY <2>1, <2>2
  <1> HIDE DEF res
  <1>12. \A e \in dispatch' : /\ e \in [slot : Slot, selected : SUBSET Warp, mask : SUBSET Warp]
                              /\ ~last /\ e.slot = d.slot /\ e.selected = new
    <2>1. d \in [slot : Slot, selected : SUBSET Warp, mask : SUBSET Warp]
      BY DEF LeaseInv, LeaseType
    <2>2. QED  BY <2>1, <1>2, <1>6
  <1>13. LeaseType'
    <2>1. warpGen' \in [Warp -> Nat]
      BY <1>2 DEF LeaseInv, LeaseType
    <2>2. dispatch' \subseteq [slot : Slot, selected : SUBSET Warp, mask : SUBSET Warp]
      BY <1>12
    <2>3. QED  BY <2>1, <2>2, <1>3, <1>10 DEF LeaseInv, LeaseType, Usable
  <1>14. Dispatching'
    BY <1>12, <1>11, <1>10, <1>5, <1>6, <1>4, <1>3 DEF Dispatching, WarpsPerCTA
  <1>15. Holders'
    <2>1. active' \subseteq Leased' /\ launch' \subseteq Leased'
      BY <1>2, <1>3, <1>7 DEF LeaseInv, Holders
    <2>2. \A e \in dispatch' : e.selected \subseteq Leased'
      BY <1>12, <1>7
    <2>3. \A w \in Warp : \A p \in spawn'[w] : p.targets \subseteq Leased'
      BY <1>3, <1>7 DEF LeaseInv, Holders
    <2>4. MembersLeased'
      BY <1>10 DEF MembersLeased
    <2>5. QED  BY <2>1, <2>2, <2>3, <2>4 DEF Holders
  <1>16. LeaseHeld'
    BY <1>2, <1>3 DEF LeaseInv, LeaseHeld
  <1>17. QED  BY <1>13, <1>14, <1>15, <1>16 DEF LeaseInv

(* An idle state of the FSM: slots are reclaimed and a CTA may be admitted *)
(* with no rank dispatched and no member.                                  *)
LEMMA IdleKeepsLeaseInv == LeaseInv /\ IdleStep => LeaseInv'
  <1> SUFFICES ASSUME LeaseInv, IdleStep
               PROVE  LeaseInv'
    OBVIOUS
  <1>1. dispatch = {} /\ UNCHANGED <<grid, active, launch, spawn, token, warpGen, localOwners>>
    BY DEF IdleStep, schedulerVars, retireVars
  <1>2. /\ NumSlots \in Nat /\ WarpsPerCTA \in Nat /\ WarpsPerCTA >= 1
        /\ Usable \in Nat /\ Usable >= 1 /\ Usable <= NumSlots /\ tail \in 0 .. Usable - 1
    BY LaunchBounds DEF LeaseInv, LeaseType
  <1>3. \A s \in Slot : Reclaimed[s] \subseteq resident[s]
    BY ReclaimedShrinks
  <1>4. CASE resident' = Reclaimed /\ UNCHANGED <<dispatch, tail>>
    <2>1. \A s \in Slot : resident'[s] \subseteq resident[s]
      BY <1>3, <1>4
    <2>2. LeaseType' /\ MembersLeased'
      BY <2>1, <1>1, <1>4 DEF LeaseInv, LeaseType, Holders, MembersLeased, Leased, Usable
    <2>3. QED
      BY <2>2, <1>1, <1>4 DEF LeaseInv, Dispatching, Holders, LeaseHeld, Leased
  <1>5. ASSUME NEW c,
               resident' = [Reclaimed EXCEPT ![Base(c)] =
                    {[cta |-> c, dispatched |-> 0, retired |-> {}, members |-> {}]}],
               dispatch' = {[slot |-> Base(c), selected |-> {}, mask |-> {}]},
               tail' = NextTail(c)
        PROVE  LeaseInv'
    <2>1. Base(c) \in Slot /\ Base(c) \in Nat
      BY <1>2 DEF Base, Slot
    <2>2. tail' \in 0 .. Usable - 1
      BY <1>2, <1>5, <2>1 DEF NextTail
    <2> DEFINE fresh == [cta |-> c, dispatched |-> 0, retired |-> {}, members |-> {}]
    <2>3. CtaShape(fresh) /\ fresh.dispatched = 0 /\ fresh.members = {}
      BY DEF CtaShape
    <2> HIDE DEF fresh
    <2>4. resident'[Base(c)] = {fresh}
      BY <1>5, <2>1 DEF Reclaimed, fresh
    <2>5. ASSUME NEW s \in Slot, s # Base(c)
          PROVE  resident'[s] \subseteq resident[s]
      BY <1>3, <1>5, <2>1, <2>5 DEF Reclaimed
    <2>6. ASSUME NEW s \in Slot, NEW x \in resident'[s]
          PROVE  x = fresh \/ x \in resident[s]
      BY <2>4, <2>5, <2>6
    <2>7. \A e \in dispatch' : /\ e \in [slot : Slot, selected : SUBSET Warp, mask : SUBSET Warp]
                               /\ e.slot = Base(c) /\ e.selected = {}
      BY <1>5, <2>1
    <2>8. \A s \in Slot : \A x \in resident'[s] : CtaShape(x)
      BY <2>3, <2>6 DEF LeaseInv, LeaseType
    <2>9. LeaseType'
      BY <2>2, <2>7, <2>8, <1>1 DEF LeaseInv, LeaseType, Usable
    <2>10. Dispatching'
      BY <2>3, <2>4, <2>7, <1>1, <1>2 DEF Dispatching, WarpsPerCTA
    <2>11. Leased' = Leased
      BY <1>1 DEF Leased
    <2>12. MembersLeased'
      BY <2>3, <2>6, <2>11 DEF LeaseInv, Holders, MembersLeased
    <2>13. Holders'
      BY <2>7, <2>11, <2>12, <1>1 DEF LeaseInv, Holders
    <2>14. LeaseHeld'
      BY <1>1 DEF LeaseInv, LeaseHeld
    <2>15. QED  BY <2>9, <2>10, <2>13, <2>14 DEF LeaseInv
  <1>6. QED  BY <1>4, <1>5 DEF IdleStep

LEMMA LeaseInductive == LeaseInv /\ [Next]_vars => LeaseInv'
  <1> SUFFICES ASSUME LeaseInv, [Next]_vars
               PROVE  LeaseInv'
    OBVIOUS
  <1>1. CASE DispatchStep
    BY <1>1, DispatchKeepsLeaseInv
  <1>2. CASE IdleStep
    BY <1>2, IdleKeepsLeaseInv
  <1>3. CASE Tick
    BY <1>3, ClockKeepsLeaseInv DEF Tick
  <1>4. ASSUME NEW w \in Warp, Tmc(w) \/ Bar(w) \/ WspawnExecute(w)
        PROVE  LeaseInv'
    BY <1>4, ClockKeepsLeaseInv DEF Tmc, Bar, WspawnExecute
  <1>5. CASE UNCHANGED vars
    <2>1. UNCHANGED <<grid, tail, warpGen, resident, spawn, dispatch, active, launch, token, localOwners>>
      BY <1>5 DEF vars, dispatchVars, schedulerVars, retireVars
    <2>2. QED  BY <2>1 DEF LeaseInv, LeaseType, Dispatching, Holders, MembersLeased, LeaseHeld,
                           Leased, Usable, WarpsPerCTA
  <1>6. QED  BY <1>1, <1>2, <1>3, <1>4, <1>5 DEF Next, Return

(* An instruction in flight holds the lease of the binding it was fetched  *)
(* under, whatever the machine and the launch and however its warp is      *)
(* rebound meanwhile (Kernel.bindToken, and the sweep in Kernel.Run).      *)
THEOREM InstructionKeepsItsLease == Spec => []LeaseHeld
  <1>1. Init => LeaseInv
    <2> SUFFICES ASSUME Init PROVE LeaseInv
      OBVIOUS
    <2>1. LeaseType
      BY LaunchBounds DEF Init, LeaseType
    <2>2. Dispatching /\ Holders /\ LeaseHeld
      BY DEF Init, Dispatching, Holders, MembersLeased, LeaseHeld
    <2>3. QED  BY <2>1, <2>2 DEF LeaseInv
  <1>2. LeaseInv => LeaseHeld
    BY DEF LeaseInv
  <1>3. QED  BY <1>1, <1>2, LeaseInductive, PTL DEF Spec
=============================================================================
