----------------------------- MODULE CtaManager -----------------------------
(***************************************************************************)
(* Launch validation and the grid walk (emu/device/launch.go), and the CTA *)
(* owner (emu/core/cta.go): membership, LMEM allocation, thread            *)
(* coordinates and completion.  These are the pure parts; FunctionalCore   *)
(* holds the state.                                                        *)
(*                                                                         *)
(* A launch is a record with three-axis grid, cluster, block and warpStep  *)
(* sequences, blockSize, and lmem, the LMEM words it asks for.             *)
(***************************************************************************)
EXTENDS WarpState, SequencesExt

CONSTANTS NumWarps,   \* warp slots, and CTA slots (4)
          LocalSize,  \* words of local memory
          LocalBlock  \* allocation granularity in words

ASSUME ManagerAssumption ==
    /\ NumWarps \in Nat \ {0} /\ LocalSize \in Nat /\ LocalBlock \in Nat \ {0}

Warp == 0 .. NumWarps - 1
CtaId == 0 .. NumWarps - 1
Axis == 1 .. 3

AlignUp(n) == ((n + LocalBlock - 1) \div LocalBlock) * LocalBlock
Volume(v) == v[1] * v[2] * v[3]
CeilDiv(n, d) == (n + d - 1) \div d
AtMost(m, n) == IF m < n THEN m ELSE n

WarpsPerCTA(l) == CeilDiv(l.blockSize, NumLanes)
ClusterSize(l) == Volume(l.cluster)
TotalCTAs(l) == Volume(l.grid)
ResidentCapacity(l) ==
    AtMost(NumWarps \div WarpsPerCTA(l),
           IF l.lmem = 0 THEN NumWarps ELSE LocalSize \div AlignUp(l.lmem))

(* Mutant: the co-resident LMEM of a cluster is not checked. *)
ValidateLaunchNoLmem(l) ==
    /\ l.blockSize \in 1 .. NumWarps * NumLanes
    /\ AlignUp(l.lmem) <= LocalSize
    /\ \A x \in Axis : l.block[x] # 0 /\ l.cluster[x] # 0
    /\ TotalCTAs(l) # 0 => \A x \in Axis : l.grid[x] % l.cluster[x] = 0
    /\ ClusterSize(l) * WarpsPerCTA(l) <= NumWarps

(* What ValidateLaunch accepts; an empty grid is a legal launch. *)
ValidateLaunch(l) ==
    /\ l.blockSize \in 1 .. NumWarps * NumLanes
    /\ AlignUp(l.lmem) <= LocalSize
    /\ \A x \in Axis : l.block[x] # 0 /\ l.cluster[x] # 0
    /\ TotalCTAs(l) # 0 => \A x \in Axis : l.grid[x] % l.cluster[x] = 0
    /\ ClusterSize(l) * WarpsPerCTA(l) <= NumWarps
    /\ ClusterSize(l) * AlignUp(l.lmem) <= LocalSize
    /\ ClusterSize(l) <= ResidentCapacity(l)

(* The odometer both levels of the walk use: the first axis moves fastest, *)
(* by step[x], and an axis that reaches limit[x] wraps and carries.        *)
Advance(v, step, limit) ==
    LET carries(x) == v[x] + step[x] >= limit[x]
        moves(x) == \A y \in 1 .. x - 1 : carries(y)
    IN  [x \in Axis |-> IF ~moves(x) THEN v[x]
                        ELSE IF carries(x) THEN 0 ELSE v[x] + step[x]]

Zero == <<0, 0, 0>>
NewWalker == [origin |-> Zero, intra |-> Zero, emitted |-> 0]
Remaining(walker, l) == TotalCTAs(l) - walker.emitted

(* One CTA leaves the walker: the offset inside the cluster moves, and the *)
(* origin of the cluster once the offset has wrapped on every axis.        *)
AdvanceWalker(walker, l) ==
    LET intra == Advance(walker.intra, <<1, 1, 1>>, l.cluster)
    IN  [origin |-> IF intra = Zero THEN Advance(walker.origin, l.cluster, l.grid)
                    ELSE walker.origin,
         intra |-> intra, emitted |-> walker.emitted + 1]

BlockOf(walker) == [x \in Axis |-> walker.origin[x] + walker.intra[x]]

(* Thread coordinates.  A lane is one step along X from the lane before it, *)
(* with carry; the first lane of a warp is WarpStep away from that of the   *)
(* warp before it, and Y wraps whether or not X carried.  Fields have       *)
(* four bits.                                                               *)
Wrap(n, d) == IF n >= d THEN n - d ELSE n

AdvanceLane(v, l) ==
    LET bdx == l.block[1] % 16
        bdy == l.block[2] % 16
        wrapX == v[1] + 1 >= bdx
        wrapY == wrapX /\ v[2] + 1 >= bdy
    IN  << Wrap(v[1] + 1, bdx) % 16,
           (IF wrapX THEN Wrap(v[2] + 1, bdy) ELSE v[2]) % 16,
           (IF wrapY THEN v[3] + 1 ELSE v[3]) % 16 >>

AdvanceWarpBase(v, l) ==
    LET bdx == l.block[1] % 16
        bdy == l.block[2] % 16
        nextY == v[2] + l.warpStep[2] + (IF v[1] + l.warpStep[1] >= bdx THEN 1 ELSE 0)
    IN  << Wrap(v[1] + l.warpStep[1], bdx) % 16, Wrap(nextY, bdy) % 16,
           (v[3] + l.warpStep[3] + (IF nextY >= bdy THEN 1 ELSE 0)) % 16 >>

WarpBase(rank, l) == FoldLeft(LAMBDA v, r : AdvanceWarpBase(v, l), Zero, [r \in 1 .. rank |-> r])
ThreadCoordinates(rank, lane, l) ==
    FoldLeft(LAMBDA v, k : AdvanceLane(v, l), WarpBase(rank, l), [k \in 1 .. lane |-> k])

(* The last warp of a block runs the lanes the block size leaves it. *)
MaskOfRank(rank, l) == 0 .. AtMost(NumLanes, l.blockSize - rank * NumLanes) - 1

(* First fit over the occupied intervals in address order. *)
FirstFit(size, intervals) ==
    LET sorted == SetToSortSeq(intervals, LAMBDA i, j : i.start < j.start)
        step(acc, i) == IF acc.fits \/ acc.offset + size <= i.start THEN [acc EXCEPT !.fits = TRUE]
                        ELSE [acc EXCEPT !.offset = IF i.end > @ THEN i.end ELSE @]
    IN  FoldLeft(step, [offset |-> 0, fits |-> FALSE], sorted).offset
=============================================================================
