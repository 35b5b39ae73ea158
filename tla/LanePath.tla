------------------------------ MODULE LanePath -------------------------------
(***************************************************************************)
(* What the components of the data memory path share: the requests of the  *)
(* LSU, their lanes, the elastic queues between components and the memory  *)
(* cells (src/timing/memsys/coalescer.go, cache.go).                       *)
(*                                                                         *)
(* A request is named by its position in the traffic, which stands for its *)
(* Identity and Tag; a lane addresses one aligned word.  The value of a    *)
(* cell is the <<request, lane>> that wrote it last.  Architectural data   *)
(* errors travel with the answers and are left out, as are byte enables    *)
(* and the cacheability attribute.                                         *)
(***************************************************************************)
EXTENDS Integers, Sequences, FiniteSets

CONSTANTS Traffics,     \* [reqs, warps, cancels] : requests the LSU makes, their warps
          LocalBase     \* words from here on are local memory

ASSUME LaneAssumption ==
    /\ LocalBase \in Nat
    /\ \A t \in Traffics : Len(t.reqs) = Len(t.warp) /\ t.cancels \in Nat

VARIABLES traffic,      \* the traffic of the run, chosen at the start
          memory        \* the cells of the cache hierarchy and of the local memory

Lane == 0 .. 3
Group(l) == l \div 2
Id == 1 .. Len(traffic.reqs)
Write(id) == traffic.reqs[id].write
Addr(id, l) == traffic.reqs[id].addr[l]
Mask(id) == DOMAIN traffic.reqs[id].addr

IsLocal(a) == a >= LocalBase
LocalMask(id) == {l \in Mask(id) : IsLocal(Addr(id, l))}
GlobalMask(id) == Mask(id) \ LocalMask(id)

Lowest(S) == CHOOSE x \in S : \A y \in S : x <= y

\* An elastic queue: a queue of one entry may be refilled as it is emptied.
QueueReady(q, size, pop) == Len(q) < size \/ (size = 1 /\ pop)

\* Mutant: the new entry goes before the waiting ones.
QueueNextFront(q, pop, push) == push \o (IF pop THEN Tail(q) ELSE q)

QueueNext(q, pop, push) == (IF pop THEN Tail(q) ELSE q) \o push

Heads(q) == IF q = <<>> THEN {} ELSE {q[1]}
InQueue(q) == {q[i] : i \in DOMAIN q}
AsQueue(S) == IF S = {} THEN <<>> ELSE <<CHOOSE x \in S : TRUE>>

\* The cells after the words <<id, lane>> of W are written, higher lanes last.
Stored(W) ==
    [a \in DOMAIN memory |->
        LET here == {w \in W : Addr(w[1], w[2]) = a}
        IN  IF here = {} THEN memory[a]
            ELSE CHOOSE w \in here : \A v \in here : v[2] <= w[2]]
==============================================================================
