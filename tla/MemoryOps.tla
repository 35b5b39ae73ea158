----------------------------- MODULE MemoryOps -----------------------------
(***************************************************************************)
(* Requests and responses of the external memory boundary below the caches *)
(* (timing/memsys/backend.go): sector reads, sector writes and visibility  *)
(* tickets.  A sector's content is 0 or the identity of the write that     *)
(* produced it; accesses to BadSectors return an error from the backing    *)
(* owner.                                                                  *)
(***************************************************************************)
EXTENDS Integers, Sequences, FiniteSets

CONSTANTS Clients,     \* number of client ports (I-cache, D-cache)
          Sectors,     \* number of sectors
          BadSectors,  \* sectors the backing owner refuses
          Kind,        \* the operations clients use, each with its sector
          Budget,      \* bound: transactions of each client
          MaxTx        \* the largest budget

ASSUME OpsAssumption ==
    /\ Clients \in Nat \ {0} /\ Sectors \in Nat \ {0} /\ MaxTx \in Nat
    /\ Budget \in [0 .. Clients - 1 -> 0 .. MaxTx]
    /\ BadSectors \subseteq 0 .. Sectors - 1
    /\ Kind \subseteq ({"read", "write"} \X (0 .. Sectors - 1)) \cup {<<"visibility", 0>>}

Client == 0 .. Clients - 1
Sector == 0 .. Sectors - 1

(* The sector of a visibility ticket is not used. *)
Request == [client : Client, tx : 1 .. MaxTx, kind : Kind]

Op(r) == r.kind[1]
SectorOf(r) == r.kind[2]
Content == 0 .. Clients * MaxTx
WrittenBy(r) == r.client * MaxTx + r.tx

Response == [req : Request, data : Content, err : BOOLEAN]
Opt(S) == {t \in SUBSET S : \A x, y \in t : x = y}

Refused(r) == Op(r) # "visibility" /\ SectorOf(r) \in BadSectors

(* The response of a request serviced over memory m and sticky error e. *)
Respond(m, e, r) ==
    [req |-> r,
     data |-> IF Op(r) = "read" /\ ~Refused(r) THEN m[SectorOf(r)] ELSE 0,
     err |-> IF Op(r) = "visibility" THEN e ELSE Refused(r)]

(* A write that is not refused replaces the sector; a refused one is       *)
(* remembered for every later visibility ticket.                           *)
MemAfter(m, r) ==
    IF Op(r) = "write" /\ ~Refused(r) THEN [m EXCEPT ![SectorOf(r)] = WrittenBy(r)] ELSE m
ErrAfter(e, r) == e \/ (Op(r) = "write" /\ Refused(r))
=============================================================================
