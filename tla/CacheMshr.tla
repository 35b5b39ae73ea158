------------------------------ MODULE CacheMshr ------------------------------
(***************************************************************************)
(* The miss-status holding registers of one cache bank                     *)
(* (src/timing/memsys/cache_mshr.go).  Every accepted request owns an      *)
(* entry; entries that miss on the same line are chained by `next', and    *)
(* when the line arrives the chain is dequeued from `head', one entry per  *)
(* edge.  One call of step() applies up to four events of one clock edge   *)
(* against the old table.                                                  *)
(*                                                                         *)
(* A Go pointer that may be nil is a set with at most one element: {} is   *)
(* nil and {h} is a pointer to h.                                          *)
(***************************************************************************)
EXTENDS Integers, FiniteSets

CONSTANTS MshrSize,     \* entries of the table (16 in the frozen machine)
          Lines         \* line addresses, numbered by naturals

ASSUME MshrAssumption == MshrSize \in Nat \ {0} /\ Lines \subseteq Nat /\ 0 \in Lines

VARIABLES entries, ready, free, head

mshrVars == <<entries, ready, free, head>>

Slots == 0..(MshrSize - 1)
Handle == [slot : Slots, gen : Nat]

\* A pointer to an element of S that may be nil.
Opt(S) == {t \in SUBSET S : \A x, y \in t : x = y}

(***************************************************************************)
(* A request is a whole-line transfer: `id' numbers requests in acceptance *)
(* order, a store writes its own id, and `sees' is the newest store to the *)
(* line that was accepted before it (0 when there is none).                *)
(***************************************************************************)
Request == [id : Nat, line : Lines, write : BOOLEAN, sees : Nat]

NoRequest == [id |-> 0, line |-> 0, write |-> FALSE, sees |-> 0]

MshrEntry == [valid : BOOLEAN, finalized : BOOLEAN, gen : Nat, req : Request, next : Opt(Handle)]

MshrInit ==
    /\ entries = [s \in Slots |-> [valid |-> FALSE, finalized |-> FALSE, gen |-> 0,
                                   req |-> NoRequest, next |-> {}]]
    /\ ready = FALSE
    /\ free = 0
    /\ head = {}

\* entry(h): the handle names the present generation of its slot.
Live(h) == entries[h.slot].valid /\ entries[h.slot].gen = h.gen

Entry(h) == entries[h.slot]

\* replay(): the entry at the head of the chain being dequeued, if any.
Replay == {Entry(h) : h \in head}

(***************************************************************************)
(* The checks step() makes before it changes anything.  fin holds at most  *)
(* one [handle, release, previous], fill at most one handle, alloc at most *)
(* one request; deq is a Boolean.                                          *)
(***************************************************************************)
FinalizeOk(f) ==
    /\ Live(f.handle)
    /\ ~Entry(f.handle).finalized
    /\ ~f.release =>
          \A p \in f.previous : /\ Live(p)
                                /\ p # f.handle
                                /\ Entry(p).req.line = Entry(f.handle).req.line
                                /\ Entry(p).next = {}

MshrOk(alloc, fin, fill, deq) ==
    /\ \A h \in head : Live(h)
    /\ \A f \in fin : FinalizeOk(f)
    /\ \A h \in fill : Live(h) /\ Entry(h).finalized /\ head = {}
    /\ deq => \E h \in head : Entry(h).finalized /\ \A f \in fin : f.handle # h
    /\ alloc # {} => ready /\ ~entries[free].valid

\* The table after dequeue and finalize, which allocation then reads.
Settled(fin, deq) ==
    [s \in Slots |->
        [entries[s] EXCEPT
            !.valid = @ /\ ~(deq /\ \E h \in head : h.slot = s)
                        /\ ~(\E f \in fin : f.release /\ f.handle.slot = s),
            !.finalized = @ \/ \E f \in fin : f.handle.slot = s,
            !.next = IF \E f \in fin : ~f.release /\ \E p \in f.previous : p.slot = s
                     THEN {f.handle : f \in fin}
                     ELSE @]]

\* Mutant: a successor that links at the edge its predecessor leaves is forgotten.
HeadAfterForgetsJoiner(fin, fill, deq) ==
    IF deq THEN UNION {Entry(h).next : h \in head} ELSE IF fill # {} THEN fill ELSE head

\* The chain head after the edge.  A tail that is dequeued while its successor
\* is being linked hands over to that successor.
HeadAfter(fin, fill, deq) ==
    LET linked == UNION {Entry(h).next : h \in head}
        joining == {f.handle : f \in {g \in fin : ~g.release /\ g.previous = head}}
    IN  IF deq THEN (IF linked # {} THEN linked ELSE joining)
        ELSE IF fill # {} THEN fill
        ELSE head

\* Mutant: the entry being dequeued may still be chosen as the tail.
PreviousKeepsDequeued(line, fin, deq) ==
    LET tails == {s \in Slots : /\ entries[s].valid
                                /\ entries[s].req.line = line
                                /\ Settled(fin, deq)[s].next = {}}
    IN  {[slot |-> s, gen |-> entries[s].gen] :
            s \in {t \in tails : \A u \in tails : t <= u}}

\* The tail a new entry chains to: the lowest slot of the old table that holds
\* the line and has no successor, the entry being dequeued excepted.
Previous(line, fin, deq) ==
    LET tails == {s \in Slots : /\ entries[s].valid
                                /\ entries[s].req.line = line
                                /\ Settled(fin, deq)[s].next = {}
                                /\ ~(deq /\ \E h \in head : h.slot = s)}
    IN  {[slot |-> s, gen |-> entries[s].gen] :
            s \in {t \in tails : \A u \in tails : t <= u}}

\* The handle the allocation of this edge gets: the registered free slot.
NewHandle == [slot |-> free, gen |-> entries[free].gen + 1]

MshrStep(alloc, fin, fill, deq) ==
    /\ entries' = IF alloc = {} THEN Settled(fin, deq)
                  ELSE [Settled(fin, deq) EXCEPT ![free] =
                           [valid |-> TRUE, finalized |-> FALSE, gen |-> NewHandle.gen,
                            req |-> CHOOSE r \in alloc : TRUE, next |-> {}]]
    /\ head' = HeadAfter(fin, fill, deq)
    /\ LET vacant == {s \in Slots : ~entries'[s].valid}
       IN  /\ ready' = (vacant # {})
           /\ free' = IF vacant = {} THEN 0
                      ELSE CHOOSE s \in vacant : \A t \in vacant : s <= t
=============================================================================
