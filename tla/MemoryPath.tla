------------------------------ MODULE MemoryPath -----------------------------
(***************************************************************************)
(* The data memory path of the core, from the LSU to the D-cache and the   *)
(* local memory: the split of a request into a global and a local subset,  *)
(* the system clock edge that composes the branches, and the runner's      *)
(* binding of transport to instructions with its cancellation              *)
(* (src/timing/memsys/split.go, system.go; src/timing/runner/              *)
(* memory_system.go).                                                      *)
(*                                                                         *)
(* One action is one clock edge of the whole path: every component reads   *)
(* the state before the edge.  The environment decides when the LSU has a  *)
(* request and takes a response, and how the D-cache behaves.  The checks  *)
(* that a stalled producer repeats its payload compare a register with     *)
(* itself and are left out.                                                *)
(***************************************************************************)
EXTENDS GlobalPath, LocalPath, TLC

VARIABLES
    split,    \* [out : per path, at most one id; rsp : at most one response;
              \*  submitted : paths of the held request already buffered;
              \*  recs : set of [id, queued, sent, arrived, completed, released, accepted]]
    binding,  \* the runner: [next : next request, data : the held request, tokens,
              \*  accepted, cancelled, complete : ids; stores : set of [id, lanes]]
    lsu,      \* what the core saw: [sent, gone : ids; got : lanes per id; val : values per id]
    applied,  \* history: lanes of each store that reached a cell
    cancels,  \* cancellations left
    fault     \* a component returned a protocol error, which is terminal

vars == <<traffic, memory, lad, lmem, coal, gad, port0, dcache,
          split, binding, lsu, applied, cancels, fault>>

Path == {"global", "local"}
PathMask(id, p) == IF p = "global" THEN GlobalMask(id) ELSE LocalMask(id)
PathsOf(id) == {p \in Path : PathMask(id, p) # {}}

Init ==
    /\ traffic \in Traffics
    /\ memory = [a \in UNION {{Addr(i, l) : l \in Mask(i)} : i \in Id} |-> <<0, 0>>]
    /\ LocalInit
    /\ GlobalInit
    /\ split = [out |-> [p \in Path |-> {}], rsp |-> {}, submitted |-> {}, recs |-> {}]
    /\ binding = [next |-> 1, data |-> {}, tokens |-> {}, accepted |-> {},
                  cancelled |-> {}, complete |-> {}, stores |-> {}]
    /\ lsu = [sent |-> {}, gone |-> {}, got |-> [i \in Id |-> {}], val |-> [i \in Id |-> <<>>]]
    /\ applied = [i \in Id |-> {}]
    /\ cancels = traffic.cancels
    /\ fault = FALSE

(***************************************************************************)
(* The split.  Each subset of a request enters its path's buffer once; the *)
(* request is accepted with its last subset.  Responses of the global path *)
(* win over the local path's.                                              *)
(***************************************************************************)
Reads(p) == IF p = "global" THEN GlobalRead ELSE LocalRead

ReadReady(pop) ==
    LET selected == IF GlobalRead # {} THEN {"global"} ELSE IF LocalRead # {} THEN {"local"} ELSE {}
    IN  IF split.rsp = {} \/ pop THEN selected ELSE {}

SplitRec(id) == {r \in split.recs : r.id = id}

\* Lanes reported by the branches on this edge: progress, and completed store lanes.
Progress(p, id, taken) ==
    IF p = "local" THEN {l \in Entering(split.out["local"]) : id \in split.out["local"]}
    ELSE IF id \notin split.out["global"] THEN {}
    ELSE UNION {PortLanes(w.batch, w.port) : w \in {v \in taken : v.batch.id = id}}

StoreEvents(served) ==
    {[id |-> w[1], lanes |-> {w[2]}] : w \in LocalStores}
    \cup {[id |-> w.batch.id, lanes |-> PortLanes(w.batch, w.port)] : w \in CacheStores(served)}

\* A store in which lanes of both groups write one global word has no defined order.
UnresolvedStore(id) ==
    Write(id) /\ \E k, l \in GlobalMask(id) : Group(k) < Group(l) /\ Addr(id, k) = Addr(id, l)

\* A store of unresolved order; progress of lanes never queued or already sent; a
\* completion that is foreign, premature or repeated.
SplitError(d, taken, served) ==
    \/ \E id \in d : UnresolvedStore(id)
    \/ \E p \in Path : \E id \in split.out[p] :
          \/ SplitRec(id) = {}
          \/ \E r \in SplitRec(id) :
                \/ ~(Progress(p, id, taken) \subseteq r.queued \cap PathMask(id, p))
                \/ p = "local" /\ Progress(p, id, taken) \cap r.sent # {}
    \/ \E e \in StoreEvents(served) \cup
                UNION {{[id |-> x.id, lanes |-> DOMAIN x.val] : x \in Reads(p)} : p \in Path} :
          ~\E r \in SplitRec(e.id) :
              /\ e.lanes \subseteq r.sent \cup Progress("global", e.id, taken) \cup Progress("local", e.id, taken)
              /\ e.lanes \cap r.arrived = {}

\* The subsets of the request d that enter their buffers when delivered leaves them.
Subsets(d, delivered) ==
    UNION {{p \in PathsOf(id) \ split.submitted : split.out[p] = {} \/ p \in delivered} : id \in d}

SplitAccepted(d, delivered) ==
    {id \in d : PathsOf(id) \subseteq split.submitted \cup Subsets(d, delivered)}

SplitRecNext(r, d, pop, taken, served, delivered) ==
    LET popped == IF pop THEN UNION {DOMAIN x.val : x \in {y \in split.rsp : y.id = r.id}} ELSE {}
        stored == UNION {e.lanes : e \in {f \in StoreEvents(served) : f.id = r.id}}
        left == UNION {PathMask(r.id, p) : p \in {q \in delivered : r.id \in split.out[q]}}
        read == UNION {UNION {DOMAIN x.val : x \in {y \in Reads(p) : y.id = r.id}} : p \in ReadReady(pop)}
    IN  [r EXCEPT !.sent = @ \cup Progress("global", r.id, taken) \cup Progress("local", r.id, taken) \cup left,
                  !.released = @ \cup left,
                  !.arrived = @ \cup read \cup stored,
                  !.completed = @ \cup popped \cup stored,
                  !.queued = @ \cup UNION {PathMask(r.id, p) : p \in {q \in Subsets(d, delivered) : r.id \in d}},
                  !.accepted = @ \/ r.id \in SplitAccepted(d, delivered)]

Finished(r) == r.accepted /\ r.completed = Mask(r.id) /\ r.released = Mask(r.id)

\* The records after the edge, those that are finished included.
SplitMoved(d, pop, taken, served, delivered) ==
    {SplitRecNext(r, d, pop, taken, served, delivered) : r \in split.recs \cup
        {[id |-> id, queued |-> {}, sent |-> {}, arrived |-> {}, completed |-> {},
          released |-> {}, accepted |-> FALSE] :
             id \in {i \in d : SplitRec(i) = {} /\ Subsets(d, delivered) # {}}}}

SplitStep(d, pop, delivered, recs) ==
    LET entering == Subsets(d, delivered)
    IN  split' = [out       |-> [p \in Path |->
                                    IF p \in entering THEN d
                                    ELSE IF p \in delivered THEN {} ELSE split.out[p]],
                  rsp       |-> (IF pop THEN {} ELSE split.rsp)
                                    \cup UNION {Reads(p) : p \in ReadReady(pop)},
                  submitted |-> IF SplitAccepted(d, delivered) # {} THEN {}
                                ELSE split.submitted \cup entering,
                  recs      |-> recs]

(***************************************************************************)
(* The runner.  Store receipts and read responses reach the core only once *)
(* the whole request has been accepted, and never for a cancelled one,     *)
(* whose responses are dropped.                                            *)
(***************************************************************************)
\* Mutant: a completed request is not forgotten.
LiveForever(ids) == ids

Live(ids) == ids \ binding.complete
Due == {e \in binding.stores : e.id \notin binding.cancelled /\ e.id \in binding.accepted}

\* Mutant: receipts that arrive before the whole request is accepted are dropped.
WaitingNone == {}

Waiting == {e \in binding.stores : e.id \notin binding.cancelled /\ e.id \notin binding.accepted}
Dropped == {x \in split.rsp : x.id \in Live(binding.cancelled)}
Visible == {x \in split.rsp \ Dropped : x.id \in Live(binding.accepted)}

\* The core has no such request, has not sent it, or has these lanes already.
Refused(id, lanes) == id \in lsu.gone \/ id \notin lsu.sent \/ lanes \cap lsu.got[id] # {}

BindingError(taking, served) ==
    \/ \E e \in Due : Refused(e.id, e.lanes)
    \/ \E x \in Visible : x.id \notin binding.tokens
    \/ \E x \in taking : Refused(x.id, DOMAIN x.val)
    \/ \E e \in StoreEvents(served) : e.id \notin binding.tokens

BindingStep(d, accepted, served, done) ==
    binding' = [next      |-> IF d \subseteq binding.data THEN binding.next ELSE binding.next + 1,
                data      |-> d \ accepted,
                tokens    |-> (binding.tokens \cup d) \ done,
                accepted  |-> Live(binding.accepted) \cup accepted,
                cancelled |-> Live(binding.cancelled),
                complete  |-> done,
                stores    |-> Waiting \cup StoreEvents(served)]

CoreStep(taking, accepted) ==
    LET got(i) == UNION ({e.lanes : e \in {f \in Due : f.id = i}}
                         \cup {DOMAIN x.val : x \in {y \in taking : y.id = i}})
        val(i) == {x.val : x \in {y \in taking : y.id = i}}
    IN  lsu' = [sent |-> lsu.sent \cup (accepted \ Live(binding.cancelled)),
                gone |-> lsu.gone,
                got  |-> [i \in Id |-> lsu.got[i] \cup got(i)],
                val  |-> [i \in Id |-> IF val(i) = {} THEN lsu.val[i]
                                       ELSE lsu.val[i] @@ (CHOOSE v \in val(i) : TRUE)]]

(***************************************************************************)
(* One clock edge: the runner shows the core what has arrived, the core    *)
(* takes it or not and may present its next request, and every component   *)
(* of the memory system steps from its old state.                          *)
(***************************************************************************)
Edge(takes, offers, cacheTakes, served) ==
    \E taking \in {IF takes THEN Visible ELSE {}} :
    \E pop \in {Dropped # {} \/ taking # {}} :
    \E d \in {IF offers THEN {binding.next} ELSE binding.data} :
    \E replied \in {IF "global" \in ReadReady(pop) THEN Packed ELSE {}} :
    \E heard \in {IF "local" \in ReadReady(pop) THEN UNION {DOMAIN x.val : x \in LocalRead} ELSE {}} :
    \E taken \in {AdapterTaken(cacheTakes)} :
    \E delivered \in {{p \in Path : split.out[p] # {} /\
           (IF p = "global" THEN CoalAccepted(split.out[p]) ELSE LocalAccepted(split.out[p])) # {}}} :
        IF \/ BindingError(taking, served)
           \/ GlobalReadError \/ LocalReadError
           \/ GlobalStoreError(served) \/ LocalStoreError
           \/ CoalescerError(taken) \/ SplitError(d, taken, served)
        THEN fault' = TRUE /\ UNCHANGED <<traffic, memory, lad, lmem, coal, gad, port0, dcache,
                                          split, binding, lsu, applied, cancels>>
        ELSE /\ CacheStep(cacheTakes, served, replied)
             /\ PortStep0(cacheTakes)
             /\ MemoryStep(heard)
             /\ GlobalAdapterStep(taken, served, replied)
             /\ AdapterStep(split.out["local"], heard)
             /\ CoalescerStep(split.out["global"], taken, replied)
             /\ memory' = Stored(LocalStores \cup UNION {WordLanes(w) : w \in CacheStores(served)})
             /\ \E moved \in {SplitMoved(d, pop, taken, served, delivered)} :
                \E done \in {{r.id : r \in {q \in moved : Finished(q)}}} :
                    /\ SplitStep(d, pop, delivered, {r \in moved : ~Finished(r)})
                    /\ BindingStep(d, SplitAccepted(d, delivered), served, done)
             /\ CoreStep(taking, SplitAccepted(d, delivered))
             /\ applied' = [i \in Id |-> applied[i] \cup
                                UNION {e.lanes : e \in {f \in StoreEvents(served) : f.id = i}}]
             /\ UNCHANGED <<traffic, cancels, fault>>

CanOffer == binding.data = {} /\ binding.next \in Id

Clock ==
    /\ ~fault
    /\ \E takes \in {FALSE, Visible # {}}, offers \in {FALSE, CanOffer} :
       \E cacheTakes \in SUBSET CacheOffers :
       \E served \in CacheChoices : Edge(takes, offers, cacheTakes, served)

\* Cancellation of a warp's younger work between two edges: the core forgets the
\* requests after the given one, the transport of the offered ones goes on.
Cancel(w, after) ==
    /\ ~fault /\ cancels > 0
    /\ LET ids == {i \in Id : traffic.warp[i] = w /\ i > after /\ i < binding.next}
       IN  /\ ids # {}
           /\ binding' = [binding EXCEPT !.cancelled = @ \cup
                  (ids \cap (binding.tokens \cup {e.id : e \in binding.stores}))]
           /\ lsu' = [lsu EXCEPT !.gone = @ \cup ids]
    /\ cancels' = cancels - 1
    /\ UNCHANGED <<traffic, memory, lad, lmem, coal, gad, port0, dcache, split, applied, fault>>

Next == Clock \/ \E i \in Id : Cancel(traffic.warp[i], i - 1)

Spec == Init /\ [][Next]_vars

(***************************************************************************)
(* Fairness: time and again the core takes what it is shown and presents   *)
(* its next request, and the D-cache takes and serves a word of each port. *)
(***************************************************************************)
ServedClock ==
    /\ ~fault
    /\ \E served \in CacheChoices :
          /\ \A w \in Servable : \E v \in served : v.port = w.port
          /\ Edge(Visible # {}, CanOffer, CacheOffers, served)

FairSpec == Spec /\ WF_vars(ServedClock)

-----------------------------------------------------------------------------
\* No component ever sees a broken protocol: an answer to a batch or word it does not
\* hold, a lane reported or completed twice or before it was sent, a SEND without a
\* coalescer slot; and the runner never hands the core a result that the core has not
\* asked for, has cancelled, or already has.
PathNoFault == ~fault

InPath ==
    GlobalIds \cup LocalIds \cup split.out["global"] \cup split.out["local"]
    \cup {x.id : x \in split.rsp \cup split.recs}

\* The transport of a request never outlives the runner's token for it, so a warp whose
\* tokens are gone has nothing left in the memory system; and once the token is gone,
\* every lane of a store has reached its cell and every lane of a request that was not
\* cancelled has reached the core, or is about to with the receipts of this edge.
LanesExact ==
    /\ InPath \subseteq binding.tokens
    /\ \A i \in 1 .. binding.next - 1 : i \notin binding.tokens =>
          /\ Write(i) => applied[i] = Mask(i)
          /\ i \notin lsu.gone =>
                lsu.got[i] \cup UNION {e.lanes : e \in {f \in Due : f.id = i}} = Mask(i)

\* A lane's load of a local word sees the lane's own latest earlier store to that word,
\* or what another lane wrote: two local requests of one lane never change places in the
\* adapter's queue, the crossbar, the bank and its output register.
OwnOrder ==
    \A i \in Id : ~Write(i) => \A l \in DOMAIN lsu.val[i] \cap LocalMask(i) :
        LET own == {j \in 1 .. i - 1 : Write(j) /\ l \in Mask(j) /\ Addr(j, l) = Addr(i, l)}
            saw == lsu.val[i][l]
        IN  /\ saw[1] < i \/ saw[2] # l
            /\ own # {} => saw # <<0, 0>> /\ (saw[2] = l => \A j \in own : j <= saw[1])

Drained ==
    /\ binding.next > Len(traffic.reqs)
    /\ GlobalDrained /\ InPath = {}
    /\ binding.data = {} /\ binding.tokens = {} /\ binding.accepted = {}
    /\ binding.cancelled = {} /\ binding.complete = {} /\ binding.stores = {}

\* Every request, cancelled ones included, is accepted and drained: the runner's maps
\* and every component of the memory system become empty again.
PathDrains == <>[]Drained
==============================================================================
