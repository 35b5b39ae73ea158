------------------------------ MODULE GlobalPath -----------------------------
(***************************************************************************)
(* The global branch of the data memory path: the coalescer, the adapter   *)
(* that unpacks its batches onto the two D-cache ports, the buffer in      *)
(* front of port 0 (src/timing/memsys/coalescer.go, global_adapter.go,     *)
(* dcache_port_buffer.go), and what they use of the D-cache behind.        *)
(*                                                                         *)
(* A batch is identified by its request and lanes, which no two batches    *)
(* share: this stands for the slot generation of the coalescer and for the *)
(* sequence number of the adapter.  Flush requests do not enter here: the  *)
(* host flushes a drained system.                                          *)
(***************************************************************************)
EXTENDS LanePath

CONSTANTS Slots,        \* outstanding load batches of the coalescer
          PortDepth,    \* entries of the buffer in front of D-cache port 0
          LoadLatency   \* edges a load spends in the D-cache at least, after the first

ASSUME GlobalAssumption ==
    Slots \in Nat \ {0} /\ PortDepth \in Nat /\ PortDepth >= 2 /\ LoadLatency \in Nat

VARIABLES
    coal,    \* [prepared, output : at most one batch; remaining : lanes;
             \*  slots : at most one [batch, sent, remaining] each; acquire : a slot]
    gad,     \* [delivered : ports of the batch already taken,
             \*  recs : set of [batch, sent, done, released]]
    port0,   \* words [batch, port] before D-cache port 0
    dcache   \* [pend : set of [word, wait] taken and not served, reply : per port]

globalVars == <<coal, gad, port0, dcache>>

Port == 0 .. 1
Slot == 0 .. Slots - 1
Block(a) == a \div 2

GlobalInit ==
    /\ coal = [prepared |-> {}, output |-> {}, remaining |-> Lane,
               slots |-> [s \in Slot |-> {}], acquire |-> 0]
    /\ gad = [delivered |-> {}, recs |-> {}]
    /\ port0 = <<>>
    /\ dcache = [pend |-> {}, reply |-> [p \in Port |-> <<>>]]

\* The lanes of the batch made of the remaining lanes of a request: in each group the
\* lowest of them, and the lanes of the group that address the same block.
MakeBatch(id, remaining) ==
    {l \in GlobalMask(id) :
        LET seeds == {k \in GlobalMask(id) \cap remaining : Group(k) = Group(l)}
        IN  seeds # {} /\ Block(Addr(id, l)) = Block(Addr(id, Lowest(seeds)))}

PortLanes(b, p) == {l \in b.lanes : Group(l) = p}
Ports(b) == {Group(l) : l \in b.lanes}

(***************************************************************************)
(* Responses.  The adapter packs the replies of the batch selected by the  *)
(* lowest port; the coalescer expands them to lanes.                       *)
(***************************************************************************)
Replying == {p \in Port : dcache.reply[p] # <<>>}
ReplyBatch(p) == dcache.reply[p][1].batch
GlobalRec(b) == {r \in gad.recs : r.batch = b}

Packed == {p \in Replying : ReplyBatch(p) = ReplyBatch(Lowest(Replying))}

GlobalRead ==
    IF Replying = {} THEN {}
    ELSE LET b == ReplyBatch(Lowest(Replying))
         IN  {[id |-> b.id, slot |-> {b.slot},
               val |-> [l \in UNION {PortLanes(b, p) : p \in Packed} |->
                            dcache.reply[Group(l)][1].val[l]]]}

GlobalReadError ==
    \/ \E p \in Replying : ~\E r \in GlobalRec(ReplyBatch(p)) :
            ~Write(r.batch.id) /\ p \in r.sent \ r.done
    \/ /\ Replying # {}
       /\ LET b == ReplyBatch(Lowest(Replying))
          IN  ~\E s \in coal.slots[b.slot] : s.batch = b /\ Packed \subseteq s.sent \cap s.remaining

(***************************************************************************)
(* Words on their way to the D-cache.  Port 1 is a wire to the cache; a    *)
(* word for port 0 is taken by its buffer and offered from there.          *)
(***************************************************************************)
AdapterOffers == UNION {{[batch |-> b, port |-> p] : p \in Ports(b) \ gad.delivered} : b \in coal.output}

\* The words the cache is offered.
CacheOffers == Heads(port0) \cup {w \in AdapterOffers : w.port = 1}

AdapterTaken(cacheTakes) ==
    {w \in AdapterOffers : IF w.port = 0 THEN QueueReady(port0, PortDepth, FALSE) ELSE w \in cacheTakes}

PortStep0(cacheTakes) ==
    port0' = QueueNext(port0, \E w \in cacheTakes : w.port = 0,
                       AsQueue({w \in AdapterTaken(cacheTakes) : w.port = 0}))

\* The D-cache, abstracted: it serves the words it has taken in any order.  Words of
\* one line are not kept in order either, since a request that hits may pass older ones
\* that missed.  On one edge a port gets one load reply, if its queue has room, and any
\* number of stores may be applied, at most one by each bank.
WordLanes(w) == {<<w.batch.id, l>> : l \in PortLanes(w.batch, w.port)}
IsStore(w) == Write(w.batch.id)

Servable ==
    {x.word : x \in {y \in dcache.pend : y.wait = 0 /\
        (IsStore(y.word) \/ Len(dcache.reply[y.word.port]) < PortDepth)}}

CacheChoices ==
    {W \in SUBSET Servable : \A v, w \in W : v.port = w.port => v = w \/ IsStore(v) \/ IsStore(w)}

CacheStep(cacheTakes, served, replied) ==
    dcache' = [pend  |-> {[x EXCEPT !.wait = IF @ = 0 THEN 0 ELSE @ - 1] :
                              x \in {y \in dcache.pend : y.word \notin served}}
                         \cup {[word |-> w, wait |-> IF IsStore(w) THEN 0 ELSE LoadLatency] : w \in cacheTakes},
               reply |-> [p \in Port |-> QueueNext(dcache.reply[p], p \in replied,
                   AsQueue({[batch |-> w.batch,
                             val |-> [l \in PortLanes(w.batch, p) |-> memory[Addr(w.batch.id, l)]]] :
                                w \in {v \in served : v.port = p /\ ~IsStore(v)}}))]]

CacheStores(served) == {w \in served : IsStore(w)}

GlobalStoreError(served) ==
    \E w \in CacheStores(served) : ~\E r \in GlobalRec(w.batch) : w.port \in r.sent \ r.done

(***************************************************************************)
(* The adapter keeps a record of every batch until both ports are done.    *)
(***************************************************************************)
BatchAccepted(taken) ==
    {b \in coal.output : Ports(b) \subseteq gad.delivered \cup {w.port : w \in taken}}

GlobalAdapterStep(taken, served, replied) ==
    LET accepted == BatchAccepted(taken)
        fresh == {[batch |-> w.batch, sent |-> {}, done |-> {}, released |-> FALSE] :
                      w \in {v \in taken : GlobalRec(v.batch) = {}}}
        sent(b) == {w.port : w \in {v \in taken : v.batch = b}}
        done(b) == {p \in replied : ReplyBatch(p) = b}
                       \cup {w.port : w \in {v \in CacheStores(served) : v.batch = b}}
        moved == {[batch |-> r.batch, sent |-> r.sent \cup sent(r.batch),
                   done |-> r.done \cup done(r.batch),
                   released |-> r.released \/ r.batch \in accepted] : r \in gad.recs \cup fresh}
    IN  gad' = [delivered |-> IF accepted # {} THEN {}
                              ELSE gad.delivered \cup {w.port : w \in taken},
                recs      |-> {r \in moved : ~(r.released /\ r.done = Ports(r.batch))}]

(***************************************************************************)
(* The coalescer.  One edge prepares a batch, the next sends it to the     *)
(* output register; a load batch takes the slot acquire.  A slot is freed  *)
(* when all its ports have answered.                                       *)
(***************************************************************************)
FreeSlots(slots) == {s \in Slot : slots[s] = {}}
Full == FreeSlots(coal.slots) = {}

\* SEND without a slot, or a port of the output reported twice.
CoalescerError(taken) ==
    \/ coal.prepared # {} /\ Full
    \/ \E w \in taken : ~Write(w.batch.id) /\ \E s \in coal.slots[w.batch.slot] : w.port \in s.sent

CoalAccepted(input) ==
    {id \in input : \E b \in coal.prepared : GlobalMask(id) \cap (coal.remaining \ b.lanes) = {}}

\* A slot after this edge's replies and handshakes, before a new batch takes one.
SlotNext(x, taken, replied) ==
    LET answered == {p \in replied : ReplyBatch(p) = x.batch}
        next == [x EXCEPT !.remaining = @ \ answered,
                          !.sent = @ \cup {w.port : w \in {v \in taken : v.batch = x.batch}}]
    IN  IF next.remaining = {} THEN {} ELSE {next}

\* Mutant: the pointer is not moved when a response frees a slot of the full table.
AcquireNextOnAllocate(slots, allocated, released) ==
    IF allocated /\ FreeSlots(slots) # {} THEN Lowest(FreeSlots(slots)) ELSE coal.acquire

AcquireNext(slots, allocated, released) ==
    IF (allocated \/ (released /\ Full)) /\ FreeSlots(slots) # {}
    THEN Lowest(FreeSlots(slots)) ELSE coal.acquire

CoalescerStep(input, taken, replied) ==
    LET kept == [s \in Slot |-> UNION {SlotNext(x, taken, replied) : x \in coal.slots[s]}]
        sending == {[id |-> b.id, lanes |-> b.lanes, slot |-> coal.acquire] : b \in coal.prepared}
        loads == {b \in sending : ~Write(b.id)}
        slots == [s \in Slot |->
                     IF loads # {} /\ s = coal.acquire
                     THEN {[batch |-> b, sent |-> {}, remaining |-> Ports(b)] : b \in loads}
                     ELSE kept[s]]
        output == coal.output \ BatchAccepted(taken)
        released == \E s \in Slot : coal.slots[s] # {} /\ kept[s] = {}
    IN  coal' = [prepared  |-> IF coal.prepared = {} /\ output = {} /\ ~Full
                               THEN {[id |-> id, lanes |-> MakeBatch(id, coal.remaining)] : id \in input}
                               ELSE {},
                 output    |-> output \cup sending,
                 remaining |-> IF CoalAccepted(input) # {} THEN Lane
                               ELSE coal.remaining \ UNION {b.lanes : b \in sending},
                 slots     |-> slots,
                 acquire   |-> AcquireNext(slots, loads # {}, released)]

GlobalDrained ==
    /\ coal.prepared = {} /\ coal.output = {} /\ FreeSlots(coal.slots) = Slot
    /\ gad.recs = {} /\ port0 = <<>>
    /\ dcache.pend = {} /\ Replying = {}

GlobalIds ==
    {b.id : b \in coal.prepared \cup coal.output}
    \cup {x.batch.id : x \in UNION {coal.slots[s] : s \in Slot} \cup gad.recs
                             \cup InQueue(port0) \cup {y.word : y \in dcache.pend}
                             \cup UNION {InQueue(dcache.reply[p]) : p \in Port}}
==============================================================================
