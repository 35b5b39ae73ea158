------------------------------ MODULE LocalPath ------------------------------
(***************************************************************************)
(* The local branch of the data memory path: the adapter that gives every  *)
(* lane a queue of words, and the banked local memory behind it            *)
(* (src/timing/memsys/local_adapter.go, local_memory.go).                  *)
(***************************************************************************)
EXTENDS LanePath

CONSTANTS Banks,        \* local memory banks
          LocalDepth    \* entries of every queue of the branch

ASSUME LocalAssumption == Banks \in Nat \ {0} /\ LocalDepth \in Nat /\ LocalDepth >= 2

VARIABLES
    lad,    \* adapter: [queue : per lane, delivered : lanes of the input already queued,
            \*           recs : set of [id, sent, done, released]]
    lmem    \* memory: [req : per bank, pipe : per bank, rsp : per lane,
            \*          wrote : per bank, the address written on the last edge]

localVars == <<lad, lmem>>

BankId == 0 .. Banks - 1
Bank(w) == Addr(w[1], w[2]) % Banks     \* of the word w = <<id, lane>>

LocalInit ==
    /\ lad = [queue |-> [l \in Lane |-> <<>>], delivered |-> {}, recs |-> {}]
    /\ lmem = [req |-> [b \in BankId |-> <<>>], pipe |-> [b \in BankId |-> {}],
               rsp |-> [l \in Lane |-> <<>>], wrote |-> [b \in BankId |-> {}]]

(***************************************************************************)
(* Responses.  The adapter offers the request of the lowest lane that has  *)
(* one, with every lane answering the same request.                        *)
(***************************************************************************)
LocalReplying == {l \in Lane : lmem.rsp[l] # <<>>}

LocalRead ==
    IF LocalReplying = {} THEN {}
    ELSE LET id == lmem.rsp[Lowest(LocalReplying)][1].id
             lanes == {l \in LocalReplying : lmem.rsp[l][1].id = id}
         IN  {[id |-> id, val |-> [l \in lanes |-> lmem.rsp[l][1].val], slot |-> {}]}

LocalRec(id) == {r \in lad.recs : r.id = id}

\* A reply of no outstanding load word.
LocalReadError ==
    \E l \in LocalReplying :
        LET id == lmem.rsp[l][1].id
        IN  Write(id) \/ ~\E r \in LocalRec(id) : l \in r.sent \ r.done

(***************************************************************************)
(* The memory serves the heads of the bank queues.  A load waits for the   *)
(* bank's output register and for one edge after a store to its address;   *)
(* the output registers move to the lanes' response queues, the lowest     *)
(* bank first.                                                             *)
(***************************************************************************)
ToLane(l) ==
    LET banks == {b \in BankId : \E x \in lmem.pipe[b] : x.lane = l}
    IN  IF banks # {} /\ QueueReady(lmem.rsp[l], LocalDepth, FALSE) THEN {Lowest(banks)} ELSE {}

BankPop == UNION {ToLane(l) : l \in Lane}

Served(b) ==
    {w \in Heads(lmem.req[b]) :
        Write(w[1]) \/ (/\ Addr(w[1], w[2]) \notin lmem.wrote[b]
                        /\ lmem.pipe[b] = {} \/ b \in BankPop)}

LocalServed == UNION {Served(b) : b \in BankId}
LocalStores == {w \in LocalServed : Write(w[1])}

\* Every bank takes the word of the lowest lane that offers it one.
Offering(b) == {l \in Lane : lad.queue[l] # <<>> /\ Bank(<<lad.queue[l][1], l>>) = b}

TakenBy(b) ==
    IF Offering(b) # {} /\ QueueReady(lmem.req[b], LocalDepth, FALSE)
    THEN {Lowest(Offering(b))} ELSE {}

LocalTaken == UNION {TakenBy(b) : b \in BankId}

MemoryStep(replied) ==
    lmem' = [req   |-> [b \in BankId |-> QueueNext(lmem.req[b], Served(b) # {},
                            AsQueue({<<lad.queue[l][1], l>> : l \in TakenBy(b)}))],
             pipe  |-> [b \in BankId |->
                            (IF b \in BankPop THEN {} ELSE lmem.pipe[b])
                                \cup {[id |-> w[1], lane |-> w[2], val |-> memory[Addr(w[1], w[2])]] :
                                          w \in {v \in Served(b) : ~Write(v[1])}}],
             rsp   |-> [l \in Lane |-> QueueNext(lmem.rsp[l], l \in replied,
                            AsQueue(UNION {{[id |-> x.id, val |-> x.val] : x \in lmem.pipe[b]} :
                                               b \in ToLane(l)}))],
             wrote |-> [b \in BankId |->
                            {Addr(w[1], w[2]) : w \in {v \in Served(b) : Write(v[1])}}]]

(***************************************************************************)
(* The adapter.  Each lane of the input enters its queue when there is     *)
(* room; the input is released with its last lane.                         *)
(***************************************************************************)
Entering(input) ==
    UNION {{l \in LocalMask(id) \ lad.delivered : QueueReady(lad.queue[l], LocalDepth, FALSE)} :
               id \in input}

LocalAccepted(input) == {id \in input : LocalMask(id) \subseteq lad.delivered \cup Entering(input)}

\* A store receipt of no outstanding store word.
LocalStoreError ==
    \E w \in LocalStores : ~\E r \in LocalRec(w[1]) : w[2] \in r.sent \ r.done

AdapterStep(input, replied) ==
    LET entering == Entering(input)
        accepted == LocalAccepted(input)
        fresh == {[id |-> id, sent |-> {}, done |-> {}, released |-> FALSE] :
                      id \in {i \in input : LocalRec(i) = {} /\ entering # {}}}
        sent(id) == {l \in LocalTaken : lad.queue[l][1] = id}
        done(id) == {l \in replied : lmem.rsp[l][1].id = id}
                        \cup {w[2] : w \in {v \in LocalStores : v[1] = id}}
        moved == {[id |-> r.id, sent |-> r.sent \cup sent(r.id), done |-> r.done \cup done(r.id),
                   released |-> r.released \/ r.id \in accepted] : r \in lad.recs \cup fresh}
    IN  lad' = [queue     |-> [l \in Lane |-> QueueNext(lad.queue[l], l \in LocalTaken,
                                   AsQueue({id \in input : l \in entering}))],
                delivered |-> IF accepted # {} THEN {} ELSE lad.delivered \cup entering,
                recs      |-> {r \in moved : ~(r.released /\ r.done = LocalMask(r.id))}]

LocalIds ==
    {r.id : r \in lad.recs} \cup UNION {InQueue(lad.queue[l]) : l \in Lane}
    \cup {w[1] : w \in UNION {InQueue(lmem.req[b]) : b \in BankId}}
    \cup {x.id : x \in UNION {lmem.pipe[b] : b \in BankId} \cup UNION {InQueue(lmem.rsp[l]) : l \in Lane}}
==============================================================================
