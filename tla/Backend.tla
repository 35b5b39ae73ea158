------------------------------ MODULE Backend ------------------------------
(***************************************************************************)
(* The fixed-latency external backend (timing/memsys/backend.go): one      *)
(* action is one call of Step.  Requests are serviced Latency edges after  *)
(* acceptance, in acceptance order and independently of the receivers;     *)
(* replies leave in acceptance order with head-of-line blocking.           *)
(***************************************************************************)
EXTENDS MemoryOps, SequencesExt

CONSTANTS Latency, AcceptsPerCycle, MaxInflight, ReturnsPerCycle

ASSUME ConfigAssumption ==
    {Latency, AcceptsPerCycle, MaxInflight, ReturnsPerCycle} \subseteq Nat \ {0}

VARIABLES queue,      \* accepted requests: req, edges left, response if serviced
          held,       \* the request a client offered and was not granted
          last,       \* last transaction accepted from each client
          nextClient, \* round-robin pointer
          mem, writeError,
          replies,    \* the replies of the last edge
          passed      \* history: clients accepted since a client was first held

vars == <<queue, held, last, nextClient, mem, writeError, replies, passed>>

(* wait: edges until a request is due; behind a DRAM library (AsyncBackend)*)
(* 1 until it is acknowledged.                                             *)
Entry == [req : Request, wait : 0 .. Latency, rsp : Opt(Response)]

Init ==
    /\ queue = <<>>
    /\ held = [c \in Client |-> {}] /\ last = [c \in Client |-> 0]
    /\ nextClient = 0
    /\ mem = [s \in Sector |-> 0] /\ writeError = FALSE
    /\ replies = [c \in Client |-> {}]
    /\ passed = [c \in Client |-> {}]

(* A client repeats a stalled request, or offers its next one, or none.    *)
Offers ==
    {o \in [Client -> {{}} \cup {{k} : k \in Kind}] :
        \A c \in Client : (held[c] # {} \/ last[c] = Budget[c]) => o[c] = {}}
OfferOf(o, c) ==
    IF held[c] # {} THEN held[c]
    ELSE {[client |-> c, tx |-> last[c] + 1, kind |-> k] : k \in o[c]}

(* Mutant: only the outcome of the latest write is remembered. *)
ServeEntryLatestError(st, e) ==
    IF e.rsp # {} \/ e.wait > 1
    THEN [st EXCEPT !.queue = Append(@, [e EXCEPT !.wait = IF @ > 0 THEN @ - 1 ELSE 0])]
    ELSE [mem |-> MemAfter(st.mem, e.req),
          err |-> IF Op(e.req) = "write" THEN Refused(e.req) ELSE st.err,
          queue |-> Append(st.queue,
                      [e EXCEPT !.wait = 0, !.rsp = {Respond(st.mem, st.err, e.req)}])]

(* Due entries are serviced in acceptance order, whatever the receivers do.*)
ServeEntry(st, e) ==
    IF e.rsp # {} \/ e.wait > 1
    THEN [st EXCEPT !.queue = Append(@, [e EXCEPT !.wait = IF @ > 0 THEN @ - 1 ELSE 0])]
    ELSE [mem |-> MemAfter(st.mem, e.req), err |-> ErrAfter(st.err, e.req),
          queue |-> Append(st.queue,
                      [e EXCEPT !.wait = 0, !.rsp = {Respond(st.mem, st.err, e.req)}])]
Serve == FoldLeft(ServeEntry, [mem |-> mem, err |-> writeError, queue |-> <<>>], queue)

(* The replies offered on this edge: serviced entries from the head, one   *)
(* per client, up to the first whose receiver is not ready.                *)
ReturnPrefix(q, ready) ==
    {k \in 1 .. Len(q) :
        /\ k <= ReturnsPerCycle
        /\ \A i \in 1 .. k : q[i].rsp # {}
        /\ \A i, j \in 1 .. k : i # j => q[i].req.client # q[j].req.client
        /\ \A i \in 1 .. k - 1 : q[i].req.client \in ready}

(* PreviewResponses: the headers of the replies the coming edge offers if  *)
(* every receiver is ready, predicted from the due times alone.            *)
Preview ==
    {queue[k].req : k \in
        {n \in 1 .. Len(queue) :
            /\ n <= ReturnsPerCycle
            /\ \A i \in 1 .. n : queue[i].wait <= 1
            /\ \A i, j \in 1 .. n : i # j => queue[i].req.client # queue[j].req.client}}

(* Clients with an offer, from the round-robin pointer, as far as the      *)
(* per-edge limit and the slots free before this edge allow.               *)
Granted(offered, slots) ==
    LET order == [i \in 1 .. Clients |-> (nextClient + i - 1) % Clients]
        want == SelectSeq(order, LAMBDA c : offered[c] # {})
        limit == {n \in 0 .. Len(want) : n <= AcceptsPerCycle /\ n <= slots}
    IN  SubSeq(want, 1, CHOOSE n \in limit : \A m \in limit : m <= n)

(* The part of the edge that the asynchronous backend shares: acceptance.  *)
(* q is the queue after the edge.                                          *)
Admit(offered, granted, q) ==
    LET got == Range(granted)
    IN  /\ queue' = q
        /\ last' = [c \in Client |-> IF c \in got THEN last[c] + 1 ELSE last[c]]
        /\ held' = [c \in Client |-> IF c \in got THEN {} ELSE offered[c]]
        /\ nextClient' = IF granted = <<>> THEN nextClient
                         ELSE (granted[Len(granted)] + 1) % Clients
        /\ passed' = [c \in Client |->
               IF c \in got \/ offered[c] = {} THEN {} ELSE passed[c] \cup got]

The(S) == CHOOSE x \in S : TRUE

Step(o, ready) ==
    LET offered == [c \in Client |-> OfferOf(o, c)]
        served == Serve
        prefix == ReturnPrefix(served.queue, ready)
        gone == {k \in prefix : served.queue[k].req.client \in ready}
        granted == Granted(offered, MaxInflight - Len(queue))
    IN  /\ mem' = served.mem /\ writeError' = served.err
        /\ replies' = [c \in Client |->
               UNION {{[rsp |-> x, delivered |-> c \in ready] : x \in served.queue[k].rsp} :
                         k \in {n \in prefix : served.queue[n].req.client = c}}]
        /\ Admit(offered, granted,
                 SubSeq(served.queue, Cardinality(gone) + 1, Len(queue)) \o
                     [i \in 1 .. Len(granted) |->
                         [req |-> The(offered[granted[i]]), wait |-> Latency, rsp |-> {}]])

(* Readiness matters only where a reply is due.                            *)
Next == \E o \in Offers : \E ready \in SUBSET {r.client : r \in Preview} : Step(o, ready)
=============================================================================
