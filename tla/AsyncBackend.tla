---------------------------- MODULE AsyncBackend ----------------------------
(***************************************************************************)
(* The external backend driven by a DRAM timing library                    *)
(* (timing/memsys/external.go).  Data is sampled or applied when a request *)
(* is accepted; the library only decides when it is acknowledged, in any   *)
(* order.  Replies are queued by bus bank, so they may leave out of        *)
(* acceptance order.  AsyncBackend embeds *Backend: ports, acceptance and  *)
(* the round-robin pointer are those of Backend.                           *)
(***************************************************************************)
EXTENDS Backend

CONSTANT Banks

ASSUME BanksAssumption == Banks \in Nat \ {0}

VARIABLE returnHeld   \* the reply a client was offered and did not take

Acknowledged(e) == e.wait = 0
IsTicket(e) == Op(e.req) = "visibility"
Bank(e) == SectorOf(e.req) % Banks

AsyncInit == Init /\ returnHeld = [c \in Client |-> {}]

(* Mutant: the order within a bus bank is not kept. *)
FirstOfBankAlways(k) == TRUE

(* The oldest queued transfer of its bus bank; tickets use no bank.        *)
FirstOfBank(k) ==
    IsTicket(queue[k]) \/ \A j \in 1 .. k - 1 : IsTicket(queue[j]) \/ Bank(queue[j]) # Bank(queue[k])

(* PreviewResponses: held replies, then acknowledged bank heads in queue   *)
(* order, one per client and ReturnsPerCycle in all.                       *)
AsyncPreview ==
    LET Add(chosen, k) ==
            IF /\ Acknowledged(queue[k]) /\ FirstOfBank(k) /\ Cardinality(chosen) < ReturnsPerCycle
               /\ \A x \in chosen : x.req.client # queue[k].req.client
            THEN chosen \cup queue[k].rsp
            ELSE chosen
    IN  FoldLeft(Add, UNION Range(returnHeld), [k \in 1 .. Len(queue) |-> k])

(* An accepted request is applied to, or sampled from, the backing owner.  *)
Sampled(st, r) ==
    [mem |-> MemAfter(st.mem, r), err |-> ErrAfter(st.err, r),
     new |-> Append(st.new, [req |-> r, rsp |-> {Respond(st.mem, st.err, r)}, wait |-> 1])]

(* Mutant: a ticket waits for the whole queue, other tickets included. *)
TicketsDoneWaitsAll(q) ==
    [k \in 1 .. Len(q) |->
        IF IsTicket(q[k]) /\ \A j \in 1 .. Len(q) : j = k \/ Acknowledged(q[j])
        THEN [q[k] EXCEPT !.wait = 0] ELSE q[k]]

(* A ticket is done once every older transfer is acknowledged.             *)
TicketsDone(q) ==
    [k \in 1 .. Len(q) |->
        IF IsTicket(q[k]) /\ \A j \in 1 .. k - 1 : IsTicket(q[j]) \/ Acknowledged(q[j])
        THEN [q[k] EXCEPT !.wait = 0] ELSE q[k]]

(* Mutant: a reply that was not taken is not remembered. *)
HeldRepliesNone(offered, ready) == [c \in Client |-> {}]

HeldReplies(offered, ready) ==
    [c \in Client |-> {x \in offered : x.req.client = c /\ c \notin ready}]

(* acked: the requests the library acknowledges in this Tick.  Step's own  *)
(* limit on deliveries never binds: the preview respects it already.       *)
AsyncStep(o, ready, acked) ==
    LET offered == [c \in Client |-> OfferOf(o, c)]
        preview == AsyncPreview
        kept == SelectSeq(queue, LAMBDA e : e.req.client \notin ready \/ e.rsp \cap preview = {})
        ticked == [k \in 1 .. Len(kept) |->
                      IF kept[k].req \in acked THEN [kept[k] EXCEPT !.wait = 0] ELSE kept[k]]
        granted == Granted(offered, MaxInflight - Len(queue))
        st == FoldLeft(Sampled, [mem |-> mem, err |-> writeError, new |-> <<>>],
                       [i \in 1 .. Len(granted) |-> The(offered[granted[i]])])
    IN  /\ mem' = st.mem /\ writeError' = st.err
        /\ replies' = [c \in Client |-> {[rsp |-> x, delivered |-> c \in ready] :
                                            x \in {y \in preview : y.req.client = c}}]
        /\ Admit(offered, granted, TicketsDone(ticked \o st.new))
        /\ returnHeld' = HeldReplies(preview, ready)

(* Readiness matters only where a reply is previewed; the library may      *)
(* acknowledge any transfers submitted to it and not yet acknowledged.     *)
Submitted == {e.req : e \in {x \in Range(queue) : ~Acknowledged(x) /\ ~IsTicket(x)}}
AsyncNext ==
    \E o \in Offers, ready \in SUBSET {x.req.client : x \in AsyncPreview}, acked \in SUBSET Submitted :
        AsyncStep(o, ready, acked)
=============================================================================
