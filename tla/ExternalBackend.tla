-------------------------- MODULE ExternalBackend --------------------------
(***************************************************************************)
(* The backend a memory system was constructed with: the BackendFactory    *)
(* makes either the fixed-latency one (Backend) or the one behind a DRAM   *)
(* timing library (AsyncBackend).  Both implement ExternalMemory.          *)
(***************************************************************************)
EXTENDS AsyncBackend

VARIABLES dram,   \* which of the two
          cycle   \* the parity of the cycle count, which every edge advances

backendVars == <<vars, returnHeld, dram, cycle>>

BackendInit == AsyncInit /\ dram \in BOOLEAN /\ cycle = 0

BackendNext ==
    /\ \/ dram /\ AsyncNext
       \/ ~dram /\ Next /\ UNCHANGED returnHeld
    /\ UNCHANGED dram
    /\ cycle' = 1 - cycle

Spec == BackendInit /\ [][BackendNext]_backendVars

(* The clock runs; a receiver does not refuse an offered reply for ever;   *)
(* the library acknowledges every transfer.                                *)
ReceiversFair == \A c \in Client : []<>(\A r \in replies[c] : r.delivered)
Unacknowledged(c, t) == \E r \in Submitted : r.client = c /\ r.tx = t
LibraryFair == \A c \in Client : \A t \in 1 .. MaxTx : []<>~(dram /\ Unacknowledged(c, t))
ClockRuns == []<>(cycle = 0) /\ []<>(cycle = 1)
FairSpec == Spec /\ ClockRuns /\ ReceiversFair /\ LibraryFair

-----------------------------------------------------------------------------
(* What the queue still has to do, done now: the memory as of the last     *)
(* accepted request, and the response every accepted request will get.     *)
Promise ==
    LET Do(st, e) ==
            IF e.rsp # {} THEN [st EXCEPT !.owed = @ \cup e.rsp]
            ELSE [mem |-> MemAfter(st.mem, e.req), err |-> ErrAfter(st.err, e.req),
                  owed |-> st.owed \cup {Respond(st.mem, st.err, e.req)}]
    IN  FoldLeft(Do, [mem |-> mem, err |-> writeError, owed |-> {}], queue)

Abstract == INSTANCE ExternalMemory
                WITH mem <- Promise.mem, writeError <- Promise.err, owed <- Promise.owed

(* Either backend implements the abstract memory.  The fixed one services  *)
(* a request Latency edges after accepting it, the other lets the library  *)
(* reorder replies; reads still see exactly the writes accepted before     *)
(* them, a visibility ticket reports every earlier write failure, and      *)
(* every request is answered once.                                         *)
ImplementsMemory == Abstract!Spec

(* PreviewResponses keeps its word: an edge offers only previewed replies, *)
(* and it withholds a previewed one only behind a receiver that was not    *)
(* ready.                                                                  *)
PreviewHonest ==
    LET given == {r.rsp.req : r \in UNION Range(replies')}
        previewed == IF dram THEN {x.req : x \in AsyncPreview} ELSE Preview
    IN  /\ given \subseteq previewed
        /\ \A p \in previewed \ given :
              \E c \in Client \ {p.client} : \E r \in replies'[c] : ~r.delivered

(* A reply its receiver did not take is offered again, unchanged, on the   *)
(* next edge, whatever has become ready since: receivers compute their     *)
(* readiness from the held header.                                         *)
ReplyStable ==
    \A c \in Client : \A r \in replies[c] :
       ~r.delivered => \E q \in replies'[c] : q.rsp = r.rsp

(* What receivers build on: replies come as previewed, and a reply left    *)
(* untaken comes again (PreviewResponses, the returnHeld registers).       *)
RepliesHonest == [][PreviewHonest /\ ReplyStable]_backendVars

(* Round-robin acceptance: while a client's request is held, no other      *)
(* client is accepted twice.                                               *)
NoOvertaking ==
    \A c, d \in Client : held'[c] # {} /\ last'[d] > last[d] => d \notin passed[c]

(* Behind a DRAM library, replies of one bus bank are offered in           *)
(* acceptance order, also to different clients.                            *)
BankOrder ==
    \A c \in Client : \A r \in replies'[c] : \A j, k \in 1 .. Len(queue) :
       /\ dram /\ j < k /\ r.rsp \in queue[k].rsp
       /\ ~IsTicket(queue[j]) /\ ~IsTicket(queue[k])
       => Bank(queue[j]) # Bank(queue[k])

(* Behind a DRAM library, a visibility ticket is answered only when every  *)
(* transfer accepted before it has been acknowledged.                      *)
TicketAfterTransfers ==
    \A c \in Client : \A r \in replies'[c] : \A k \in 1 .. Len(queue) :
       dram /\ r.rsp \in queue[k].rsp /\ IsTicket(queue[k])
           => \A j \in 1 .. k - 1 : Acknowledged(queue[j])

(* The order in which either backend takes and answers requests: fair to   *)
(* its clients, in order within a bank, tickets last, and never with more  *)
(* than MaxInflight requests in the queue (Step of both backends).         *)
ServiceOrder ==
    [][/\ NoOvertaking /\ BankOrder /\ TicketAfterTransfers
       /\ Len(queue') <= MaxInflight]_backendVars

(* Every held request is accepted and every accepted one answered: clients *)
(* have finite budgets, so the backend is idle again and again (what       *)
(* System.Drained and the visibility barrier of the runner wait for).      *)
Idle == queue = <<>> /\ \A c \in Client : held[c] = {}
EverythingAnswered == []<>Idle
=============================================================================
