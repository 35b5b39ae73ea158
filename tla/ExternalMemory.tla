--------------------------- MODULE ExternalMemory ---------------------------
(***************************************************************************)
(* What the caches may assume of any external backend: requests take       *)
(* effect one at a time in the order they are accepted, every accepted     *)
(* request gets exactly one response, a read's data is that of the last    *)
(* write accepted before it, and a visibility ticket reports whether any   *)
(* write accepted before it failed.  Responses may come in any order.      *)
(***************************************************************************)
EXTENDS MemoryOps, Functions

VARIABLES mem,        \* contents as of the last accepted request
          writeError, \* some accepted write was refused
          owed,       \* responses not yet delivered
          last,       \* last transaction accepted from each client
          replies     \* the reply offered to each client on this edge

Init ==
    /\ mem = [s \in Sector |-> 0] /\ writeError = FALSE
    /\ owed = {} /\ last = [c \in Client |-> 0]
    /\ replies = [c \in Client |-> {}]

(* A request takes effect, and its response is owed, when it is accepted.  *)
Accept(st, r) ==
    [mem |-> MemAfter(st.mem, r), err |-> ErrAfter(st.err, r),
     owed |-> st.owed \cup {Respond(st.mem, st.err, r)},
     last |-> [st.last EXCEPT ![r.client] = r.tx]]

Became(st) == last' = st.last /\ writeError' = st.err /\ mem' = st.mem /\ owed' = st.owed

(* Requests accepted one after the other from the clients in the set left, *)
(* at most one from each, transaction numbers rising.                      *)
RECURSIVE Accepting(_, _)
Accepting(st, left) ==
    \/ Became(st)
    \/ \E r \in {x.req : x \in owed'} :
          /\ r.client \in left /\ r.tx > st.last[r.client]
          /\ Accepting(Accept(st, r), left \ {r.client})

(* One edge: some owed responses are offered, some of these delivered, and *)
(* requests are accepted.                                                  *)
Step ==
    /\ replies' \in [Client -> Opt([rsp : owed, delivered : BOOLEAN])]
    /\ \A c \in Client : \A r \in replies'[c] : r.rsp.req.client = c
    /\ LET delivered == {r.rsp : r \in {q \in UNION Range(replies') : q.delivered}}
       IN  Accepting([mem |-> mem, err |-> writeError, owed |-> owed \ delivered, last |-> last],
                     Client)

Spec == Init /\ [][Step]_<<mem, writeError, owed, last, replies>>
=============================================================================
