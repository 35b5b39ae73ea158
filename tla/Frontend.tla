------------------------------ MODULE Frontend -------------------------------
(***************************************************************************)
(* Warp scheduler, fetch, instruction buffers and uop sequencers           *)
(* (src/timing/model/scheduler.go, feedback.go, fetch.go, wait.go, uop.go  *)
(* and the front half of frontend.go).                                     *)
(*                                                                         *)
(* A warp is stalled from the edge its fetch is scheduled until decode     *)
(* unlocks it, or, for an instruction that redirects the warp, until the   *)
(* scheduler receives the feedback of that instruction.                    *)
(***************************************************************************)
EXTENDS PipeParts

CONSTANT IBufSize       \* entries of a warp's instruction buffer

VARIABLES
    active, stalled, parked,  \* warp contexts; parked is the cancellation gate
    count,                    \* scheduled and not yet popped, a 3-bit counter
    unlock,                   \* registered decode event
    lastControl,              \* newest instruction whose feedback was applied
    nextId,                   \* next instruction identity
    launch,                   \* CTA dispatch to apply on the next edge
    schedule,                 \* schedule buffer
    fetch,                    \* [req, flush : buffers, tags, issued : token sets]
    ibuf, burst               \* instruction buffers; packed instruction being split

frontVars == <<active, stalled, parked, count, unlock, lastControl, nextId, launch,
               schedule, fetch, ibuf, burst>>

FrontInit ==
    /\ \E W \in SUBSET program.warps \ {{}} : active = [w \in Warp |-> w \in W]
    /\ stalled = [w \in Warp |-> FALSE] /\ parked = [w \in Warp |-> FALSE]
    /\ count = [w \in Warp |-> 0] /\ lastControl = [w \in Warp |-> 0]
    /\ unlock = {} /\ launch = {} /\ nextId = 1
    /\ schedule = <<>>
    /\ fetch = [req |-> <<>>, flush |-> <<>>, tags |-> {}, issued |-> {}]
    /\ ibuf = [w \in Warp |-> <<>>] /\ burst = [w \in Warp |-> {}]

(***************************************************************************)
(* The lowest warp that may fetch.  A warp with a full instruction buffer  *)
(* is passed over unless all are full.                                     *)
(***************************************************************************)
MayFetch(w) ==
    /\ active[w] /\ ~stalled[w] /\ ~parked[w]
    /\ count[w] # IBufSize \/ \A v \in Warp : count[v] = IBufSize

Scheduled ==
    {[id |-> nextId, warp |-> w, uop |-> 0, end |-> TRUE] :
        w \in {v \in Warp : nextId <= Len(program.kinds) /\ MayFetch(v) /\ \A u \in 0 .. v - 1 : ~MayFetch(u)}}

(***************************************************************************)
(* Fetch takes a scheduled token when its warp has no fetch outstanding    *)
(* and the request buffer has room.                                        *)
(***************************************************************************)
TagFree(t) == \A u \in fetch.tags : u.warp # t.warp

FetchReady == Len(fetch.req) < 2 /\ \A t \in Out(schedule) : TagFree(t)

FetchTaken == IF FetchReady THEN Out(schedule) ELSE {}

\* The fetch response enters the instruction buffer of its warp, if it has room.
Decoded(response) == {t \in response : Len(ibuf[t.warp]) < IBufSize}

FetchStep(response, requestReady) ==
    fetch' = [req    |-> BufferNext(2, fetch.req, FetchTaken, Len(fetch.flush) < 2),
              flush  |-> BufferNext(2, fetch.flush, Out(fetch.req), requestReady),
              tags   |-> (fetch.tags \ Decoded(response)) \cup FetchTaken,
              issued |-> (fetch.issued \ Decoded(response))
                            \cup (IF requestReady THEN Out(fetch.flush) ELSE {})]

(***************************************************************************)
(* The sequencer splits a packed instruction; the instruction buffer keeps *)
(* its head until the last uop is taken.                                   *)
(***************************************************************************)
Packed(s) == {t \in s : Kind(t).uops > 1}

UopOut(w) == IF burst[w] # {} THEN burst[w] ELSE Out(ibuf[w]) \ Packed(Out(ibuf[w]))

LastUop(w) == \A t \in burst[w] : t.uop + 1 = Kind(t).uops

Popped(w, taken) == taken /\ UopOut(w) # {} /\ LastUop(w)

BurstNext(w, taken) ==
    IF burst[w] = {} THEN Packed(Out(ibuf[w]))
    ELSE IF ~taken THEN burst[w]
    ELSE IF LastUop(w) THEN {}
    ELSE {[t EXCEPT !.uop = @ + 1] : t \in burst[w]}

SequencerError == \E w \in Warp : \E t \in burst[w] : \A u \in Out(ibuf[w]) : u.id # t.id

BufferStep(response, taken) ==
    /\ ibuf' = [w \in Warp |-> BufferNext(IBufSize, ibuf[w],
                                          {t \in Decoded(response) : t.warp = w}, Popped(w, taken[w]))]
    /\ burst' = [w \in Warp |-> BurstNext(w, taken[w])]

(***************************************************************************)
(* Scheduler.Evaluate.  feedback is a set of tokens whose scheduler event  *)
(* is applied on this edge; TMC 0 deactivates the warp.  The order of the  *)
(* assignments is the code's: launch, decode unlock, feedback, schedule.   *)
(***************************************************************************)
FeedbackError(feedback) ==
    \/ \E t \in feedback : t.id <= lastControl[t.warp] \/ ~active[t.warp]
    \/ \E t, u \in feedback : t # u /\ t.warp = u.warp /\ Kind(t).ctl = Kind(u).ctl

ScheduleAccepted == IF Len(schedule) < 2 THEN Scheduled ELSE {}

PopError(taken) ==
    \E w \in Warp : /\ Popped(w, taken[w]) /\ count[w] = 0
                    /\ \A t \in ScheduleAccepted : t.warp # w

\* The registered decode event unlocks the warp of an instruction that goes on.
Unlocked(w) == \E t \in unlock : t.warp = w /\ ~WarpStall(t)

SchedulerStep(response, taken, feedback) ==
    LET chosen(w) == \E t \in ScheduleAccepted : t.warp = w
        woken(w) == \E t \in feedback : t.warp = w
        exits(w) == \E t \in feedback : t.warp = w /\ Kind(t).ctl = "tmc"
    IN  /\ active' = [w \in Warp |-> (active[w] \/ w \in launch) /\ ~exits(w)]
        /\ stalled' = [w \in Warp |->
               chosen(w) \/ (stalled[w] /\ ~woken(w) /\ ~Unlocked(w))]
        /\ parked' = [w \in Warp |-> parked[w] /\ w \notin launch]
        /\ count' = [w \in Warp |-> (count[w] + (IF chosen(w) THEN 1 ELSE 0)
                                              - (IF Popped(w, taken[w]) THEN 1 ELSE 0)) % 8]
        /\ unlock' = Decoded(response)
        /\ lastControl' = [w \in Warp |->
               IF woken(w) THEN (CHOOSE t \in feedback : t.warp = w /\
                                     \A u \in feedback : u.warp = w => u.id <= t.id).id
               ELSE lastControl[w]]
        /\ nextId' = nextId + Cardinality(ScheduleAccepted)
        /\ launch' = {}
        /\ schedule' = BufferNext(2, schedule, Scheduled, FetchReady)

(***************************************************************************)
(* Frontend.cancel: cancelled instructions leave the buffers, and the      *)
(* counter of the warp loses the ones that were not yet popped.            *)
(***************************************************************************)
FrontTokens == SeqSet(schedule) \cup fetch.tags \cup UNION {SeqSet(ibuf[w]) : w \in Warp}

Unpopped(c) == {t.id : t \in {u \in FrontTokens : Matches(c, u)}}

FrontCancel(c) ==
    /\ schedule' = KeepSeq(c, schedule)
    /\ fetch' = [req |-> KeepSeq(c, fetch.req), flush |-> KeepSeq(c, fetch.flush),
                 tags |-> Keep(c, fetch.tags), issued |-> Keep(c, fetch.issued)]
    /\ ibuf' = [w \in Warp |-> KeepSeq(c, ibuf[w])]
    /\ burst' = [w \in Warp |-> Keep(c, burst[w])]
    /\ count' = [count EXCEPT ![c.warp] = (@ - Cardinality(Unpopped(c))) % 8]
    /\ unlock' = Keep(c, unlock)
    /\ stalled' = [stalled EXCEPT ![c.warp] = TRUE]
    /\ parked' = [parked EXCEPT ![c.warp] = TRUE]
    /\ UNCHANGED <<active, lastControl, nextId, launch>>
==============================================================================
