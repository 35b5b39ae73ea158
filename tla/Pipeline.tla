------------------------------ MODULE Pipeline -------------------------------
(***************************************************************************)
(* The core pipeline (Core.EvaluateExecution of src/timing/model/core.go)  *)
(* under the multi-warp runner that clocks it, delivers scheduler feedback *)
(* and barrier wakes to it, and launches, cancels and restarts its warps   *)
(* (src/timing/runner/multi.go, release.go, cancel.go, restart.go, cta.go).*)
(*                                                                         *)
(* External: the instruction and data memory, which take requests and      *)
(* answer them in any order, and the barrier coordinator, which releases a *)
(* blocked warp at any time.  WSPAWN is in module Residency.               *)
(***************************************************************************)
EXTENDS Frontend, Issue, Execute

CONSTANT RestartWaiting     \* does the caller restart warps that wait at a barrier?

VARIABLES
    joining,      \* JOIN whose feedback is due on the next edge
    blocked,      \* barrier instruction a warp waits at
    releases,     \* wakes queued for the next edge
    runnerParked, \* the runner's record of cancelled warps
    receipts,     \* effect receipts of the instructions that stall their warp
    cancels,      \* cancellations still to come
    fault         \* an error return of the edge

runnerVars == <<joining, blocked, releases, runnerParked, receipts, cancels, fault>>

vars == <<program, frontVars, issueVars, execVars, runnerVars>>

Init ==
    /\ \E p \in Programs : program = p /\ cancels = p.cancels
    /\ FrontInit /\ IssueInit /\ ExecInit
    /\ joining = {} /\ blocked = [w \in Warp |-> {}] /\ releases = {}
    /\ runnerParked = [w \in Warp |-> FALSE]
    /\ receipts = {} /\ fault = FALSE

(***************************************************************************)
(* The drain condition of the warp control instruction about to execute:   *)
(* WSYNC waits until it is the only pending instruction of its warp, a     *)
(* barrier until the LSU request queue and tags are empty.                 *)
(***************************************************************************)
\* Mutant: WSYNC tolerates one other pending instruction.
ControlAllowedEarly ==
    \A t \in Route(Out(sfu.disp), "wctl") :
        /\ Kind(t).ctl = "sync" => Cardinality({u \in account.pending : u.warp = t.warp}) <= 2
        /\ Kind(t).ctl \in {"bar", "none"} => LsuDrained

ControlAllowed ==
    \A t \in Route(Out(sfu.disp), "wctl") :
        /\ Kind(t).ctl = "sync" => Cardinality({u \in account.pending : u.warp = t.warp}) <= 1
        /\ Kind(t).ctl \in {"bar", "none"} => LsuDrained

\* Feedback of the producers, from the old edge, and the barrier wakes.
ProducerFeedback ==
    alu.branch \cup joining \cup {t \in sfu.control : Kind(t).ctl \in {"tmc", "split", "sync"}}

Feedback == ProducerFeedback \cup releases

FedBack(w) == \E t \in Feedback : t.warp = w

UnitReady ==
    [c \in Class |-> CASE c = ALU -> AluReady(Out(dispatch[ALU]))
                       [] c = LSU -> LsuReady
                       [] c = SFU -> SfuReady
                       [] c = FPU -> FpuReady(Out(dispatch[FPU]))]

Taken == [w \in Warp |-> Staged(w)]

\* The warp control instruction that waits for its coordinator.
BarrierControl(w) == {t \in sfu.control : t.warp = w /\ Kind(t).ctl = "bar"}

EdgeError(unitReady) ==
    \/ SequencerError \/ PopError(Taken) \/ FeedbackError(Feedback)
    \/ ScoreboardError(Writeback, Releases(unitReady))
    \/ CollectorError \/ FpuError \/ AccountError
    \/ ~(alu.branch \cup sfu.control \subseteq receipts \cup {t \in sfu.control : ~WarpStall(t)})
    \/ \E w \in Warp : BarrierControl(w) # {} /\ blocked[w] # {} /\ ~FedBack(w)

(***************************************************************************)
(* One clock edge: every component moves from the old state of the others. *)
(* CoreStep is the part that no answer of a memory reaches at this edge.   *)
(* Redirecting feedback also cancels younger work of its warp first;       *)
(* NoYounger shows that there is none.                                     *)
(***************************************************************************)
CoreStep ==
    /\ ~fault
    /\ \E unitReady \in {UnitReady} :
          /\ ScoreboardStep([w \in Warp |-> UopOut(w)], Writeback, unitReady)
          /\ DispatchStep(unitReady)
          /\ fault' = EdgeError(unitReady)
    /\ CollectorStep
    /\ AluStep(Out(dispatch[ALU]))
    /\ SfuStep(Out(dispatch[SFU]), ControlAllowed)
    /\ FpuStep(Out(dispatch[FPU]))
    /\ CommitStep
    /\ AccountStep(Collected)
    /\ joining' = {t \in sfu.control : Kind(t).ctl = "join"}
    /\ blocked' = [w \in Warp |-> (IF FedBack(w) THEN {} ELSE blocked[w]) \cup BarrierControl(w)]
    /\ releases' = {}
    /\ runnerParked' = [w \in Warp |-> runnerParked[w] /\ ~FedBack(w)]
    /\ UNCHANGED <<program, cancels>>

(***************************************************************************)
(* The part of the edge at the memory ports.  fetchResponse and            *)
(* memoryResponse hold at most one response, which is offered again if it  *)
(* is not taken.                                                           *)
(***************************************************************************)
PortStep(fetchReady, fetchResponse, memoryReady, memoryResponse) ==
    /\ FetchStep(fetchResponse, fetchReady)
    /\ BufferStep(fetchResponse, Taken)
    /\ SchedulerStep(fetchResponse, Taken, Feedback)
    /\ LsuStep(Out(dispatch[LSU]), memoryResponse, memoryReady)
    /\ receipts' = {t \in receipts : \A u \in commit.feedback : ~SameUop(t, u)}
                       \cup {t \in Decoded(fetchResponse) : WarpStall(t)}

FetchAnswers == {{}} \cup {{t} : t \in fetch.issued}

MemoryAnswers ==
    {{}} \cup UNION {{{[tok |-> e.tok, mask |-> m]} : m \in SUBSET e.left \ {{}}} :
                        e \in {x \in lsu.tags : x.tok \in lsu.sent}}

\* Readiness of a port matters only when a request is offered to it.
PortReady(queue) == IF queue = <<>> THEN {TRUE} ELSE BOOLEAN

Clock ==
    /\ CoreStep
    /\ \E fetchReady \in PortReady(fetch.flush), memoryReady \in PortReady(lsu.req),
          f \in FetchAnswers, m \in MemoryAnswers :
           PortStep(fetchReady, f, memoryReady, m)

\* The barrier coordinator queues the wake of a blocked warp.
Release(w) ==
    /\ ~fault /\ blocked[w] # {} /\ blocked[w] \cap releases = {}
    /\ releases' = releases \cup blocked[w]
    /\ UNCHANGED <<program, frontVars, issueVars, execVars, joining, blocked, runnerParked,
                   receipts, cancels, fault>>

\* CTA dispatch of an inactive warp; its older instructions may be in flight.
DispatchWarp(w) ==
    /\ ~fault /\ w \in program.warps /\ ~active[w] /\ ~runnerParked[w] /\ launch = {}
    /\ launch' = {w}
    /\ UNCHANGED <<program, active, stalled, parked, count, unlock, lastControl, nextId, schedule,
                   fetch, ibuf, burst, issueVars, execVars, runnerVars>>

(***************************************************************************)
(* Between edges, cancel the instructions of warp w younger than `after'   *)
(* and park the warp.                                                      *)
(***************************************************************************)
Cancel(w, after) ==
    LET c == [warp |-> w, after |-> after, through |-> nextId - 1]
    IN  /\ ~fault /\ cancels > 0 /\ after < nextId - 1
        /\ FrontCancel(c) /\ IssueCancel(c) /\ ExecCancel(c)
        /\ joining' = Keep(c, joining)
        /\ blocked' = [v \in Warp |-> Keep(c, blocked[v])]
        /\ releases' = Keep(c, releases)
        /\ receipts' = Keep(c, receipts)
        /\ runnerParked' = [runnerParked EXCEPT ![w] = TRUE]
        /\ cancels' = cancels - 1
        /\ UNCHANGED <<program, fault>>

\* Every token of the pipeline.
Residents ==
    FrontTokens \cup InIssue \cup ExecTokens \cup SeqSet(lsu.req)

(***************************************************************************)
(* Restart resumes a parked warp with the context of its owner, which is   *)
(* active when the scheduler's is.  It looks for control receipts, for     *)
(* fetches and for control instructions in the core; it does not look at   *)
(* the barrier the runner's blocked map says the warp waits at.            *)
(***************************************************************************)
Restart(w) ==
    /\ ~fault /\ runnerParked[w] /\ parked[w] /\ count[w] = 0
    /\ \A t \in receipts \cup unlock : t.warp # w
    /\ \A t \in Residents : t.warp = w => ~WarpStall(t)
    /\ stalled' = [stalled EXCEPT ![w] = FALSE]
    /\ parked' = [parked EXCEPT ![w] = FALSE]
    /\ runnerParked' = [runnerParked EXCEPT ![w] = FALSE]
    /\ UNCHANGED <<program, active, count, unlock, lastControl, nextId, launch, schedule, fetch,
                   ibuf, burst, issueVars, execVars, joining, blocked, releases, receipts,
                   cancels, fault>>

\* The warps the caller restarts.
Restartable == {w \in Warp : blocked[w] = {} \/ RestartWaiting}

Next ==
    \/ Clock
    \/ \E w \in Warp : Release(w) \/ DispatchWarp(w)
    \/ \E w \in Restartable : Restart(w)
    \/ \E w \in Warp, after \in 0 .. MaxId : Cancel(w, after)

Spec == Init /\ [][Next]_vars

(***************************************************************************)
(* Fairness, in the runs whose memories are assumed to answer: the runner  *)
(* keeps clocking, and again and again there is an edge at which the       *)
(* memories are ready and answer what they owe; the barrier coordinator    *)
(* releases every warp that waits.                                         *)
(***************************************************************************)
ServedClock ==
    /\ program.served
    /\ CoreStep
    /\ \E f \in FetchAnswers, m \in MemoryAnswers :
          /\ f = {} => fetch.issued = {}
          /\ m = {} => lsu.sent = {}
          /\ PortStep(TRUE, f, TRUE, m)

Fairness == WF_vars(ServedClock) /\ \A w \in Warp : WF_vars(program.served /\ Release(w))

FairSpec == Spec /\ Fairness

-----------------------------------------------------------------------------

IsSignal(s, S) == s \subseteq S /\ Cardinality(s) <= 1

Ids(s) == {<<t.id, t.uop>> : t \in s}

(***************************************************************************)
(* Type invariant of the pipeline and the runner: signals hold at most one *)
(* token and no buffer exceeds its size.                                   *)
(***************************************************************************)
TypeOK ==
    /\ active \in [Warp -> BOOLEAN] /\ stalled \in [Warp -> BOOLEAN] /\ parked \in [Warp -> BOOLEAN]
    /\ count \in [Warp -> 0 .. 7] /\ nextId \in 1 .. MaxId + 1 /\ IsSignal(launch, Warp)
    /\ IsSignal(unlock, Token) /\ lastControl \in [Warp -> 0 .. MaxId]
    /\ Len(schedule) <= 2 /\ Len(fetch.req) <= 2 /\ Len(fetch.flush) <= 2
    /\ \A w \in Warp : Len(ibuf[w]) <= IBufSize /\ IsSignal(burst[w], Token) /\ Len(staging[w]) <= 1
    /\ ready \in [Warp -> BOOLEAN] /\ Len(issueOut) <= 2 /\ rrNext \in Warp /\ IsSignal(rrPrevious, Warp)
    /\ Len(first) <= 1 /\ Len(second) <= 1 /\ Len(opcOut) <= 2
    /\ \A c \in Class : Len(dispatch[c]) <= Limit /\ credits[c] \in 0 .. Limit
    /\ Cardinality(lsu.tags) <= LoadTags /\ Cardinality(fpu.tags) <= FpuTags
    /\ alu.left \in 0 .. DivLatency /\ sfu.wait \in 0 .. CsrLatency
    /\ IsSignal(commit.feedback, Token) /\ IsSignal(account.issued, Token)
    /\ Residents \subseteq Token
    /\ IsSignal(joining, Token) /\ \A w \in Warp : IsSignal(blocked[w], Token)
    /\ runnerParked \in [Warp -> BOOLEAN] /\ receipts \subseteq Token /\ cancels \in Nat

(***************************************************************************)
(* The registers are well typed and no edge returns an error: no pop of an *)
(* unscheduled instruction, no credit released that was not taken or taken *)
(* beyond the limit, no writeback of a register that is not reserved, no   *)
(* commit of an instruction that is not pending, no stale, repeated or     *)
(* unowned scheduler feedback, with cancellations at any edge and restarts *)
(* at any edge of warps that wait at no barrier.                           *)
(***************************************************************************)
NoFault == TypeOK /\ ~fault

\* Uops issued and not yet written back, wherever they are.
InFlight ==
    SeqSet(issueOut) \cup {f.tok : f \in SeqSet(first)} \cup SeqSet(second) \cup SeqSet(opcOut)
    \cup UNION {SeqSet(dispatch[c]) : c \in Class} \cup ExecTokens

(***************************************************************************)
(* Scoreboard.reservations names exactly the uops between issue and        *)
(* writeback and busy is the union of their destinations, also after a     *)
(* cancellation rebuilt both.                                              *)
(***************************************************************************)
ReservationsExact ==
    /\ Ids(reserved) = Ids(InFlight)
    /\ \A w \in Warp : busy[w] = UNION {Kind(t).writes : t \in {u \in reserved : u.warp = w}}

(***************************************************************************)
(* No RAW or WAW hazard is ever in flight: a uop between issue and         *)
(* writeback uses no register an older uop of its warp has yet to write.   *)
(***************************************************************************)
NoHazard ==
    \A t, u \in reserved :
        t.warp = u.warp /\ (t.id < u.id \/ (t.id = u.id /\ t.uop < u.uop))
            => Kind(t).writes \cap Uses(u) = {}

(***************************************************************************)
(* The scoreboard does its work: the two facts above together              *)
(* (Scoreboard.evaluate, Scoreboard.cancel).                               *)
(***************************************************************************)
ScoreboardExact == ReservationsExact /\ NoHazard

(***************************************************************************)
(* The credit ledger of a class lists, in order, the uops of the class     *)
(* between issue and the head of the dispatch queue, and credits is its    *)
(* length, also after a cancellation removed entries from its middle.      *)
(***************************************************************************)
CreditLedger ==
    \A c \in Class :
        /\ credits[c] = Len(creditTokens[c])
        /\ creditTokens[c] =
               SelectSeq(dispatch[c] \o opcOut \o second
                            \o (IF \E f \in SeqSet(first) : f.last THEN <<first[1].tok>> ELSE <<>>)
                            \o issueOut,
                         LAMBDA t : ClassOfToken(t) = c)

(***************************************************************************)
(* The credits make the collector's output register never wait for a       *)
(* dispatch queue, so one class cannot block another: the eligibility      *)
(* threshold covers the edge between computing it and using it.            *)
(***************************************************************************)
DispatchNeverBlocks == DispatchReady

\* Credits are counted exactly and cover the dispatch queues (Scoreboard, Dispatch).
CreditsSound == CreditLedger /\ DispatchNeverBlocks

(***************************************************************************)
(* The scheduler's 3-bit counter counts the scheduled and not yet popped   *)
(* instructions, and exceeds the instruction buffer by one at most (the    *)
(* fetch admitted when all buffers are full).                              *)
(***************************************************************************)
CountExact ==
    \A w \in Warp :
        /\ count[w] = Cardinality({t.id : t \in {u \in FrontTokens : u.warp = w}})
        /\ count[w] <= IBufSize + 1

(***************************************************************************)
(* No instruction younger than an unresolved branch, barrier or other      *)
(* redirecting instruction of its warp exists (the comment of              *)
(* cleanupRedirects: "Normal RTL wstall produces no younger work").        *)
(***************************************************************************)
NoYounger ==
    \A t \in Residents \cup UNION {blocked[w] : w \in Warp} :
        WarpStall(t) /\ t.id > lastControl[t.warp] =>
            \A u \in Residents : u.warp = t.warp => u.id <= t.id

(***************************************************************************)
(* The accounting knows exactly the uops the collector has passed on and   *)
(* whose commit it has not yet seen.                                       *)
(***************************************************************************)
PendingExact ==
    Ids(account.pending \cup account.issued) =
        Ids((InFlight \ SeqSet(issueOut)) \cup commit.feedback)

(***************************************************************************)
(* WSYNC takes effect only when every older instruction of its warp has    *)
(* been written back.                                                      *)
(***************************************************************************)
SyncDrains ==
    \A t \in sfu.control : Kind(t).ctl = "sync" => \A u \in reserved : u.warp = t.warp => u.id >= t.id

(***************************************************************************)
(* The counters that gate fetch and control match what is in flight: the   *)
(* scheduler's and the accounting's (Scheduler, instructionAccounting).    *)
(***************************************************************************)
CountersExact == CountExact /\ PendingExact

(***************************************************************************)
(* "no old frontend or control operation may survive to overwrite the      *)
(* caller's restart context" (the comment of Core.Restart): a redirect or  *)
(* a wake reaches the scheduler only for a warp that has stood still since *)
(* the instruction it belongs to, with nothing younger fetched.            *)
(***************************************************************************)
RestartKeepsContext ==
    \A t \in Feedback :
        stalled[t.warp] /\ \A u \in Residents : u.warp = t.warp => u.id <= t.id

(***************************************************************************)
(* Control waits for what it must wait for: nothing of a warp is fetched   *)
(* past a control instruction (warp_stall), WSYNC drains first, and a      *)
(* restart, of a warp that waits at no barrier, leaves no older control    *)
(* operation behind.                                                       *)
(***************************************************************************)
ControlWaits == NoYounger /\ SyncDrains /\ RestartKeepsContext

\* Core.Idle, and no warp waits at a barrier.
Idle ==
    /\ Residents = {} /\ launch = {} /\ unlock = {} /\ Scheduled = {}
    /\ reserved = {} /\ credits = [c \in Class |-> 0] /\ ~lsu.fence
    /\ alu.branch \cup sfu.control \cup fpu.flags \cup commit.feedback = {}
    /\ \A w \in Warp : count[w] = 0 /\ blocked[w] = {}

(***************************************************************************)
(* Every instruction fetched is written back, every redirect and barrier   *)
(* is resolved and all credits, tags and locks come back: the core becomes *)
(* idle once the instructions of the run are fetched or their warps have   *)
(* exited or are parked, whenever the memories answer.                     *)
(***************************************************************************)
BecomesIdle == program.served => <>[]Idle
==============================================================================
