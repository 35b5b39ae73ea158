------------------------------ MODULE Effects ------------------------------
(***************************************************************************)
(* How the timing model makes instructions visible (src/timing/effects and *)
(* the effect streams of src/emu/state).  Every instruction in flight has  *)
(* an engine that samples its operands, evaluates it and then applies each *)
(* group of its effects at the edge the pipeline reports it: registers at  *)
(* writeback, flags, CSRs, memory, and the PC behind a frontier that keeps *)
(* late completions from rewinding it.                                     *)
(*                                                                         *)
(* The pipeline is external: at an edge it reports any events that keep    *)
(* the order it guarantees (in-order issue past the scoreboard, in-order   *)
(* execution per unit, fetch stalled behind control instructions).  Values *)
(* are terms over the PC that made them, so that two results are equal     *)
(* only when they were computed from the same operands.  gold executes     *)
(* every instruction at once, in the order of decoding.  A CSR request     *)
(* that is held writes and reads its CSR again on every edge, so gold is   *)
(* kept for every set of CSR instructions that may have been held.         *)
(***************************************************************************)
EXTENDS Integers, Sequences, FiniteSets, FiniteSetsExt, Folds

CONSTANTS Warp, Lanes,
          Programs,     \* what the warps are launched with: thread mask and code
          Window,       \* instructions of a warp in flight
          Vector        \* the trap handler's PC

ASSUME EffectsAssumption == Warp \subseteq Nat /\ Window \in Nat \ {0} /\ Vector \in Nat

VARIABLES program,
          owner,      \* the canonical state of every warp, and its barrier arrivals
          stream,     \* its frontiers: control and activation
          entry,      \* the engines of the instructions in flight, by identity
          last,       \* the last identity admitted per warp
          mem,        \* the memory words, per address and lane
          failed,     \* an event was refused
          core,       \* what the pipeline keeps: fetch contexts, registered events
          held,       \* the CSR instructions whose request was repeated: warp and PC
          gold        \* the in-order execution of the instructions admitted, by what was held

effectVars == <<owner, stream, entry, last, mem, failed>>
vars == <<program, effectVars, core, held, gold>>

-----------------------------------------------------------------------------
(* Instructions: operation, destination, source, address and lane set or   *)
(* target.                                                                 *)
Ins(op, rd, rs, arg) == [op |-> op, rd |-> rd, rs |-> rs, arg |-> arg]
None == "x0"
Reg == {None, "r1", "r2"}
Addr == {"a", "b"}

Class(k) == CASE k.op \in {"alu", "branch", "jump", "ecall"} -> "ALU"
              [] k.op \in {"load", "store", "fence"} -> "LSU"
              [] k.op \in {"tmc", "join", "arrive", "spawn", "csr"} -> "SFU"
              [] k.op = "fpu" -> "FPU"
Branch(k) == k.op \in {"branch", "jump", "ecall"}
Wctl(k) == k.op \in {"tmc", "join", "arrive", "spawn"}
Memory(k) == Class(k) = "LSU"
WarpStall(k) == Branch(k) \/ (Wctl(k) /\ k.op # "arrive")

NextPc(k, pc) == IF k.op = "jump" THEN pc + 2 ELSE IF k.op = "ecall" THEN Vector ELSE pc + 1
Overlay(f, g) == [x \in DOMAIN f |-> IF x \in DOMAIN g THEN g[x] ELSE f[x]]
Result(pc, ops, lanes) == [l \in lanes |-> <<pc, ops[l]>>]
First == Min(Lanes)

Fresh(mask) == [pc |-> 1, mask |-> mask,
          reg |-> [r \in Reg |-> [l \in Lanes |-> IF r = None THEN <<>> ELSE <<0>>]],
          csr |-> <<>>, flags |-> {}, mepc |-> 0, saved |-> {}, arrivals |-> 0]

Write(o, rd, values) == IF rd = None THEN o ELSE [o EXCEPT !.reg[rd] = Overlay(@, values)]

(* The parts of an instruction's control effect beyond the sequential PC. *)
Control(o, k, pc, mask) ==
    [o EXCEPT !.pc = NextPc(k, pc),
              !.mask = IF k.op \in {"tmc", "join"} THEN k.arg ELSE @,
              !.mepc = IF k.op = "ecall" THEN pc ELSE @,
              !.saved = IF k.op = "ecall" THEN mask ELSE @,
              !.arrivals = IF k.op = "arrive" THEN @ + 1 ELSE @]

(* The warp a WSPAWN starts. *)
Spawned(o, k, source) == [o EXCEPT !.pc = k.arg[2], !.mask = {First}, !.csr = source.csr]

(* One instruction executed at once on the state g and memory m.  CSRRW    *)
(* gives every lane the old CSR and writes lane 0's operand; a repeated    *)
(* one finds what it wrote before.                                         *)
Perform(g, m, k, repeated) ==
    LET ops == g.reg[k.rs]
        value == CASE k.op = "load" -> [l \in g.mask |-> m[k.arg][l]]
                   [] k.op = "csr" -> [l \in g.mask |-> IF repeated THEN ops[First] ELSE g.csr]
                   [] OTHER -> Result(g.pc, ops, g.mask)
        flags == IF k.op = "fpu" THEN g.flags \cup {g.pc} ELSE g.flags
        csr == IF k.op = "csr" THEN ops[First] ELSE g.csr
    IN  Control(Write([g EXCEPT !.flags = flags, !.csr = csr], k.rd, value), k, g.pc, g.mask)

Stored(m, k, o) == IF k.op # "store" THEN m
                   ELSE [m EXCEPT ![k.arg] = Overlay(@, [l \in o.mask |-> o.reg[k.rs][l]])]

-----------------------------------------------------------------------------
(* Engines *)
Engine(w, k, pc, mask) ==
    [w |-> w, k |-> k, pc |-> pc, mask |-> mask,
     read |-> FALSE, ops |-> <<>>, evaluated |-> FALSE, value |-> <<>>, written |-> FALSE,
     control |-> FALSE, flags |-> FALSE, pending |-> FALSE,
     join |-> FALSE, spawn |-> FALSE,                     \* registered deadlines
     sent |-> FALSE, served |-> {}, parts |-> {}]         \* memory fragments

(* A fragment: its lanes, the values it returned, whether the response was *)
(* accepted and written back.                                              *)
Part(lanes, values) == [lanes |-> lanes, values |-> values, accepted |-> FALSE, written |-> FALSE]
Covered(parts) == UNION {p.lanes : p \in parts}

Fail(s) == [s EXCEPT !.failed = TRUE]

(* Mutant: a late sequential completion still moves the PC. *)
DeliverControlLate(s, i) ==
    LET x == s.entry[i]
        st == s.stream[x.w]
    IN  IF i <= st.control /\ (WarpStall(x.k) \/ (x.k.op = "arrive" /\ i <= st.activation))
        THEN Fail(s)
        ELSE [s EXCEPT !.entry[i].control = TRUE,
                       !.owner[x.w] = Control(@, x.k, x.pc, x.mask),
                       !.stream[x.w].control = Max({@, i})]

(* Mutant: an arrival that completes behind a younger branch is refused. *)
DeliverControlOrdered(s, i) ==
    LET x == s.entry[i]
    IN  IF i <= s.stream[x.w].control
        THEN IF WarpStall(x.k) \/ x.k.op = "arrive" THEN Fail(s)
             ELSE [s EXCEPT !.entry[i].control = TRUE]
        ELSE [s EXCEPT !.entry[i].control = TRUE, !.owner[x.w] = Control(@, x.k, x.pc, x.mask),
                       !.stream[x.w].control = i]

(* ControlEvent.  In front of the frontier the control effect is applied   *)
(* and moves it.  Behind it a sequential PC is dropped, a nonblocking      *)
(* arrival of this activation still counts, and anything else is an error. *)
DeliverControl(s, i) ==
    LET x == s.entry[i]
        st == s.stream[x.w]
    IN  IF i > st.control
        THEN [s EXCEPT !.entry[i].control = TRUE,
                       !.owner[x.w] = Control(@, x.k, x.pc, x.mask),
                       !.stream[x.w].control = i]
        ELSE IF WarpStall(x.k) \/ (x.k.op = "arrive" /\ i <= st.activation)
        THEN Fail(s)
        ELSE [s EXCEPT !.entry[i].control = TRUE,
                       !.owner[x.w].arrivals = IF x.k.op = "arrive" THEN @ + 1 ELSE @]

RecordActivation(st, through) ==
    [control |-> Max({st.control, through}), activation |-> Max({st.activation, through})]

(* WSPAWN at its activation edge: the target's PC, mask and scratch CSR    *)
(* are set in its live image; its older receipts go on.                    *)
DeliverSpawn(s, i) ==
    LET x == s.entry[i]
        target == x.k.arg[1]
    IN  IF i <= s.stream[x.w].control \/ s.owner[x.w].mask # x.mask THEN Fail(s)
        ELSE [s EXCEPT !.entry[i].control = TRUE, !.entry[i].spawn = FALSE,
                       !.owner[x.w].pc = x.pc + 1,
                       !.owner[target] = Spawned(@, x.k, s.owner[x.w]),
                       !.stream[x.w].control = i,
                       !.stream[target] = RecordActivation(@, last[target])]

(* The control of a memory instruction waits for both its pending release  *)
(* and its last fragment.                                                  *)
FinishMemory(s, i) ==
    LET x == s.entry[i]
    IN  IF x.pending /\ x.served = x.mask /\ ~x.control THEN DeliverControl(s, i) ELSE s

-----------------------------------------------------------------------------
(* One edge.  A report r holds for every kind of event the identities it   *)
(* names: read, executed, csr (the request window), writeback (with the    *)
(* lanes), release, branch, control, flags, accepted and response.         *)
(* Operands and CSRs are read from old, the state before the edge.         *)

ObserveRead(s, i, r, old) ==
    IF i \notin r.read THEN s
    ELSE [s EXCEPT !.entry[i].read = TRUE,
                   !.entry[i].ops = old.owner[s.entry[i].w].reg[s.entry[i].k.rs]]

(* The FPU flags and the trap of a CSR request's warp that join its edge.  *)
JointFlags(r, c) == {i \in r.flags : entry[i].w = entry[c].w}
JointTrap(r, c) == {i \in r.branch : entry[i].k.op = "ecall" /\ entry[i].w = entry[c].w}

(* deliverCSR.  The value read must still be the canonical one.  The CSR   *)
(* write, the flags and the trap of the edge are one transaction.          *)
DeliverCsr(s, i, r, old) ==
    LET x == s.entry[i]
        flagged == JointFlags(r, i)
        wrote == [s EXCEPT !.owner[x.w].csr = x.ops[First],
                           !.owner[x.w].flags = @ \cup {s.entry[j].pc : j \in flagged},
                           !.entry = [j \in DOMAIN @ |-> [@[j] EXCEPT !.flags = @ \/ j \in flagged]]]
    IN  IF \/ s.owner[x.w].csr # old.owner[x.w].csr
           \/ \E j \in flagged : ~s.entry[j].evaluated \/ s.entry[j].flags
           \/ \E j \in JointTrap(r, i) : ~s.entry[j].evaluated \/ s.entry[j].control
        THEN Fail(s)
        ELSE IF JointTrap(r, i) = {} THEN wrote
        ELSE DeliverControl(wrote, CHOOSE j \in JointTrap(r, i) : TRUE)

(* Every edge a CSR request is held writes the CSR again.  Acceptance      *)
(* reads it as the last held edge left it.                                 *)
ObserveCsr(s, i, r, old) ==
    LET x == s.entry[i]
    IN  IF i \notin r.csr \ r.executed THEN s
        ELSE IF x.evaluated \/ ~x.read THEN Fail(s)
        ELSE DeliverCsr(s, i, r, old)

ObserveExecuted(s, i, r, old) ==
    LET x == s.entry[i]
        value == IF x.k.op = "csr" THEN [l \in x.mask |-> old.owner[x.w].csr]
                 ELSE Result(x.pc, x.ops, x.mask)
        run == [s EXCEPT !.entry[i].evaluated = TRUE, !.entry[i].value = value]
    IN  IF i \notin r.executed THEN s
        ELSE IF x.evaluated \/ ~x.read THEN Fail(s)
        ELSE IF i \in r.csr THEN DeliverCsr(run, i, r, old) ELSE run

ObserveMemory(s, i, r) ==
    LET x == s.entry[i]
        back == UNION {{p \in x.parts : p.lanes = v.lanes} : v \in {u \in r.writeback : u.id = i}}
        answered == UNION {{p \in x.parts : p.lanes = v.lanes} : v \in {u \in r.response : u.id = i}}
        parts == {[p EXCEPT !.accepted = @ \/ p \in answered, !.written = @ \/ p \in back] : p \in x.parts}
        wrote == [s EXCEPT !.entry[i].sent = @ \/ i \in r.accepted,
                           !.entry[i].parts = parts,
                           !.owner[x.w] = IF back = {} THEN @
                                          ELSE Write(@, x.k.rd, (CHOOSE p \in back : TRUE).values)]
        stored == IF x.k.op = "store" /\ \E v \in r.writeback : v.id = i
                  THEN [wrote EXCEPT !.entry[i].written = TRUE] ELSE wrote
        released == IF i \in r.release THEN [stored EXCEPT !.entry[i].pending = TRUE] ELSE stored
        y == released.entry[i]
    IN  IF \/ i \in r.accepted /\ x.sent
           \/ \E p \in answered : p.accepted
           \/ x.k.op # "store" /\ \E v \in r.writeback : v.id = i /\ back = {}
           \/ \E p \in back : ~p.accepted \/ p.written
           \/ i \in r.release /\ (x.pending \/ IF x.k.op = "store" THEN ~y.written
                                             ELSE Covered({p \in parts : p.written}) # x.mask)
        THEN Fail(s)
        ELSE FinishMemory(released, i)

(* A registered WSPAWN waits for the scheduler to see one active warp; a   *)
(* registered JOIN is delivered on the very next edge.                     *)
ObserveDue(s, i, r) ==
    LET x == s.entry[i]
    IN  IF x.spawn /\ r.single THEN DeliverSpawn(s, i)
        ELSE IF x.join THEN DeliverControl([s EXCEPT !.entry[i].join = FALSE], i)
        ELSE s

ObserveWriteback(s, i, r) ==
    LET x == s.entry[i]
        flagged == IF i \in r.flags
                   THEN [s EXCEPT !.entry[i].flags = TRUE, !.owner[x.w].flags = @ \cup {x.pc}] ELSE s
    IN  IF \/ (i \in r.flags \/ \E v \in r.writeback : v.id = i) /\ (~x.evaluated \/ x.written)
           \/ i \in r.flags /\ x.flags
        THEN Fail(s)
        ELSE IF \E v \in r.writeback : v.id = i
        THEN [flagged EXCEPT !.entry[i].written = TRUE,
                             !.owner[x.w] = Write(@, x.k.rd, x.value)]
        ELSE flagged

ObserveControl(s, i, r) ==
    LET x == s.entry[i]
    IN  IF i \notin r.branch \cup r.control THEN s
        ELSE IF ~x.evaluated \/ x.control \/ x.join \/ x.spawn THEN Fail(s)
        ELSE CASE x.k.op = "join" -> [s EXCEPT !.entry[i].join = TRUE]
               [] x.k.op = "spawn" -> [s EXCEPT !.entry[i].spawn = TRUE]
               [] OTHER -> DeliverControl(s, i)

ObserveRelease(s, i, r) ==
    LET x == s.entry[i]
        done == [s EXCEPT !.entry[i].pending = TRUE]
    IN  IF i \notin r.release THEN s
        ELSE IF \/ x.pending \/ ~x.written
                \/ (Branch(x.k) \/ Wctl(x.k)) /\ ~x.control /\ ~x.spawn
                \/ x.k.op = "fpu" /\ ~x.flags
        THEN Fail(s)
        ELSE IF x.control \/ x.spawn THEN done ELSE DeliverControl(done, i)

(* The next state of an engine's walk, from the state before. *)
Then(s, Group(_)) == CHOOSE t \in {Group(u) : u \in {s}} : TRUE

(* observeAt: the groups of one engine in the order the code visits them. *)
ObserveAt(s, i, r, old) ==
    LET read == Then(s, LAMBDA t : ObserveRead(t, i, r, old))
        csr == Then(read, LAMBDA t : ObserveCsr(t, i, r, old))
        run == Then(csr, LAMBDA t : ObserveExecuted(t, i, r, old))
        due == Then(run, LAMBDA t : ObserveDue(t, i, r))
        back == Then(due, LAMBDA t : ObserveWriteback(t, i, r))
        control == Then(back, LAMBDA t : ObserveControl(t, i, r))
    IN  IF Memory(old.entry[i].k) THEN Then(run, LAMBDA t : ObserveMemory(t, i, r))
        ELSE Then(control, LAMBDA t : ObserveRelease(t, i, r))

(* Two controls of one warp may share an edge only when the older one is a *)
(* nonblocking arrival.                                                    *)
Overlapping(r) ==
    \E b \in r.branch, c \in r.control :
        entry[b].w = entry[c].w /\ (entry[c].k.op # "arrive" \/ c >= b)

(* The engines an edge concerns: an event names them, or a deadline is due. *)
Concerned(s, r) ==
    r.read \cup r.executed \cup r.csr \cup r.release \cup r.branch \cup r.control \cup r.accepted
    \cup {v.id : v \in r.writeback \cup r.response}
    \cup {i \in DOMAIN s.entry : s.entry[i].join \/ s.entry[i].spawn}

(* A CSR request that flags or a trap of its warp join is visited first,   *)
(* after the arrival that shares the edge with that trap.  The rest follow *)
(* by warp and age, without the events already delivered.                  *)
Joint(r) == {c \in r.csr : JointFlags(r, c) # {} \/ JointTrap(r, c) # {}}
Rank(r, i) == IF i \in r.control /\ (\E c \in r.csr : JointTrap(r, c) # {} /\ entry[c].w = entry[i].w) THEN 0
              ELSE IF i \in Joint(r) THEN 1 ELSE 2
Remaining(r) == [r EXCEPT !.flags = @ \ UNION {JointFlags(r, c) : c \in r.csr},
                          !.branch = @ \ UNION {JointTrap(r, c) : c \in r.csr}]

Observe(s, r) ==
    LET key(i) == <<Rank(r, i), s.entry[i].w, i>>
        before(a, b) == \E n \in 1..3 : a[n] < b[n] /\ \A m \in 1..(n - 1) : a[m] = b[m]
        latest(ids) == CHOOSE i \in ids : \A j \in ids \ {i} : before(key(j), key(i))
        rest == Remaining(r)
    IN  IF Overlapping(r) THEN Fail(s)
        ELSE MapThenFoldSet(LAMBDA i, t : Then(t, LAMBDA u :
                                ObserveAt(u, i, IF Rank(r, i) = 2 THEN rest ELSE r, s)),
                            s, LAMBDA i : i, latest, Concerned(s, r))

(* Mutant: a store is reaped when it has left the pipeline. *)
ReapableEarly(x) == x.pending /\ ~x.spawn /\ (Memory(x.k) => x.sent)

Reapable(x) == x.pending /\ ~x.spawn /\ (Memory(x.k) => x.sent /\ x.control)
Reap(e) == [i \in {j \in DOMAIN e : ~Reapable(e[j])} |-> e[i]]

-----------------------------------------------------------------------------
(* What the pipeline may report *)
Own(i, j) == entry[i].w = entry[j].w
Older(i) == {j \in DOMAIN entry : j < i /\ Own(i, j)}
WrittenBack(x) == IF x.k.op \in {"load", "fence"} THEN Covered({p \in x.parts : p.written}) = x.mask
                  ELSE x.written

(* Issue in order, past the reservations of the scoreboard. *)
CanRead(i) ==
    /\ ~entry[i].read
    /\ \A j \in Older(i) : /\ entry[j].read
                           /\ WrittenBack(entry[j]) \/ entry[j].k.rd = None
                              \/ entry[j].k.rd \notin {entry[i].k.rs, entry[i].k.rd}

(* A barrier arrival waits until the LSU has no request or load of its own. *)
LsuDrained == \A x \in {entry[j] : j \in DOMAIN entry} :
                  Memory(x.k) /\ x.evaluated => x.sent /\ (x.k.op # "store" => WrittenBack(x)
                                                              \/ Covered({p \in x.parts : p.accepted}) = x.mask)

(* A held CSR request blocks the unit it stands in. *)
Place(i) == <<entry[i].w, entry[i].pc>>
Repeated(i) == Place(i) \in held
CanExecute(i) ==
    /\ entry[i].read /\ ~entry[i].evaluated
    /\ \A j \in Older(i) : Class(entry[j].k) = Class(entry[i].k) => entry[j].evaluated
    /\ entry[i].k.op = "arrive" => LsuDrained
    /\ Class(entry[i].k) = "SFU" => \A j \in DOMAIN entry \ {i} : Repeated(j) => entry[j].evaluated

CanBranch(i) == Branch(entry[i].k) /\ entry[i].evaluated /\ ~entry[i].control
CanAccept(i) ==
    /\ Memory(entry[i].k) /\ entry[i].evaluated /\ ~entry[i].sent
    /\ \A j \in Older(i) : Memory(entry[j].k) => entry[j].sent

(* A result leaves its unit after the control feedback it carries. *)
Writebacks ==
    {[id |-> i, lanes |-> entry[i].mask] : i \in
        {j \in DOMAIN entry : /\ entry[j].k.op \notin {"load", "fence"}
                              /\ entry[j].evaluated /\ ~entry[j].written
                              /\ Branch(entry[j].k) => entry[j].control
                              /\ Wctl(entry[j].k) => entry[j].control \/ entry[j].spawn}}
    \cup UNION {{[id |-> i, lanes |-> p.lanes] : p \in {q \in entry[i].parts : q.accepted /\ ~q.written}} :
                i \in {j \in DOMAIN entry : entry[j].k.op \in {"load", "fence"}}}
Responses == UNION {{[id |-> i, lanes |-> p.lanes] : p \in {q \in entry[i].parts : ~q.accepted}} :
                    i \in {j \in DOMAIN entry : entry[j].k.op \in {"load", "fence"}}}

AtMostOne(S) == {{}} \cup {{x} : x \in S}
Ids(P(_)) == {i \in DOMAIN entry : P(i)}
Executes(class) == AtMostOne({i \in DOMAIN entry : Class(entry[i].k) = class /\ CanExecute(i)})

(* A CSR access whose result buffer is full is requested again. *)
CanHold(i) == entry[i].k.op = "csr" /\ CanExecute(i)

SfuSteps == {<<{}, {i}>> : i \in Ids(CanHold)} \cup {<<sfu, {}>> : sfu \in Executes("SFU")}

(* Registered events: pending releases follow the last writeback by one    *)
(* edge, warp-control feedback follows execution by one, flags leave with  *)
(* the result.                                                             *)
Reports ==
    {[read |-> read, executed |-> alu \cup lsu \cup sfu \cup fpu, csr |-> wait \cup {i \in sfu : entry[i].k.op = "csr"},
      writeback |-> wb, flags |-> {v.id : v \in {u \in wb : entry[u.id].k.op = "fpu"}},
      branch |-> branch, accepted |-> accepted, response |-> response,
      release |-> core.ended, control |-> core.control, single |-> core.single] :
        read \in AtMostOne(Ids(CanRead)), alu \in Executes("ALU"), lsu \in Executes("LSU"),
        fpu \in Executes("FPU"), <<sfu, wait>> \in SfuSteps,
        wb \in AtMostOne(Writebacks), branch \in AtMostOne(Ids(CanBranch)),
        accepted \in AtMostOne(Ids(CanAccept)), response \in AtMostOne(Responses)}

Decodable == {w \in Warp : /\ core.fetch[w].active /\ ~core.fetch[w].stalled
                           /\ Cardinality({i \in DOMAIN entry : entry[i].w = w}) < Window}
Instruction(w) == program[w].code[core.fetch[w].pc]
NextId == 1 + Max({last[w] : w \in Warp})

(* Scheduler feedback of the edge, and the decoded instruction after it. *)
Feedback(w, r, dec) ==
    LET f == core.fetch[w]
        mine(ids) == {entry[i] : i \in {j \in ids : entry[j].w = w}}
        resumed == {x \in mine(r.branch \cup r.control) : WarpStall(x.k) /\ x.k.op \notin {"join", "spawn"}}
                   \cup {x \in mine(DOMAIN entry) : x.join \/ (x.spawn /\ r.single)}
        started == {x \in {entry[i] : i \in DOMAIN entry} : x.spawn /\ r.single /\ x.k.arg[1] = w}
    IN  CASE started # {} -> [pc |-> (CHOOSE x \in started : TRUE).k.arg[2], mask |-> {First},
                              active |-> TRUE, stalled |-> FALSE]
          [] resumed # {} -> LET x == CHOOSE y \in resumed : TRUE
                                 mask == IF x.k.op \in {"tmc", "join"} THEN x.k.arg ELSE f.mask
                             IN  [pc |-> NextPc(x.k, x.pc), mask |-> mask,
                                  active |-> f.active /\ mask # {}, stalled |-> FALSE]
          [] w \in dec -> [f EXCEPT !.pc = @ + 1, !.stalled = WarpStall(Instruction(w))]
          [] OTHER -> f

(* MultiRunner.step: admission of the decoded instruction, the report, and *)
(* the receipts that are complete.                                         *)
Edge ==
    \E r \in Reports, dec \in AtMostOne(Decodable) :
        LET f == core.fetch
            new == [i \in {NextId : w \in dec} |->
                       LET w == CHOOSE v \in dec : TRUE
                       IN  Engine(w, Instruction(w), f[w].pc, f[w].mask)]
            begun == [i \in DOMAIN entry \cup DOMAIN new |->
                         IF i \in DOMAIN new THEN new[i] ELSE entry[i]]
            starts == {x \in {entry[i] : i \in DOMAIN entry} : x.spawn /\ r.single}
        IN  \E seen \in {Observe([owner |-> owner, stream |-> stream, failed |-> failed, entry |-> begun], r)} :
            /\ owner' = seen.owner /\ stream' = seen.stream /\ failed' = seen.failed
            /\ entry' = IF seen.failed THEN seen.entry ELSE Reap(seen.entry)
            /\ last' = [w \in Warp |-> IF w \in dec THEN NextId ELSE last[w]]
            /\ core' = [fetch |-> [w \in Warp |-> Feedback(w, r, dec)],
                        single |-> Cardinality({w \in Warp : f[w].active}) = 1,
                        ended |-> {i \in DOMAIN entry : WrittenBack(seen.entry[i]) /\ ~WrittenBack(entry[i])},
                        control |-> {i \in r.executed : Wctl(entry[i].k)}]
            /\ held' = held \cup {Place(i) : i \in r.csr \ r.executed}
            /\ gold' = [h \in DOMAIN gold |->
                   [warp |-> [w \in Warp |->
                        IF w \in dec THEN Perform(gold[h].warp[w], gold[h].mem, Instruction(w), <<w, f[w].pc>> \in h)
                        ELSE IF \E x \in starts : x.k.arg[1] = w
                        THEN LET x == CHOOSE y \in starts : y.k.arg[1] = w
                             IN  Spawned(gold[h].warp[w], x.k, gold[h].warp[x.w])
                        ELSE gold[h].warp[w]],
                    mem |-> IF dec = {} THEN gold[h].mem
                            ELSE LET w == CHOOSE v \in dec : TRUE
                                 IN  Stored(gold[h].mem, Instruction(w), gold[h].warp[w])]]
            /\ UNCHANGED <<program, mem>>

(* A fragment comes back from the memory system, which keeps the order of  *)
(* accesses to one word.                                                   *)
Serviceable(i, lanes) ==
    /\ entry[i].sent /\ lanes # {} /\ lanes \subseteq entry[i].mask \ entry[i].served
    /\ \A j \in DOMAIN entry : /\ j < i /\ "fence" \notin {entry[i].k.op, entry[j].k.op} /\ Memory(entry[j].k)
                               /\ entry[j].k.arg = entry[i].k.arg
                               => entry[j].served \cap lanes = entry[j].mask \cap lanes

(* Mutant: a fragment that comes after the pending release does not end    *)
(* the instruction.                                                        *)
ServeUnfinished(s, i, part) ==
    [s EXCEPT !.entry[i].served = @ \cup part.lanes, !.entry[i].parts = IF s.entry[i].k.op = "store" THEN @ ELSE @ \cup {part}]

Serve(s, i, part) ==
    FinishMemory([s EXCEPT !.entry[i].served = @ \cup part.lanes,
                           !.entry[i].parts = IF s.entry[i].k.op = "store" THEN @ ELSE @ \cup {part}], i)

Service(i, lanes) ==
    LET x == entry[i]
        values == IF x.k.op = "load" THEN [l \in lanes |-> mem[x.k.arg][l]] ELSE <<>>
    IN  \E s \in {Serve([owner |-> owner, stream |-> stream, failed |-> failed, entry |-> entry],
                         i, Part(lanes, values))} :
        /\ Serviceable(i, lanes)
        /\ mem' = IF x.k.op = "store" THEN [mem EXCEPT ![x.k.arg] = Overlay(@, [l \in lanes |-> x.ops[l]])]
                  ELSE mem
        /\ owner' = s.owner /\ stream' = s.stream /\ entry' = s.entry /\ failed' = s.failed
        /\ UNCHANGED <<program, last, core, held, gold>>

CsrPlaces == UNION {{<<w, pc>> : pc \in {q \in DOMAIN program[w].code : program[w].code[q].op = "csr"}} :
                        w \in Warp}

Init ==
    /\ program \in Programs
    /\ owner = [w \in Warp |-> Fresh(program[w].mask)]
    /\ stream = [w \in Warp |-> [control |-> 0, activation |-> 0]]
    /\ entry = <<>> /\ last = [w \in Warp |-> 0] /\ failed = FALSE
    /\ mem = [a \in Addr |-> [l \in Lanes |-> <<>>]]
    /\ held = {} /\ gold = [h \in SUBSET CsrPlaces |-> [warp |-> owner, mem |-> mem]]
    /\ core = [fetch |-> [w \in Warp |-> [pc |-> 1, mask |-> program[w].mask, active |-> program[w].mask # {},
                                          stalled |-> FALSE]],
               single |-> FALSE, ended |-> {}, control |-> {}]

Next ==
    /\ ~failed
    /\ Edge \/ \E i \in DOMAIN entry, lanes \in SUBSET Lanes : Memory(entry[i].k) /\ Service(i, lanes)

Spec == Init /\ [][Next]_vars
FairSpec == Spec /\ WF_vars(Next)

-----------------------------------------------------------------------------
(* Properties *)

(* No event a correct pipeline reports is refused: no control is stale, no *)
(* release comes before its writeback, control or flags, no arrival or     *)
(* spawn meets a frontier that has passed it (Observe, stageStreamControl).*)
NothingRefused == ~failed

(* With nothing in flight the canonical state and memory are those of the  *)
(* in-order execution: out-of-order visibility loses, repeats and reorders *)
(* nothing (Deliver, serviceMemory, Reap).  The one exception is the value *)
(* a CSR instruction reads: with a request that was held it is its own     *)
(* write, with any other the one the instruction before it left.           *)
DrainedExact == DOMAIN entry = {} => owner = gold[held].warp /\ mem = gold[held].mem

(* Once the control of the newest admitted instruction of a warp is        *)
(* visible, the canonical PC and mask are the ones the fetch stage uses,   *)
(* however many older instructions are still to complete, and also after   *)
(* another warp has started this one again (EffectStream, ActivateWarp).   *)
FrontierExact ==
    \A w \in Warp : stream[w].control >= last[w] =>
        owner[w].pc = core.fetch[w].pc /\ owner[w].mask = core.fetch[w].mask

(* Every receipt is completed and reaped, stores that outlive their        *)
(* pipeline passage and spawns that wait for a single active warp included *)
(* (finishMemoryControl, Reap).                                            *)
ReceiptsEnd == <>[](DOMAIN entry = {})
=============================================================================
