------------------------ MODULE RuntimeDeviceProofs ------------------------
(***************************************************************************)
(* What a host may rely on, for every set of host threads and every number *)
(* of launches and uploads: the kernel has one owner and is never refused, *)
(* what a launch reports is true, and no error is lost.                    *)
(*                                                                         *)
(* The inductive invariant DeviceInv says who may own the kernel           *)
(* (Exclusive) and, for every place an owner or the idle device can be in, *)
(* what holds there of kernel, caches and memory (the stages).             *)
(***************************************************************************)
EXTENDS RuntimeDevice, TLAPS

Failure == {"audit", "connection", "simulator"}
RunState == [sequence : Nat, visible : BOOLEAN]
OwnerPlaces == {"start_audit", "start_publish", "flush_data", "flush_instruction",
                "flush_audit", "flush_publish"}
OtherPlaces == {"idle", "start", "dcr_write", "bad_address", "flush", "busy", "rejected",
                "error_audit", "error_record"}
HostState == [pc : OwnerPlaces \cup OtherPlaces, run : RunState, failure : SUBSET Failure]
TaskState == [pc : {"enter", "fetch", "store", "audit", "publish"}, failure : SUBSET Failure, visible : BOOLEAN, read : {<<>>} \cup (Nat \X Nat)]
KernelState == [launch : Nat, complete : BOOLEAN, failed : BOOLEAN, visible : BOOLEAN,
                flush : {"none", "instruction"}, drained : BOOLEAN]
Word == {<<>>} \cup (Nat \X Nat)

DeviceType ==
    /\ host \in [Thread -> HostState]
    /\ busy \in BOOLEAN /\ busyLatch \in BOOLEAN /\ closed \in BOOLEAN
    /\ sequence \in Nat /\ lastRun \in RunState
    /\ lastError \in SUBSET Failure
    /\ task \in SUBSET TaskState /\ \A x, y \in task : x = y
    /\ kernel \in SUBSET KernelState
    /\ backing \in [code : Nat, input : Nat, output : Word]
    /\ icache \in SUBSET Nat
    /\ dcache \in [input : SUBSET Nat, output : SUBSET Word]
    /\ wanted \in Nat \X Nat

HostOwner(t) == host[t].pc \in OwnerPlaces

Exclusive ==
    /\ \A t, u \in Thread : HostOwner(t) /\ HostOwner(u) => t = u
    /\ task # {} => \A t \in Thread : ~HostOwner(t)
    /\ busy <=> (task # {} \/ \E t \in Thread : HostOwner(t))
    /\ busy => ~closed

CachesEmpty == icache = {} /\ dcache.input = {} /\ dcache.output = {}
Handed == \A k \in kernel : Transferable(k)
Asked == wanted = <<backing.code, backing.input>>
(* The result of the last launch, dirty in the cache or written back. *)
ResultHeld == dcache.output \subseteq {wanted} /\ (dcache.output = {} => backing.output = wanted)

(* No owner, and no error so far. *)
IdleStage ==
    ~busy /\ lastError = {} =>
        /\ Handed
        /\ IF kernel = {} THEN CachesEmpty ELSE ResultHeld /\ (lastRun.visible => CachesEmpty)

(* A thread inside Start or a flush. *)
HostStage(t) ==
    /\ At(t, "start_audit") => CachesEmpty /\ Handed /\ Asked
    /\ At(t, "start_publish") => host[t].failure # {}
    /\ At(t, "flush_data") => Timing /\ kernel # {} /\ Handed /\ ResultHeld
    /\ At(t, "flush_instruction") =>
           /\ Timing /\ kernel # {} /\ \A k \in kernel : k.complete /\ ~k.failed
           /\ dcache = [input |-> {}, output |-> {}] /\ backing.output = wanted
    /\ host[t].pc \in {"flush_audit", "flush_publish"} =>
           /\ host[t].failure = {} => Handed /\ host[t].run.visible
           /\ Timing /\ kernel # {}
           /\ host[t].run.visible => CachesEmpty /\ backing.output = wanted

(* The launch goroutine. *)
TaskStage(x) ==
    /\ x.pc \in {"enter", "fetch", "store"} => x.failure = {} /\ ~x.visible
    /\ x.pc \in {"enter", "fetch"} => CachesEmpty /\ Asked
    /\ x.pc = "enter" => Handed
    /\ x.pc \in {"fetch", "store"} =>
           /\ Timing => kernel # {}
           /\ \A k \in kernel : ~k.failed /\ k.flush = "none"
    /\ x.pc = "store" => x.read = wanted /\ dcache.output = {}
    /\ x.pc \in {"audit", "publish"} =>
           /\ x.failure = {} /\ Timing => Handed /\ kernel # {} /\ ResultHeld
           /\ x.visible => ~Timing /\ backing.output = wanted

FirstDue == (first = "due" => busyLatch) /\ FirstBusySeen

DeviceInv ==
    /\ DeviceType /\ Exclusive
    /\ ~Timing => kernel = {} /\ CachesEmpty
    /\ IdleStage /\ VisibleResult /\ FirstDue
    /\ \A t \in Thread : HostStage(t)
    /\ \A x \in task : TaskStage(x)

-----------------------------------------------------------------------------
(* Steps that leave the kernel alone *)

\* Goto changes the place of one thread.
LEMMA GotoMoves ==
    ASSUME DeviceType, NEW t \in Thread, NEW place \in OwnerPlaces \cup OtherPlaces, Goto(t, place)
    PROVE  /\ host' = [host EXCEPT ![t] = [host[t] EXCEPT !.pc = place]]
           /\ [host[t] EXCEPT !.pc = place] \in HostState
           /\ [host[t] EXCEPT !.pc = place].pc = place
  BY DEF Goto, DeviceType, HostState

\* A thread that neither was nor becomes an owner disturbs nothing, whatever it
\* does to the registers, the latch and the errors.
LEMMA BystanderStep ==
    ASSUME DeviceInv, NEW t \in Thread, NEW h \in HostState,
           host' = [host EXCEPT ![t] = h],
           ~HostOwner(t), h.pc \notin OwnerPlaces,
           lastError \subseteq lastError', lastError' \subseteq Failure,
           busyLatch' \in BOOLEAN, FirstDue',
           UNCHANGED <<mode, sequence, busy, closed, lastRun, kernel, task, memoryVars, wanted>>
    PROVE  DeviceInv'
<1>1. host' \in [Thread -> HostState] /\ host'[t] = h /\ \A u \in Thread \ {t} : host'[u] = host[u]
  BY DEF DeviceInv, DeviceType
<1>2. DeviceType'
  BY <1>1 DEF DeviceInv, DeviceType, memoryVars
<1>3. \A u \in Thread : HostOwner(u)' <=> HostOwner(u)
  BY <1>1 DEF HostOwner
<1>4. Exclusive'
  BY <1>3 DEF DeviceInv, Exclusive
<1>5. IdleStage' /\ VisibleResult'
  BY DEF DeviceInv, IdleStage, VisibleResult, Handed, CachesEmpty, ResultHeld, Transferable, Completed, memoryVars
<1>6. \A u \in Thread : HostStage(u)'
  BY <1>1 DEF DeviceInv, HostStage, HostOwner, OwnerPlaces, At, Handed, CachesEmpty, ResultHeld, Asked,
              Transferable, Completed, Timing, memoryVars
<1>7. \A x \in task' : TaskStage(x)'
  BY DEF DeviceInv, TaskStage, Handed, CachesEmpty, ResultHeld, Asked, Transferable, Completed, Timing, memoryVars
<1> QED
  BY <1>2, <1>4, <1>5, <1>6, <1>7 DEF DeviceInv, Timing, CachesEmpty, memoryVars

\* The same for a thread that only goes to another place.
LEMMA BystanderGoto ==
    ASSUME DeviceInv, NEW t \in Thread, NEW place \in OtherPlaces, Goto(t, place),
           ~HostOwner(t), lastError \subseteq lastError', lastError' \subseteq Failure,
           busyLatch' \in BOOLEAN, FirstDue',
           UNCHANGED <<mode, sequence, busy, closed, lastRun, kernel, task, memoryVars, wanted>>
    PROVE  DeviceInv'
<1> DEFINE h == [host[t] EXCEPT !.pc = place]
<1>1. h \in HostState /\ host' = [host EXCEPT ![t] = h]
  BY GotoMoves DEF DeviceInv
<1>2. h.pc \notin OwnerPlaces
  BY DEF DeviceInv, DeviceType, HostState, OwnerPlaces, OtherPlaces
<1> HIDE DEF h
<1> QED
  BY <1>1, <1>2, BystanderStep

\* Looking a device up, errors, launch registers and Busy.
LEMMA CallsOutside ==
    ASSUME DeviceInv, NEW t \in Thread,
           \/ \E call \in Calls : Lookup(t, call)
           \/ ConnectionError(t) \/ ErrorAudit(t) \/ ErrorRecord(t) \/ WriteDCR(t) \/ Busy(t)
    PROVE  DeviceInv'
<1> USE DEF deviceVars, auxVars
<1>0. /\ DeviceType /\ host[t] \in HostState /\ lastError \in SUBSET Failure
      /\ busyLatch \in BOOLEAN /\ FirstDue
  BY DEF DeviceInv, DeviceType
<1>a. Outside \in HostState /\ Outside.pc \notin OwnerPlaces
  BY DEF Outside, HostState, RunState, NoRun, OwnerPlaces, OtherPlaces
<1>1. CASE \E call \in Calls : Lookup(t, call)
  <2>1. PICK call \in Calls : Lookup(t, call)
    BY <1>1
  <2>2. call \in OtherPlaces /\ ~HostOwner(t)
    BY <2>1 DEF Calls, Lookup, At, HostOwner, OwnerPlaces, OtherPlaces
  <2>3. Goto(t, call)
    BY <2>1 DEF Lookup
  <2>4. FirstDue'
    BY <1>0, <2>1 DEF Lookup, FirstDue, FirstBusySeen
  <2> QED
    BY <1>0, <2>1, <2>2, <2>3, <2>4, BystanderGoto DEF Lookup
<1>2. CASE ConnectionError(t)
  <2>1. ~HostOwner(t) /\ Goto(t, "error_audit") /\ "error_audit" \in OtherPlaces
    BY <1>2 DEF ConnectionError, At, HostOwner, OwnerPlaces, OtherPlaces
  <2>2. lastError \subseteq lastError' /\ lastError' \subseteq Failure
    BY <1>0, <1>2 DEF ConnectionError, Failure
  <2>3. FirstDue'
    BY <1>0, <1>2 DEF ConnectionError, FirstDue, FirstBusySeen
  <2> QED
    BY <1>0, <1>2, <2>1, <2>2, <2>3, BystanderGoto DEF ConnectionError
<1>3. CASE ErrorAudit(t)
  <2>1. PICK e \in Audit : host' = [host EXCEPT ![t] = [@ EXCEPT !.pc = "error_record", !.failure = e]]
    BY <1>3 DEF ErrorAudit
  <2> DEFINE h == [host[t] EXCEPT !.pc = "error_record", !.failure = e]
  <2>2. e \in SUBSET Failure
    BY DEF Audit, Failure
  <2>3. h \in HostState /\ h.pc \notin OwnerPlaces /\ host' = [host EXCEPT ![t] = h]
    BY <1>0, <2>1, <2>2 DEF HostState, OwnerPlaces, OtherPlaces, DeviceType
  <2>4. ~HostOwner(t) /\ FirstDue'
    BY <1>0, <1>3 DEF ErrorAudit, At, HostOwner, OwnerPlaces, FirstDue, FirstBusySeen
  <2> QED
    BY <1>0, <1>3, <2>3, <2>4, BystanderStep DEF ErrorAudit
<1>4. CASE ErrorRecord(t)
  <2>1. ~HostOwner(t) /\ FirstDue'
    BY <1>0, <1>4 DEF ErrorRecord, At, HostOwner, OwnerPlaces, FirstDue, FirstBusySeen
  <2>2. lastError \subseteq lastError' /\ lastError' \subseteq Failure
    BY <1>0, <1>4 DEF ErrorRecord, HostState
  <2> QED
    BY <1>0, <1>a, <1>4, <2>1, <2>2, BystanderStep DEF ErrorRecord
<1>5. CASE WriteDCR(t)
  <2>1. ~HostOwner(t) /\ Goto(t, "idle") /\ "idle" \in OtherPlaces
    BY <1>5 DEF WriteDCR, At, HostOwner, OwnerPlaces, OtherPlaces
  <2>2. FirstDue'
    BY <1>0, <1>5 DEF WriteDCR, FirstDue, FirstBusySeen
  <2> QED
    BY <1>0, <1>5, <2>1, <2>2, BystanderGoto DEF WriteDCR
<1>6. CASE Busy(t)
  <2>1. ~HostOwner(t) /\ Goto(t, "idle") /\ "idle" \in OtherPlaces
    BY <1>6 DEF Busy, At, HostOwner, OwnerPlaces, OtherPlaces
  <2>2. FirstDue'
    BY <1>0, <1>6 DEF Busy, FirstDue, FirstBusySeen
  <2> QED
    BY <1>0, <1>6, <2>1, <2>2, BystanderGoto DEF Busy
<1> QED
  BY <1>1, <1>2, <1>3, <1>4, <1>5, <1>6

\* Nothing moves, but an idle device may be closed.
LEMMA NothingMoves ==
    ASSUME DeviceInv, closed' \in BOOLEAN, busy => ~closed',
           UNCHANGED <<mode, sequence, busy, busyLatch, lastError, lastRun,
                       kernel, task, host, memoryVars, auxVars>>
    PROVE  DeviceInv'
<1> USE DEF memoryVars, auxVars
<1>1. DeviceType'
  BY DEF DeviceInv, DeviceType
<1>2. Exclusive'
  BY DEF DeviceInv, Exclusive, HostOwner
<1>3. IdleStage' /\ VisibleResult' /\ FirstDue'
  BY DEF DeviceInv, IdleStage, VisibleResult, FirstDue, FirstBusySeen, Handed, CachesEmpty, ResultHeld,
         Transferable, Completed
<1>4. \A t \in Thread : HostStage(t)'
  BY DEF DeviceInv, HostStage, At, Handed, CachesEmpty, ResultHeld, Asked, Transferable, Completed, Timing
<1>5. \A x \in task' : TaskStage(x)'
  BY DEF DeviceInv, TaskStage, Handed, CachesEmpty, ResultHeld, Asked, Transferable, Completed, Timing
<1> QED
  BY <1>1, <1>2, <1>3, <1>4, <1>5 DEF DeviceInv, Timing, CachesEmpty

\* Opening, closing and uploading.
LEMMA DeviceCalls ==
    ASSUME DeviceInv,
           \/ simtiming_create \/ simtiming_destroy \/ Ended \/ UNCHANGED vars
           \/ \E what \in {"code", "input"} : Upload(what)
    PROVE  DeviceInv'
<1> USE DEF deviceVars, memoryVars, auxVars
<1>0. closed \in BOOLEAN /\ (busy => ~closed)
  BY DEF DeviceInv, DeviceType, Exclusive
<1>1. CASE simtiming_create \/ Ended \/ UNCHANGED vars
  BY <1>0, <1>1, NothingMoves DEF simtiming_create, Ended, vars
<1>2. CASE simtiming_destroy
  BY <1>2, NothingMoves DEF simtiming_destroy
<1>3. ASSUME NEW what \in {"code", "input"}, Upload(what) PROVE DeviceInv'
  <2>1. task = {} /\ \A t \in Thread : ~HostOwner(t)
    BY <1>3 DEF Upload, Quiet, Owners, HostOwner, OwnerPlaces
  <2>2. /\ backing' \in [code : Nat, input : Nat, output : Word]
        /\ backing'.output = backing.output
    BY <1>3 DEF Upload, DeviceInv, DeviceType
  <2>3. DeviceType' /\ Exclusive'
    BY <1>3, <2>2 DEF Upload, DeviceInv, DeviceType, Exclusive, HostOwner
  <2>4. IdleStage' /\ VisibleResult' /\ FirstDue'
    BY <1>3, <2>2 DEF Upload, DeviceInv, IdleStage, VisibleResult, FirstDue, FirstBusySeen, Handed,
                      CachesEmpty, ResultHeld, Transferable, Completed
  <2>5. \A t \in Thread : HostStage(t)'
    BY <1>3, <2>1 DEF Upload, HostStage, HostOwner, OwnerPlaces, At
  <2> QED
    BY <1>3, <2>1, <2>3, <2>4, <2>5 DEF Upload, DeviceInv, Timing, CachesEmpty
<1> QED
  BY <1>1, <1>2, <1>3

-----------------------------------------------------------------------------
(* Steps of a host thread that owns the kernel, or comes to own it *)

\* The only owner: no launch goroutine, no other thread.
LEMMA OnlyOwner ==
    ASSUME DeviceInv, NEW t \in Thread, HostOwner(t)
    PROVE  busy /\ ~closed /\ task = {} /\ \A u \in Thread \ {t} : ~HostOwner(u)
  BY DEF DeviceInv, Exclusive

\* With the device idle nobody owns the kernel.
LEMMA NoOwner ==
    ASSUME DeviceInv, ~busy
    PROVE  task = {} /\ \A u \in Thread : ~HostOwner(u)
  BY DEF DeviceInv, Exclusive

\* A step of the thread that is the one owner afterwards: only its own stage and
\* the types are in question.
LEMMA OwnerStep ==
    ASSUME DeviceInv, NEW t \in Thread, NEW h \in HostState,
           host' = [host EXCEPT ![t] = h],
           \A u \in Thread \ {t} : ~HostOwner(u), task = {}, UNCHANGED <<mode, task>>,
           h.pc \in OwnerPlaces, busy' = TRUE, ~closed', DeviceType', FirstDue',
           ~Timing => kernel' = {} /\ CachesEmpty', HostStage(t)'
    PROVE  DeviceInv'
<1>1. host'[t] = h /\ \A u \in Thread \ {t} : host'[u] = host[u]
  BY DEF DeviceInv, DeviceType
<1>2. HostOwner(t)' /\ \A u \in Thread \ {t} : ~HostOwner(u)'
  BY <1>1 DEF HostOwner
<1>3. Exclusive'
  BY <1>2 DEF Exclusive
<1>4. IdleStage' /\ VisibleResult'
  BY DEF IdleStage, VisibleResult
<1>5. \A u \in Thread : HostStage(u)'
  BY <1>2 DEF HostStage, HostOwner, OwnerPlaces, At
<1> QED
  BY <1>3, <1>4, <1>5 DEF DeviceInv, Timing

\* A step of the one owner that gives the kernel up.
LEMMA OwnerLeaves ==
    ASSUME DeviceInv, NEW t \in Thread, HostOwner(t),
           host' = [host EXCEPT ![t] = Outside], NEW run \in RunState, NEW failure \in SUBSET Failure,
           Publish(run, failure),
           UNCHANGED <<mode, sequence, busyLatch, closed, kernel, task, memoryVars, auxVars>>,
           IdleStage', VisibleResult'
    PROVE  DeviceInv'
<1> USE DEF memoryVars, auxVars
<1>1. task = {} /\ \A u \in Thread \ {t} : ~HostOwner(u)
  BY OnlyOwner
<1>2. Outside \in HostState /\ Outside.pc = "idle"
  BY DEF Outside, HostState, RunState, NoRun, OtherPlaces
<1>3. host' \in [Thread -> HostState] /\ host'[t] = Outside /\ \A u \in Thread \ {t} : host'[u] = host[u]
  BY <1>2 DEF DeviceInv, DeviceType
<1>4. \A u \in Thread : ~HostOwner(u)'
  BY <1>1, <1>2, <1>3 DEF HostOwner, OwnerPlaces
<1>5. DeviceType'
  BY <1>3 DEF DeviceInv, DeviceType, Publish
<1>6. Exclusive' /\ FirstDue'
  BY <1>1, <1>4 DEF Exclusive, Publish, DeviceInv, FirstDue, FirstBusySeen
<1>7. \A u \in Thread : HostStage(u)'
  BY <1>4 DEF HostStage, HostOwner, OwnerPlaces, At
<1> QED
  BY <1>1, <1>5, <1>6, <1>7 DEF DeviceInv, Timing, CachesEmpty

\* Start: what it tests under the lock is what the launch relies on.
LEMMA StartStep ==
    ASSUME DeviceInv, NEW t \in Thread, Start(t)
    PROVE  DeviceInv'
<1> USE DEF memoryVars
<1>1. CASE ~Startable
  <2>1. Goto(t, "rejected") /\ "rejected" \in OtherPlaces /\ ~HostOwner(t) /\ FirstDue'
    BY <1>1 DEF Start, At, HostOwner, OwnerPlaces, OtherPlaces, DeviceInv, FirstDue, FirstBusySeen
  <2>2. lastError' = lastError /\ lastError \subseteq Failure /\ busyLatch' \in BOOLEAN
    BY <1>1 DEF Start, DeviceInv, DeviceType
  <2> QED
    BY <1>1, <2>1, <2>2, BystanderGoto DEF Start
<1>2. CASE Startable
  <2> DEFINE h == [host[t] EXCEPT !.pc = "start_audit"]
  <2>1. h \in HostState /\ host' = [host EXCEPT ![t] = h] /\ h.pc = "start_audit"
    BY <1>2, GotoMoves DEF Start, DeviceInv, OwnerPlaces
  <2> HIDE DEF h
  <2>2. task = {} /\ \A u \in Thread : ~HostOwner(u)
    BY <1>2, NoOwner DEF Startable
  <2>3. host' \in [Thread -> HostState] /\ host'[t] = h
    BY <2>1 DEF DeviceInv, DeviceType
  <2>4. wanted' \in Nat \X Nat
    BY <1>2 DEF Start, DeviceInv, DeviceType
  <2>5. DeviceType'
    BY <1>2, <2>3, <2>4 DEF Start, DeviceInv, DeviceType
  <2>6. CachesEmpty /\ Handed
    BY <1>2 DEF Startable, DeviceInv, IdleStage
  <2>7. HostStage(t)'
    BY <1>2, <2>1, <2>3, <2>6 DEF Start, HostStage, At, CachesEmpty, Handed, Asked, Transferable, Completed
  <2>8. FirstDue' /\ busy' = TRUE /\ ~closed'
    BY <1>2 DEF Start, Startable, FirstDue, FirstBusySeen
  <2>9. ~Timing => kernel' = {} /\ CachesEmpty'
    BY DEF DeviceInv, Start, CachesEmpty
  <2> QED
    BY <2>1, <2>2, <2>5, <2>7, <2>8, <2>9, OwnerStep DEF Start, OwnerPlaces
<1> QED
  BY <1>1, <1>2

\* The launch passes from the calling thread to its goroutine, or ends at once
\* because it could not be recorded.
LEMMA StartAuditStep ==
    ASSUME DeviceInv, NEW t \in Thread, StartAudit(t)
    PROVE  DeviceInv'
<1> USE DEF deviceVars, memoryVars, auxVars
<1>1. HostOwner(t) /\ host[t] \in HostState
  BY DEF StartAudit, At, HostOwner, OwnerPlaces, DeviceInv, DeviceType
<1>2. busy /\ ~closed /\ task = {} /\ \A u \in Thread \ {t} : ~HostOwner(u)
  BY <1>1, OnlyOwner
<1>3. CachesEmpty /\ Handed /\ Asked
  BY DEF StartAudit, DeviceInv, HostStage
<1>4. FirstDue'
  BY DEF StartAudit, DeviceInv, FirstDue, FirstBusySeen
<1>5. PICK e \in Audit :
          IF e = {}
          THEN /\ task' = {[pc |-> "enter", failure |-> {}, visible |-> FALSE, read |-> <<>>]}
               /\ Goto(t, "idle")
          ELSE /\ host' = [host EXCEPT ![t] = [@ EXCEPT !.pc = "start_publish", !.failure = e]]
               /\ UNCHANGED task
  BY DEF StartAudit
<1>6. CASE e = {}
  <2> DEFINE h == [host[t] EXCEPT !.pc = "idle"]
             x == [pc |-> "enter", failure |-> {}, visible |-> FALSE, read |-> <<>>]
  <2>1. h \in HostState /\ host' = [host EXCEPT ![t] = h] /\ h.pc = "idle"
    BY <1>5, <1>6, GotoMoves DEF DeviceInv, OtherPlaces
  <2> HIDE DEF h
  <2>2. host' \in [Thread -> HostState] /\ host'[t] = h /\ \A u \in Thread \ {t} : host'[u] = host[u]
    BY <2>1 DEF DeviceInv, DeviceType
  <2>3. \A u \in Thread : ~HostOwner(u)'
    BY <1>2, <2>1, <2>2 DEF HostOwner, OwnerPlaces
  <2>4. task' = {x} /\ x \in TaskState
    BY <1>5, <1>6 DEF TaskState
  <2>5. TaskStage(x)'
    BY <1>3 DEF StartAudit, TaskStage, CachesEmpty, Handed, Asked, Transferable, Completed
  <2> HIDE DEF x
  <2>6. DeviceType'
    BY <2>2, <2>4 DEF StartAudit, DeviceInv, DeviceType
  <2>7. Exclusive' /\ IdleStage' /\ VisibleResult'
    BY <1>2, <2>3, <2>4 DEF StartAudit, Exclusive, IdleStage, VisibleResult
  <2>8. \A u \in Thread : HostStage(u)'
    BY <2>3 DEF HostStage, HostOwner, OwnerPlaces, At
  <2> QED
    BY <1>4, <2>4, <2>5, <2>6, <2>7, <2>8 DEF StartAudit, DeviceInv, Timing, CachesEmpty
<1>7. CASE e # {}
  <2> DEFINE h == [host[t] EXCEPT !.pc = "start_publish", !.failure = e]
  <2>1. e \in SUBSET Failure
    BY DEF Audit, Failure
  <2>2. /\ h \in HostState /\ host' = [host EXCEPT ![t] = h]
        /\ h.pc = "start_publish" /\ h.failure = e /\ task' = task
    BY <1>1, <1>5, <1>7, <2>1 DEF HostState, OwnerPlaces, DeviceInv, DeviceType
  <2> HIDE DEF h
  <2>3. host' \in [Thread -> HostState] /\ host'[t] = h
    BY <2>2 DEF DeviceInv, DeviceType
  <2>4. DeviceType'
    BY <2>2, <2>3 DEF StartAudit, DeviceInv, DeviceType
  <2>5. HostStage(t)'
    BY <1>7, <2>2, <2>3 DEF HostStage, At
  <2>6. busy' = TRUE /\ ~closed' /\ (~Timing => kernel' = {} /\ CachesEmpty')
    BY <1>2 DEF StartAudit, DeviceInv, DeviceType, CachesEmpty
  <2> QED
    BY <1>2, <1>4, <2>2, <2>4, <2>5, <2>6, OwnerStep DEF StartAudit, OwnerPlaces
<1> QED
  BY <1>6, <1>7

LEMMA StartPublishStep ==
    ASSUME DeviceInv, NEW t \in Thread, StartPublish(t)
    PROVE  DeviceInv'
<1> DEFINE run == [sequence |-> sequence, visible |-> FALSE]
<1>1. HostOwner(t) /\ run \in RunState /\ host[t].failure \in SUBSET Failure /\ host[t].failure # {}
  BY DEF StartPublish, At, HostOwner, OwnerPlaces, DeviceInv, DeviceType, HostState, HostStage, RunState
<1>2. Publish(run, host[t].failure)
  BY DEF StartPublish
<1>3. IdleStage' /\ VisibleResult'
  BY <1>1, <1>2 DEF IdleStage, VisibleResult, Publish
<1> HIDE DEF run
<1> QED
  BY <1>1, <1>2, <1>3, OwnerLeaves DEF StartPublish

\* A flush claims the kernel only when a launch could.
LEMMA FlushEnters ==
    ASSUME DeviceInv, NEW t \in Thread, Flush(t)
    PROVE  DeviceInv'
<1> USE DEF memoryVars, auxVars
<1>1. ~HostOwner(t) /\ FirstDue'
  BY DEF Flush, At, HostOwner, OwnerPlaces, DeviceInv, FirstDue, FirstBusySeen
<1>2. CASE ~Flushable \/ ~Timing \/ kernel = {}
  <2>1. PICK place \in {"rejected", "idle"} : Goto(t, place) /\ UNCHANGED busy
    BY <1>2 DEF Flush
  <2>2. place \in OtherPlaces /\ lastError' = lastError /\ lastError \subseteq Failure /\ busyLatch' \in BOOLEAN
    BY <1>2 DEF Flush, OtherPlaces, DeviceInv, DeviceType
  <2> QED
    BY <1>1, <2>1, <2>2, BystanderGoto DEF Flush
<1>3. CASE Flushable /\ Timing /\ kernel # {}
  <2> DEFINE h == [host[t] EXCEPT !.pc = "flush_data"]
  <2>1. h \in HostState /\ host' = [host EXCEPT ![t] = h] /\ h.pc = "flush_data" /\ busy' = TRUE
    BY <1>3, GotoMoves DEF Flush, DeviceInv, OwnerPlaces
  <2> HIDE DEF h
  <2>2. task = {} /\ \A u \in Thread : ~HostOwner(u)
    BY <1>3, NoOwner DEF Flushable
  <2>3. host' \in [Thread -> HostState] /\ host'[t] = h
    BY <2>1 DEF DeviceInv, DeviceType
  <2>4. DeviceType'
    BY <2>1, <2>3 DEF Flush, DeviceInv, DeviceType
  <2>5. Handed /\ ResultHeld
    BY <1>3 DEF Flushable, DeviceInv, IdleStage
  <2>6. HostStage(t)'
    <3>1. UNCHANGED <<mode, kernel, backing, icache, dcache, wanted>>
      BY DEF Flush
    <3> QED
      BY <1>3, <2>1, <2>3, <2>5, <3>1 DEF HostStage, At, Handed, ResultHeld, Transferable, Completed, Timing
  <2>7. ~closed'
    BY <1>3 DEF Flush, Flushable
  <2> QED
    BY <1>1, <1>3, <2>1, <2>2, <2>4, <2>6, <2>7, OwnerStep DEF Flush, OwnerPlaces
<1> QED
  BY <1>2, <1>3

\* The data half: a flush is never refused, and writes the result back.
LEMMA FlushDataStep ==
    ASSUME DeviceInv, NEW t \in Thread, FlushData(t)
    PROVE  DeviceInv'
<1> USE DEF deviceVars, auxVars
<1>1. HostOwner(t) /\ Timing /\ kernel # {} /\ Handed /\ ResultHeld
  BY DEF FlushData, At, HostOwner, OwnerPlaces, DeviceInv, HostStage
<1>2. busy /\ ~closed /\ task = {} /\ \A u \in Thread \ {t} : ~HostOwner(u)
  BY <1>1, OnlyOwner
<1>3. TheKernel \in kernel /\ TheKernel \in KernelState /\ Transferable(TheKernel)
  BY <1>1 DEF TheKernel, DeviceInv, DeviceType, Handed
<1> DEFINE h == [host[t] EXCEPT !.pc = "flush_instruction"]
           k == [TheKernel EXCEPT !.flush = "instruction", !.drained = FALSE]
<1>4. h \in HostState /\ host' = [host EXCEPT ![t] = h] /\ h.pc = "flush_instruction"
  BY <1>3, GotoMoves DEF FlushData, DeviceInv, OwnerPlaces, Transferable
<1>5. /\ kernel' = {k} /\ k \in KernelState /\ k.complete /\ ~k.failed
      /\ dcache' = [input |-> {}, output |-> {}]
  BY <1>3 DEF FlushData, KernelState, Transferable, Completed
<1>6. backing' \in [code : Nat, input : Nat, output : Word] /\ backing'.output = wanted
  <2>1. CASE dcache.output = {}
    BY <1>1, <1>3, <2>1 DEF FlushData, ResultHeld, DeviceInv, DeviceType, Transferable
  <2>2. CASE dcache.output # {}
    <3>1. (CHOOSE o \in dcache.output : TRUE) \in dcache.output
      BY <2>2
    <3>2. (CHOOSE o \in dcache.output : TRUE) = wanted
      BY <1>1, <3>1 DEF ResultHeld
    <3>3. backing' = [backing EXCEPT !.output = wanted]
      BY <1>3, <2>2, <3>2 DEF FlushData, Transferable
    <3> QED
      BY <3>3 DEF DeviceInv, DeviceType, Word
  <2> QED
    BY <2>1, <2>2
<1> HIDE DEF h, k
<1>7. host' \in [Thread -> HostState] /\ host'[t] = h
  BY <1>4 DEF DeviceInv, DeviceType
<1>8. DeviceType'
  BY <1>5, <1>6, <1>7 DEF FlushData, DeviceInv, DeviceType
<1>9. HostStage(t)'
  BY <1>1, <1>4, <1>5, <1>6, <1>7 DEF FlushData, HostStage, At, Timing
<1>10. FirstDue' /\ busy' = TRUE /\ ~closed'
  BY <1>2 DEF FlushData, DeviceInv, DeviceType, FirstDue, FirstBusySeen
<1> QED
  BY <1>1, <1>2, <1>4, <1>8, <1>9, <1>10, OwnerStep DEF FlushData, OwnerPlaces

\* The instruction half, after which the kernel is visible, and a failure of either.
LEMMA FlushEndsStep ==
    ASSUME DeviceInv, NEW t \in Thread, FlushInstruction(t) \/ FlushFail(t)
    PROVE  DeviceInv'
<1> USE DEF deviceVars, memoryVars, auxVars
<1>1. HostOwner(t) /\ Timing /\ kernel # {} /\ \A k \in kernel : k.complete /\ ~k.failed
  BY DEF FlushInstruction, FlushFail, At, HostOwner, OwnerPlaces, DeviceInv, HostStage, Handed, Transferable, Completed
<1>2. busy /\ ~closed /\ task = {} /\ \A u \in Thread \ {t} : ~HostOwner(u)
  BY <1>1, OnlyOwner
<1>3. TheKernel \in kernel /\ TheKernel \in KernelState
  BY <1>1 DEF TheKernel, DeviceInv, DeviceType
<1>4. FirstDue' /\ busy' = TRUE /\ ~closed'
  <2>1. UNCHANGED <<busy, closed, busyLatch, first>>
    BY DEF FlushInstruction, FlushFail
  <2> QED
    BY <1>2, <2>1 DEF DeviceInv, DeviceType, FirstDue, FirstBusySeen
<1>5. CASE FlushInstruction(t)
  <2> DEFINE h == [pc |-> "flush_audit", run |-> [lastRun EXCEPT !.visible = TRUE], failure |-> {}]
             k == [TheKernel EXCEPT !.flush = "none", !.visible = TRUE, !.drained = TRUE]
  <2>1. /\ h \in HostState /\ host' = [host EXCEPT ![t] = h]
        /\ h.pc = "flush_audit" /\ h.failure = {} /\ h.run.visible
    BY <1>5 DEF FlushInstruction, HostState, OwnerPlaces, RunState, DeviceInv, DeviceType
  <2>2. kernel' = {k} /\ k \in KernelState /\ Transferable(k)
    BY <1>1, <1>3, <1>5 DEF FlushInstruction, KernelState, Transferable, Completed
  <2>3. CachesEmpty' /\ backing'.output = wanted'
    BY <1>5 DEF FlushInstruction, CachesEmpty, DeviceInv, HostStage
  <2> HIDE DEF h, k
  <2>4. host' \in [Thread -> HostState] /\ host'[t] = h
    BY <2>1 DEF DeviceInv, DeviceType
  <2>5. DeviceType'
    BY <1>5, <2>2, <2>4 DEF FlushInstruction, DeviceInv, DeviceType
  <2>6. HostStage(t)'
    BY <1>1, <1>5, <2>1, <2>2, <2>3, <2>4 DEF FlushInstruction, HostStage, At, Timing, Handed, Transferable, Completed
  <2> QED
    BY <1>1, <1>2, <1>4, <1>5, <2>1, <2>5, <2>6, OwnerStep DEF FlushInstruction, OwnerPlaces
<1>6. CASE FlushFail(t)
  <2> DEFINE h == [pc |-> "flush_audit", run |-> [lastRun EXCEPT !.visible = FALSE],
                   failure |-> {"simulator"}]
             k == [TheKernel EXCEPT !.flush = "none", !.failed = TRUE]
  <2>1. /\ h \in HostState /\ host' = [host EXCEPT ![t] = h]
        /\ h.pc = "flush_audit" /\ h.failure # {} /\ ~h.run.visible
    BY <1>6 DEF FlushFail, HostState, OwnerPlaces, RunState, DeviceInv, DeviceType, Failure
  <2>2. kernel' = {k} /\ k \in KernelState
    BY <1>3, <1>6 DEF FlushFail, KernelState
  <2> HIDE DEF h, k
  <2>3. host' \in [Thread -> HostState] /\ host'[t] = h
    BY <2>1 DEF DeviceInv, DeviceType
  <2>4. DeviceType'
    BY <1>6, <2>2, <2>3 DEF FlushFail, DeviceInv, DeviceType
  <2>5. HostStage(t)'
    BY <1>1, <1>6, <2>1, <2>2, <2>3 DEF FlushFail, HostStage, At, Timing
  <2> QED
    BY <1>1, <1>2, <1>4, <1>6, <2>1, <2>4, <2>5, OwnerStep DEF FlushFail, OwnerPlaces
<1> QED
  BY <1>5, <1>6

LEMMA FlushAuditStep ==
    ASSUME DeviceInv, NEW t \in Thread, FlushAudit(t)
    PROVE  DeviceInv'
<1> USE DEF deviceVars, memoryVars, auxVars
<1>1. HostOwner(t) /\ Timing /\ host[t] \in HostState
  BY DEF FlushAudit, At, HostOwner, OwnerPlaces, DeviceInv, DeviceType, HostStage
<1>2. busy /\ ~closed /\ task = {} /\ \A u \in Thread \ {t} : ~HostOwner(u)
  BY <1>1, OnlyOwner
<1>3. PICK e \in Audit : host' = [host EXCEPT ![t] = [@ EXCEPT !.pc = "flush_publish", !.failure = host[t].failure \cup e]]
  BY DEF FlushAudit
<1> DEFINE h == [host[t] EXCEPT !.pc = "flush_publish", !.failure = host[t].failure \cup e]
<1>4. e \in SUBSET Failure
  BY DEF Audit, Failure
<1>5. h \in HostState /\ host' = [host EXCEPT ![t] = h]
  <2>1. h \in HostState
    BY <1>1, <1>4 DEF HostState, OwnerPlaces
  <2>2. host' = [host EXCEPT ![t] = h]
    BY <1>3
  <2> QED
    BY <2>1, <2>2
<1>6. h.pc = "flush_publish" /\ h.run = host[t].run /\ (h.failure = {} => host[t].failure = {})
  BY <1>1 DEF HostState
<1> HIDE DEF h
<1>7. host' \in [Thread -> HostState] /\ host'[t] = h
  BY <1>5 DEF DeviceInv, DeviceType
<1>8. DeviceType'
  BY <1>7 DEF FlushAudit, DeviceInv, DeviceType
<1>9. HostStage(t)'
  BY <1>6, <1>7 DEF FlushAudit, DeviceInv, HostStage, At, Timing, Handed, CachesEmpty, Transferable, Completed
<1>10. FirstDue' /\ busy' = TRUE /\ ~closed'
  BY <1>2 DEF FlushAudit, DeviceInv, DeviceType, FirstDue, FirstBusySeen
<1> QED
  BY <1>1, <1>2, <1>5, <1>6, <1>8, <1>9, <1>10, OwnerStep DEF FlushAudit, OwnerPlaces

LEMMA FlushPublishStep ==
    ASSUME DeviceInv, NEW t \in Thread, FlushPublish(t)
    PROVE  DeviceInv'
<1> USE DEF memoryVars, auxVars
<1>1. /\ HostOwner(t) /\ host[t].run \in RunState /\ host[t].failure \in SUBSET Failure
      /\ host[t].pc = "flush_publish" /\ HostStage(t)
  BY DEF FlushPublish, At, HostOwner, OwnerPlaces, DeviceInv, DeviceType, HostState
<1>2. Publish(host[t].run, host[t].failure)
  BY DEF FlushPublish
<1>3. IdleStage'
  BY <1>1, <1>2 DEF FlushPublish, IdleStage, HostStage, Publish, Handed, CachesEmpty, ResultHeld, Transferable, Completed
<1>4. VisibleResult'
  BY <1>1, <1>2 DEF FlushPublish, VisibleResult, HostStage, Publish
<1> QED
  BY <1>1, <1>2, <1>3, <1>4, OwnerLeaves DEF FlushPublish

-----------------------------------------------------------------------------
(* Steps of the launch goroutine *)

\* The goroutine there is, and what its stage promises.
LEMMA TaskFacts ==
    ASSUME DeviceInv, task # {}
    PROVE  /\ Task \in task /\ task = {Task} /\ Task \in TaskState /\ TaskStage(Task)
           /\ busy /\ ~closed /\ \A t \in Thread : ~HostOwner(t)
<1>1. Task \in task
  BY DEF Task
<1> QED
  BY <1>1 DEF DeviceInv, DeviceType, Exclusive

\* A step of the goroutine that goes on: only its own stage is in question.
LEMMA TaskMoves ==
    ASSUME DeviceInv, task # {}, NEW x \in TaskState, task' = {x},
           UNCHANGED <<mode, deviceVars, host, auxVars>>,
           kernel' \in SUBSET KernelState,
           backing' \in [code : Nat, input : Nat, output : Word],
           icache' \in SUBSET Nat, dcache' \in [input : SUBSET Nat, output : SUBSET Word],
           ~Timing => kernel' = {} /\ CachesEmpty', TaskStage(x)'
    PROVE  DeviceInv'
<1> USE DEF deviceVars, auxVars
<1>1. busy /\ ~closed /\ \A t \in Thread : ~HostOwner(t)
  BY TaskFacts
<1>2. DeviceType'
  BY DEF DeviceInv, DeviceType
<1>3. \A t \in Thread : ~HostOwner(t)'
  BY <1>1 DEF HostOwner
<1>4. Exclusive' /\ IdleStage' /\ VisibleResult' /\ FirstDue'
  BY <1>1, <1>3 DEF Exclusive, IdleStage, VisibleResult, FirstDue, FirstBusySeen, DeviceInv
<1>5. \A t \in Thread : HostStage(t)'
  BY <1>3 DEF HostStage, HostOwner, OwnerPlaces, At
<1> QED
  BY <1>2, <1>4, <1>5 DEF DeviceInv, Timing

\* The kernel before is taken over, never refused.
LEMMA RunEnterStep ==
    ASSUME DeviceInv, RunEnter
    PROVE  DeviceInv'
<1> USE DEF deviceVars, memoryVars, auxVars
<1>1. /\ task # {} /\ Task.pc = "enter" /\ Task \in TaskState
      /\ Task.failure = {} /\ ~Task.visible /\ CachesEmpty /\ Asked /\ Handed
  BY TaskFacts DEF RunEnter, TaskAt, TaskStage
<1>2. kernel # {} => Transferable(TheKernel)
  BY <1>1 DEF Handed, TheKernel
<1>3. PICK x \in TaskState :
          /\ task' = {x} /\ x.pc = "fetch" /\ x.failure = {} /\ ~x.visible
          /\ IF Timing THEN kernel' = {NewKernel(sequence)} ELSE kernel' = kernel
  <2> DEFINE y == [Task EXCEPT !.pc = "fetch"]
  <2>1. y \in TaskState /\ y.pc = "fetch" /\ y.failure = {} /\ ~y.visible
    BY <1>1 DEF TaskState
  <2>2. task' = {y} /\ IF Timing THEN kernel' = {NewKernel(sequence)} ELSE kernel' = kernel
    BY <1>1, <1>2 DEF RunEnter, NextTask
  <2> HIDE DEF y
  <2> QED
    BY <2>1, <2>2
<1>4. /\ NewKernel(sequence) \in KernelState
      /\ ~NewKernel(sequence).failed /\ NewKernel(sequence).flush = "none"
  BY DEF NewKernel, KernelState, DeviceInv, DeviceType
<1>5. /\ kernel' \in SUBSET KernelState /\ (Timing => kernel' # {})
      /\ \A k \in kernel' : ~k.failed /\ k.flush = "none"
  <2>1. kernel \in SUBSET KernelState /\ \A k \in kernel : ~k.failed /\ k.flush = "none"
    BY <1>1 DEF DeviceInv, DeviceType, Handed, Transferable, Completed
  <2>2. CASE Timing
    BY <1>3, <1>4, <2>2
  <2>3. CASE ~Timing
    BY <1>3, <2>1, <2>3
  <2> QED
    BY <2>2, <2>3
<1>6. TaskStage(x)'
  BY <1>1, <1>3, <1>5 DEF RunEnter, TaskStage, CachesEmpty, Asked, Timing
<1>7. ~Timing => kernel' = {} /\ CachesEmpty'
  BY <1>3 DEF RunEnter, DeviceInv, CachesEmpty
<1>8. /\ backing' \in [code : Nat, input : Nat, output : Word]
      /\ icache' \in SUBSET Nat /\ dcache' \in [input : SUBSET Nat, output : SUBSET Word]
  BY DEF RunEnter, DeviceInv, DeviceType
<1> QED
  BY <1>1, <1>3, <1>5, <1>6, <1>7, <1>8, TaskMoves DEF RunEnter

\* With clean caches the launch reads what the host uploaded.
LEMMA RunFetchStep ==
    ASSUME DeviceInv, RunFetch
    PROVE  DeviceInv'
<1> USE DEF deviceVars, auxVars
<1>1. /\ task # {} /\ Task.pc = "fetch" /\ Task \in TaskState
      /\ Task.failure = {} /\ ~Task.visible /\ CachesEmpty /\ Asked
      /\ Timing => kernel # {}
      /\ \A k \in kernel : ~k.failed /\ k.flush = "none"
  BY TaskFacts DEF RunFetch, TaskAt, TaskStage
<1>2. /\ backing.code \in Nat /\ backing.input \in Nat /\ wanted \in Nat \X Nat
      /\ wanted = <<backing.code, backing.input>>
  BY <1>1 DEF DeviceInv, DeviceType, Asked
<1>3. PICK x \in TaskState :
          task' = {x} /\ x.pc = "store" /\ x.failure = {} /\ ~x.visible /\ x.read = wanted
  <2> DEFINE y == [Task EXCEPT !.pc = "store", !.read = wanted]
  <2>1. y \in TaskState /\ y.pc = "store" /\ y.failure = {} /\ ~y.visible /\ y.read = wanted
    BY <1>1, <1>2 DEF TaskState
  <2>2. task' = {y}
    BY <1>1, <1>2 DEF RunFetch, Cached, CachesEmpty, NextTask
  <2> HIDE DEF y
  <2> QED
    BY <2>1, <2>2
<1>4. /\ icache' \in SUBSET Nat /\ dcache' \in [input : SUBSET Nat, output : SUBSET Word]
      /\ dcache'.output = {}
      /\ ~Timing => UNCHANGED <<icache, dcache>>
  BY <1>1, <1>2 DEF RunFetch, Cached, CachesEmpty, DeviceInv, DeviceType
<1>5. TaskStage(x)'
  BY <1>1, <1>3, <1>4 DEF RunFetch, TaskStage, Timing
<1>6. ~Timing => kernel' = {} /\ CachesEmpty'
  BY <1>1, <1>4 DEF RunFetch, DeviceInv, CachesEmpty
<1>7. kernel' \in SUBSET KernelState /\ backing' \in [code : Nat, input : Nat, output : Word]
  BY DEF RunFetch, DeviceInv, DeviceType
<1> QED
  BY <1>1, <1>3, <1>4, <1>5, <1>6, <1>7, TaskMoves DEF RunFetch

\* The result goes to the data cache, or in functional mode to memory.
LEMMA RunStoreStep ==
    ASSUME DeviceInv, RunStore
    PROVE  DeviceInv'
<1> USE DEF deviceVars, auxVars
<1>1. /\ task # {} /\ Task.pc = "store" /\ Task \in TaskState
      /\ Task.failure = {} /\ Task.read = wanted /\ (Timing => kernel # {})
      /\ \A k \in kernel : ~k.failed /\ k.flush = "none"
  BY TaskFacts DEF RunStore, TaskAt, TaskStage
<1>2. PICK x \in TaskState :
          task' = {x} /\ x.pc = "audit" /\ x.failure = {} /\ x.visible = ~Timing
  <2> DEFINE y == [Task EXCEPT !.pc = "audit", !.visible = ~Timing]
  <2>1. y \in TaskState /\ y.pc = "audit" /\ y.failure = {} /\ y.visible = ~Timing
    BY <1>1 DEF TaskState, Timing
  <2>2. task' = {y}
    BY DEF RunStore, NextTask
  <2> HIDE DEF y
  <2> QED
    BY <2>1, <2>2
<1>3. wanted \in Word /\ wanted' = wanted /\ (Timing' <=> Timing)
  BY DEF RunStore, DeviceInv, DeviceType, Word, Timing
<1>4. CASE Timing
  <2>1. dcache' = [dcache EXCEPT !.output = {wanted}] /\ backing' = backing /\ icache' = icache
    BY <1>1, <1>4 DEF RunStore
  <2>2. /\ dcache' \in [input : SUBSET Nat, output : SUBSET Word] /\ dcache'.output = {wanted}
        /\ backing' \in [code : Nat, input : Nat, output : Word] /\ icache' \in SUBSET Nat
    BY <1>3, <2>1 DEF DeviceInv, DeviceType
  <2>3. TheKernel \in kernel /\ TheKernel \in KernelState
    BY <1>1, <1>4 DEF TheKernel, DeviceInv, DeviceType
  <2> DEFINE k == [TheKernel EXCEPT !.complete = TRUE, !.drained = TRUE]
  <2>4. kernel' = {k} /\ k \in KernelState /\ Transferable(k)
    BY <1>1, <1>4, <2>3 DEF RunStore, KernelState, Transferable, Completed
  <2> HIDE DEF k
  <2>5. TaskStage(x)'
    BY <1>2, <1>3, <1>4, <2>2, <2>4 DEF TaskStage, Handed, ResultHeld, Transferable, Completed
  <2> QED
    BY <1>1, <1>2, <1>4, <2>2, <2>4, <2>5, TaskMoves DEF RunStore
<1>5. CASE ~Timing
  <2>1. backing' = [backing EXCEPT !.output = wanted] /\ UNCHANGED <<icache, dcache, kernel>>
    BY <1>1, <1>5 DEF RunStore
  <2>2. /\ backing' \in [code : Nat, input : Nat, output : Word] /\ backing'.output = wanted
        /\ icache' \in SUBSET Nat /\ dcache' \in [input : SUBSET Nat, output : SUBSET Word]
        /\ kernel' \in SUBSET KernelState
    BY <1>3, <2>1 DEF DeviceInv, DeviceType
  <2>3. TaskStage(x)'
    BY <1>2, <1>3, <1>5, <2>2 DEF TaskStage
  <2>4. kernel' = {} /\ CachesEmpty'
    BY <1>5, <2>1 DEF DeviceInv, CachesEmpty
  <2> QED
    BY <1>1, <1>2, <2>2, <2>3, <2>4, TaskMoves DEF RunStore
<1> QED
  BY <1>4, <1>5

\* A launch that fails, and the record of one that ended either way.
LEMMA RunFailStep ==
    ASSUME DeviceInv, RunFail
    PROVE  DeviceInv'
<1> USE DEF deviceVars, memoryVars, auxVars
<1>1. task # {} /\ Task.pc \in {"fetch", "store"} /\ Task \in TaskState /\ ~Task.visible
  BY TaskFacts DEF RunFail, TaskStage
<1>2. PICK x \in TaskState : task' = {x} /\ x.pc = "audit" /\ x.failure # {} /\ ~x.visible
  <2> DEFINE y == [Task EXCEPT !.pc = "audit", !.failure = {"simulator"}]
  <2>1. y \in TaskState /\ y.pc = "audit" /\ y.failure # {} /\ ~y.visible
    BY <1>1 DEF TaskState, Failure
  <2>2. task' = {y}
    BY DEF RunFail, NextTask
  <2> HIDE DEF y
  <2> QED
    BY <2>1, <2>2
<1>3. kernel' \in SUBSET KernelState /\ (kernel = {} => kernel' = {})
  <2>1. kernel' = {[k EXCEPT !.failed = TRUE] : k \in kernel} /\ kernel \in SUBSET KernelState
    BY DEF RunFail, DeviceInv, DeviceType
  <2>2. \A k \in KernelState : [k EXCEPT !.failed = TRUE] \in KernelState
    BY DEF KernelState
  <2> QED
    BY <2>1, <2>2
<1>4. TaskStage(x)'
  BY <1>2 DEF TaskStage
<1>5. ~Timing => kernel' = {} /\ CachesEmpty'
  BY <1>3 DEF RunFail, DeviceInv, CachesEmpty
<1>6. /\ backing' \in [code : Nat, input : Nat, output : Word]
      /\ icache' \in SUBSET Nat /\ dcache' \in [input : SUBSET Nat, output : SUBSET Word]
  BY DEF RunFail, DeviceInv, DeviceType
<1> QED
  BY <1>1, <1>2, <1>3, <1>4, <1>5, <1>6, TaskMoves DEF RunFail

LEMMA RunAuditStep ==
    ASSUME DeviceInv, RunAudit
    PROVE  DeviceInv'
<1> USE DEF deviceVars, memoryVars, auxVars
<1>1. task # {} /\ Task.pc = "audit" /\ Task \in TaskState /\ TaskStage(Task)
  BY TaskFacts DEF RunAudit, TaskAt
<1>2. PICK x \in TaskState :
          /\ task' = {x} /\ x.pc = "publish" /\ x.visible = Task.visible
          /\ x.failure = {} => Task.failure = {}
  <2>1. PICK e \in Audit : task' = {[Task EXCEPT !.pc = "publish", !.failure = Task.failure \cup e]}
    BY DEF RunAudit, NextTask
  <2> DEFINE y == [Task EXCEPT !.pc = "publish", !.failure = Task.failure \cup e]
  <2>2. e \in SUBSET Failure
    BY DEF Audit, Failure
  <2>3. /\ y \in TaskState /\ y.pc = "publish" /\ y.visible = Task.visible
        /\ y.failure = Task.failure \cup e
    BY <1>1, <2>2 DEF TaskState
  <2> HIDE DEF y
  <2> QED
    BY <2>1, <2>3 DEF y
<1>3. /\ kernel' = kernel /\ UNCHANGED <<mode, wanted, backing, icache, dcache>>
      /\ kernel' \in SUBSET KernelState /\ backing' \in [code : Nat, input : Nat, output : Word]
      /\ icache' \in SUBSET Nat /\ dcache' \in [input : SUBSET Nat, output : SUBSET Word]
  BY DEF RunAudit, DeviceInv, DeviceType
<1>4. TaskStage(x)'
  BY <1>1, <1>2, <1>3 DEF TaskStage, Handed, ResultHeld, Timing, Transferable, Completed
<1>5. ~Timing => kernel' = {} /\ CachesEmpty'
  BY <1>3 DEF DeviceInv, CachesEmpty
<1> QED
  BY <1>1, <1>2, <1>3, <1>4, <1>5, TaskMoves DEF RunAudit

\* A launch is published: its errors, or a kernel the next owner may take over.
LEMMA RunPublishStep ==
    ASSUME DeviceInv, RunPublish
    PROVE  DeviceInv'
<1> USE DEF memoryVars, auxVars
<1>1. /\ task # {} /\ Task.pc = "publish" /\ Task \in TaskState /\ TaskStage(Task)
      /\ \A t \in Thread : ~HostOwner(t)
  BY TaskFacts DEF RunPublish, TaskAt
<1>0. UNCHANGED <<mode, sequence, busyLatch, closed, kernel, host, backing, icache, dcache, wanted, first>>
  BY DEF RunPublish
<1>2. /\ task' = {} /\ busy' = FALSE /\ lastError' = Task.failure \cup lastError
      /\ lastRun' = [sequence |-> sequence, visible |-> Task.visible]
  BY DEF RunPublish, Publish
<1>3. /\ lastRun' \in RunState /\ lastRun'.visible = Task.visible
      /\ lastError' \in SUBSET Failure /\ (lastError' = {} => Task.failure = {})
  BY <1>1, <1>2 DEF DeviceInv, DeviceType, TaskState, RunState
<1>4. DeviceType'
  BY <1>0, <1>2, <1>3 DEF DeviceInv, DeviceType
<1>5. \A t \in Thread : ~HostOwner(t)'
  BY <1>0, <1>1 DEF HostOwner
<1>6. Exclusive' /\ FirstDue'
  BY <1>0, <1>2, <1>5 DEF Exclusive, DeviceInv, FirstDue, FirstBusySeen
<1>7. IdleStage'
  <2>1. CASE Timing
    BY <1>0, <1>1, <1>3, <2>1 DEF IdleStage, TaskStage, Handed, CachesEmpty, ResultHeld, Transferable, Completed
  <2>2. CASE ~Timing
    BY <1>0, <2>2 DEF IdleStage, DeviceInv, Handed, CachesEmpty
  <2> QED
    BY <2>1, <2>2
<1>8. VisibleResult'
  BY <1>0, <1>1, <1>2, <1>3 DEF VisibleResult, TaskStage
<1>9. \A t \in Thread : HostStage(t)'
  BY <1>5 DEF HostStage, HostOwner, OwnerPlaces, At
<1> QED
  BY <1>0, <1>2, <1>4, <1>6, <1>7, <1>8, <1>9 DEF DeviceInv, Timing, CachesEmpty

\* A line leaves a cache under a running launch: a dirty one is the result.
LEMMA EvictStep ==
    ASSUME DeviceInv, Evict
    PROVE  DeviceInv'
<1> USE DEF deviceVars, auxVars
<1>1. task # {} /\ task' = {Task} /\ Task \in TaskState /\ TaskStage(Task)
  BY TaskFacts DEF Evict
<1>2. PICK x \in TaskState : task' = {x} /\ x = Task
  BY <1>1
<1>3. UNCHANGED <<mode, kernel, wanted>> /\ kernel' \in SUBSET KernelState
  BY DEF Evict, DeviceInv, DeviceType
<1>4. CASE icache' = {} /\ icache # {} /\ UNCHANGED <<backing, dcache>>
  <2>1. /\ backing' \in [code : Nat, input : Nat, output : Word]
        /\ dcache' \in [input : SUBSET Nat, output : SUBSET Word] /\ icache' \in SUBSET Nat
    BY <1>4 DEF DeviceInv, DeviceType
  <2>2. TaskStage(x)'
    BY <1>1, <1>2, <1>3, <1>4 DEF TaskStage, Handed, Asked, CachesEmpty, ResultHeld, Timing, Transferable, Completed
  <2>3. Timing
    BY <1>4 DEF DeviceInv, CachesEmpty
  <2> QED
    BY <1>1, <1>2, <1>3, <2>1, <2>2, <2>3, TaskMoves DEF Evict
<1>5. CASE /\ dcache.output # {} /\ UNCHANGED icache
           /\ backing' = [backing EXCEPT !.output = CHOOSE o \in dcache.output : TRUE]
           /\ dcache' = [dcache EXCEPT !.output = {}]
  <2>1. PICK o \in dcache.output : backing' = [backing EXCEPT !.output = o]
    BY <1>5
  <2>2. /\ backing' \in [code : Nat, input : Nat, output : Word] /\ backing'.output = o
        /\ dcache' \in [input : SUBSET Nat, output : SUBSET Word] /\ dcache'.output = {}
        /\ icache' \in SUBSET Nat
    BY <1>5, <2>1 DEF DeviceInv, DeviceType
  <2>3. Timing
    BY <1>5 DEF DeviceInv, CachesEmpty
  <2>4. Task.pc \in {"audit", "publish"} /\ ~Task.visible
    BY <1>1, <1>5, <2>3 DEF TaskStage, TaskState, CachesEmpty
  <2>5. TaskStage(x)'
    BY <1>1, <1>2, <1>3, <2>1, <2>2, <2>4 DEF TaskStage, Handed, ResultHeld, Timing, Transferable, Completed
  <2> QED
    BY <1>1, <1>2, <1>3, <2>2, <2>3, <2>5, TaskMoves DEF Evict
<1> QED
  BY <1>4, <1>5 DEF Evict

-----------------------------------------------------------------------------
(* The theorems *)

LEMMA DeviceInitial == Init => DeviceInv
<1> SUFFICES ASSUME Init PROVE DeviceInv
  OBVIOUS
<1>1. Outside \in HostState /\ Outside.pc = "idle" /\ NoRun \in RunState /\ ~NoRun.visible
  BY DEF Outside, HostState, RunState, NoRun, OtherPlaces
<1>2. \A t \in Thread : host[t] = Outside
  BY DEF Init
<1>3. DeviceType
  BY <1>1 DEF Init, DeviceType, Word
<1>4. \A t \in Thread : ~HostOwner(t) /\ HostStage(t)
  BY <1>1, <1>2 DEF HostOwner, HostStage, OwnerPlaces, At
<1>5. Exclusive /\ IdleStage /\ VisibleResult /\ FirstDue /\ CachesEmpty
  BY <1>1, <1>4 DEF Init, Exclusive, IdleStage, VisibleResult, FirstDue, FirstBusySeen, Handed, CachesEmpty
<1> QED
  BY <1>3, <1>4, <1>5 DEF Init, DeviceInv

LEMMA DeviceStep == DeviceInv /\ [Next]_vars => DeviceInv'
<1> SUFFICES ASSUME DeviceInv, [Next]_vars PROVE DeviceInv'
  OBVIOUS
<1>1. CASE TaskStep
  BY <1>1, RunEnterStep, RunFetchStep, RunStoreStep, RunFailStep, RunAuditStep, RunPublishStep DEF TaskStep
<1>2. ASSUME NEW t \in Thread, CallStep(t) PROVE DeviceInv'
  BY <1>2, CallsOutside, StartStep, StartAuditStep, StartPublishStep, FlushEnters, FlushDataStep,
     FlushEndsStep, FlushAuditStep, FlushPublishStep DEF CallStep, FlushStep
<1>3. ASSUME NEW t \in Thread, \E call \in Calls : Lookup(t, call) PROVE DeviceInv'
  BY <1>3, CallsOutside
<1>4. CASE \/ simtiming_create \/ simtiming_destroy \/ Ended \/ UNCHANGED vars
           \/ \E what \in {"code", "input"} : Upload(what)
  BY <1>4, DeviceCalls
<1> QED
  BY <1>1, <1>2, <1>3, <1>4, EvictStep DEF Next

LEMMA DeviceInductive == Spec => []DeviceInv
  BY DeviceInitial, DeviceStep, PTL DEF Spec

\* For any number of host threads and launches, the launch goroutine, flushes and Close
\* exclude each other by `busy', and a kernel accepted under the lock is never refused
\* (Start, flush, Close, runTiming).
THEOREM KernelHasOneOwner == Spec => []OwnershipSafe
<1>1. DeviceInv => OwnershipSafe
  <2> SUFFICES ASSUME DeviceInv PROVE OwnershipSafe
    OBVIOUS
  <2>1. HandoffAccepted
    BY DEF DeviceInv, DeviceType, HandoffAccepted, Failure
  <2>2. Owners = {t \in Thread : HostOwner(t)} \cup (IF task = {} THEN {} ELSE {"task"})
    BY DEF Owners, HostOwner, OwnerPlaces
  <2>3. \A a, b \in Owners : a = b
    BY <2>2 DEF DeviceInv, Exclusive
  <2>4. busy = (Owners # {})
    BY <2>2 DEF DeviceInv, DeviceType, Exclusive
  <2> QED
    BY <2>1, <2>3, <2>4 DEF DeviceInv, Exclusive, OwnershipSafe, SingleOwner
<1> QED
  BY <1>1, DeviceInductive, PTL

\* For any number of host threads and launches, a run reported visible has its result in
\* memory, computed from what was uploaded, and the first Busy after Start sees the launch
\* (publish, FlushCaches, Busy).
THEOREM HostSeesTheTruth == Spec => []HostSeesLaunch
<1>1. DeviceInv => HostSeesLaunch
  BY DEF DeviceInv, FirstDue, HostSeesLaunch
<1> QED
  BY <1>1, DeviceInductive, PTL

\* No step of any thread removes a recorded error: Start clears the field only when it is
\* empty, and publish joins (publish, combineErrors).
THEOREM NoErrorIsLost == Spec => ErrorsKept
<1>1. [Next]_vars => [lastError \subseteq lastError']_vars
  <2> SUFFICES ASSUME Next PROVE lastError \subseteq lastError'
    OBVIOUS
  <2> USE DEF deviceVars
  <2>1. CASE TaskStep
    <3>1. CASE RunPublish
      BY <3>1 DEF RunPublish, Publish
    <3> QED
      BY <2>1, <3>1 DEF TaskStep, RunEnter, RunFetch, RunStore, RunFail, RunAudit
  <2>2. ASSUME NEW t \in Thread, CallStep(t) PROVE lastError \subseteq lastError'
    <3>1. CASE FlushStep(t)
      BY <3>1 DEF FlushStep, FlushData, FlushInstruction, FlushFail, FlushAudit, FlushPublish, Publish
    <3>2. CASE Start(t) \/ StartAudit(t) \/ StartPublish(t) \/ Flush(t)
      BY <3>2 DEF Start, Startable, StartAudit, StartPublish, Flush, Publish
    <3>3. CASE ConnectionError(t) \/ ErrorAudit(t) \/ ErrorRecord(t) \/ WriteDCR(t) \/ Busy(t)
      BY <3>3 DEF ConnectionError, ErrorAudit, ErrorRecord, WriteDCR, Busy
    <3> QED
      BY <2>2, <3>1, <3>2, <3>3 DEF CallStep
  <2>3. CASE simtiming_create \/ simtiming_destroy \/ Evict \/ Ended
    BY <2>3 DEF simtiming_create, simtiming_destroy, Evict, Ended, vars
  <2>4. CASE \E t \in Thread, call \in Calls : Lookup(t, call)
    BY <2>4 DEF Lookup
  <2>5. CASE \E what \in {"code", "input"} : Upload(what)
    BY <2>5 DEF Upload
  <2> QED
    BY <2>1, <2>2, <2>3, <2>4, <2>5 DEF Next
<1> QED
  BY <1>1, PTL DEF Spec, ErrorsKept
=============================================================================
