--------------------------- MODULE RuntimeDevice ---------------------------
(***************************************************************************)
(* The native runtime's device: the C entry points of cmd/simtiming-go,    *)
(* called by several host threads, the Device of integration/vortexruntime *)
(* with its launch goroutine, and of the timing kernel the part a launch   *)
(* hands to the next one: completion, failure, the two-stage cache flush   *)
(* and the caches it leaves behind.                                        *)
(*                                                                         *)
(* Every action is one critical section of Device.mu, one audit write or   *)
(* one stretch of kernel work; in between other threads run.  Memory is    *)
(* one word of code and one of input the host uploads, and one word of     *)
(* output the kernel computes from them.                                   *)
(***************************************************************************)
EXTENDS Naturals

CONSTANTS Thread,     \* host threads
          Modes,      \* "timing", "functional"
          MaxLaunch,  \* launches accepted
          MaxUpload   \* host uploads

ASSUME DeviceAssumption == MaxLaunch \in Nat /\ MaxUpload \in Nat

VARIABLES
    mode, audited,       \* execution mode; whether an event log is set
    handle,              \* the entry of the handle table: none, live, gone
    dcr,                 \* the launch registers: a valid descriptor or not
    sequence, busy, busyLatch, closed, lastError, lastRun,
    kernel,              \* the retained timing kernel, if any
    task,                \* the launch goroutine, if any
    host,                \* per thread: where it stands in which call
    backing,             \* device memory: code, input and output words
    icache, dcache,      \* cached code; cached input and dirty output
    wanted,              \* the upload a launch was started on
    first                \* what the first Busy call after Start answered

deviceVars == <<dcr, sequence, busy, busyLatch, closed, lastError, lastRun>>
memoryVars == <<backing, icache, dcache>>
auxVars == <<wanted, first>>
vars == <<mode, audited, handle, deviceVars, kernel, task, host, memoryVars, auxVars>>

NoRun == [sequence |-> 0, visible |-> FALSE]
NewKernel(n) == [launch |-> n, complete |-> FALSE, failed |-> FALSE, visible |-> FALSE,
                 flush |-> "none", drained |-> FALSE]
Outside == [pc |-> "idle", run |-> NoRun, failure |-> {}]

Init ==
    /\ mode \in Modes /\ audited \in BOOLEAN
    /\ handle = "none" /\ dcr = "bad"
    /\ sequence = 0 /\ busy = FALSE /\ busyLatch = FALSE /\ closed = FALSE
    /\ lastError = {} /\ lastRun = NoRun
    /\ kernel = {} /\ task = {} /\ host = [t \in Thread |-> Outside]
    /\ backing = [code |-> 0, input |-> 0, output |-> <<>>]
    /\ icache = {} /\ dcache = [input |-> {}, output |-> {}]
    /\ wanted = <<0, 0>> /\ first = "none"

Goto(t, place) == host' = [host EXCEPT ![t].pc = place]
At(t, place) == host[t].pc = place
Timing == mode = "timing"

(* What an audit write may return; nothing is written when no log is set. *)
Audit == IF audited THEN {{}, {"audit"}} ELSE {{}}

-----------------------------------------------------------------------------
(* The handle table.  A call looks its device up, releases the table and   *)
(* goes on with the device it found, even if that is destroyed meanwhile.  *)
simtiming_create ==
    /\ handle = "none" /\ handle' = "live"
    /\ UNCHANGED <<mode, audited, deviceVars, kernel, task, host, memoryVars, auxVars>>

Calls == {"start", "dcr_write", "bad_address", "flush", "busy"}
Lookup(t, call) ==
    /\ handle = "live" /\ At(t, "idle")
    /\ call = "start" => sequence < MaxLaunch
    /\ Goto(t, call)
    /\ UNCHANGED <<mode, audited, handle, deviceVars, kernel, task, memoryVars, auxVars>>

(* Close fails, and the handle stays, while a kernel or a flush runs. *)
simtiming_destroy ==
    /\ handle = "live" /\ ~busy
    /\ closed' = TRUE /\ handle' = "gone"
    /\ UNCHANGED <<mode, audited, dcr, sequence, busy, busyLatch, lastError, lastRun,
                   kernel, task, host, memoryVars, auxVars>>

-----------------------------------------------------------------------------
(* connectionError: record the error, audit it, record the audit's error. *)
ConnectionError(t) ==
    /\ \/ At(t, "bad_address") \/ At(t, "rejected")
    /\ lastError' = lastError \cup {"connection"}
    /\ Goto(t, "error_audit")
    /\ UNCHANGED <<mode, audited, handle, dcr, sequence, busy, busyLatch, closed, lastRun,
                   kernel, task, memoryVars, auxVars>>

ErrorAudit(t) ==
    /\ At(t, "error_audit")
    /\ \E e \in Audit : host' = [host EXCEPT ![t] = [@ EXCEPT !.pc = "error_record", !.failure = e]]
    /\ UNCHANGED <<mode, audited, handle, deviceVars, kernel, task, memoryVars, auxVars>>

ErrorRecord(t) ==
    /\ At(t, "error_record")
    /\ lastError' = lastError \cup host[t].failure
    /\ host' = [host EXCEPT ![t] = Outside]
    /\ UNCHANGED <<mode, audited, handle, dcr, sequence, busy, busyLatch, closed, lastRun,
                   kernel, task, memoryVars, auxVars>>

WriteDCR(t) ==
    /\ At(t, "dcr_write") /\ Goto(t, "idle")
    /\ IF closed THEN UNCHANGED dcr ELSE dcr' \in {"bad", "valid"}
    /\ UNCHANGED <<mode, audited, handle, sequence, busy, busyLatch, closed, lastError, lastRun,
                   kernel, task, memoryVars, auxVars>>

Busy(t) ==
    /\ At(t, "busy") /\ Goto(t, "idle")
    /\ first' = IF first = "due" THEN (IF busyLatch \/ busy THEN "busy" ELSE "idle") ELSE first
    /\ busyLatch' = FALSE
    /\ UNCHANGED <<mode, audited, handle, dcr, sequence, busy, closed, lastError, lastRun,
                   kernel, task, memoryVars, wanted>>

(* Mutant: a published failure replaces the errors recorded meanwhile. *)
PublishReplaces(run, failure) ==
    /\ lastError' = failure
    /\ lastRun' = run
    /\ busy' = FALSE

(* publish, the only place where an execution or a flush ends. *)
Publish(run, failure) ==
    /\ lastError' = failure \cup lastError
    /\ lastRun' = run
    /\ busy' = FALSE

-----------------------------------------------------------------------------
(* Start *)

Startable ==
    /\ ~closed /\ ~busy /\ ~busyLatch /\ lastError = {} /\ dcr = "valid"
    /\ kernel # {} => lastRun.visible

Start(t) ==
    /\ At(t, "start")
    /\ IF Startable
       THEN /\ sequence' = sequence + 1
            /\ lastError' = {} /\ busy' = TRUE /\ busyLatch' = TRUE
            /\ first' = "due" /\ wanted' = <<backing.code, backing.input>>
            /\ Goto(t, "start_audit")
       ELSE Goto(t, "rejected") /\ UNCHANGED <<sequence, lastError, busy, busyLatch, first, wanted>>
    /\ UNCHANGED <<mode, audited, handle, dcr, closed, lastRun, kernel, task, memoryVars>>

(* The launch is recorded before its goroutine starts. *)
StartAudit(t) ==
    /\ At(t, "start_audit")
    /\ \E e \in Audit :
           IF e = {}
           THEN /\ task' = {[pc |-> "enter", failure |-> {}, visible |-> FALSE, read |-> <<>>]}
                /\ Goto(t, "idle")
           ELSE /\ host' = [host EXCEPT ![t] = [@ EXCEPT !.pc = "start_publish", !.failure = e]]
                /\ UNCHANGED task
    /\ UNCHANGED <<mode, audited, handle, deviceVars, kernel, memoryVars, auxVars>>

StartPublish(t) ==
    /\ At(t, "start_publish")
    /\ Publish([sequence |-> sequence, visible |-> FALSE], host[t].failure)
    /\ host' = [host EXCEPT ![t] = Outside]
    /\ UNCHANGED <<mode, audited, handle, dcr, sequence, busyLatch, closed,
                   kernel, task, memoryVars, auxVars>>

-----------------------------------------------------------------------------
(* The launch goroutine *)
Task == CHOOSE x \in task : TRUE
TheKernel == CHOOSE k \in kernel : TRUE
TaskAt(place) == task # {} /\ Task.pc = place
NextTask(x) == task' = {x}

(* What FlushCaches requires of a kernel: complete and healthy.  A failed  *)
(* runner always makes its kernel fail too, so failed stands for both.     *)
Completed(k) == k.complete /\ ~k.failed

(* runTiming takes over the powered device or the kernel before it, which  *)
(* must be complete and healthy, its memory system drained and no flush    *)
(* begun.  The kernel taken over is dropped here, so the one retained is   *)
(* never already transferred; one clock drives runner and memory system.   *)
Transferable(k) == Completed(k) /\ k.drained /\ k.flush = "none"

RunEnter ==
    /\ TaskAt("enter")
    /\ IF ~Timing THEN NextTask([Task EXCEPT !.pc = "fetch"]) /\ UNCHANGED kernel
       ELSE IF kernel # {} /\ ~Transferable(TheKernel)
       THEN NextTask([Task EXCEPT !.pc = "audit", !.failure = {"handoff"}]) /\ UNCHANGED kernel
       ELSE NextTask([Task EXCEPT !.pc = "fetch"]) /\ kernel' = {NewKernel(sequence)}
    /\ UNCHANGED <<mode, audited, handle, deviceVars, host, memoryVars, auxVars>>

(* A cached word is read from the cache, another one from memory. *)
Cached(cache, word) == IF cache # {} THEN cache ELSE {word}

(* runTiming and runFunctional repeat Run(stepChunk) without bound until   *)
(* the kernel is complete or failed.  A chunk that ends on its budget      *)
(* changes nothing here; the kernel reads in one chunk, stores and         *)
(* completes in a later one, or fails in any.                              *)
RunFetch ==
    /\ TaskAt("fetch")
    /\ LET code == IF Timing THEN Cached(icache, backing.code) ELSE {backing.code}
           input == IF Timing THEN Cached(dcache.input, backing.input) ELSE {backing.input}
       IN  /\ \E c \in code, i \in input :
                  NextTask([Task EXCEPT !.pc = "store", !.read = <<c, i>>])
           /\ IF Timing THEN icache' = code /\ dcache' = [dcache EXCEPT !.input = input]
              ELSE UNCHANGED <<icache, dcache>>
    /\ UNCHANGED <<mode, audited, handle, deviceVars, kernel, host, backing, auxVars>>

RunStore ==
    /\ TaskAt("store")
    /\ NextTask([Task EXCEPT !.pc = "audit", !.visible = ~Timing])
    /\ IF Timing
       THEN /\ dcache' = [dcache EXCEPT !.output = {Task.read}]
            /\ kernel' = {[TheKernel EXCEPT !.complete = TRUE, !.drained = TRUE]} /\ UNCHANGED backing
       ELSE backing' = [backing EXCEPT !.output = Task.read] /\ UNCHANGED <<dcache, kernel>>
    /\ UNCHANGED <<mode, audited, handle, deviceVars, host, icache, auxVars>>

RunFail ==
    /\ task # {} /\ Task.pc \in {"fetch", "store"}
    /\ NextTask([Task EXCEPT !.pc = "audit", !.failure = {"simulator"}])
    /\ kernel' = {[k EXCEPT !.failed = TRUE] : k \in kernel}
    /\ UNCHANGED <<mode, audited, handle, deviceVars, host, memoryVars, auxVars>>

RunAudit ==
    /\ TaskAt("audit")
    /\ \E e \in Audit : NextTask([Task EXCEPT !.pc = "publish", !.failure = Task.failure \cup e])
    /\ UNCHANGED <<mode, audited, handle, deviceVars, kernel, host, memoryVars, auxVars>>

(* Mutant: a launch is published only once the host has seen it busy. *)
RunPublishObserved ==
    /\ TaskAt("publish") /\ ~busyLatch /\ task' = {}
    /\ Publish([sequence |-> sequence, visible |-> Task.visible], Task.failure)
    /\ UNCHANGED <<mode, audited, handle, dcr, sequence, busyLatch, closed,
                   kernel, host, memoryVars, auxVars>>

RunPublish ==
    /\ TaskAt("publish") /\ task' = {}
    /\ Publish([sequence |-> sequence, visible |-> Task.visible], Task.failure)
    /\ UNCHANGED <<mode, audited, handle, dcr, sequence, busyLatch, closed,
                   kernel, host, memoryVars, auxVars>>

-----------------------------------------------------------------------------
(* The cache flush, a synchronous register read of one host thread *)
Flushable == ~closed /\ ~busy /\ ~busyLatch /\ lastError = {}

(* Mutant: the flush does not claim the device. *)
FlushUnclaimed(t) ==
    /\ At(t, "flush")
    /\ IF ~Flushable THEN Goto(t, "rejected")
       ELSE IF ~Timing \/ kernel = {} THEN Goto(t, "idle")
       ELSE Goto(t, "flush_data")
    /\ UNCHANGED <<mode, audited, handle, deviceVars, kernel, task, memoryVars, auxVars>>

Flush(t) ==
    /\ At(t, "flush")
    /\ IF ~Flushable THEN Goto(t, "rejected") /\ UNCHANGED busy
       ELSE IF ~Timing \/ kernel = {} THEN Goto(t, "idle") /\ UNCHANGED busy
       ELSE Goto(t, "flush_data") /\ busy' = TRUE
    /\ UNCHANGED <<mode, audited, handle, dcr, sequence, busyLatch, closed, lastError, lastRun,
                   kernel, task, memoryVars, auxVars>>

(* FlushCaches fails at once on a kernel that is not complete and healthy. *)
(* Else the data cache is written back and emptied, and on a later edge    *)
(* the instruction cache; only then is the kernel visible.  The last       *)
(* summary is read again for the flush's own.                              *)
FlushData(t) ==
    /\ At(t, "flush_data")
    /\ IF Completed(TheKernel)
       THEN /\ Goto(t, "flush_instruction")
            /\ backing' = IF dcache.output = {} THEN backing
                          ELSE [backing EXCEPT !.output = CHOOSE o \in dcache.output : TRUE]
            /\ dcache' = [input |-> {}, output |-> {}]
            /\ kernel' = {[TheKernel EXCEPT !.flush = "instruction", !.drained = FALSE]}
       ELSE /\ host' = [host EXCEPT ![t] = [pc |-> "flush_audit", failure |-> {"handoff"},
                                            run |-> [lastRun EXCEPT !.visible = FALSE]]]
            /\ UNCHANGED <<backing, dcache, kernel>>
    /\ UNCHANGED <<mode, audited, handle, deviceVars, task, icache, auxVars>>

(* Mutant: the flush is over when the data cache is clean. *)
FlushInstructionSkipped(t) ==
    /\ At(t, "flush_instruction")
    /\ host' = [host EXCEPT ![t] = [pc |-> "flush_audit", run |-> [lastRun EXCEPT !.visible = TRUE],
                                    failure |-> {}]]
    /\ kernel' = {[TheKernel EXCEPT !.flush = "none", !.visible = TRUE, !.drained = TRUE]}
    /\ UNCHANGED <<mode, audited, handle, deviceVars, task, memoryVars, auxVars>>

FlushInstruction(t) ==
    /\ At(t, "flush_instruction")
    /\ icache' = {}
    /\ host' = [host EXCEPT ![t] = [pc |-> "flush_audit", run |-> [lastRun EXCEPT !.visible = TRUE],
                                    failure |-> {}]]
    /\ kernel' = {[TheKernel EXCEPT !.flush = "none", !.visible = TRUE, !.drained = TRUE]}
    /\ UNCHANGED <<mode, audited, handle, deviceVars, task, backing, dcache, auxVars>>

(* A write-back or control reply carries an error: the operation is dropped. *)
FlushFail(t) ==
    /\ \/ At(t, "flush_data") /\ Completed(TheKernel)
       \/ At(t, "flush_instruction")
    /\ host' = [host EXCEPT ![t] = [pc |-> "flush_audit", run |-> [lastRun EXCEPT !.visible = FALSE],
                                    failure |-> {"simulator"}]]
    /\ kernel' = {[TheKernel EXCEPT !.flush = "none", !.failed = TRUE]}
    /\ UNCHANGED <<mode, audited, handle, deviceVars, task, memoryVars, auxVars>>

FlushAudit(t) ==
    /\ At(t, "flush_audit")
    /\ \E e \in Audit :
           host' = [host EXCEPT ![t] = [@ EXCEPT !.pc = "flush_publish", !.failure = host[t].failure \cup e]]
    /\ UNCHANGED <<mode, audited, handle, deviceVars, kernel, task, memoryVars, auxVars>>

FlushPublish(t) ==
    /\ At(t, "flush_publish")
    /\ Publish(host[t].run, host[t].failure)
    /\ host' = [host EXCEPT ![t] = Outside]
    /\ UNCHANGED <<mode, audited, handle, dcr, sequence, busyLatch, closed,
                   kernel, task, memoryVars, auxVars>>

-----------------------------------------------------------------------------
(* The activities that own the kernel: a launch from Start to publish, and *)
(* a flush.                                                                *)
Owners == {t \in Thread : host[t].pc \in {"start_audit", "start_publish", "flush_data",
                                          "flush_instruction", "flush_audit", "flush_publish"}}
          \cup (IF task = {} THEN {} ELSE {"task"})

(* simtiming_mem_write.  Nothing in the device orders it with a launch: the *)
(* native runtime uploads while the device is idle and flushed.             *)
Quiet == Owners = {} /\ (kernel # {} => lastRun.visible)
Upload(what) ==
    /\ handle = "live" /\ Quiet /\ backing.code + backing.input < MaxUpload
    /\ backing' = [backing EXCEPT ![what] = @ + 1]
    /\ UNCHANGED <<mode, audited, handle, deviceVars, kernel, task, host, icache, dcache, auxVars>>

(* A clean line leaves a cache, or a dirty one is written back, at any time. *)
Evict ==
    /\ \/ icache' = {} /\ icache # {} /\ UNCHANGED <<backing, dcache>>
       \/ /\ dcache.output # {} /\ UNCHANGED icache
          /\ backing' = [backing EXCEPT !.output = CHOOSE o \in dcache.output : TRUE]
          /\ dcache' = [dcache EXCEPT !.output = {}]
    /\ task # {}
    /\ UNCHANGED <<mode, audited, handle, deviceVars, kernel, task, host, auxVars>>

TaskStep == RunEnter \/ RunFetch \/ RunStore \/ RunFail \/ RunAudit \/ RunPublish
FlushStep(t) == FlushData(t) \/ FlushInstruction(t) \/ FlushFail(t) \/ FlushAudit(t) \/ FlushPublish(t)
CallStep(t) ==
    \/ ConnectionError(t) \/ ErrorAudit(t) \/ ErrorRecord(t) \/ WriteDCR(t) \/ Busy(t)
    \/ Start(t) \/ StartAudit(t) \/ StartPublish(t) \/ Flush(t) \/ FlushStep(t)

Ended == handle = "gone" /\ task = {} /\ (\A t \in Thread : At(t, "idle")) /\ UNCHANGED vars

Next ==
    \/ simtiming_create \/ simtiming_destroy \/ TaskStep \/ Evict \/ Ended
    \/ \E t \in Thread : CallStep(t) \/ \E call \in Calls : Lookup(t, call)
    \/ \E what \in {"code", "input"} : Upload(what)

Spec == Init /\ [][Next]_vars

(* Goroutines and host threads inside a call keep running, and every       *)
(* kernel ends: nothing in the device bounds the loop around Run.          *)
FairSpec == Spec /\ WF_vars(TaskStep) /\ \A t \in Thread : WF_vars(CallStep(t))

-----------------------------------------------------------------------------
(* Properties *)

(* The kernel and its memory have one owner, which holds busy from its     *)
(* acceptance to its publish, and the device is open all that time: the    *)
(* launch goroutine, a flush and Close never meet (Start, flush, Close).   *)
SingleOwner ==
    /\ \A a, b \in Owners : a = b
    /\ busy = (Owners # {})
    /\ busy => ~closed

(* A launch or flush the device accepted is never refused by the kernel it *)
(* takes over: what Start and flush test under the lock implies what       *)
(* NextLaunch and FlushCaches require of a kernel, whichever way its last  *)
(* run ended.                                                              *)
HandoffAccepted == "handoff" \notin lastError

(* The kernel passes from owner to owner without conflict or refusal.      *)
OwnershipSafe == SingleOwner /\ HandoffAccepted

(* A run reported visible has its output in device memory, computed from   *)
(* the code and input uploaded when it was started: no stale instruction   *)
(* or data line of the launch before it was used (publish, FlushCaches).   *)
VisibleResult ==
    ~busy /\ lastRun.visible /\ lastRun.sequence = sequence => backing.output = wanted

(* An error, once recorded, is never lost, whichever thread records what   *)
(* while a launch or a flush is being published (publish, combineErrors).  *)
ErrorsKept == [][lastError \subseteq lastError']_vars

(* The first Busy call after a Start sees the launch, however short it was *)
(* and however late the call comes (Busy, busyLatch).                      *)
FirstBusySeen == first # "idle"

(* What the host observes of a launch is true: its result and its Busy.    *)
HostSeesLaunch == VisibleResult /\ FirstBusySeen

(* Every accepted launch or flush is published, if every kernel ends.      *)
OwnershipEnds == busy ~> ~busy
=============================================================================
