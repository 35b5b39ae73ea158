-------------------------------- MODULE Issue --------------------------------
(***************************************************************************)
(* Scoreboard, operand collector and dispatch queues                       *)
(* (src/timing/model/scoreboard.go, operands.go, dispatch.go).             *)
(*                                                                         *)
(* Eligibility to issue is registered: it is computed from the new         *)
(* reservations but the old credits, and used one edge later.  A credit of *)
(* an execution class is taken at issue and returned when the unit takes   *)
(* the instruction from its dispatch queue.  Decode gives no instruction a *)
(* unit lock, so the lock registers never change and are left out.         *)
(***************************************************************************)
EXTENDS PipeParts

CONSTANTS Limit,        \* credits, and dispatch queue entries, of a class
          Banks         \* register file banks

ASSUME IssueAssumption == Limit \in Nat /\ Limit >= 2 /\ Banks \in Nat \ {0}

VARIABLES
    staging, ready,       \* staged instruction of a warp and its registered eligibility
    issueOut,             \* issue buffer
    rrNext, rrPrevious,   \* sticky round-robin arbiter: cursor, last winner
    reserved, busy,       \* issued and not written back; registers they write
    credits, creditTokens,
    first, second, opcOut,\* collector stages; first holds [tok, last]
    fetched, held,        \* operands read so far, and of which token
    dispatch              \* queue per class

issueVars == <<staging, ready, issueOut, rrNext, rrPrevious, reserved, busy, credits,
               creditTokens, first, second, opcOut, fetched, held, dispatch>>

IssueInit ==
    /\ staging = [w \in Warp |-> <<>>] /\ ready = [w \in Warp |-> FALSE]
    /\ issueOut = <<>> /\ rrNext = 0 /\ rrPrevious = {}
    /\ reserved = {} /\ busy = [w \in Warp |-> {}]
    /\ credits = [c \in Class |-> 0] /\ creditTokens = [c \in Class |-> <<>>]
    /\ first = <<>> /\ second = <<>> /\ opcOut = <<>> /\ fetched = {} /\ held = {}
    /\ dispatch = [c \in Class |-> <<>>]

(***************************************************************************)
(* Issue arbitration: the last winner keeps the port while it requests.    *)
(***************************************************************************)
Requesting == {w \in Warp : ready[w] /\ staging[w] # <<>>}

Retained == rrPrevious \cap Requesting

Selected == IF Retained # {} THEN Retained ELSE Winner(Requesting, NumWarps, rrNext)

IssueWarp == IF Len(issueOut) < 2 THEN Selected ELSE {}

Issued == {Head(staging[w]) : w \in IssueWarp}

\* A warp's staging register takes the next uop when it is empty or issues.
Staged(w) == staging[w] = <<>> \/ w \in IssueWarp

\* Mutant: eligibility from the reservations before this edge.
EligibleStale(t, b) ==
    /\ busy[t.warp] \cap Uses(t) = {}
    /\ credits[ClassOfToken(t)] < Limit - 1

\* Eligibility of the token t, from the reservations after this edge (b) and
\* the credits before it.
Eligible(t, b) ==
    /\ b[t.warp] \cap Uses(t) = {}
    /\ credits[ClassOfToken(t)] < Limit - 1

(***************************************************************************)
(* The collector presents the head of the issue buffer to the register     *)
(* banks until all its operands are read; each pass reads at most one      *)
(* operand per bank.                                                       *)
(***************************************************************************)
Wanted(t) == {i \in DOMAIN Kind(t).srcs : Kind(t).srcs[i] # 0 /\ i \notin fetched}

Granted(t) ==
    {i \in Wanted(t) : \A j \in Wanted(t) : j < i => Kind(t).srcs[j] % Banks # Kind(t).srcs[i] % Banks}

FinalPass == \A t \in Out(issueOut) : Granted(t) = Wanted(t)

OpcOutReady == Len(opcOut) < 2

SecondReady == BufferReady(1, second, OpcOutReady)

FirstReady == BufferReady(1, first, SecondReady)

CollectorReady == FirstReady /\ FinalPass

Collected == IF CollectorReady THEN Out(issueOut) ELSE {}

CollectorError == fetched # {} /\ Out(issueOut) # held

\* The collector output enters the queue of its class.
DispatchReady == \A t \in Out(opcOut) : Len(dispatch[ClassOfToken(t)]) < Limit

CollectorStep ==
    /\ first' = BufferNext(1, first, {[tok |-> t, last |-> FinalPass] : t \in Out(issueOut)}, SecondReady)
    /\ second' = BufferNext(1, second, {f.tok : f \in {g \in Out(first) : g.last}}, OpcOutReady)
    /\ opcOut' = BufferNext(2, opcOut, Out(second), DispatchReady)
    /\ IF FirstReady /\ FinalPass THEN fetched' = {} /\ held' = {}
       ELSE IF FirstReady
       THEN /\ fetched' = fetched \cup UNION {Granted(t) : t \in Out(issueOut)}
            /\ held' = Out(issueOut)
       ELSE UNCHANGED <<fetched, held>>

DispatchStep(unitReady) ==
    dispatch' = [c \in Class |->
        BufferNext(Limit, dispatch[c], {t \in Out(opcOut) : ClassOfToken(t) = c}, unitReady[c])]

\* Mutant: a ready unit returns a credit although its queue is empty.
ReleasesUnasked(unitReady) == {c \in Class : unitReady[c]}

\* Classes whose unit takes the head of the dispatch queue.
Releases(unitReady) == {c \in Class : unitReady[c] /\ dispatch[c] # <<>>}

(***************************************************************************)
(* Scoreboard.evaluate: release the registers of the last writeback of a   *)
(* uop, reserve those of the issued one, move the credits, and register    *)
(* the eligibility of what is staged next.  The eligibility register of an *)
(* empty staging register is never used and reads FALSE here.              *)
(***************************************************************************)
Ended(writeback) == {t \in writeback : t.end}

BusyNext(writeback) ==
    [w \in Warp |->
        (busy[w] \ UNION {Kind(t).writes : t \in {u \in Ended(writeback) : u.warp = w}})
            \cup UNION {Kind(t).writes : t \in {u \in Issued : u.warp = w}}]

CreditsNext(releases) ==
    [c \in Class |-> credits[c] + Cardinality({t \in Issued : ClassOfToken(t) = c})
                                - (IF c \in releases THEN 1 ELSE 0)]

ScoreboardError(writeback, releases) ==
    \/ \E t \in Ended(writeback) : ~(Kind(t).writes \subseteq busy[t.warp])
    \/ \E c \in releases : credits[c] = 0
    \/ \E c \in Class : CreditsNext(releases)[c] \notin 0 .. Limit

StagingNext(uops) ==
    [w \in Warp |-> BufferNext(1, staging[w], uops[w], w \in IssueWarp)]

ScoreboardStep(uops, writeback, unitReady) ==
    LET releases == Releases(unitReady)
    IN  /\ staging' = StagingNext(uops)
        /\ issueOut' = BufferNext(2, issueOut, {Head(staging[w]) : w \in Selected}, CollectorReady)
        /\ IF IssueWarp = {} THEN UNCHANGED <<rrNext, rrPrevious>>
           ELSE /\ rrPrevious' = IssueWarp
                /\ rrNext' = IF Retained # {} THEN rrNext
                             ELSE ((CHOOSE w \in IssueWarp : TRUE) + 1) % NumWarps
        /\ reserved' = {t \in reserved : \A u \in Ended(writeback) : ~SameUop(t, u)} \cup Issued
        /\ busy' = BusyNext(writeback)
        /\ credits' = CreditsNext(releases)
        /\ creditTokens' = [c \in Class |->
               (IF c \in releases /\ creditTokens[c] # <<>> THEN Tail(creditTokens[c]) ELSE creditTokens[c])
                   \o AsSeq({t \in Issued : ClassOfToken(t) = c})]
        /\ ready' = [w \in Warp |-> \E t \in Out(staging'[w]) : Eligible(t, busy')]

\* Tokens from the staging registers to the dispatch queues.
InIssue ==
    UNION {SeqSet(staging[w]) : w \in Warp} \cup SeqSet(issueOut) \cup {f.tok : f \in SeqSet(first)}
    \cup SeqSet(second) \cup SeqSet(opcOut) \cup UNION {SeqSet(dispatch[c]) : c \in Class}

(***************************************************************************)
(* Scoreboard.cancel and the collector's part of Frontend.cancel: busy and *)
(* credits are rebuilt from the ledgers of what is not cancelled.          *)
(***************************************************************************)
\* Mutant: a cancellation keeps the credits of the cancelled instructions.
CreditsHeld(c) == credits

CreditsKept(c) == [k \in Class |-> Len(KeepSeq(c, creditTokens[k]))]

IssueCancel(c) ==
    /\ staging' = [w \in Warp |-> KeepSeq(c, staging[w])]
    /\ ready' = [ready EXCEPT ![c.warp] = FALSE]
    /\ issueOut' = KeepSeq(c, issueOut)
    /\ reserved' = Keep(c, reserved)
    /\ busy' = [w \in Warp |-> UNION {Kind(t).writes : t \in {u \in Keep(c, reserved) : u.warp = w}}]
    /\ creditTokens' = [k \in Class |-> KeepSeq(c, creditTokens[k])]
    /\ credits' = CreditsKept(c)
    /\ first' = SelectSeq(first, LAMBDA f : ~Matches(c, f.tok))
    /\ second' = KeepSeq(c, second)
    /\ opcOut' = KeepSeq(c, opcOut)
    /\ IF \E t \in held : Matches(c, t) THEN fetched' = {} /\ held' = {}
       ELSE UNCHANGED <<fetched, held>>
    /\ dispatch' = [k \in Class |-> KeepSeq(c, dispatch[k])]
    /\ UNCHANGED <<rrNext, rrPrevious>>
==============================================================================
