---------------------------- MODULE MCFunctional ----------------------------
(* Programs and launches for the functional machine. *)
EXTENDS FunctionalCore

Op(op) == [op |-> op]
To(op, target) == [op |-> op, target |-> target]
Mem(op, place) == [op |-> op, at |-> place]
Bar(op, id, count) == [op |-> op, id |-> id, count |-> count]

(* Startup marker, then the five-instruction window: two CSR reads, the     *)
(* call of the body, one filler and the exit.  The body starts at 7.        *)
Window == << Op("nop"), Op("nop"), Op("nop"), To("call", 7), Op("nop"), Op("exit") >>

(* Threads exchange values through local memory across a barrier. *)
Exchange == Window \o << Op("tid"), Mem("store", "own"), Bar("bar", 0, 0),
                         Mem("load", "partner"), Mem("store", "global"), Op("return") >>

(* The same with a split barrier that also expects an event. *)
Async == Window \o << Op("tid"), Mem("store", "own"),
                      [op |-> "branch", when |-> "threads", threads |-> {1}, target |-> 11],
                      To("jump", 12), Bar("expect", 1, 1),
                      Bar("arrive", 1, 0), Op("nop"), Bar("wait", 1, 0),
                      Mem("load", "partner"), Mem("store", "global"), Op("return") >>

(* The split barrier alone, for CTAs that are resident together. *)
Events == Window \o << [op |-> "branch", when |-> "threads", threads |-> {1}, target |-> 9],
                       To("jump", 10), Bar("expect", 1, 1),
                       Bar("arrive", 1, 0), Bar("wait", 1, 0), Op("tid"),
                       Mem("store", "global"), Op("return") >>

(* Nested divergence inside a trap handler's caller. *)
Diverge == Window \o <<
    Op("tid"),                                                          \* 7
    [op |-> "split", when |-> "threads", threads |-> {0, 1, 2}, reg |-> 1],
    [op |-> "branch", when |-> "threads", threads |-> {0, 1, 2}, target |-> 12],
    [op |-> "mark", mark |-> 1], To("jump", 18),                        \* 10, 11
    [op |-> "split", when |-> "threads", threads |-> {1}, reg |-> 2],   \* 12
    [op |-> "branch", when |-> "threads", threads |-> {1}, target |-> 16],
    [op |-> "mark", mark |-> 2], To("jump", 17),                        \* 14, 15
    [op |-> "mark", mark |-> 3],                                        \* 16
    [op |-> "join", reg |-> 2], [op |-> "join", reg |-> 1],             \* 17, 18
    To("ecall", 22), Mem("store", "global"), Op("return"),              \* 19, 20, 21
    [op |-> "mark", mark |-> 4], Op("skip"), Op("mret") >>              \* 22

(* A PRED loop whose trip count depends on the thread. *)
Loop == Window \o <<
    Op("mask"), Op("tid"),                                              \* 7, 8
    [op |-> "mark", mark |-> 5],                                        \* 9
    [op |-> "pred", when |-> "trips"], [op |-> "branch", when |-> "trips", target |-> 9],
    Mem("store", "global"), Op("return") >>

(* One warp starts the others, which meet at a barrier. *)
SpawnAll(n) == << [op |-> "wspawn", count |-> n, target |-> 2], Op("tmc"), Op("tid"),
                  Mem("store", "own"), Op("wsync"), Bar("bar", 0, 0),
                  Mem("load", "partner"), Mem("store", "global"), Op("exit") >>

(* Stores of local and global words.  The first is good when the CTA has   *)
(* the words; the others fault: a lane beyond the allocation, two lanes on *)
(* one local word, two lanes on one global word beside good local lanes.   *)
Mixed == Window \o << Op("tid"), Mem("store", "mixed"), Mem("store", "global"), Op("return") >>
Beyond == Window \o << Op("tid"), Mem("store", "mixed"), Op("return") >>
ClashOutside == Window \o << Op("tid"), Mem("store", "clash"), Op("return") >>
Clash == Window \o << Op("tid"), Mem("store", "shared"), Op("return") >>
(* A barrier for more warps than the CTA has, and joins that do not nest. *)
BadBarrier == Window \o << Bar("bar", 0, 3), Op("return") >>
Unpaired == Window \o <<
    [op |-> "split", when |-> "threads", threads |-> {0, 1}, reg |-> 1],
    [op |-> "split", when |-> "threads", threads |-> {0}, reg |-> 2],
    [op |-> "join", reg |-> 1], [op |-> "join", reg |-> 2], Op("return") >>
(* A program without an exit. *)
OffEnd == << Op("nop"), Mem("load", "partner"), Op("nop") >>

L(program, grid, cluster, block, step, size, words) ==
    [driver |-> "kernel", faulty |-> FALSE, program |-> program, parameter |-> 1,
     grid |-> grid, cluster |-> cluster, block |-> block, warpStep |-> step,
     blockSize |-> size, lmem |-> words, globalSize |-> size]

MCInputs == {
    L(Exchange, <<2, 2, 1>>, <<2, 1, 1>>, <<3, 2, 1>>, <<1, 1, 0>>, 6, 6),
    L(Exchange, <<3, 1, 1>>, <<1, 1, 1>>, <<2, 2, 2>>, <<0, 0, 1>>, 8, 8),
    L(Exchange, <<2, 1, 1>>, <<2, 1, 1>>, <<8, 1, 1>>, <<4, 0, 0>>, 8, 12),
    L(Async, <<2, 1, 1>>, <<1, 1, 1>>, <<6, 1, 1>>, <<4, 0, 0>>, 6, 9),
    L(Events, <<2, 1, 1>>, <<1, 1, 1>>, <<6, 1, 1>>, <<4, 0, 0>>, 6, 6),
    L(Diverge, <<1, 1, 1>>, <<1, 1, 1>>, <<7, 1, 1>>, <<4, 0, 0>>, 7, 0),
    L(Loop, <<5, 1, 1>>, <<1, 1, 1>>, <<4, 1, 1>>, <<0, 0, 0>>, 4, 3),
    L(Loop, <<0, 1, 1>>, <<1, 1, 1>>, <<4, 1, 1>>, <<0, 0, 0>>, 4, 0),
    [L(SpawnAll(3), <<1, 1, 1>>, <<1, 1, 1>>, <<12, 1, 1>>, <<4, 0, 0>>, 12, 12) EXCEPT !.driver = "core"],
    [L(Beyond, <<1, 1, 1>>, <<1, 1, 1>>, <<4, 1, 1>>, <<0, 0, 0>>, 4, 2) EXCEPT !.faulty = TRUE],
    L(Mixed, <<1, 1, 1>>, <<1, 1, 1>>, <<4, 1, 1>>, <<0, 0, 0>>, 4, 4),
    [L(ClashOutside, <<1, 1, 1>>, <<1, 1, 1>>, <<4, 1, 1>>, <<0, 0, 0>>, 4, 4) EXCEPT !.faulty = TRUE],
    [L(Clash, <<1, 1, 1>>, <<1, 1, 1>>, <<4, 1, 1>>, <<0, 0, 0>>, 4, 2) EXCEPT !.faulty = TRUE],
    [L(BadBarrier, <<1, 1, 1>>, <<1, 1, 1>>, <<8, 1, 1>>, <<4, 0, 0>>, 8, 0) EXCEPT !.faulty = TRUE],
    [L(Unpaired, <<1, 1, 1>>, <<1, 1, 1>>, <<4, 1, 1>>, <<0, 0, 0>>, 4, 0) EXCEPT !.faulty = TRUE],
    [L(OffEnd, <<1, 1, 1>>, <<1, 1, 1>>, <<4, 1, 1>>, <<0, 0, 0>>, 4, 4) EXCEPT !.faulty = TRUE]
}
=============================================================================
