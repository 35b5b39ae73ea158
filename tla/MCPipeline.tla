----------------------------- MODULE MCPipeline ------------------------------
(***************************************************************************)
(* Instances of Pipeline for TLC.                                          *)
(***************************************************************************)
EXTENDS Pipeline

Fcsr == 64                              \* a status register

K(path, srcs, writes) ==
    [path |-> path, srcs |-> srcs, reads |-> {}, writes |-> writes, uops |-> 1, ctl |-> "none"]

Add == K("int", <<1, 2>>, {3})          \* both operands in different banks
Chain == K("int", <<3, 1>>, {3})        \* depends on Add, bank conflict
Mul == K("mul", <<1, 0>>, {5})
Div == K("div", <<1>>, {5})
Load == K("load", <<1>>, {5})
Pack == [K("load", <<1>>, {5}) EXCEPT !.uops = 2]
Store == K("store", <<1, 5>>, {})
Fence == K("fence", <<>>, {})
Arrive == K("wctl", <<1>>, {})
Branch == [K("int", <<3, 5>>, {}) EXCEPT !.ctl = "branch"]
Tmc == [K("wctl", <<1>>, {}) EXCEPT !.ctl = "tmc"]
Split == [K("wctl", <<1>>, {4}) EXCEPT !.ctl = "split"]
Join == [K("wctl", <<4>>, {}) EXCEPT !.ctl = "join"]
Sync == [K("wctl", <<>>, {}) EXCEPT !.ctl = "sync"]
Bar == [K("wctl", <<1, 2>>, {}) EXCEPT !.ctl = "bar"]
Csr == [K("csr", <<1>>, {3}) EXCEPT !.reads = {Fcsr}]
Fma == K("fma", <<1, 2, 5>>, {6, Fcsr})
Ncp == K("ncp", <<6>>, {3})

Plain(k) == [kinds |-> k, warps |-> {0, 1}, cancels |-> 0, served |-> FALSE]
Recovered(k) == [Plain(k) EXCEPT !.cancels = 1]
Alone(k) == [kinds |-> k, warps |-> {0}, cancels |-> 1, served |-> TRUE]

\* Two warps share the instructions of a program.
FlowSet ==
    {Plain(k) : k \in {<<Load, Chain, Branch>>, <<Add, Store, Bar, Fence>>, <<Fma, Ncp, Csr, Sync>>,
                       <<Split, Join, Div, Mul>>, <<Add, Tmc, Arrive, Add>>, <<Chain, Add, Add, Chain>>}}
    \cup
    {Recovered(k) : k \in {<<Load, Branch, Pack>>, <<Div, Bar, Add>>, <<Fma, Csr, Sync>>}}

\* One warp runs ahead of its units, its memories answering.
LongSet ==
    {Alone(k) : k \in {<<Div, Chain, Add, Mul, Load, Add, Store, Branch>>,
                       <<Load, Pack, Store, Store, Store, Fence, Load, Bar>>,
                       <<Chain, Chain, Chain, Chain, Add, Mul, Fma, Sync>>}}

AllSet == FlowSet \cup LongSet

\* A warp waits at a barrier while the other runs on.
WaitSet == {Recovered(<<Bar, Branch, Add>>)}
==============================================================================
