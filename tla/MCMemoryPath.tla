----------------------------- MODULE MCMemoryPath ----------------------------
(***************************************************************************)
(* Small traffics for MemoryPath: words 0 .. 15 are global, two to a       *)
(* block, and words from 16 on are local, word w in bank w % Banks.        *)
(***************************************************************************)
EXTENDS MemoryPath

Load(addr) == [write |-> FALSE, addr |-> addr]
Store(addr) == [write |-> TRUE, addr |-> addr]
Lanes2(a, b) == (0 :> a) @@ (2 :> b)
Lanes4(a, b, c, d) == (0 :> a) @@ (1 :> b) @@ (2 :> c) @@ (3 :> d)

\* A mixed store, then a mixed load of another warp that meets it on both paths.
Mixed == [reqs |-> <<Store(Lanes4(0, 16, 4, 16)), Load(Lanes4(0, 16, 2, 20))>>,
          warp |-> <<1, 2>>, cancels |-> 1]

\* Loads of four blocks each: two batches a request for two coalescer slots.
Scattered == [reqs |-> <<Load(Lanes4(0, 2, 4, 6)), Load(Lanes4(0, 2, 4, 6))>>,
              warp |-> <<1, 2>>, cancels |-> 0]

\* All lanes in one local bank, stored and loaded back.
Conflict == [reqs |-> <<Store(Lanes4(16, 20, 24, 28)), Load(Lanes4(16, 20, 24, 28)), Load(Lanes2(16, 0))>>,
             warp |-> <<1, 2, 1>>, cancels |-> 1]

\* Mixed requests of two words back to back.
Train == [reqs |-> <<Load(Lanes2(0, 16)), Store(Lanes2(0, 16)), Load(Lanes2(0, 16))>>,
          warp |-> <<1, 1, 2>>, cancels |-> 1]

\* Local stores to one bank before a mixed store, whose global word may be applied while
\* its local word still waits to enter.
Early == [reqs |-> <<Store(Lanes4(16, 20, 24, 28)), Store(Lanes4(16, 20, 24, 28)),
                     Store(Lanes4(16, 20, 24, 28)), Store(Lanes2(16, 0))>>,
          warp |-> <<1, 2, 1, 2>>, cancels |-> 1]

PassSet == {Mixed, Scattered, Conflict, Train, Early}

\* Local loads to one bank before a mixed load, whose global word may be answered while
\* its local word still waits to enter.
Blocked == [reqs |-> <<Load(Lanes4(16, 20, 24, 28)), Load(Lanes4(16, 20, 24, 28)),
                       Load(Lanes4(16, 20, 24, 28)), Load(Lanes2(0, 16))>>,
            warp |-> <<1, 2, 1, 2>>, cancels |-> 0]

BlockedSet == {Blocked}
==============================================================================
