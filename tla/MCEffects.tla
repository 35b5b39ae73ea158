----------------------------- MODULE MCEffects -----------------------------
(* Programs in which a tail of one kind meets control of another: a memory *)
(* access behind a jump, an arrival or a trap, a CSR held behind flags or  *)
(* a trap, a warp started again over its own outstanding load.             *)
EXTENDS Effects, TLC

MCWarp == {0, 1}
MCLanes == {0, 1}
Op(op) == Ins(op, None, None, {})
Alu(rd, rs) == Ins("alu", rd, rs, {})
Load(rd, addr) == Ins("load", rd, None, addr)
Store(rs, addr) == Ins("store", None, rs, addr)
Csr(rd, rs) == Ins("csr", rd, rs, {})
Tmc(mask) == Ins("tmc", None, None, mask)
Exit == Tmc({})

Two(p, mask, q) == 0 :> [mask |-> {0}, code |-> p] @@ 1 :> [mask |-> mask, code |-> q]
Solo(p) == 0 :> [mask |-> MCLanes, code |-> p] @@ 1 :> [mask |-> {}, code |-> <<>>]

MCPrograms ==
    {Solo(<<Load("r1", "a"), Op("fence"), Op("arrive"), Op("jump"), Exit, Alu("r1", "r1"), Exit>>),
     Solo(<<Alu("r1", None), Store("r1", "a"), Load("r2", "a"), Store("r2", "b"), Op("arrive"), Op("branch"), Exit>>),
     Solo(<<Ins("fpu", "r1", None, {}), Csr("r2", "r2"), Store("r2", "a"), Op("ecall"), Alu("r1", "r1"), Exit>>),
     Solo(<<Op("arrive"), Csr("r1", "r2"), Op("ecall"), Exit, Alu("r2", "r1"), Exit>>),
     Solo(<<Tmc({0}), Load("r1", "a"), Ins("join", None, None, {0, 1}), Alu("r1", None), Exit>>),
     Two(<<Ins("spawn", None, None, <<1, 3>>), Exit>>, {0}, <<Load("r1", "a"), Exit, Exit>>),
     Two(<<Csr("r2", "r1"), Ins("spawn", None, None, <<1, 1>>), Exit>>, {}, <<Alu("r2", None), Exit>>)}
=============================================================================
