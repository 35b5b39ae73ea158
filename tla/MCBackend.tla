----------------------------- MODULE MCBackend -----------------------------
(* Both external backends for TLC; writes to sector 1 are refused.         *)
EXTENDS ExternalBackend

MCKind == {<<"read", 0>>, <<"write", 0>>, <<"write", 1>>, <<"visibility", 0>>}
MCBudget == (0 :> 3) @@ (1 :> 1)
=============================================================================
