----------------------------- MODULE MCRuntime -----------------------------
(* Two host threads, both modes. *)
EXTENDS RuntimeDevice

CONSTANTS t1, t2
MCThread == {t1, t2}
MCModes == {"timing", "functional"}
=============================================================================
