--------------------------- MODULE MCLsmLifecycle ---------------------------
(***************************************************************************)
(* A small instance of LsmLifecycle.                                       *)
(***************************************************************************)
EXTENDS LsmLifecycle, TLC

CONSTANTS k1, k2, v1

AllShort == (Empty :> 1) @@ (v1 :> 1)
=============================================================================
