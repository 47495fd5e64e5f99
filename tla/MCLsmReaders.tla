---------------------------- MODULE MCLsmReaders ----------------------------
(***************************************************************************)
(* A small instance of LsmReaders.  What is checked in it goes by versions *)
(* and not by values, so all writes are removals, which are puts of the    *)
(* empty value.                                                            *)
(***************************************************************************)
EXTENDS LsmReaders, TLC

CONSTANTS k1, k2, r1, r2

OneEach == Empty :> 1
=============================================================================
