----------------------------- MODULE MCLsmTree -----------------------------
(***************************************************************************)
(* Small instances of LsmTree.                                             *)
(***************************************************************************)
EXTENDS LsmTreeInv, TLC

CONSTANTS k1, k2, v1

\* Sizes of entries with keys of one byte: "" adds nothing, v1 four bytes or none
\* to speak of.
ShortAndLong == (Empty :> 1) @@ (v1 :> 5)
AllShort     == (Empty :> 1) @@ (v1 :> 1)

KeySymmetry == Permutations(Keys)
=============================================================================
