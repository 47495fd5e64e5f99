--------------------------- MODULE MCSegmentFile ---------------------------
(***************************************************************************)
(* A small instance of SegmentFile.                                        *)
(***************************************************************************)
EXTENDS SegmentFile

\* "", "a", "b" and "c"; the values are "" and "c,".
FewKeys   == {<< >>, <<2>>, <<3>>, <<4>>}
FewValues == {<< >>, <<4, SEPERATOR>>}

\* Enough for keys that share bits, and for one whose bits others have set.
FewHashes ==
    (<< >> :> {0, 7, 12}) @@ (<<2>> :> {1, 5, 9}) @@ (<<3>> :> {2, 4, 14}) @@ (<<4>> :> {1, 7, 8})
=============================================================================
