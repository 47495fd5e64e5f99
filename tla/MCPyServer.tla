----------------------------- MODULE MCPyServer ----------------------------
(***************************************************************************)
(* A small instance of PyServer: two of three connections share a loop.    *)
(***************************************************************************)
EXTENDS PyServer, TLC

CONSTANTS c1, c2, c3, l1, l2

TwoOnOne == [c \in Clients |-> IF c = c3 THEN l2 ELSE l1]

OneKey   == {<<"k">>}
OneValue == {<<"'$'", "v">>}
OldValue == {<<"k">> :> <<"'$'", "v">>}
=============================================================================
