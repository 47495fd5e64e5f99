---------------------------- MODULE MCDpdkServer ----------------------------
(***************************************************************************)
(* A small instance of DpdkServer.  Words without letters, with a star,    *)
(* and one that looks like a length.  Nothing tells one client from        *)
(* another.                                                                *)
(***************************************************************************)
EXTENDS DpdkServer, TLC

ThreeKeys   == {<<"k">>, << >>, <<"'*'">>}
ThreeValues == {<<"v", "w">>, << >>, <<"'$'", "'9'">>}

EmptyTree == {<< >>}

Symmetry == Permutations(Clients)
=============================================================================
