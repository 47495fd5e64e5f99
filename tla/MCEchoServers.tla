--------------------------- MODULE MCEchoServers ---------------------------
(***************************************************************************)
(* A small instance of EchoServers: packets of which one byte or 500 may   *)
(* come alone, and answers of one to four digits of which one byte may,    *)
(* and enough packets to fill the server's buffer.                         *)
(***************************************************************************)
EXTENDS EchoServers

CONSTANTS c1, c2

OneSize   == {1024}
TwoPieces == {1, 500}
=============================================================================
