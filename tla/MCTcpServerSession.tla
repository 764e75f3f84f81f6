------------------------- MODULE MCTcpServerSession -------------------------
(***************************************************************************)
(* Instances of TcpServerSession for TLC.                                  *)
(***************************************************************************)
EXTENDS TcpServerSession
=============================================================================
