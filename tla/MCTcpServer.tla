---------------------------- MODULE MCTcpServer ----------------------------
(***************************************************************************)
(* The server for TLC: with sub reactors, and without (threadNum = 0).     *)
(***************************************************************************)
EXTENDS TcpServer

CONSTANTS s1, s2

TwoSubs == <<s1, s2>>
NoSubs  == <<>>
=============================================================================
