------------------------- MODULE MCBlockingServers -------------------------
(***************************************************************************)
(* The blocking servers for TLC: what one client writes does not fit into  *)
(* its send buffer; the other is there to wait, to be served meanwhile,    *)
(* and to be mixed up with the first.                                      *)
(***************************************************************************)
EXTENDS BlockingServers

CONSTANTS c1, c2

TwoClients == {c1, c2}
OneWritesMore == [c \in TwoClients |-> IF c = c1 THEN 2 ELSE 1]
=============================================================================
