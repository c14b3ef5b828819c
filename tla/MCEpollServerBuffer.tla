------------------------ MODULE MCEpollServerBuffer ------------------------
(***************************************************************************)
(* The epoll servers for TLC: one client writes enough to have some bytes  *)
(* sent, some kept and some arriving; the other comes before or after it   *)
(* on the same descriptor.                                                 *)
(***************************************************************************)
EXTENDS EpollServerBuffer

CONSTANTS c1, c2

TwoClients == {c1, c2}
OneWritesMore == [c \in TwoClients |-> IF c = c1 THEN 3 ELSE 1]
=============================================================================
