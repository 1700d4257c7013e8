------------------------------ MODULE MCTunnel ------------------------------
(* Bounds for checking Tunnel: three bytes up, so that a leftover, a full    *)
(* buffer and a byte still in the socket can coexist, and two bytes down.    *)
EXTENDS Tunnel

MCMaxSent == [d \in {"up", "down"} |-> IF d = "up" THEN 3 ELSE 2]
=============================================================================
