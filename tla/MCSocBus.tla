------------------------------ MODULE MCSocBus ------------------------------
(* Two peripherals of eight words each, one of them behind select 0 and one  *)
(* behind 2, and bursts of every kind: of one beat, of two that wrap and go  *)
(* on, and of the longest, whose count wraps when the address is ahead of    *)
(* its data.                                                                 *)
EXTENDS SocBus

MCPorts == {0, 2}
Burst(id, addr, len, kind) == [id |-> id, addr |-> addr, len |-> len, kind |-> kind]
MCBursts ==
    {Burst(0, 2, 0, "incr"), Burst(1, 17, 1, "wrap"), Burst(2, 19, 3, "incr"),
     Burst(3, 6, 3, "wrap"), Burst(1, 20, 2, "fixed"), Burst(0, 1, 1, "incr")}
=============================================================================
