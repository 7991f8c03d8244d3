------------------------------- MODULE MCFifo -------------------------------
(***************************************************************************)
(* Fifo.tla on an instance TLC can enumerate: four slots, so that the      *)
(* pointers wrap and every fill level occurs, and two data values, enough  *)
(* to tell an entry from its neighbour.                                    *)
(***************************************************************************)
EXTENDS Fifo

MCDepth == 4
MCData == {0, 1}
=============================================================================
