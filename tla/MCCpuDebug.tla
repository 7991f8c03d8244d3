----------------------------- MODULE MCCpuDebug -----------------------------
(***************************************************************************)
(* CpuDebug.tla with four clock phases (0, 1 and two that differ from them *)
(* in nothing the control looks at) and instructions of every length.      *)
(***************************************************************************)
EXTENDS CpuDebug

MCCycles == 1 .. 6
=============================================================================
