------------------------------ MODULE MCBoard ------------------------------
(***************************************************************************)
(*   "joypad"  Joypad.tla: three buttons, eight clocks apart, and two states*)
(*             of them that differ in more than one button, and from what   *)
(*             they begin with.                                             *)
(*   "dma"     SpriteDma.tla: pages of three bytes and a CPU cycle of four  *)
(*             clocks.  A copy of nine clocks is longer than a cycle, and   *)
(*             every stage of it occurs at every phase a write can leave    *)
(*             the CPU in.                                                  *)
(*   "cpu"     CpuDebug.tla: four clock phases (0, 1 and two that differ    *)
(*             from them in nothing the control looks at) and instructions  *)
(*             of every length.                                             *)
(***************************************************************************)
EXTENDS Board

MCSnapshots == {<<0, 1, 0>>, <<0, 0, 1>>}
MCPages == {"p"}
MCBytes == {<<"game", 0>>}
MCCycles == 1 .. 6
=============================================================================
