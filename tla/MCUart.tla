------------------------------- MODULE MCUart -------------------------------
(***************************************************************************)
(* UartLink.tla at the NES's clock and speed (100 MHz, 1 Mbit/s, so a bit  *)
(* of the receiver is 96 clocks).  The bytes have even and odd weight and  *)
(* neighbouring bits that differ, and up to two of them are queued, so that*)
(* frames follow each other without a gap.  A bit of the SoC is 100 clocks *)
(* (25 cycles of its 25 MHz clock).  The others bound what the receiver    *)
(* stands: at 91 clocks it is still in a stop bit when the next frame      *)
(* begins; at 101 it is back in IDLE before the last data bit ends and can *)
(* take the rest of that bit for a start bit.                              *)
(***************************************************************************)
EXTENDS UartLink

MCSysClkFreq == 100000000
MCBaudRate == 1000000
MCOversample == 16
MCDataBits == 8

\* No parity and odd parity.  With even parity the two boards disagree:
\* uart_tx.v:115 sends the complement of bit 0 (TxParity).
MCModes == {0, 1}

MCPayload == {86, 168}
MCBitClks == {92, 96, 100}
=============================================================================
