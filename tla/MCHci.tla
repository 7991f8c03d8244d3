------------------------------- MODULE MCHci -------------------------------
(***************************************************************************)
(* Hci.tla with bytes of four bits and FIFOs of four slots.  Addresses     *)
(* 16#00..16#1F are WRAM, 16#20..16#3F the PPU's registers, 16#80..16#FF   *)
(* PRG memory, of which the packets touch a few cells around the places    *)
(* where an address carries or wraps.                                      *)
(***************************************************************************)
EXTENDS Hci

MCByteBase == 16
MCDepth == 4
MCRxClks == 9
MCTxClks == 8
MCCpuAddrs == {0, 1, 142, 143, 144, 145, 254, 255}
MCVramAddrs == {15, 16, 17}

\* One packet of each kind; counts of zero, of one, past the FIFO's depth and
\* with a carry into the high byte of the address.
MCPackets == {
    <<0, 2, 0, 7, 3>>,                    \* ECHO of two bytes
    <<0, 0, 0>>,                          \* ECHO of none
    <<1, 14, 8, 6, 0>>,                   \* CPU_MEM_RD of six
    <<2, 15, 8, 2, 0, 4, 5>>,             \* CPU_MEM_WR across a carry
    <<2, 15, 15, 2, 0, 6, 3>>,            \* CPU_MEM_WR across the wrap
    <<3>>, <<4>>, <<7>>, <<8>>,           \* BRK, RUN, QUERY_BRK, QUERY_ERR
    <<5, 1>>, <<6, 1, 9>>,                \* CPU_REG_RD, CPU_REG_WR
    <<9, 15, 0, 2, 0>>,                   \* PPU_MEM_RD
    <<10, 15, 0, 2, 0, 11, 12>>,          \* PPU_MEM_WR
    <<11>>,                               \* PPU_DISABLE
    <<12, 1, 2, 3, 4, 5>>,                \* CART_SET_CFG
    <<13>>                                \* an unknown opcode
}

\* For a host that does not wait for its replies: a memory read, whose replies
\* fill the transmit FIFO at once, and queries behind it.  The bytes of the
\* host are further apart than those of the replies, as in the hardware (1000
\* clocks and 960): a query alone is answered before the next one comes.
MCPipelinedRxClks == 12
MCRequests == {<<1, 14, 8, 2, 0>>, <<7>>}
=============================================================================
