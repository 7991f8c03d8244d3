------------------------------ MODULE FifoOps ------------------------------
(***************************************************************************)
(* The circular FIFO of fpga/nes/cmn/fifo/fifo.v as operators on a record  *)
(*     [rd_ptr, wr_ptr, empty, full, data]                                 *)
(* holding its five registers, so that every block that instantiates a     *)
(* fifo (the UART has two) clocks it with FifoClock.  One use of FifoClock *)
(* is one rising edge of clk.                                              *)
(***************************************************************************)
EXTENDS Naturals

CONSTANTS Depth,  \* 2**ADDR_BITS, the number of slots of q_data_array
          Data    \* the values one slot can hold, 2**DATA_BITS of them

\* The flags are computed from pointer differences modulo Depth; with fewer
\* than four slots "one entry" and "n-1 entries" meet and entries are lost.
\* The design instantiates ADDR_BITS = 3.
ASSUME DepthAssumption == Depth \in Nat /\ Depth >= 4

Ptr == 0 .. Depth - 1

Fifos == [rd_ptr : Ptr, wr_ptr : Ptr, empty : BOOLEAN, full : BOOLEAN,
          data : [Ptr -> Data]]

\* The registers after reset; q_data_array is not reset.
FifoReset(data) ==
    [rd_ptr |-> 0, wr_ptr |-> 0, empty |-> TRUE, full |-> FALSE, data |-> data]

\* q_ptr + 1'h1 in ADDR_BITS bits.
Succ(p) == IF p = Depth - 1 THEN 0 ELSE p + 1

\* a - b in ADDR_BITS bits.
PtrDiff(a, b) == IF a >= b THEN a - b ELSE a + Depth - b

\* A read of an empty fifo and a write to a full one are ignored.
RdEnProt(f, rd_en) == rd_en /\ ~ f.empty
\* Mutant of WrEnProt: the write is not protected against a full fifo.
UnprotectedWr(f, wr_en) == wr_en

WrEnProt(f, wr_en) == wr_en /\ ~ f.full

\* Mutants of NextEmpty: the read of the last entry is forgotten; a write to
\* an empty fifo does not clear the flag.
ForgottenLastRead(f, rd, wr) == f.empty /\ ~ wr
StickyEmpty(f, rd, wr) ==
    f.empty \/ (PtrDiff(f.wr_ptr, f.rd_ptr) = 1 /\ rd)

\* Empty: it was empty and nothing was written, or it held one entry and
\* that entry was read -- whatever was written in the same clock.
NextEmpty(f, rd, wr) ==
    \/ f.empty /\ ~ wr
    \/ PtrDiff(f.wr_ptr, f.rd_ptr) = 1 /\ rd

\* Mutant of NextFull: a read does not clear the flag.
StickyFull(f, rd, wr) ==
    f.full \/ (PtrDiff(f.rd_ptr, f.wr_ptr) = 1 /\ wr)

\* Full: it was full and nothing was read, or it held n-1 entries and one
\* was written -- whatever was read in the same clock.
NextFull(f, rd, wr) ==
    \/ f.full /\ ~ rd
    \/ PtrDiff(f.rd_ptr, f.wr_ptr) = 1 /\ wr

\* The registers after a clock edge.
FifoClock(f, rd_en, wr_en, wr_data) ==
    LET rd == RdEnProt(f, rd_en)
        wr == WrEnProt(f, wr_en)
    IN  [rd_ptr |-> IF rd THEN Succ(f.rd_ptr) ELSE f.rd_ptr,
         wr_ptr |-> IF wr THEN Succ(f.wr_ptr) ELSE f.wr_ptr,
         empty  |-> NextEmpty(f, rd, wr),
         full   |-> NextFull(f, rd, wr),
         data   |-> IF wr THEN [f.data EXCEPT ![f.wr_ptr] = wr_data]
                          ELSE f.data]

\* The combinational output rd_data.
RdData(f) == f.data[f.rd_ptr]

-----------------------------------------------------------------------------
\* How many accepted entries have not been read: pointers that meet mean
\* none or Depth of them, and only a full fifo has full set there.
Count(f) ==
    IF f.wr_ptr = f.rd_ptr THEN (IF f.full THEN Depth ELSE 0)
                           ELSE PtrDiff(f.wr_ptr, f.rd_ptr)

\* The slot of the i-th unread entry, oldest first.
Slot(f, i) ==
    IF f.rd_ptr + i - 1 < Depth THEN f.rd_ptr + i - 1
                                ELSE f.rd_ptr + i - 1 - Depth

\* The unread entries, oldest first.
Contents(f) == [i \in 1 .. Count(f) |-> f.data[Slot(f, i)]]
=============================================================================
