-------------------------------- MODULE Fifo --------------------------------
(***************************************************************************)
(* fifo.v as a state machine of its own: one clock per step, with any      *)
(* combination of rd_en, wr_en and reset.  The registers are one record.   *)
(***************************************************************************)
EXTENDS FifoOps, Sequences

VARIABLE fifo   \* q_rd_ptr, q_wr_ptr, q_empty, q_full, q_data_array

\* Configured FPGA memory: any contents, pointers and flags reset.
Init == \E data \in [Ptr -> Data] : fifo = FifoReset(data)

Reset == fifo' = FifoReset(fifo.data)

Clock(rd_en, wr_en, wr_data) == fifo' = FifoClock(fifo, rd_en, wr_en, wr_data)

Next ==
    \/ Reset
    \/ \E rd_en, wr_en \in BOOLEAN, wr_data \in Data :
           Clock(rd_en, wr_en, wr_data)

Spec == Init /\ [][Next]_fifo

-----------------------------------------------------------------------------
\* The registers keep their widths and q_data_array its element type.
TypeOK == fifo \in Fifos

\* The flags are safe: a fifo without entries always refuses reads and a
\* fifo whose slots are all taken always refuses writes, and a flag raised by
\* a simultaneous read and write is off by at most one entry.  A wrong flag
\* here overwrites an unread byte or delivers a stale one.
FlagsSafe ==
    /\ Count(fifo) = 0 => fifo.empty
    /\ Count(fifo) = Depth => fifo.full
    /\ fifo.empty => Count(fifo) <= 1
    /\ fifo.full => Count(fifo) >= Depth - 1

\* The two flags are never raised together, so one of the two sides can
\* always make progress: a reader and a writer that each wait for their own
\* flag never block each other for good.
OneSideOpen == ~ (fifo.empty /\ fifo.full)

\* A wrong flag lasts only until the other side moves: an entry hidden by
\* empty becomes readable with the next accepted write, a slot hidden by full
\* becomes writable with the next read.
HiddenEntryReturns ==
    /\ fifo.empty /\ Count(fifo) = 1 /\ Count(fifo') = 2 => ~ fifo'.empty
    /\ fifo.full /\ Count(fifo) = Depth - 1 /\ Count(fifo') = Depth - 2
         => ~ fifo'.full
FlagsRecover == [][HiddenEntryReturns]_fifo

\* The registers implement a queue: what is read is what was written, in
\* order, with nothing lost, repeated or overwritten, also when the pointers
\* wrap and when a read and a write share a clock.
Queue == INSTANCE BoundedQueue WITH queue <- Contents(fifo)
ImplementsQueue == Queue!QueueSpec
=============================================================================
