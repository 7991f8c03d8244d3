------------------------------ MODULE UartLink ------------------------------
(***************************************************************************)
(* The receiver of a uart.v and what is at the other end of its line:       *)
(*   "board"  the transmitter of another uart.v, with the same parameters,  *)
(*            one system clock frequency and an independent phase of the    *)
(*            oversampling clock.  Its client is its FIFO, as in uart.v: the*)
(*            start request is the complement of the registered empty flag, *)
(*            the data the head, and the done tick pops it.  The entries of *)
(*            the FIFO are the queue that Fifo.tla implements; the flag is  *)
(*            fifo.v's, which may stand while there is an entry.            *)
(*   "soc"    the uart_lite of core_soc.v, outside this repository, which   *)
(*            sends to hci.v frames of one start bit, DataBits data bits and*)
(*            one stop bit.  The two do not agree on the length of a bit:   *)
(*            the sender's is BitClks clocks, the receiver's                *)
(*            Oversample * ClksPerTick.                                     *)
(***************************************************************************)
EXTENDS UartOps, Sequences, FiniteSetsExt

CONSTANTS
    Modes,      \* the PARITY_MODEs that two boards may agree on
    Payload,    \* the bytes that are sent
    BitClks,    \* the lengths, in clocks, that a bit of the SoC may have
    MaxQueue    \* bound: bytes in the transmitter's FIFO, of 2 ** 3 slots;
                \* below 8 of them its full flag is never set

ASSUME LinkAssumption ==
    /\ Modes \subseteq ParityModes /\ Payload \subseteq Word /\ MaxQueue \in 0 .. 7
    /\ BitClks \subseteq Nat \ {0}

VARIABLES
    peer,                   \* "board" or "soc"
    mode,                   \* PARITY_MODE of receiver and transmitter
    tx, tx_baud,            \* "board": the transmitter and its oversampling
                            \* clock,
    queue, q_empty,         \* and the entries and the empty flag of its FIFO
    frame, clks, bit,       \* "soc": the bits still to send, the current one
                            \* first, the clocks left of it, their length
    rx, rx_baud,            \* the receiver and its oversampling clock
    parity_err,             \* q_rx_parity_err of the receiving uart.v
    pending,                \* ghost: bytes queued or begun and not yet reported
    missed                  \* ghost: the last byte queued came in the clock in
                            \* which the one before it was popped

board == <<tx, tx_baud, queue, q_empty>>
soc == <<frame, clks>>
vars == <<peer, mode, board, soc, bit, rx, rx_baud, parity_err, pending, missed>>

Init ==
    /\ \/ peer = "board" /\ mode \in Modes /\ bit = Min(BitClks)
       \/ peer = "soc" /\ mode = 0 /\ bit \in BitClks
    /\ tx = TxReset /\ tx_baud = 0 /\ queue = << >> /\ q_empty = TRUE
    /\ frame = << >> /\ clks = 0
    /\ rx = RxReset /\ rx_baud \in 0 .. ClksPerTick - 1
    /\ parity_err = FALSE /\ pending = << >> /\ missed = FALSE

Line == IF peer = "board" THEN tx.out ELSE IF frame = << >> THEN 1 ELSE Head(frame)

Receiver(begun) ==
    /\ rx' = RxClock(mode, rx, BaudTick(rx_baud), Line)
    /\ rx_baud' = BaudClk(rx_baud)
    /\ parity_err' = (parity_err \/ rx.err)
    /\ pending' = (IF rx.done /\ pending # << >> THEN Tail(pending) ELSE pending) \o begun
    /\ UNCHANGED <<peer, mode, bit>>

-----------------------------------------------------------------------------
\* A byte may be queued at any time; one that comes in the middle of a frame
\* is not looked at before its end, so only arrivals around the end and in
\* idle are enumerated.
Arrivals ==
    {<< >>} \cup
    (IF tx.state \in {"IDLE", "STOP"} /\ Len(queue) < MaxQueue
     THEN {<<b>> : b \in Payload} ELSE {})

\* rd_en_prot: the done tick reads, unless the flag says empty.
Read == tx.done /\ ~ q_empty

Popped == IF Read THEN Tail(queue) ELSE queue

\* Mutant of NextEmpty: the flag is set by any read, and hides what is left.
EmptiedByRead(arrival) == (q_empty /\ arrival = << >>) \/ Read

\* d_empty of fifo.v: the read of the last entry sets the flag whatever is
\* written in the same clock.
NextEmpty(arrival) ==
    \/ q_empty /\ arrival = << >>
    \/ Len(queue) = 1 /\ Read

TxStart == ~ q_empty
TxData == IF queue = << >> THEN 0 ELSE Head(queue)

\* One edge of the system clock.
Clock ==
    /\ peer = "board"
    /\ tx' = TxClock(mode, tx, BaudTick(tx_baud), TxStart, TxData)
    /\ tx_baud' = BaudClk(tx_baud)
    /\ \E arrival \in Arrivals :
          /\ queue' = Popped \o arrival
          /\ q_empty' = NextEmpty(arrival)
          /\ missed' = IF arrival = << >> THEN missed ELSE Read /\ Len(queue) = 1
          /\ Receiver(arrival)
    /\ UNCHANGED soc

-----------------------------------------------------------------------------
Frame(b) ==
    [i \in 1 .. DataBits + 2 |->
        IF i = 1 THEN 0
        ELSE IF i = DataBits + 2 THEN 1
        ELSE (b \div 2 ^ (i - 2)) % 2]

\* The line is idle for one more clock.
Idle ==
    /\ peer = "soc" /\ frame = << >>
    /\ Receiver(<< >>)
    /\ UNCHANGED <<board, soc, missed>>

\* A frame begins, from idle or one clock behind the last stop bit.
Begin ==
    /\ peer = "soc" /\ frame = << >>
    /\ \E b \in Payload : frame' = Frame(b) /\ Receiver(<<b>>)
    /\ clks' = bit - 1
    /\ UNCHANGED <<board, missed>>

\* The current bit goes on, or gives way to the next one.
Send ==
    /\ peer = "soc" /\ frame # << >>
    /\ IF clks > 0
       THEN clks' = clks - 1 /\ UNCHANGED frame
       ELSE /\ frame' = Tail(frame)
            /\ clks' = IF Len(frame) > 1 THEN bit - 1 ELSE 0
    /\ Receiver(<< >>)
    /\ UNCHANGED <<board, missed>>

Next == Clock \/ Idle \/ Begin \/ Send

Spec == Init /\ [][Next]_vars /\ WF_vars(Next)

-----------------------------------------------------------------------------
\* The receiver reports the bytes that were sent, in order: nothing is
\* mis-sampled, skipped, invented or sent twice, whatever the phases of the
\* oversampling clocks and the gap between two frames.  From a board, where
\* uart.v:41 says "0 = none, 1 = odd, 2 = even", a frame also passes the parity
\* check.  From the SoC the error of a bit's length adds up over the frame, but
\* every sample falls into its own bit, and frames one clock apart do not catch
\* up with the receiver: it is idle again before the next start bit.
FramesExact ==
    /\ rx.done => pending # << >> /\ rx.data = Head(pending)
    /\ ~ parity_err
    /\ peer = "soc" => Len(pending) <= 1

\* A byte that was queued or whose frame has begun is eventually reported,
\* unless it was written in the very clock in which the done tick popped the
\* one before it and nothing has been written since.  (fifo.v:96 sets the empty
\* flag over that write, and uart.v:118 starts a frame on the flag: such a byte
\* stays unsent until another write clears the flag.)
Delivered == (pending # << >> /\ ~ missed) ~> rx.done
=============================================================================
