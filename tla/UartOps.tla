------------------------------ MODULE UartOps ------------------------------
(***************************************************************************)
(* The serial cells of fpga/nes/cmn/uart: the oversampling clock           *)
(* (uart_baud_clk.v), the receiver (uart_rx.v) and the transmitter          *)
(* (uart_tx.v).  Each is a record of its registers and an operator that     *)
(* gives the registers after one rising edge of the system clock.           *)
(***************************************************************************)
EXTENDS Integers

CONSTANTS
    SysClkFreq,   \* SYS_CLK_FREQ, clocks per second
    BaudRate,     \* BAUD, bits per second
    Oversample,   \* BAUD_CLK_OVERSAMPLE_RATE
    DataBits      \* DATA_BITS

ASSUME UartAssumption ==
    /\ SysClkFreq \in Nat /\ BaudRate \in Nat \ {0}
    /\ Oversample \in Nat \ {0} /\ DataBits \in 1 .. 8

Word == 0 .. 2 ^ DataBits - 1

(* PARITY_MODE: none, odd, even.                                             *)
ParityModes == 0 .. 2

(* The two divisions truncate, so a bit lasts Oversample * ClksPerTick       *)
(* clocks, which is at most SysClkFreq \div BaudRate and may be less.        *)
(* Mutant of ClksPerTick: the second division rounds up.                     *)
RoundedUpTick == (SysClkFreq \div BaudRate + Oversample - 1) \div Oversample
ClksPerTick == (SysClkFreq \div BaudRate) \div Oversample

BaudTick(cnt) == cnt = ClksPerTick - 1

BaudClk(cnt) == IF BaudTick(cnt) THEN 0 ELSE (cnt + 1) % 2 ^ 16

(* ^data: the sum of the bits modulo 2.                                      *)
XorReduce(data) ==
    LET parity[n \in 0 .. DataBits] ==
            IF n = 0 THEN 0
            ELSE (parity[n - 1] + (data \div 2 ^ (n - 1))) % 2
    IN  parity[DataBits]

(* The registers that the receiver and the transmitter have in common; the   *)
(* tick counter is four bits wide.                                           *)
CountTick(cnt, tick) == IF tick THEN (cnt + 1) % 16 ELSE cnt

(* Mutant of BitOver: one tick too many, which four bits never count.        *)
LateBitOver(u, tick) == tick /\ u.cnt = Oversample
BitOver(u, tick) == tick /\ u.cnt = Oversample - 1

-----------------------------------------------------------------------------
(* The receiver.  `in` is q_rx, the registered input line.                   *)

RxReset == [state |-> "IDLE", cnt |-> 0, data |-> 0, idx |-> 0,
            done |-> FALSE, err |-> FALSE, in |-> 1]

(* Mutant of HalfBit: wait a whole bit after the falling edge, so that every  *)
(* sample is taken near the end of its bit.                                  *)
WholeBit == Oversample - 1
HalfBit == (Oversample - 1) \div 2

(* Mutant of RxParityBad: the polarity of the two modes exchanged.           *)
SwappedParityBad(mode, r) ==
    IF mode = 1 THEN r.in # XorReduce(r.data)
                      ELSE r.in # 1 - XorReduce(r.data)
RxParityBad(mode, r) ==
    IF mode = 1 THEN r.in # 1 - XorReduce(r.data)
                      ELSE r.in # XorReduce(r.data)

AfterData(mode) == IF mode = 0 THEN "STOP" ELSE "PARITY"

RxBitSampled(mode, q, r) ==
    LET s == [q EXCEPT !.data = r.in * 2 ^ (DataBits - 1) + r.data \div 2,
                       !.cnt  = 0]
    IN  IF r.idx = DataBits - 1 THEN [s EXCEPT !.state = AfterData(mode)]
                                ELSE [s EXCEPT !.idx = (r.idx + 1) % 8]

RxClock(mode, r, tick, line) ==
    LET q == [r EXCEPT !.in = line, !.cnt = CountTick(r.cnt, tick),
                       !.done = FALSE, !.err = FALSE]
    IN  CASE r.state = "IDLE" /\ r.in = 0 ->
                 [q EXCEPT !.state = "START", !.cnt = 0]
          [] r.state = "START" /\ tick /\ r.cnt = HalfBit ->
                 [q EXCEPT !.state = "DATA", !.cnt = 0, !.idx = 0]
          [] r.state = "DATA" /\ BitOver(r, tick) -> RxBitSampled(mode, q, r)
          [] r.state = "PARITY" /\ BitOver(r, tick) ->
                 [q EXCEPT !.state = "STOP", !.cnt = 0, !.err = RxParityBad(mode, r)]
          [] r.state = "STOP" /\ BitOver(r, tick) ->
                 [q EXCEPT !.state = "IDLE", !.done = TRUE]
          [] OTHER -> q

-----------------------------------------------------------------------------
(* The transmitter.  `out` is q_tx, the registered output line.              *)

TxReset == [state |-> "IDLE", cnt |-> 0, data |-> 0, idx |-> 0,
            parity |-> 0, out |-> 1, done |-> FALSE]

(* The parity bit latched with the data.  In mode 2 the assignment            *)
(* `d_parity_bit = ~tx_data' keeps the low bit of the complement.            *)
TxParity(mode, t, data) ==
    CASE mode = 0 -> t.parity
      [] mode = 1 -> 1 - XorReduce(data)
      [] mode = 2 -> 1 - (data % 2)

TxLine(t) ==
    CASE t.state = "START"  -> 0
      [] t.state = "DATA"   -> t.data % 2
      [] t.state = "PARITY" -> t.parity
      [] OTHER              -> 1

(* The client's start request is taken in IDLE, except in the clock of the   *)
(* done tick, when the request on the port is the one just served.           *)
(* Mutant of TxAccepts: the done tick is not looked at.                       *)
EagerAccepts(t, start) == t.state = "IDLE" /\ start
TxAccepts(t, start) == t.state = "IDLE" /\ start /\ ~t.done

(* Mutant of TxBitSent: the shift register is not shifted.                   *)
UnshiftedBitSent(mode, q, t) ==
    [q EXCEPT !.idx = (t.idx + 1) % 8, !.cnt = 0,
              !.state = IF t.idx = DataBits - 1 THEN AfterData(mode) ELSE "DATA"]
TxBitSent(mode, q, t) ==
    [q EXCEPT !.data = t.data \div 2, !.idx = (t.idx + 1) % 8, !.cnt = 0,
              !.state = IF t.idx = DataBits - 1 THEN AfterData(mode) ELSE "DATA"]

TxClock(mode, t, tick, start, data) ==
    LET q == [t EXCEPT !.out = TxLine(t), !.cnt = CountTick(t.cnt, tick),
                       !.done = FALSE]
    IN  CASE TxAccepts(t, start) ->
                 [q EXCEPT !.state = "START", !.cnt = 0, !.data = data,
                           !.parity = TxParity(mode, t, data)]
          [] t.state = "START" /\ BitOver(t, tick) ->
                 [q EXCEPT !.state = "DATA", !.cnt = 0, !.idx = 0]
          [] t.state = "DATA" /\ BitOver(t, tick) -> TxBitSent(mode, q, t)
          [] t.state = "PARITY" /\ BitOver(t, tick) ->
                 [q EXCEPT !.state = "STOP", !.cnt = 0]
          [] t.state = "STOP" /\ BitOver(t, tick) ->
                 [q EXCEPT !.state = "IDLE", !.done = TRUE]
          [] OTHER -> q
=============================================================================
