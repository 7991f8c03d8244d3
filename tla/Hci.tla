-------------------------------- MODULE Hci --------------------------------
(***************************************************************************)
(* The host communication interface, fpga/nes/hci/hci.v, clock by clock:   *)
(* the packet state machine between the UART's two FIFOs and the NES       *)
(* buses, together with the host that sends the packets and the devices    *)
(* its bus cycles reach.  Every step is one clk edge, except SendPacket    *)
(* (the host decides to send a packet; no clock passes).                   *)
(*                                                                         *)
(* Bytes are 0 .. ByteBase-1 (256 in the hardware), addresses are pairs of *)
(* bytes and a packet is the sequence of its bytes.                        *)
(***************************************************************************)
EXTENDS Integers, Sequences

CONSTANTS
    ByteBase,    \* number of values of a byte
    Depth,       \* slots of each UART FIFO
    RxClks,      \* least number of clocks between two received bytes
    TxClks,      \* clocks to transmit a byte
    CpuAddrs,    \* the CPU addresses with a memory behind them (WRAM, PRG)
    VramAddrs,   \* the PPU addresses with a memory behind them (CHR, VRAM)
    Packets,     \* the packets the host may send
    MaxPackets,  \* bound: packets sent in a behaviour
    Pipelined,   \* the host does not wait for the replies of its requests
    BrkEnabled   \* the running program may execute HLT

Byte == 0 .. ByteBase - 1
AddrSpace == ByteBase * ByteBase
Addr == 0 .. AddrSpace - 1
CntSpace == 2 * AddrSpace    \* q_execute_cnt is one bit wider than a count
RegSel == 0 .. 6             \* PCL, PCH, AC, X, Y, P, S

ASSUME HciAssumption ==
    /\ ByteBase \in Nat /\ ByteBase >= 16    \* thirteen opcodes, some unknown
    /\ ByteBase % 8 = 0                      \* eight PPU registers
    /\ Depth \in Nat /\ Depth >= 4            \* see FifoOps
    /\ RxClks \in Nat /\ TxClks \in Nat \ {0}
    /\ MaxPackets \in Nat
    /\ CpuAddrs \subseteq Addr /\ VramAddrs \subseteq Addr
    /\ Packets \subseteq Seq(Byte)
    /\ Pipelined \in BOOLEAN /\ BrkEnabled \in BOOLEAN

VARIABLES
    q_state, q_decode_cnt, q_execute_cnt, q_addr,  \* the state machine
    q_err_code,          \* unknown opcode seen (no parity in PARITY_MODE 0)
    q_cart_cfg,          \* the iNES bytes, a 40 bit shift register
    q_tx_data, q_wr_en,  \* UART output buffer
    rx_fifo, tx_fifo,    \* the FIFOs inside uart.v
    tx_left,             \* clocks left of the byte uart_tx is sending
    cpu_mem, vram,       \* memories on the CPU and PPU buses
    q_ram_a,             \* address register of the synchronous RAMs
    cpu_regs,            \* CPU registers behind the dbgreg port
    ri,                  \* PPU register interface: ncs and what it was told
    line, rx_wait,       \* host: bytes still to send, clocks until the next
    got,                 \* host: bytes received
    ref, sent            \* host: the state and replies its packets call for

fsm  == <<q_state, q_decode_cnt, q_execute_cnt, q_addr>>
cfg  == <<q_err_code, q_cart_cfg>>
uart == <<rx_fifo, tx_fifo, tx_left, line, rx_wait, got>>
out  == <<q_tx_data, q_wr_en>>
dev  == <<cpu_mem, vram, q_ram_a, cpu_regs, ri>>
host == <<ref, sent>>
vars == <<fsm, cfg, uart, out, dev, host>>

INSTANCE FifoOps WITH Data <- Byte

-----------------------------------------------------------------------------
\* What the packets mean, packet by packet.

OpNames == <<"ECHO", "CPU_MEM_RD", "CPU_MEM_WR", "DBG_BRK", "DBG_RUN",
             "CPU_REG_RD", "CPU_REG_WR", "QUERY_DBG_BRK", "QUERY_ERR_CODE",
             "PPU_MEM_RD", "PPU_MEM_WR", "PPU_DISABLE", "CART_SET_CFG">>

OpName(b) == IF b < Len(OpNames) THEN OpNames[b + 1] ELSE "UNKNOWN"

\* A device that is not selected drives zeroes.
At(mem, a) == IF a \in DOMAIN mem THEN mem[a] ELSE 0

Word(lo, hi) == lo + ByteBase * hi

\* The bytes of a memory packet stored from its address on.
Stored(mem, p) ==
    LET offset(x) == (x - Word(p[2], p[3])) % AddrSpace
    IN  [x \in DOMAIN mem |-> IF offset(x) < Word(p[4], p[5])
                              THEN p[6 + offset(x)] ELSE mem[x]]

\* The replies to a memory read.
Loaded(mem, p) ==
    [i \in 1 .. Word(p[4], p[5]) |->
        {At(mem, (Word(p[2], p[3]) + i - 1) % AddrSpace)}]

\* The state a packet leaves behind and the replies it adds.  A reply is the
\* set of answers that are right: a program that may halt by itself can have
\* done so when it is asked.
Execute(r, p) ==
    LET op == OpName(p[1])
        reply(b) == [r EXCEPT !.replies = Append(@, b)]
    IN  CASE op = "ECHO" ->
                 [r EXCEPT !.replies =
                      @ \o [i \in 1 .. Word(p[2], p[3]) |-> {p[3 + i]}]]
          [] op = "CPU_MEM_RD" -> [r EXCEPT !.replies = @ \o Loaded(r.mem, p)]
          [] op = "CPU_MEM_WR" -> [r EXCEPT !.mem = Stored(@, p)]
          [] op = "DBG_BRK" -> [r EXCEPT !.run = FALSE]
          [] op = "DBG_RUN" -> [r EXCEPT !.run = TRUE]
          [] op = "CPU_REG_RD" -> reply({r.regs[p[2]]})
          [] op = "CPU_REG_WR" -> [r EXCEPT !.regs[p[2]] = p[3]]
          [] op = "QUERY_DBG_BRK" ->
                 reply(IF ~ r.run THEN {1} ELSE IF BrkEnabled THEN {0, 1} ELSE {0})
          [] op = "QUERY_ERR_CODE" -> reply({IF r.err THEN 2 ELSE 0})
          [] op = "PPU_MEM_RD" -> [r EXCEPT !.replies = @ \o Loaded(r.vram, p)]
          [] op = "PPU_MEM_WR" -> [r EXCEPT !.vram = Stored(@, p)]
          [] op = "PPU_DISABLE" -> r
          [] op = "CART_SET_CFG" -> [r EXCEPT !.cart = SubSeq(p, 2, 6)]
          [] op = "UNKNOWN" -> [r EXCEPT !.err = TRUE]

\* The host sends its next packet: to a running NES only a halt or a query,
\* and, unless it pipelines, once it has every reply it asked for.
SendPacket(p) ==
    /\ line = << >> /\ rx_wait = 0 /\ sent < MaxPackets
    /\ ref.run => OpName(p[1]) \in {"DBG_BRK", "QUERY_DBG_BRK"}
    /\ Pipelined \/ Len(got) = Len(ref.replies)
    /\ line' = p
    /\ ref' = Execute(ref, p)
    /\ sent' = sent + 1
    /\ UNCHANGED <<fsm, cfg, out, dev, rx_fifo, tx_fifo, tx_left, rx_wait, got>>

-----------------------------------------------------------------------------
\* What surrounds the state machine in one clock.

\* The UART: perhaps a byte has been received, perhaps one has been sent.
\* uart_tx keeps a byte at the front of its FIFO until it has been sent.
Serial(rd_en) ==
    LET tx_done == tx_left = 1
    IN  \E rx_done \in IF line # << >> /\ rx_wait = 0 THEN BOOLEAN ELSE {FALSE} :
            /\ rx_fifo' = FifoClock(rx_fifo, rd_en, rx_done,
                                    IF rx_done THEN Head(line) ELSE 0)
            /\ line' = IF rx_done THEN Tail(line) ELSE line
            /\ rx_wait' = IF rx_done THEN RxClks
                          ELSE IF rx_wait > 0 THEN rx_wait - 1 ELSE 0
            /\ tx_fifo' = FifoClock(tx_fifo, tx_done, q_wr_en, q_tx_data)
            /\ tx_left' = IF tx_left > 0 THEN tx_left - 1
                          ELSE IF tx_fifo.empty THEN 0 ELSE TxClks
            /\ got' = IF tx_done THEN Append(got, RdData(tx_fifo)) ELSE got

\* d_wr_en, d_tx_data: what the transmit FIFO is offered one clock later.
Reply(b) == q_wr_en' = TRUE /\ q_tx_data' = b
NoReply  == q_wr_en' = FALSE /\ q_tx_data' = 0

\* The PPU listens to the whole CPU bus and acts when its chip select falls: its
\* registers repeat through the second eighth of the address space.
PpuBase == AddrSpace \div 8    \* 0x2000
PpuSelected(a) == a \div PpuBase = 1

PpuRegister(r_nw, d) ==
    LET falls == ri.ncs /\ PpuSelected(q_addr)
        sel   == q_addr % 8
    IN  ri' = [ncs      |-> ~ PpuSelected(q_addr),
               ctrl     |-> IF falls /\ ~ r_nw /\ sel = 0 THEN d ELSE ri.ctrl,
               mask     |-> IF falls /\ ~ r_nw /\ sel = 1 THEN d ELSE ri.mask,
               byte_sel |-> CASE falls /\ r_nw /\ sel = 2 -> FALSE
                              [] falls /\ ~ r_nw /\ sel \in {5, 6} -> ~ ri.byte_sel
                              [] OTHER -> ri.byte_sel]

\* One clock of the CPU bus with hci.v as its master: r_nw, data out.
CpuBus(r_nw, d) ==
    /\ cpu_mem' = IF ~ r_nw /\ q_addr \in CpuAddrs
                  THEN [cpu_mem EXCEPT ![q_addr] = d] ELSE cpu_mem
    /\ PpuRegister(r_nw, d)
    /\ q_ram_a' = q_addr

CpuIdle  == CpuBus(TRUE, 0)
BusIdle  == CpuIdle /\ UNCHANGED <<vram, cpu_regs>>

\* A synchronous RAM answers for the address of the clock before.
CpuDin  == IF q_addr \in CpuAddrs THEN At(cpu_mem, q_ram_a) ELSE 0
VramDin == IF q_addr \in VramAddrs THEN At(vram, q_ram_a) ELSE 0

\* A byte is waiting, and is taken.
HasByte == ~ rx_fifo.empty
rd_data == RdData(rx_fifo)

Goto(s) == q_state' = s

-----------------------------------------------------------------------------
\* The states of the state machine, one action for each way out of them.

\* The running program executes HLT; the break wins over a waiting byte.
CpuBreak ==
    /\ q_state = "DISABLED" /\ BrkEnabled
    /\ Goto("DECODE")
    /\ ref' = [ref EXCEPT !.run = FALSE]
    /\ Serial(FALSE) /\ NoReply
    /\ UNCHANGED <<q_decode_cnt, q_execute_cnt, q_addr, cfg, dev, sent>>

\* While the program runs only DBG_BRK and QUERY_DBG_BRK are understood; any
\* other byte is dropped.  The program owns the buses: it may have switched
\* the PPU on and be in the middle of a register access.
Disabled ==
    /\ q_state = "DISABLED"
    /\ Serial(HasByte)
    /\ IF HasByte /\ OpName(rd_data) = "DBG_BRK" THEN Goto("DECODE")
                                                  ELSE UNCHANGED q_state
    /\ IF HasByte /\ OpName(rd_data) = "QUERY_DBG_BRK" THEN Reply(0) ELSE NoReply
    /\ \E ncs \in BOOLEAN :
           ri' \in {ri, [ncs |-> ncs, ctrl |-> ByteBase - 1,
                        mask |-> ByteBase - 1, byte_sel |-> TRUE]}
    /\ UNCHANGED <<q_decode_cnt, q_execute_cnt, q_addr, cfg, cpu_mem, vram,
                   q_ram_a, cpu_regs, host>>

\* The states that read the header of a packet.
Stg0(op) ==
    CASE op = "ECHO" -> "ECHO_STG_0"
      [] op = "CPU_MEM_RD" -> "CPU_MEM_RD_STG_0"
      [] op = "CPU_MEM_WR" -> "CPU_MEM_WR_STG_0"
      [] op = "CPU_REG_WR" -> "CPU_REG_WR_STG_0"
      [] op = "PPU_MEM_RD" -> "PPU_MEM_RD_STG_0"
      [] op = "PPU_MEM_WR" -> "PPU_MEM_WR_STG_0"
      [] op = "CART_SET_CFG" -> "CART_SET_CFG_STG_0"

\* Where S_DECODE goes for each opcode.
DecodeTarget(op) ==
    CASE op \in {"DBG_BRK", "QUERY_DBG_BRK", "UNKNOWN"} -> "DECODE"
      [] op = "DBG_RUN" -> "DISABLED"
      [] op \in {"CPU_REG_RD", "QUERY_ERR_CODE", "PPU_DISABLE"} -> op
      [] OTHER -> Stg0(op)

Decode ==
    /\ q_state = "DECODE" /\ HasByte
    /\ Serial(TRUE)
    /\ q_decode_cnt' = 0
    /\ Goto(DecodeTarget(OpName(rd_data)))
    /\ IF OpName(rd_data) = "QUERY_DBG_BRK" THEN Reply(1) ELSE NoReply
    /\ q_err_code' = (q_err_code \/ OpName(rd_data) = "UNKNOWN")
    /\ BusIdle
    /\ UNCHANGED <<q_execute_cnt, q_addr, q_cart_cfg, host>>

\* The states that read the address and count of a memory packet.
MemStg0 == {"CPU_MEM_RD_STG_0", "CPU_MEM_WR_STG_0",
            "PPU_MEM_RD_STG_0", "PPU_MEM_WR_STG_0"}

Stg1(s) ==
    CASE s = "ECHO_STG_0" -> "ECHO_STG_1"
      [] s = "CPU_MEM_RD_STG_0" -> "CPU_MEM_RD_STG_1"
      [] s = "CPU_MEM_WR_STG_0" -> "CPU_MEM_WR_STG_1"
      [] s = "PPU_MEM_RD_STG_0" -> "PPU_MEM_RD_STG_1"
      [] s = "PPU_MEM_WR_STG_0" -> "PPU_MEM_WR_STG_1"

\* A byte of a packet header is taken.
HeaderByte ==
    /\ HasByte
    /\ Serial(TRUE) /\ NoReply /\ BusIdle
    /\ q_decode_cnt' = (q_decode_cnt + 1) % 8
    /\ UNCHANGED <<cfg, host>>

MemAddr ==
    /\ q_state \in MemStg0 /\ q_decode_cnt \in {0, 1}
    /\ HeaderByte
    /\ q_addr' = IF q_decode_cnt = 0 THEN rd_data
                                     ELSE Word(q_addr % ByteBase, rd_data)
    /\ UNCHANGED <<q_state, q_execute_cnt>>

\* The stage at which a header's count starts.
CntStage == IF q_state = "ECHO_STG_0" THEN 0 ELSE 2

CntLo ==
    /\ q_state \in MemStg0 \union {"ECHO_STG_0"} /\ q_decode_cnt = CntStage
    /\ HeaderByte
    /\ q_execute_cnt' = rd_data
    /\ UNCHANGED <<q_state, q_addr>>

\* The execute count of a packet: reads take two clocks per byte.
ExecuteCnt(count) ==
    IF q_state \in {"CPU_MEM_RD_STG_0", "PPU_MEM_RD_STG_0"} THEN 2 * count
                                                           ELSE count

\* Mutant of AfterHeader: a packet without data is given an execute stage.
NoZeroCheck(count) == Stg1(q_state)

\* A packet with a count of zero has no execute stage.
AfterHeader(count) == IF count # 0 THEN Stg1(q_state) ELSE "DECODE"

CntHi ==
    /\ q_state \in MemStg0 \union {"ECHO_STG_0"} /\ q_decode_cnt > CntStage
    /\ HeaderByte
    /\ q_execute_cnt' = ExecuteCnt(Word(q_execute_cnt, rd_data))
    /\ Goto(AfterHeader(q_execute_cnt'))
    /\ UNCHANGED q_addr

\* Mutant of CountDown: the last byte is left to the next packet.
EarlyCountDown ==
    /\ q_execute_cnt' = (q_execute_cnt + CntSpace - 1) % CntSpace
    /\ Goto(IF q_execute_cnt' <= 1 THEN "DECODE" ELSE q_state)

\* q_execute_cnt - 1 in 17 bits, and the state once it is zero.
CountDown ==
    /\ q_execute_cnt' = (q_execute_cnt + CntSpace - 1) % CntSpace
    /\ Goto(IF q_execute_cnt' = 0 THEN "DECODE" ELSE q_state)

\* Mutant of NextAddr: it stays where it is.
StuckAddr == q_addr' = q_addr

NextAddr == q_addr' = (q_addr + 1) % AddrSpace

Echo ==
    /\ q_state = "ECHO_STG_1" /\ HasByte
    /\ Serial(TRUE) /\ Reply(rd_data) /\ BusIdle
    /\ CountDown
    /\ UNCHANGED <<q_decode_cnt, q_addr, cfg, host>>

\* The clock between two reads: the RAM latches the address and tx_full
\* shows the byte written before.
MemRdDummy ==
    /\ q_state \in {"CPU_MEM_RD_STG_1", "PPU_MEM_RD_STG_1"}
    /\ q_execute_cnt % 2 = 0
    /\ Serial(FALSE) /\ NoReply /\ BusIdle
    /\ q_execute_cnt' = q_execute_cnt - 1
    /\ UNCHANGED <<q_state, q_decode_cnt, q_addr, cfg, host>>

MemRd ==
    /\ q_state \in {"CPU_MEM_RD_STG_1", "PPU_MEM_RD_STG_1"}
    /\ q_execute_cnt % 2 = 1
    /\ ~ tx_fifo.full
    /\ Serial(FALSE)
    /\ Reply(IF q_state = "CPU_MEM_RD_STG_1" THEN CpuDin ELSE VramDin)
    /\ BusIdle /\ NextAddr /\ CountDown
    /\ UNCHANGED <<q_decode_cnt, cfg, host>>

CpuMemWr ==
    /\ q_state = "CPU_MEM_WR_STG_1" /\ HasByte
    /\ Serial(TRUE) /\ NoReply
    /\ CpuBus(FALSE, rd_data) /\ NextAddr /\ CountDown
    /\ UNCHANGED <<q_decode_cnt, cfg, vram, cpu_regs, host>>

PpuMemWr ==
    /\ q_state = "PPU_MEM_WR_STG_1" /\ HasByte
    /\ Serial(TRUE) /\ NoReply
    /\ CpuIdle
    /\ vram' = IF q_addr \in VramAddrs THEN [vram EXCEPT ![q_addr] = rd_data]
                                       ELSE vram
    /\ NextAddr /\ CountDown
    /\ UNCHANGED <<q_decode_cnt, cfg, cpu_regs, host>>

CpuRegRd ==
    /\ q_state = "CPU_REG_RD" /\ HasByte /\ ~ tx_fifo.full
    /\ Serial(TRUE) /\ Reply(At(cpu_regs, rd_data % 16)) /\ BusIdle
    /\ Goto("DECODE")
    /\ UNCHANGED <<q_decode_cnt, q_execute_cnt, q_addr, cfg, host>>

CpuRegWrSel ==
    /\ q_state = "CPU_REG_WR_STG_0" /\ HasByte
    /\ Serial(TRUE) /\ NoReply /\ BusIdle
    /\ q_addr' = rd_data
    /\ Goto("CPU_REG_WR_STG_1")
    /\ UNCHANGED <<q_decode_cnt, q_execute_cnt, cfg, host>>

CpuRegWr ==
    /\ q_state = "CPU_REG_WR_STG_1" /\ HasByte
    /\ Serial(TRUE) /\ NoReply /\ CpuIdle
    /\ cpu_regs' = IF q_addr % 16 \in RegSel
                   THEN [cpu_regs EXCEPT ![q_addr % 16] = rd_data] ELSE cpu_regs
    /\ Goto("DECODE")
    /\ UNCHANGED <<q_decode_cnt, q_execute_cnt, q_addr, cfg, vram, host>>

QueryErrCode ==
    /\ q_state = "QUERY_ERR_CODE" /\ ~ tx_fifo.full
    /\ Serial(FALSE) /\ Reply(IF q_err_code THEN 2 ELSE 0) /\ BusIdle
    /\ Goto("DECODE")
    /\ UNCHANGED <<q_decode_cnt, q_execute_cnt, q_addr, cfg, host>>

\* Mutant of PpuDisableAddr: the bus stays in the PPU's range between the
\* registers.
AdjacentAddr ==
    <<PpuBase, PpuBase + 1, PpuBase + 1, PpuBase + 2, PpuBase + 2, 0>>

\* The addresses PPU_DISABLE puts on the bus, stage by stage: between two
\* registers the bus leaves the PPU's range for a clock.  In stages 1 and 3
\* zero is written, in stage 5 the status register is read.
PpuDisableAddr ==
    <<PpuBase, 0, PpuBase + 1, 0, PpuBase + 2, 0>>

PpuDisable ==
    /\ q_state = "PPU_DISABLE"
    /\ Serial(FALSE) /\ NoReply
    /\ CpuBus(q_decode_cnt \notin {1, 3}, 0)
    /\ q_decode_cnt' = q_decode_cnt + 1
    /\ q_addr' = PpuDisableAddr[q_decode_cnt + 1]
    /\ Goto(IF q_decode_cnt = 5 THEN "DECODE" ELSE "PPU_DISABLE")
    /\ UNCHANGED <<q_execute_cnt, cfg, vram, cpu_regs, host>>

\* Mutant of CartSetCfgCnt: the state is not advanced.
CartSetCfgStall ==
    /\ q_state = "CART_SET_CFG_STG_0"
    /\ Serial(FALSE) /\ NoReply /\ BusIdle
    /\ q_execute_cnt' = 4
    /\ UNCHANGED <<q_state, q_decode_cnt, q_addr, cfg, host>>

CartSetCfgCnt ==
    /\ q_state = "CART_SET_CFG_STG_0"
    /\ Serial(FALSE) /\ NoReply /\ BusIdle
    /\ q_execute_cnt' = 4
    /\ Goto("CART_SET_CFG_STG_1")
    /\ UNCHANGED <<q_decode_cnt, q_addr, cfg, host>>

\* The last byte is the one taken with the count at zero.
CartSetCfg ==
    /\ q_state = "CART_SET_CFG_STG_1" /\ HasByte
    /\ Serial(TRUE) /\ NoReply /\ BusIdle
    /\ q_execute_cnt' = (q_execute_cnt + CntSpace - 1) % CntSpace
    /\ q_cart_cfg' = Append(Tail(q_cart_cfg), rd_data)
    /\ Goto(IF q_execute_cnt = 0 THEN "DECODE" ELSE q_state)
    /\ UNCHANGED <<q_decode_cnt, q_addr, q_err_code, host>>

NeedsByte == MemStg0 \union
    {"DECODE", "ECHO_STG_0", "ECHO_STG_1", "CPU_MEM_WR_STG_1",
     "PPU_MEM_WR_STG_1", "CPU_REG_RD", "CPU_REG_WR_STG_0", "CPU_REG_WR_STG_1",
     "CART_SET_CFG_STG_1"}

NeedsRoom == {"CPU_MEM_RD_STG_1", "PPU_MEM_RD_STG_1", "CPU_REG_RD",
              "QUERY_ERR_CODE"}

\* Nothing to do in this clock: no byte has come, or there is no room to
\* answer.
Wait ==
    /\ \/ q_state \in NeedsByte /\ ~ HasByte
       \/ /\ q_state \in NeedsRoom /\ tx_fifo.full
          /\ q_state \in {"CPU_MEM_RD_STG_1", "PPU_MEM_RD_STG_1"}
                => q_execute_cnt % 2 = 1
    /\ Serial(FALSE) /\ NoReply /\ BusIdle
    /\ UNCHANGED <<fsm, cfg, host>>

-----------------------------------------------------------------------------
\* rst: the state machine decodes, the NES is held.  Memories hold anything
\* known; zero stands for it.
Init ==
    /\ q_state = "DECODE" /\ q_decode_cnt = 0 /\ q_execute_cnt = 0 /\ q_addr = 0
    /\ q_err_code = FALSE /\ q_cart_cfg = <<0, 0, 0, 0, 0>>
    /\ q_tx_data = 0 /\ q_wr_en = FALSE
    /\ rx_fifo = FifoReset([i \in Ptr |-> 0])
    /\ tx_fifo = FifoReset([i \in Ptr |-> 0])
    /\ tx_left = 0
    /\ cpu_mem = [a \in CpuAddrs |-> 0] /\ vram = [a \in VramAddrs |-> 0]
    /\ cpu_regs = [r \in RegSel |-> 0] /\ q_ram_a = 0
    /\ ri = [ncs |-> TRUE, ctrl |-> 0, mask |-> 0, byte_sel |-> FALSE]
    /\ line = << >> /\ rx_wait = 0 /\ got = << >> /\ sent = 0
    /\ ref = [mem |-> cpu_mem, vram |-> vram, regs |-> cpu_regs,
              cart |-> q_cart_cfg, run |-> FALSE, err |-> FALSE,
              replies |-> << >>]

\* One clock edge.
Clock ==
    \/ CpuBreak \/ Disabled \/ Decode
    \/ MemAddr \/ CntLo \/ CntHi
    \/ Echo \/ MemRdDummy \/ MemRd \/ CpuMemWr \/ PpuMemWr
    \/ CpuRegRd \/ CpuRegWrSel \/ CpuRegWr \/ QueryErrCode
    \/ PpuDisable \/ CartSetCfgCnt \/ CartSetCfg
    \/ Wait

Next == Clock \/ \E p \in Packets : SendPacket(p)

\* The clock never stops, and a byte the host is sending does arrive.
Fairness == WF_vars(Clock) /\ WF_vars(Clock /\ line' # line)

Spec == Init /\ [][Next]_vars /\ Fairness

-----------------------------------------------------------------------------
\* Everything sent has been received, and everything answered delivered.
Quiet ==
    /\ line = << >> /\ Count(rx_fifo) = 0 /\ q_state \in {"DISABLED", "DECODE"}
    /\ ~ q_wr_en /\ Count(tx_fifo) = 0 /\ tx_left = 0

\* The bytes received so far are right answers, in the order of the requests:
\* no reply byte of hci.v is dropped, doubled, reordered, stale (the RAM's
\* one-clock latency) or out of date (tx_full's).
RepliesRight ==
    /\ Len(got) <= Len(ref.replies)
    /\ \A i \in 1 .. Len(got) : got[i] \in ref.replies[i]

\* Once the link is quiet the NES is in the state the packets call for and
\* every reply has come: framing by counts, address increments and the run
\* state have not slipped by one anywhere.
QuietMeansDone ==
    Quiet =>
        /\ cpu_mem = ref.mem /\ vram = ref.vram /\ cpu_regs = ref.regs
        /\ q_cart_cfg = ref.cart /\ q_err_code = ref.err
        /\ (q_state = "DISABLED") = ref.run
        /\ Len(got) = Len(ref.replies)

\* The receive FIFO's full output is not connected (uart.v:135): a byte that
\* arrives while it is full is dropped.  That never happens.
NoByteDropped == [][line' # line /\ Len(line') < Len(line) => ~ rx_fifo.full]_vars

\* PPU_DISABLE silences the PPU (hci.v:586 "Write 0x2000 to 0." and hci.v:616
\* "Read 0x2002 to reset PPU byte pointer."): NMI and rendering are off and
\* the byte pointer is reset when it returns to decoding, whatever the program
\* left in the PPU, unless a packet left the bus on an address of the PPU.
PpuSilenced == ri.ctrl = 0 /\ ri.mask = 0 /\ ~ ri.byte_sel
PpuDisableWorks ==
    [][q_state = "PPU_DISABLE" /\ q_state' = "DECODE" => PpuSilenced']_vars

\* A packet whose sending has begun is carried out and answered: the state
\* machine and the host never wait for each other for good.
PacketsComplete == (line # << >>) ~> Quiet
=============================================================================
