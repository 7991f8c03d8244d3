------------------------------ MODULE HciProofs ------------------------------
(***************************************************************************)
(* Theorems about Hci.tla for every width of a byte, every depth of the    *)
(* FIFOs, every pace of the UART and every set of packets.  First what     *)
(* PPU_DISABLE does to the PPU; then, for a host that keeps to HostRules,  *)
(* that packets are carried out and answered as they say.  That proof      *)
(* follows a packet, byte by byte, through the states of hci.v: IInv says  *)
(* where it is, and there is one lemma Step... for each action.            *)
(***************************************************************************)
EXTENDS Hci, ProofLemmas

-----------------------------------------------------------------------------
(* Where the PPU's registers are on the bus.                                 *)

\* The base is a multiple of eight, so the low three address bits of the
\* addresses that PPU_DISABLE uses are the register's number.
LEMMA PpuPlaces ==
    /\ PpuBase \in Nat /\ ~ PpuSelected(0)
    /\ \A j \in {0, 1, 2} : PpuSelected(PpuBase + j) /\ (PpuBase + j) % 8 = j
<1>1. PICK k \in Nat : ByteBase = 8 * k /\ k >= 2
  <2>1. ByteBase = 8 * (ByteBase \div 8) /\ ByteBase \div 8 >= 2 /\ ByteBase \div 8 \in Nat
    BY HciAssumption DEF HciAssumption
  <2> QED
    BY <2>1
<1>2. AddrSpace = 8 * (8 * (k * k)) /\ k * k \in Nat /\ k * k >= 4
  BY <1>1, MulMonoWeak DEF AddrSpace
<1> DEFINE base == 8 * (k * k)
<1>3. base \in Nat \ {0} /\ PpuBase = base /\ base > 2
  BY <1>2 DEF PpuBase
<1>4. ASSUME NEW j \in {0, 1, 2}
      PROVE  PpuSelected(PpuBase + j) /\ (PpuBase + j) % 8 = j
  <2>1. (8 * (k * k) + j) % 8 = j
    BY <1>2, DivModUnique
  <2> HIDE DEF base
  <2>2. (base * 1 + j) \div base = 1
    <3>1. j \in 0 .. base - 1
      BY <1>3
    <3> QED
      BY <3>1, <1>3, DivModUnique
  <2>3. base * 1 = base
    BY <1>3
  <2> QED
    BY <1>3, <2>1, <2>2, <2>3 DEF PpuSelected, base
<1>5. ~ PpuSelected(0)
  <2> HIDE DEF base
  <2>1. base * 0 + 0 = 0 /\ 0 \in 0 .. base - 1
    BY <1>3
  <2>2. (base * 0 + 0) \div base = 0
    BY <2>1, <1>3, DivModUnique
  <2> QED
    BY <2>1, <2>2, <1>3 DEF PpuSelected
<1> QED
  BY <1>3, <1>4, <1>5

-----------------------------------------------------------------------------
(* PPU_DISABLE, clock by clock.  A register is written when the chip select *)
(* falls with its address on the bus, so each of the three accesses needs   *)
(* the bus off the PPU in the clock before.  For the second and the third   *)
(* PPU_DISABLE sees to that itself; for the first it takes what the packet  *)
(* before left in q_addr.                                                   *)

\* The bus is off the PPU when the opcode is taken.
StartsOff == q_state # "PPU_DISABLE" /\ q_state' = "PPU_DISABLE" => ~ PpuSelected(q_addr)

\* What each stage finds.  ok: the first access found the chip select high.
Stage(ok) ==
    LET n == q_decode_cnt
    IN  q_state = "PPU_DISABLE" =>
            /\ n \in 0 .. 5
            /\ n = 0 /\ ok => ~ PpuSelected(q_addr)
            /\ n \in {1, 3, 5} => q_addr = PpuBase + n \div 2
            /\ n \in {2, 4} => q_addr = 0
            /\ n = 1 /\ ok => ri.ncs
            /\ n \in {3, 5} => ri.ncs
            /\ n > 1 /\ ok => ri.ctrl = 0
            /\ n > 3 => ri.mask = 0

\* Stage for stage, and out of the last one.
LEMMA StageStep ==
    ASSUME NEW ok \in BOOLEAN, Stage(ok), PpuDisable
    PROVE  /\ Stage(ok)'
           /\ q_state' = "DECODE" => ri'.mask = 0 /\ ~ ri'.byte_sel /\ (ok => ri'.ctrl = 0)
<1>n. PICK n : n = q_decode_cnt
  OBVIOUS
<1>1. /\ q_state = "PPU_DISABLE" /\ n \in 0 .. 5
      /\ q_decode_cnt' = n + 1
      /\ q_addr' = PpuDisableAddr[n + 1]
      /\ q_state' = IF n = 5 THEN "DECODE" ELSE "PPU_DISABLE"
      /\ PpuRegister(n \notin {1, 3}, 0)
  BY <1>n DEF PpuDisable, Stage, Goto, CpuBus
<1>2. /\ n = 0 /\ ok => ~ PpuSelected(q_addr)
      /\ n \in {1, 3, 5} => q_addr = PpuBase + n \div 2
      /\ n \in {2, 4} => q_addr = 0
      /\ n = 1 /\ ok => ri.ncs
      /\ n \in {3, 5} => ri.ncs
      /\ n > 1 /\ ok => ri.ctrl = 0
      /\ n > 3 => ri.mask = 0
  BY <1>1, <1>n DEF Stage
<1>3. /\ ri'.ncs <=> ~ PpuSelected(q_addr)
      /\ ri'.ctrl = IF ri.ncs /\ PpuSelected(q_addr) /\ n \in {1, 3} /\ q_addr % 8 = 0
                    THEN 0 ELSE ri.ctrl
      /\ ri'.mask = IF ri.ncs /\ PpuSelected(q_addr) /\ n \in {1, 3} /\ q_addr % 8 = 1
                    THEN 0 ELSE ri.mask
      /\ ri.ncs /\ PpuSelected(q_addr) /\ n \notin {1, 3} /\ q_addr % 8 = 2 => ~ ri'.byte_sel
  BY <1>1 DEF PpuRegister
<1>4. /\ \A j \in {0, 1, 2} : PpuSelected(PpuBase + j) /\ (PpuBase + j) % 8 = j
      /\ ~ PpuSelected(0) /\ PpuBase + 0 = PpuBase
      /\ 1 \div 2 = 0 /\ 3 \div 2 = 1 /\ 5 \div 2 = 2
  BY PpuPlaces
<1>5. SUFFICES
      /\ n # 5 =>
             LET m == n + 1
             IN  /\ m = 0 /\ ok => ~ PpuSelected(q_addr')
                 /\ m \in {1, 3, 5} => q_addr' = PpuBase + m \div 2
                 /\ m \in {2, 4} => q_addr' = 0
                 /\ m = 1 /\ ok => ri'.ncs
                 /\ m \in {3, 5} => ri'.ncs
                 /\ m > 1 /\ ok => ri'.ctrl = 0
                 /\ m > 3 => ri'.mask = 0
      /\ n = 5 => ri'.mask = 0 /\ ~ ri'.byte_sel /\ (ok => ri'.ctrl = 0)
  BY <1>1 DEF Stage, PpuSelected
<1>6. CASE n = 0
  <2>1. q_addr' = PpuBase
    BY <1>1, <1>6 DEF PpuDisableAddr
  <2>2. ok => ri'.ncs
    BY <1>2, <1>3, <1>6
  <2> QED
    BY <2>1, <2>2, <1>4, <1>6
<1>7. CASE n = 1
  <2>1. q_addr = PpuBase /\ q_addr' = 0 /\ (ok => ri.ncs)
    BY <1>1, <1>2, <1>4, <1>7 DEF PpuDisableAddr
  <2>2. PpuSelected(q_addr) /\ q_addr % 8 = 0
    BY <2>1, <1>4
  <2>3. ok => ri'.ctrl = 0
    BY <2>1, <2>2, <1>3, <1>7
  <2> QED
    BY <2>1, <2>3, <1>7
<1>8. CASE n = 2
  <2>1. q_addr = 0 /\ q_addr' = PpuBase + 1 /\ (ok => ri.ctrl = 0)
    BY <1>1, <1>2, <1>8 DEF PpuDisableAddr
  <2>2. ri'.ncs /\ ri'.ctrl = ri.ctrl
    BY <2>1, <1>3, <1>4, <1>8
  <2> QED
    BY <2>1, <2>2, <1>4, <1>8
<1>9. CASE n = 3
  <2>1. q_addr = PpuBase + 1 /\ q_addr' = 0 /\ ri.ncs /\ (ok => ri.ctrl = 0)
    BY <1>1, <1>2, <1>4, <1>9 DEF PpuDisableAddr
  <2>2. PpuSelected(q_addr) /\ q_addr % 8 = 1
    BY <2>1, <1>4
  <2>3. ri'.mask = 0 /\ ri'.ctrl = ri.ctrl
    BY <2>1, <2>2, <1>3, <1>9
  <2> QED
    BY <2>1, <2>3, <1>9
<1>10. CASE n = 4
  <2>1. q_addr = 0 /\ q_addr' = PpuBase + 2 /\ (ok => ri.ctrl = 0) /\ ri.mask = 0
    BY <1>1, <1>2, <1>10 DEF PpuDisableAddr
  <2>2. ri'.ncs /\ ri'.ctrl = ri.ctrl /\ ri'.mask = ri.mask
    BY <2>1, <1>3, <1>4, <1>10
  <2> QED
    BY <2>1, <2>2, <1>4, <1>10
<1>11. CASE n = 5
  <2>1. q_addr = PpuBase + 2 /\ ri.ncs /\ (ok => ri.ctrl = 0) /\ ri.mask = 0
    BY <1>1, <1>2, <1>4, <1>11
  <2>2. PpuSelected(q_addr) /\ q_addr % 8 = 2
    BY <2>1, <1>4
  <2>3. ri'.mask = ri.mask /\ ri'.ctrl = ri.ctrl /\ ~ ri'.byte_sel
    BY <2>1, <2>2, <1>3, <1>11
  <2> QED
    BY <2>1, <2>3, <1>11
<1> QED
  BY <1>1, <1>6, <1>7, <1>8, <1>9, <1>10, <1>11

\* Nothing but PPU_DISABLE itself moves within it, and only the opcode starts it.
LEMMA StageNext ==
    ASSUME NEW ok \in BOOLEAN, Stage(ok), [Next]_vars, ok => StartsOff
    PROVE  Stage(ok)'
<1>1. CASE PpuDisable
  BY <1>1, StageStep
<1>2. CASE UNCHANGED vars \/ \E p \in Packets : SendPacket(p)
  <2>1. UNCHANGED <<q_state, q_decode_cnt, q_addr, ri>>
    BY <1>2 DEF SendPacket, vars, fsm, dev
  <2> QED
    BY <2>1 DEF Stage, PpuSelected
<1>3. CASE Decode
  <2>1. q_state # "PPU_DISABLE" /\ q_decode_cnt' = 0 /\ q_addr' = q_addr
    BY <1>3 DEF Decode
  <2> QED
    BY <2>1 DEF Stage, StartsOff, PpuSelected
<1>4. CASE CntHi
  <2>1. q_state' # "PPU_DISABLE"
    BY <1>4 DEF CntHi, Goto, AfterHeader, Stg1, MemStg0
  <2> QED
    BY <2>1 DEF Stage
<1>5. CASE \/ CpuBreak \/ Disabled \/ MemAddr \/ CntLo \/ Echo \/ MemRdDummy \/ MemRd
           \/ CpuMemWr \/ PpuMemWr \/ CpuRegRd \/ CpuRegWrSel \/ CpuRegWr \/ QueryErrCode
           \/ CartSetCfgCnt \/ CartSetCfg \/ Wait
  <2>1. q_state' # "PPU_DISABLE"
    BY <1>5 DEF CpuBreak, Disabled, MemAddr, CntLo, Echo, MemRdDummy, MemRd, CpuMemWr,
                PpuMemWr, CpuRegRd, CpuRegWrSel, CpuRegWr, QueryErrCode, CartSetCfgCnt,
                CartSetCfg, Wait, Goto, CountDown, MemStg0, NeedsByte, NeedsRoom, fsm
  <2> QED
    BY <2>1 DEF Stage
<1> QED
  BY <1>1, <1>2, <1>3, <1>4, <1>5 DEF Next, Clock

\* What PPU_DISABLE leaves: with the control register, and without.
Settles == q_state = "PPU_DISABLE" /\ q_state' = "DECODE" => PpuSilenced'
RendersNot ==
    q_state = "PPU_DISABLE" /\ q_state' = "DECODE" => ri'.mask = 0 /\ ~ ri'.byte_sel

\* Only its last stage leaves it.
LEMMA StageEnds ==
    ASSUME NEW ok \in BOOLEAN, Stage(ok), [Next]_vars,
           q_state = "PPU_DISABLE", q_state' = "DECODE"
    PROVE  ri'.mask = 0 /\ ~ ri'.byte_sel /\ (ok => ri'.ctrl = 0)
<1>1. PpuDisable
  BY DEF Next, Clock, SendPacket, vars, fsm, CpuBreak, Disabled, Decode, MemAddr, CntLo, CntHi,
         Echo, MemRdDummy, MemRd, CpuMemWr, PpuMemWr, CpuRegRd, CpuRegWrSel, CpuRegWr,
         QueryErrCode, CartSetCfgCnt, CartSetCfg, Wait, MemStg0, NeedsByte, NeedsRoom
<1> QED
  BY <1>1, StageStep

\* Whatever the program and the packets before left behind, PPU_DISABLE stops the
\* rendering and resets the byte pointer.
THEOREM RenderingStops == Spec => [][RendersNot]_vars
<1>1. Init => Stage(FALSE)
  BY DEF Init, Stage
<1>2. Stage(FALSE) /\ [Next]_vars => Stage(FALSE)'
  BY StageNext
<1>3. Stage(FALSE) /\ [Next]_vars => [RendersNot]_vars
  BY StageEnds DEF RendersNot
<1> QED
  BY <1>1, <1>2, <1>3, PTL DEF Spec

\* PPU_DISABLE silences the PPU, the NMI too, whenever the packet before did not
\* leave the bus on one of the PPU's addresses.  A CPU_MEM packet that ends there
\* does, and then the first of the three accesses is lost; the loader, which sends
\* PPU_DISABLE right behind the break, never sends one.
THEOREM PpuDisableCorrect == Spec /\ [][StartsOff]_vars => PpuDisableWorks
<1>1. Init => Stage(TRUE)
  BY DEF Init, Stage
<1>2. Stage(TRUE) /\ [Next]_vars /\ [StartsOff]_vars => Stage(TRUE)'
  <2> SUFFICES ASSUME Stage(TRUE), [Next]_vars, [StartsOff]_vars PROVE Stage(TRUE)'
    OBVIOUS
  <2>1. CASE StartsOff
    BY <2>1, StageNext
  <2>2. CASE UNCHANGED vars
    <3>1. StartsOff
      BY <2>2 DEF vars, fsm, StartsOff
    <3> QED
      BY <3>1, StageNext
  <2> QED
    BY <2>1, <2>2
<1>3. Stage(TRUE) /\ [Next]_vars => [Settles]_vars
  BY StageEnds DEF Settles, PpuSilenced
<1> QED
  BY <1>1, <1>2, <1>3, PTL DEF Spec, PpuDisableWorks, Settles

-----------------------------------------------------------------------------
(* One clock of a FIFO that is not read when it is empty nor written when    *)
(* it is full.                                                               *)

LEMMA DepthFits == Depth \in Nat /\ Depth >= 4
BY HciAssumption DEF HciAssumption

\* The registers have their widths and the flags are off by at most one entry.
Safe(f) ==
    /\ f \in Fifos
    /\ Count(f) = 0 => f.empty
    /\ Count(f) = Depth => f.full
    /\ f.empty => Count(f) <= 1
    /\ f.full => Count(f) >= Depth - 1

Bit(b) == IF b THEN 1 ELSE 0

\* The registers of a clock, without the record.
Fields(f, rd, wr, d, g) ==
    /\ f.rd_ptr \in 0 .. Depth - 1 /\ f.wr_ptr \in 0 .. Depth - 1
    /\ f.empty \in BOOLEAN /\ f.full \in BOOLEAN /\ f.data \in [Ptr -> Byte]
    /\ g.rd_ptr = IF rd THEN Succ(f.rd_ptr) ELSE f.rd_ptr
    /\ g.wr_ptr = IF wr THEN Succ(f.wr_ptr) ELSE f.wr_ptr
    /\ g.empty = NextEmpty(f, rd, wr) /\ g.full = NextFull(f, rd, wr)
    /\ g.data = IF wr THEN [f.data EXCEPT ![f.wr_ptr] = d] ELSE f.data
    /\ g \in Fifos

LEMMA FifoFields ==
    ASSUME NEW f, Safe(f), NEW rd \in BOOLEAN, NEW wr \in BOOLEAN, NEW d \in Byte,
           rd => ~ f.empty, wr => ~ f.full,
           NEW g, g = FifoClock(f, rd, wr, d)
    PROVE  Fields(f, rd, wr, d, g)
<1>1. /\ f.rd_ptr \in Ptr /\ f.wr_ptr \in Ptr
      /\ f.empty \in BOOLEAN /\ f.full \in BOOLEAN /\ f.data \in [Ptr -> Byte]
  BY DEF Safe, Fifos
<1>2. RdEnProt(f, rd) = rd /\ WrEnProt(f, wr) = wr
  BY <1>1 DEF RdEnProt, WrEnProt
<1>3. g = [rd_ptr |-> IF rd THEN Succ(f.rd_ptr) ELSE f.rd_ptr,
           wr_ptr |-> IF wr THEN Succ(f.wr_ptr) ELSE f.wr_ptr,
           empty  |-> NextEmpty(f, rd, wr),
           full   |-> NextFull(f, rd, wr),
           data   |-> IF wr THEN [f.data EXCEPT ![f.wr_ptr] = d] ELSE f.data]
  BY <1>2 DEF FifoClock
<1>4. \A q \in Ptr : Succ(q) \in Ptr
  BY DepthFits DEF Ptr, Succ
<1>5. /\ (IF rd THEN Succ(f.rd_ptr) ELSE f.rd_ptr) \in Ptr
      /\ (IF wr THEN Succ(f.wr_ptr) ELSE f.wr_ptr) \in Ptr
      /\ NextEmpty(f, rd, wr) \in BOOLEAN /\ NextFull(f, rd, wr) \in BOOLEAN
      /\ (IF wr THEN [f.data EXCEPT ![f.wr_ptr] = d] ELSE f.data) \in [Ptr -> Byte]
  BY <1>1, <1>4 DEF NextEmpty, NextFull
<1>6. g \in Fifos
  BY <1>3, <1>5 DEF Fifos
<1>7. f.rd_ptr \in 0 .. Depth - 1 /\ f.wr_ptr \in 0 .. Depth - 1
  BY <1>1 DEF Ptr
<1> QED
  BY <1>1, <1>3, <1>6, <1>7 DEF Fields

\* The entries are counted and the flags stay safe.
LEMMA FifoCount ==
    ASSUME NEW f, Safe(f), NEW rd \in BOOLEAN, NEW wr \in BOOLEAN, NEW d \in Byte,
           rd => ~ f.empty, wr => ~ f.full,
           NEW g, g = FifoClock(f, rd, wr, d)
    PROVE  /\ Count(f) \in 0 .. Depth /\ Count(g) \in 0 .. Depth
           /\ Count(g) = Count(f) + Bit(wr) - Bit(rd)
           /\ Safe(g)
           /\ ~ f.full /\ ~ wr => ~ g.full
           /\ ~ f.empty /\ ~ rd => ~ g.empty
           /\ Count(f) = 0 /\ wr => ~ g.empty
           /\ f.empty /\ ~ wr => g.empty
<1> DEFINE r == f.rd_ptr
           w == f.wr_ptr
<1>0. Fields(f, rd, wr, d, g)
  BY FifoFields
<1>1. /\ r \in 0 .. Depth - 1 /\ w \in 0 .. Depth - 1
      /\ f.empty \in BOOLEAN /\ f.full \in BOOLEAN
      /\ g.rd_ptr = IF rd THEN Succ(r) ELSE r
      /\ g.wr_ptr = IF wr THEN Succ(w) ELSE w
      /\ g.empty = NextEmpty(f, rd, wr) /\ g.full = NextFull(f, rd, wr)
      /\ g \in Fifos
  BY <1>0 DEF Fields
<1>2. /\ Count(f) = 0 => f.empty
      /\ Count(f) = Depth => f.full
      /\ f.empty => Count(f) <= 1
      /\ f.full => Count(f) >= Depth - 1
  BY DEF Safe
<1>3. Count(f) \in 0 .. Depth
  BY <1>1, DepthFits DEF Count, PtrDiff
<1>4. ~ (f.empty /\ f.full)
  BY <1>1, <1>2, <1>3, DepthFits
<1>5. Count(g) = Count(f) + Bit(wr) - Bit(rd)
  BY SMTT(30), <1>1, <1>2, <1>4, DepthFits
     DEF Count, PtrDiff, Succ, NextEmpty, NextFull, Bit
<1>6. Count(g) = 0 => g.empty
  BY SMTT(30), <1>1, <1>2, <1>4, DepthFits
     DEF Count, PtrDiff, Succ, NextEmpty, NextFull
<1>7. Count(g) = Depth => g.full
  BY SMTT(30), <1>1, <1>2, <1>4, DepthFits
     DEF Count, PtrDiff, Succ, NextEmpty, NextFull
<1>8. ASSUME g.empty PROVE Count(g) <= 1
  <2>1. CASE f.empty /\ ~ wr
    BY <2>1, <1>2, <1>3, <1>5, DepthFits DEF Bit
  <2>2. CASE PtrDiff(w, r) = 1 /\ rd
    <3>1. Count(f) = 1
      BY <2>2, <1>1, DepthFits DEF Count, PtrDiff
    <3>2. Bit(wr) \in 0 .. 1 /\ Bit(rd) = 1
      BY <2>2 DEF Bit
    <3> QED
      BY <3>1, <3>2, <1>5
  <2> QED
    BY <2>1, <2>2, <1>1, <1>8 DEF NextEmpty
<1>9. ASSUME g.full PROVE Count(g) >= Depth - 1
  <2>1. CASE f.full /\ ~ rd
    BY <2>1, <1>2, <1>3, <1>5, DepthFits DEF Bit
  <2>2. CASE PtrDiff(r, w) = 1 /\ wr
    <3>1. Count(f) = Depth - 1
      BY <2>2, <1>1, DepthFits DEF Count, PtrDiff
    <3>2. Bit(rd) \in 0 .. 1 /\ Bit(wr) = 1
      BY <2>2 DEF Bit
    <3> QED
      BY <3>1, <3>2, <1>5, DepthFits
  <2> QED
    BY <2>1, <2>2, <1>1, <1>9 DEF NextFull
<1>10. Count(f) = 0 /\ wr => ~ g.empty
  <2>1. Count(f) = 0 => PtrDiff(w, r) = 0
    BY <1>1, DepthFits DEF Count, PtrDiff
  <2> QED
    BY <2>1, <1>1 DEF NextEmpty
<1>11. Count(g) \in 0 .. Depth
  <2>1. rd => Count(f) > 0
    BY <1>2, <1>3, DepthFits
  <2>2. wr => Count(f) < Depth
    BY <1>2, <1>3, DepthFits
  <2> QED
    BY <2>1, <2>2, <1>3, <1>5, DepthFits DEF Bit
<1>12. Safe(g)
  BY <1>1, <1>6, <1>7, <1>8, <1>9 DEF Safe
<1>13. /\ ~ f.full /\ ~ wr => ~ g.full
       /\ ~ f.empty /\ ~ rd => ~ g.empty
       /\ f.empty /\ ~ wr => g.empty
  BY <1>1 DEF NextFull, NextEmpty
<1> QED
  BY <1>3, <1>5, <1>10, <1>11, <1>12, <1>13

\* An entry that is kept moves up by the entry that is read; the one that is
\* written is the last.
LEMMA FifoEntries ==
    ASSUME NEW f, Safe(f), NEW rd \in BOOLEAN, NEW wr \in BOOLEAN, NEW d \in Byte,
           rd => ~ f.empty, wr => ~ f.full,
           NEW g, g = FifoClock(f, rd, wr, d)
    PROVE  /\ \A i \in 1 .. Count(f) - Bit(rd) :
                  g.data[Slot(g, i)] = f.data[Slot(f, i + Bit(rd))]
           /\ wr => g.data[Slot(g, Count(g))] = d
           /\ RdData(f) = f.data[Slot(f, 1)]
<1> DEFINE r == f.rd_ptr
           w == f.wr_ptr
           n == Count(f)
<1>0. Fields(f, rd, wr, d, g)
  BY FifoFields
<1>1. /\ r \in 0 .. Depth - 1 /\ w \in 0 .. Depth - 1 /\ f.data \in [Ptr -> Byte]
      /\ g.rd_ptr = IF rd THEN Succ(r) ELSE r
      /\ g.data = IF wr THEN [f.data EXCEPT ![w] = d] ELSE f.data
  BY <1>0 DEF Fields
<1>2. n \in 0 .. Depth /\ Count(g) = n + Bit(wr) - Bit(rd)
  BY FifoCount
<1>3. wr => n < Depth
  BY <1>2, DepthFits DEF Safe
<1>4. \A i \in 1 .. Depth - Bit(rd) : Slot(g, i) = Slot(f, i + Bit(rd)) /\ Slot(g, i) \in Ptr
  BY SMTT(30), <1>1, DepthFits DEF Slot, Succ, Bit, Ptr
<1>5. /\ n < Depth => Slot(f, n + 1) = w
      /\ n < Depth => \A i \in 1 .. n : Slot(f, i) # w
  BY <1>1, DepthFits DEF Count, PtrDiff, Slot
<1>6. ASSUME NEW i \in 1 .. n - Bit(rd)
      PROVE  g.data[Slot(g, i)] = f.data[Slot(f, i + Bit(rd))]
  <2>1. i \in 1 .. Depth - Bit(rd) /\ i + Bit(rd) \in 1 .. n
    BY <1>2, DepthFits DEF Bit
  <2>2. Slot(g, i) = Slot(f, i + Bit(rd)) /\ Slot(g, i) \in Ptr
    BY <2>1, <1>4
  <2>3. wr => Slot(g, i) # w
    BY <2>1, <2>2, <1>3, <1>5
  <2> QED
    BY <2>2, <2>3, <1>1
<1>7. ASSUME wr PROVE g.data[Slot(g, Count(g))] = d
  <2>1. rd => n > 0
    BY <1>2, DepthFits DEF Safe
  <2>2. Count(g) \in 1 .. Depth - Bit(rd) /\ Count(g) + Bit(rd) = n + 1
    BY <2>1, <1>2, <1>3, <1>7, DepthFits DEF Bit
  <2>3. Slot(g, Count(g)) = w /\ w \in Ptr
    BY <2>2, <1>3, <1>4, <1>5, <1>7
  <2> QED
    BY <2>3, <1>1, <1>7
<1>8. RdData(f) = f.data[Slot(f, 1)]
  BY <1>1, DepthFits DEF RdData, Slot
<1> QED
  BY <1>6, <1>7, <1>8

\* The three clocks of the receive FIFO: nothing, a byte comes, a byte is taken.
LEMMA FifoKeeps ==
    ASSUME NEW f, Safe(f), Count(f) \in 0 .. 1, NEW d \in Byte,
           NEW rd \in BOOLEAN, Bit(rd) = 0, NEW wr \in BOOLEAN, Bit(wr) = 0,
           NEW g, g = FifoClock(f, rd, wr, d)
    PROVE  /\ Safe(g) /\ Count(g) = Count(f)
           /\ f.empty <=> g.empty
           /\ Count(f) = 1 => RdData(g) = RdData(f)
<1>1. (rd => ~ f.empty) /\ (wr => ~ f.full)
  BY DepthFits DEF Bit, Safe
<1>2. Safe(g) /\ Count(g) = Count(f) + Bit(wr) - Bit(rd)
  BY <1>1, FifoCount
<1>3. /\ \A i \in 1 .. Count(f) - Bit(rd) :
             g.data[Slot(g, i)] = f.data[Slot(f, i + Bit(rd))]
      /\ RdData(f) = f.data[Slot(f, 1)]
  BY <1>1, FifoEntries
<1>4. Count(g) = Count(f)
  BY <1>2
<1>5. f.empty <=> g.empty
  BY <1>1, FifoCount DEF Bit
<1>6. RdData(g) = g.data[Slot(g, 1)]
  <2>1. g.rd_ptr \in 0 .. Depth - 1
    BY <1>2 DEF Safe, Fifos, Ptr
  <2> QED
    BY <2>1, DepthFits DEF RdData, Slot
<1>7. ASSUME Count(f) = 1 PROVE RdData(g) = RdData(f)
  <2>1. 1 \in 1 .. Count(f) - Bit(rd) /\ 1 + Bit(rd) = 1
    BY <1>7
  <2> QED
    BY <2>1, <1>3, <1>6
<1> QED
  BY <1>2, <1>4, <1>5, <1>7

LEMMA FifoPuts ==
    ASSUME NEW f, Safe(f), Count(f) = 0, NEW d \in Byte,
           NEW rd \in BOOLEAN, Bit(rd) = 0, NEW wr \in BOOLEAN, Bit(wr) = 1,
           NEW g, g = FifoClock(f, rd, wr, d)
    PROVE  Safe(g) /\ Count(g) = 1 /\ ~ g.empty /\ RdData(g) = d
<1>1. (rd => ~ f.empty) /\ (wr => ~ f.full)
  BY DepthFits DEF Bit, Safe
<1>3. Safe(g) /\ Count(g) = Count(f) + Bit(wr) - Bit(rd) /\ ~ g.empty
  BY <1>1, FifoCount DEF Bit
<1>4. g.data[Slot(g, Count(g))] = d
  BY <1>1, FifoEntries DEF Bit
<1>5. Count(g) = 1
  BY <1>3
<1>6. RdData(g) = g.data[Slot(g, 1)]
  <2>1. g.rd_ptr \in 0 .. Depth - 1
    BY <1>3 DEF Safe, Fifos, Ptr
  <2> QED
    BY <2>1, DepthFits DEF RdData, Slot
<1> QED
  BY <1>3, <1>4, <1>5, <1>6

LEMMA FifoTakes ==
    ASSUME NEW f, Safe(f), Count(f) = 1, ~ f.empty, NEW d \in Byte,
           NEW rd \in BOOLEAN, Bit(rd) = 1, NEW wr \in BOOLEAN, Bit(wr) = 0,
           NEW g, g = FifoClock(f, rd, wr, d)
    PROVE  Safe(g) /\ Count(g) = 0 /\ g.empty
<1>1. (rd => ~ f.empty) /\ (wr => ~ f.full)
  BY DepthFits DEF Bit, Safe
<1>2. Safe(g) /\ Count(g) = Count(f) + Bit(wr) - Bit(rd)
  BY <1>1, FifoCount
<1>3. Count(g) = 0
  BY <1>2
<1> QED
  BY <1>2, <1>3 DEF Safe

-----------------------------------------------------------------------------
(* Bytes, words and the places of a packet's bytes in memory.                *)

LEMMA ByteFacts ==
    /\ ByteBase \in Nat /\ ByteBase >= 16 /\ 0 \in Byte /\ 1 \in Byte /\ 2 \in Byte
    /\ AddrSpace \in Nat /\ AddrSpace >= ByteBase
    /\ CntSpace = 2 * AddrSpace
<1>1. ByteBase \in Nat /\ ByteBase >= 16
  BY HciAssumption DEF HciAssumption
<1>2. ByteBase * 1 <= ByteBase * ByteBase /\ ByteBase * ByteBase \in Nat
  BY <1>1, MulMonoWeak
<1> QED
  BY <1>1, <1>2 DEF Byte, AddrSpace, CntSpace

\* Two bytes make an address or a count.
LEMMA WordType == \A lo, hi \in Byte : Word(lo, hi) \in Addr
<1> SUFFICES ASSUME NEW lo \in Byte, NEW hi \in Byte PROVE Word(lo, hi) \in Addr
  OBVIOUS
<1>1. ByteBase * hi + ByteBase <= ByteBase * ByteBase /\ ByteBase * hi \in Nat
  BY ByteFacts, MulMono DEF Byte
<1> QED
  BY <1>1, ByteFacts DEF Word, Addr, AddrSpace, Byte

\* An address less another, in the width of an address.
LEMMA SubWraps ==
    ASSUME NEW n \in Nat \ {0}, NEW x \in 0 .. n - 1, NEW w \in 0 .. n - 1
    PROVE  (x - w) % n = IF x >= w THEN x - w ELSE x - w + n
<1> DEFINE a == x - w
           q == a \div n
           r == a % n
<1>1. a \in Int /\ q \in Int /\ r \in 0 .. n - 1 /\ a = n * q + r
  OBVIOUS
<1>2. - n < a /\ a < n
  OBVIOUS
<1> HIDE DEF q, r
<1>3. CASE q = 0
  BY <1>1, <1>3
<1>4. CASE q = -1
  <2>1. n * (-1) = - n
    OBVIOUS
  <2> QED
    BY <2>1, <1>1, <1>4
<1>5. CASE q >= 1
  <2>1. q \in Nat /\ 0 \in Nat /\ 0 < q
    BY <1>1, <1>5
  <2>2. n * 0 + n <= n * q
    BY <2>1, MulMono
  <2>3. n * q \in Int /\ n * 0 = 0
    BY <1>1
  <2> QED
    BY <2>2, <2>3, <1>1, <1>2
<1>6. CASE q <= -2
  <2> DEFINE s == - q
  <2>1. s \in Nat /\ s >= 2 /\ q = - s
    BY <1>1, <1>6
  <2> HIDE DEF s
  <2>2. n * 1 + n <= n * s /\ n * 1 = n /\ n * s \in Int
    BY <2>1, MulMono
  <2>3. n * q = - (n * s)
    BY <2>1
  <2> QED
    BY <2>2, <2>3, <1>1, <1>2
<1> QED
  BY <1>1, <1>3, <1>4, <1>5, <1>6 DEF r

-----------------------------------------------------------------------------
(* The packets.                                                              *)

Op(p) == OpName(p[1])
Ops == {"ECHO", "CPU_MEM_RD", "CPU_MEM_WR", "DBG_BRK", "DBG_RUN", "CPU_REG_RD",
        "CPU_REG_WR", "QUERY_DBG_BRK", "QUERY_ERR_CODE", "PPU_MEM_RD",
        "PPU_MEM_WR", "PPU_DISABLE", "CART_SET_CFG", "UNKNOWN"}
MemReads  == {"CPU_MEM_RD", "PPU_MEM_RD"}
MemWrites == {"CPU_MEM_WR", "PPU_MEM_WR"}
MemOps    == MemReads \union MemWrites

\* The address of a memory packet, its count or that of an ECHO, and the bytes
\* in front of the data.
WordOf(p, i) == Word(p[i], p[i + 1])
DataCount(p) == CASE Op(p) = "ECHO" -> WordOf(p, 2)
                  [] Op(p) \in MemOps -> WordOf(p, 4)
                  [] OTHER -> 0
HeaderLen(p) == CASE Op(p) = "ECHO" -> 3
                  [] Op(p) \in MemOps -> 5
                  [] Op(p) = "CPU_REG_RD" -> 2
                  [] Op(p) = "CPU_REG_WR" -> 3
                  [] Op(p) = "CART_SET_CFG" -> 6
                  [] OTHER -> 1

\* A packet is as long as its header says and names an existing register.
WellFormed(p) ==
    /\ Len(p) >= HeaderLen(p)
    /\ Len(p) = HeaderLen(p) + (IF Op(p) \in MemReads THEN 0 ELSE DataCount(p))
    /\ Op(p) \in {"CPU_REG_RD", "CPU_REG_WR"} => p[2] \in RegSel

LEMMA OpInOps == \A b \in Nat : OpName(b) \in Ops
<1> SUFFICES ASSUME NEW b \in Nat PROVE OpName(b) \in Ops
  OBVIOUS
<1>1. Len(OpNames) = 13
  BY DEF OpNames
<1>2. CASE b < 13
  <2>1. OpName(b) = OpNames[b + 1] /\ b + 1 \in 1 .. 13
    BY <1>1, <1>2 DEF OpName
  <2>2. \A i \in 1 .. 13 : OpNames[i] \in Ops
    BY DEF OpNames, Ops
  <2> QED
    BY <2>1, <2>2
<1>3. CASE ~ (b < 13)
  BY <1>1, <1>3 DEF OpName, Ops
<1> QED
  BY <1>2, <1>3

\* What is known of each kind of packet.
LEMMA PacketShape ==
    ASSUME NEW p \in Seq(Byte), WellFormed(p)
    PROVE  /\ Len(p) \in Nat /\ Len(p) >= 1 /\ \A i \in 1 .. Len(p) : p[i] \in Byte
           /\ Op(p) \in Ops /\ DataCount(p) \in Addr
           /\ Op(p) = "ECHO" =>
                 /\ HeaderLen(p) = 3 /\ Len(p) = 3 + DataCount(p)
                 /\ DataCount(p) = Word(p[2], p[3])
           /\ Op(p) \in MemOps =>
                 /\ HeaderLen(p) = 5 /\ WordOf(p, 2) \in Addr
                 /\ DataCount(p) = Word(p[4], p[5])
                 /\ Len(p) = IF Op(p) \in MemReads THEN 5 ELSE 5 + DataCount(p)
           /\ Op(p) = "CPU_REG_RD" => Len(p) = 2 /\ p[2] \in RegSel
           /\ Op(p) = "CPU_REG_WR" => Len(p) = 3 /\ p[2] \in RegSel
           /\ Op(p) = "CART_SET_CFG" => Len(p) = 6
           /\ Op(p) \in {"DBG_BRK", "DBG_RUN", "QUERY_DBG_BRK", "QUERY_ERR_CODE",
                         "PPU_DISABLE", "UNKNOWN"} => Len(p) = 1
<1>1. Len(p) \in Nat /\ \A i \in 1 .. Len(p) : p[i] \in Byte
  BY LenProperties
<1>3. HeaderLen(p) = CASE Op(p) = "ECHO" -> 3
                  [] Op(p) \in MemOps -> 5
                  [] Op(p) = "CPU_REG_RD" -> 2
                  [] Op(p) = "CPU_REG_WR" -> 3
                  [] Op(p) = "CART_SET_CFG" -> 6
                  [] OTHER -> 1
  BY DEF HeaderLen
<1>4. Len(p) >= HeaderLen(p)
  BY DEF WellFormed
<1>2. Len(p) >= 1 /\ Op(p) \in Ops
  <2>1. HeaderLen(p) \in 1 .. 6
    BY <1>3
  <2>2. Len(p) >= 1
    BY <2>1, <1>1, <1>4
  <2>3. p[1] \in Nat
    BY <2>2, <1>1, ByteFacts DEF Byte
  <2> QED
    BY <2>2, <2>3, OpInOps DEF Op
<1>5. CASE Op(p) = "ECHO"
  <2>0. Op(p) \notin MemReads /\ Op(p) \notin MemOps
    BY <1>5 DEF MemReads, MemWrites, MemOps
  <2>1. HeaderLen(p) = 3 /\ DataCount(p) = Word(p[2], p[3])
    BY <1>5, <1>3, <2>0 DEF DataCount, WordOf
  <2>2. p[2] \in Byte /\ p[3] \in Byte
    BY <1>1, <1>4, <2>1
  <2>3. DataCount(p) \in Addr
    BY <2>1, <2>2, WordType
  <2>5. Len(p) = 3 + DataCount(p)
    BY <2>0, <2>1 DEF WellFormed
  <2> QED
    BY <1>1, <1>2, <1>4, <1>5, <2>0, <2>1, <2>3, <2>5
<1>6. CASE Op(p) \in MemOps
  <2>1. Op(p) # "ECHO" /\ Op(p) \notin {"DBG_BRK", "DBG_RUN", "QUERY_DBG_BRK",
            "QUERY_ERR_CODE", "PPU_DISABLE", "UNKNOWN", "CPU_REG_RD", "CPU_REG_WR",
            "CART_SET_CFG"}
    BY <1>6 DEF MemOps, MemReads, MemWrites
  <2>2. HeaderLen(p) = 5 /\ DataCount(p) = Word(p[4], p[5])
    BY <1>6, <1>3, <2>1 DEF DataCount, WordOf
  <2>3. p[2] \in Byte /\ p[3] \in Byte /\ p[4] \in Byte /\ p[5] \in Byte
    BY <1>1, <1>4, <2>2
  <2>4. DataCount(p) \in Addr /\ WordOf(p, 2) \in Addr
    BY <2>2, <2>3, WordType DEF WordOf
  <2>5. Len(p) = IF Op(p) \in MemReads THEN 5 ELSE 5 + DataCount(p)
    BY <2>2 DEF WellFormed
  <2> QED
    BY <1>1, <1>2, <1>4, <1>6, <2>1, <2>2, <2>4, <2>5
<1>7. CASE Op(p) # "ECHO" /\ Op(p) \notin MemOps
  <2>1. DataCount(p) = 0 /\ 0 \in Addr /\ Op(p) \notin MemReads
    BY <1>7, ByteFacts DEF DataCount, Addr, MemOps
  <2>2. Len(p) = HeaderLen(p) /\ HeaderLen(p) \in Nat
    BY <1>1, <1>3, <1>7, <2>1 DEF WellFormed
  <2>3. Op(p) \in {"CPU_REG_RD", "CPU_REG_WR"} => p[2] \in RegSel
    BY DEF WellFormed
  <2> QED
    BY <1>1, <1>2, <1>3, <1>7, <2>1, <2>2, <2>3
<1> QED
  BY <1>5, <1>6, <1>7

\* The address of byte j of a memory packet, the byte that an address gets, and
\* a memory with the first n bytes in place.
AddrAt(p, j) == (WordOf(p, 2) + j) % AddrSpace
Offset(p, x) == (x - WordOf(p, 2)) % AddrSpace
StoredTo(mem, p, n) ==
    \A x \in DOMAIN mem : Offset(p, x) < n => mem[x] = p[6 + Offset(p, x)]

LEMMA Places ==
    ASSUME NEW p, WordOf(p, 2) \in Addr
    PROVE  /\ \A x \in Addr : Offset(p, x) \in Addr
           /\ \A j \in Addr : AddrAt(p, j) \in Addr /\ Offset(p, AddrAt(p, j)) = j
           /\ \A x \in Addr : x = AddrAt(p, Offset(p, x))
           /\ \A j \in Addr : j + 1 \in Addr =>
                  AddrAt(p, j + 1) = (AddrAt(p, j) + 1) % AddrSpace
           /\ AddrAt(p, 0) = WordOf(p, 2)
<1> DEFINE n == AddrSpace
           w == WordOf(p, 2)
<1>1. n \in Nat \ {0} /\ w \in 0 .. n - 1 /\ Addr = 0 .. n - 1
  BY ByteFacts DEF Addr
<1> HIDE DEF n, w
<1>2. \A x \in 0 .. n - 1 : (x - w) % n = IF x >= w THEN x - w ELSE x - w + n
  BY <1>1, SubWraps
<1>5. ASSUME NEW j \in 0 .. n - 1
      PROVE  AddrAt(p, j) = IF w + j < n THEN w + j ELSE w + j - n
  <2> DEFINE y == w + j
  <2>1. y \in 0 .. 2 * n - 1
    BY <1>1
  <2>2. AddrAt(p, j) = y % n
    BY DEF AddrAt, n, w
  <2> HIDE DEF y
  <2>3. y % n = IF y < n THEN y ELSE y - n
    BY <1>1, <2>1, WrapsOnce
  <2> QED
    BY <1>1, <2>2, <2>3 DEF y
<1>6. \A x \in 0 .. n - 1 : Offset(p, x) = IF x >= w THEN x - w ELSE x - w + n
  BY <1>2 DEF Offset, n, w
<1>7. \A x \in 0 .. n - 1 : Offset(p, x) \in 0 .. n - 1
  BY <1>1, <1>6
<1>8. ASSUME NEW j \in 0 .. n - 1
      PROVE  AddrAt(p, j) \in 0 .. n - 1 /\ Offset(p, AddrAt(p, j)) = j
  <2> DEFINE a == AddrAt(p, j)
  <2>1. a = IF w + j < n THEN w + j ELSE w + j - n
    BY <1>5
  <2> HIDE DEF a
  <2>2. a \in 0 .. n - 1
    BY <1>1, <2>1
  <2>3. Offset(p, a) = IF a >= w THEN a - w ELSE a - w + n
    BY <1>6, <2>2
  <2>4. Offset(p, a) = j
    BY <1>1, <2>1, <2>2, <2>3
  <2> QED
    BY <2>2, <2>4 DEF a
<1>9. ASSUME NEW x \in 0 .. n - 1 PROVE x = AddrAt(p, Offset(p, x))
  <2> DEFINE j == Offset(p, x)
  <2>1. j = (IF x >= w THEN x - w ELSE x - w + n) /\ j \in 0 .. n - 1
    BY <1>6, <1>7
  <2> HIDE DEF j
  <2>2. AddrAt(p, j) = IF w + j < n THEN w + j ELSE w + j - n
    BY <1>5, <2>1
  <2>3. x = AddrAt(p, j)
    BY <1>1, <2>1, <2>2
  <2> QED
    BY <2>3 DEF j
<1>10. ASSUME NEW j \in 0 .. n - 1, j + 1 \in 0 .. n - 1
       PROVE  AddrAt(p, j + 1) = (AddrAt(p, j) + 1) % n
  <2> DEFINE a == AddrAt(p, j)
  <2>1. a = (IF w + j < n THEN w + j ELSE w + j - n) /\ a \in 0 .. n - 1
    BY <1>5, <1>8
  <2> HIDE DEF a
  <2>2. AddrAt(p, j + 1) = IF w + (j + 1) < n THEN w + (j + 1) ELSE w + (j + 1) - n
    BY <1>5, <1>10
  <2> DEFINE y == a + 1
  <2>3. y \in 0 .. 2 * n - 1
    BY <1>1, <2>1
  <2> HIDE DEF y
  <2>6. y % n = IF y < n THEN y ELSE y - n
    BY <1>1, <2>3, WrapsOnce
  <2>4. (a + 1) % n = IF a + 1 < n THEN a + 1 ELSE a + 1 - n
    BY <1>1, <2>1, <2>6 DEF y
  <2>5. AddrAt(p, j + 1) = (a + 1) % n
    BY <1>1, <1>10, <2>1, <2>2, <2>4
  <2> QED
    BY <2>5 DEF a
<1>11. AddrAt(p, 0) = w
  BY <1>1, <1>5
<1> QED
  BY <1>1, <1>7, <1>8, <1>9, <1>10, <1>11 DEF n, w

\* A memory on the addresses D, with a byte written to it.
Put(mem, D, a, b) == IF a \in D THEN [mem EXCEPT ![a] = b] ELSE mem

\* The next byte of a memory packet is stored.
LEMMA StoreByte ==
    ASSUME NEW p \in Seq(Byte), WellFormed(p), Op(p) \in MemWrites,
           NEW D \in SUBSET Addr, NEW mem \in [D -> Byte],
           NEW j \in Nat, j < DataCount(p), StoredTo(mem, p, j),
           NEW new, new = Put(mem, D, AddrAt(p, j), p[6 + j])
    PROVE  /\ new \in [D -> Byte]
           /\ StoredTo(new, p, j + 1)
           /\ Stored(new, p) = Stored(mem, p)
<1> DEFINE a == AddrAt(p, j)
<1>1. /\ WordOf(p, 2) \in Addr /\ DataCount(p) \in Addr /\ Len(p) = 5 + DataCount(p)
      /\ DataCount(p) = Word(p[4], p[5])
      /\ \A i \in 1 .. Len(p) : p[i] \in Byte
  BY PacketShape DEF MemOps, MemWrites, MemReads
<1>2. j \in Addr
  BY <1>1, ByteFacts DEF Addr
<1>3. a \in Addr /\ Offset(p, a) = j /\ \A x \in Addr : x = AddrAt(p, Offset(p, x))
  BY <1>1, <1>2, Places
<1>4. p[6 + j] \in Byte
  <2>1. 6 + j \in 1 .. Len(p)
    BY <1>1, ByteFacts DEF Addr
  <2> QED
    BY <2>1, <1>1
<1>5. new \in [D -> Byte]
  BY <1>4 DEF Put
<1>6. \A x \in D : new[x] = IF x = a THEN p[6 + j] ELSE mem[x]
  BY <1>5 DEF Put
<1>7. ASSUME NEW x \in D PROVE Offset(p, x) = j <=> x = a
  BY <1>3
<1>8. \A x \in D : Offset(p, x) \in Nat
  BY <1>1, Places, ByteFacts DEF Addr
<1>9. StoredTo(new, p, j + 1)
  <2> SUFFICES ASSUME NEW x \in D, Offset(p, x) < j + 1
               PROVE  new[x] = p[6 + Offset(p, x)]
    BY <1>5 DEF StoredTo
  <2>1. CASE Offset(p, x) = j
    BY <2>1, <1>6, <1>7
  <2>2. CASE Offset(p, x) < j
    <3>1. x # a /\ mem[x] = p[6 + Offset(p, x)]
      BY <2>2, <1>3, <1>8 DEF StoredTo
    <3> QED
      BY <3>1, <1>6
  <2> QED
    BY <2>1, <2>2, <1>8
<1>10. Stored(new, p) = Stored(mem, p)
  <2>1. DOMAIN new = D /\ DOMAIN mem = D
    BY <1>5
  <2>2. \A x \in D : (IF Offset(p, x) < DataCount(p) THEN p[6 + Offset(p, x)] ELSE new[x])
                   = (IF Offset(p, x) < DataCount(p) THEN p[6 + Offset(p, x)] ELSE mem[x])
    BY <1>3, <1>6, <1>7
  <2>3. \A m : Stored(m, p) = [x \in DOMAIN m |-> IF Offset(p, x) < DataCount(p)
                                                 THEN p[6 + Offset(p, x)] ELSE m[x]]
    BY <1>1 DEF Stored, Offset, WordOf
  <2>4. Stored(new, p) = [x \in D |-> IF Offset(p, x) < DataCount(p)
                                                 THEN p[6 + Offset(p, x)] ELSE new[x]]
    BY <2>1, <2>3
  <2>5. Stored(mem, p) = [x \in D |-> IF Offset(p, x) < DataCount(p)
                                                 THEN p[6 + Offset(p, x)] ELSE mem[x]]
    BY <2>1, <2>3
  <2> QED
    BY <2>2, <2>4, <2>5
<1> QED
  BY <1>5, <1>9, <1>10

\* With all of them stored the packet changes nothing any more.
LEMMA StoredAll ==
    ASSUME NEW p \in Seq(Byte), WellFormed(p), Op(p) \in MemWrites,
           NEW D, NEW mem \in [D -> Byte], StoredTo(mem, p, DataCount(p))
    PROVE  Stored(mem, p) = mem
<1>1. DataCount(p) = Word(p[4], p[5])
  BY PacketShape DEF MemOps
<1>2. Stored(mem, p) = [x \in D |-> IF Offset(p, x) < DataCount(p)
                                    THEN p[6 + Offset(p, x)] ELSE mem[x]]
  BY <1>1 DEF Stored, Offset, WordOf
<1>3. \A x \in D : (IF Offset(p, x) < DataCount(p) THEN p[6 + Offset(p, x)] ELSE mem[x])
                 = mem[x]
  BY DEF StoredTo
<1> QED
  BY <1>2, <1>3

-----------------------------------------------------------------------------
(* The inductive invariant: on its way from the host into the registers of   *)
(* hci.v every packet is in one of a few places, and each place says how     *)
(* much of its effect and of its replies is still to come.                   *)

\* What the host keeps to: it waits for its replies, it leaves PPU_DISABLE the
\* time that it takes and the transmitter the time of a byte, and its packets
\* are well formed.  Memories are not where the PPU's registers are.
HostRules ==
    /\ ~ Pipelined
    /\ RxClks >= 8 /\ RxClks > TxClks
    /\ \A a \in CpuAddrs : ~ PpuSelected(a)
    /\ \A p \in Packets : WellFormed(p)

TypeInv ==
    /\ line \in Seq(Byte) /\ got \in Seq(Byte)
    /\ q_tx_data \in Byte /\ q_wr_en \in BOOLEAN
    /\ cpu_mem \in [CpuAddrs -> Byte] /\ vram \in [VramAddrs -> Byte]
    /\ cpu_regs \in [RegSel -> Byte]
    /\ q_cart_cfg \in Seq(Byte) /\ Len(q_cart_cfg) = 5 /\ q_err_code \in BOOLEAN
    /\ ref = [mem |-> ref.mem, vram |-> ref.vram, regs |-> ref.regs, cart |-> ref.cart,
              run |-> ref.run, err |-> ref.err, replies |-> ref.replies]
    /\ ref.replies \in Seq(SUBSET Byte)

\* At most one byte waits, and not longer than a clock: the next one is far.
RxOk ==
    /\ Safe(rx_fifo) /\ rx_wait \in 0 .. RxClks
    /\ Count(rx_fifo) = IF rx_fifo.empty THEN 0 ELSE 1
    /\ ~ rx_fifo.empty => /\ rx_wait >= RxClks - 1
                          /\ q_state # "DECODE" => rx_wait = RxClks

\* Every byte in the transmitter is a right answer for its place.
Right(r, b, i) == i <= Len(r) /\ b \in r[i]
TxOk ==
    /\ Safe(tx_fifo) /\ tx_left \in 0 .. TxClks
    /\ tx_left > 0 => ~ tx_fifo.empty
    /\ q_wr_en => ~ tx_fifo.full
    /\ \A i \in 1 .. Len(got) : Right(ref.replies, got[i], i)
    /\ \A i \in 1 .. Count(tx_fifo) :
           Right(ref.replies, tx_fifo.data[Slot(tx_fifo, i)], Len(got) + i)
    /\ q_wr_en => Right(ref.replies, q_tx_data, Len(got) + Count(tx_fifo) + 1)

\* The replies that have been made, and that n more will complete them.
Made == Len(got) + Count(tx_fifo) + Bit(q_wr_en)
Owed(n) == Len(ref.replies) = Made + n

\* The bytes of the packet behind the first k are still to come.
LineIs(p, k) == Len(line) = Len(p) - k /\ \A i \in 1 .. Len(line) : line[i] = p[k + i]
ToCome(p, k) == IF rx_fifo.empty THEN LineIs(p, k)
                ELSE k < Len(p) /\ rd_data = p[k + 1] /\ LineIs(p, k + 1)

\* What the packet still calls for.
Effect(p) ==
    /\ ref.mem = IF Op(p) = "CPU_MEM_WR" THEN Stored(cpu_mem, p) ELSE cpu_mem
    /\ ref.vram = IF Op(p) = "PPU_MEM_WR" THEN Stored(vram, p) ELSE vram
    /\ ref.regs = IF Op(p) = "CPU_REG_WR" THEN [cpu_regs EXCEPT ![p[2]] = p[3]] ELSE cpu_regs
    /\ ref.cart = IF Op(p) = "CART_SET_CFG" THEN SubSeq(p, 2, 6) ELSE q_cart_cfg
    /\ ref.err = (q_err_code \/ Op(p) = "UNKNOWN")
    /\ ref.run = CASE Op(p) = "DBG_BRK" -> FALSE
                   [] Op(p) = "DBG_RUN" -> TRUE
                   [] OTHER -> q_state = "DISABLED"

\* Its replies, which are the last ones asked for.
Asked(p) == CASE Op(p) \in MemReads \union {"ECHO"} -> DataCount(p)
              [] Op(p) \in {"CPU_REG_RD", "QUERY_DBG_BRK", "QUERY_ERR_CODE"} -> 1
              [] OTHER -> 0
Asks(p, i) == ref.replies[Len(ref.replies) - Asked(p) + i]
AnswersAt(p, i) ==
    CASE Op(p) = "ECHO" -> Asks(p, i) = {p[3 + i]}
      [] Op(p) = "CPU_MEM_RD" -> Asks(p, i) = {At(cpu_mem, AddrAt(p, i - 1))}
      [] Op(p) = "PPU_MEM_RD" -> Asks(p, i) = {At(vram, AddrAt(p, i - 1))}
      [] Op(p) = "CPU_REG_RD" -> Asks(p, i) = {cpu_regs[p[2]]}
      [] Op(p) = "QUERY_ERR_CODE" -> Asks(p, i) = {IF q_err_code THEN 2 ELSE 0}
      [] Op(p) = "QUERY_DBG_BRK" ->
            /\ q_state = "DISABLED" => 0 \in Asks(p, i)
            /\ q_state # "DISABLED" \/ BrkEnabled => 1 \in Asks(p, i)
Answers(p) ==
    /\ Asked(p) <= Len(ref.replies)
    /\ \A i \in 1 .. Asked(p) : AnswersAt(p, i)

\* None of its replies has been made.
Fresh(p) == Len(got) + Asked(p) = Len(ref.replies) /\ Count(tx_fifo) = 0 /\ ~ q_wr_en

\* Its opcode, its address and count, or its data are next.
Opcode(p, k) ==
    /\ k = 0 /\ Fresh(p)
    /\ \/ q_state = "DECODE"
       \/ q_state = "DISABLED" /\ Op(p) \in {"DBG_BRK", "QUERY_DBG_BRK"}

Header(p, k) ==
    /\ Op(p) \in MemOps \union {"ECHO"} /\ q_state = Stg0(Op(p)) /\ Fresh(p)
    /\ k \in 1 .. HeaderLen(p) - 1 /\ q_decode_cnt = k - 1
    /\ Op(p) # "ECHO" => /\ k = 2 => q_addr = p[2]
                         /\ k > 2 => q_addr = WordOf(p, 2)
    /\ k = HeaderLen(p) - 1 => q_execute_cnt = p[k]

Reads(p, k) ==
    /\ Op(p) \in MemReads /\ q_state = Stg1(Stg0(Op(p))) /\ k = 5
    /\ \E m \in 1 .. DataCount(p) :
           /\ q_execute_cnt \in {2 * m - 1, 2 * m} /\ Owed(m)
           /\ q_addr = AddrAt(p, DataCount(p) - m)
           /\ q_execute_cnt = 2 * m - 1 => q_ram_a = q_addr /\ ~ q_wr_en

Writes(p, k) ==
    /\ Op(p) \in MemWrites /\ q_state = Stg1(Stg0(Op(p))) /\ Fresh(p)
    /\ k \in 5 .. Len(p) - 1 /\ q_execute_cnt = Len(p) - k /\ q_addr = AddrAt(p, k - 5)
    /\ StoredTo(IF Op(p) = "CPU_MEM_WR" THEN cpu_mem ELSE vram, p, k - 5)

\* The clocks until the transmitter is done with what it has been given: before
\* an ECHO has its next byte to give, so that there is always room.
TxBusy == IF q_wr_en THEN TxClks + 2
          ELSE IF Count(tx_fifo) = 0 THEN 0
          ELSE IF tx_left = 0 THEN TxClks + 1 ELSE tx_left
Echoes(p, k) ==
    /\ Op(p) = "ECHO" /\ q_state = "ECHO_STG_1"
    /\ k \in 3 .. Len(p) - 1 /\ q_execute_cnt = Len(p) - k /\ Owed(Len(p) - k)
    /\ Count(tx_fifo) + Bit(q_wr_en) <= 1
    /\ Count(tx_fifo) = 1 => ~ tx_fifo.empty
    /\ TxBusy <= IF rx_fifo.empty THEN rx_wait + 2 ELSE 1

\* The packets of a few bytes.
Single(p, k) ==
    /\ Fresh(p)
    /\ \/ Op(p) = "CPU_REG_RD" /\ q_state = "CPU_REG_RD" /\ k = 1
       \/ Op(p) = "CPU_REG_WR" /\ q_state = "CPU_REG_WR_STG_0" /\ k = 1
       \/ Op(p) = "CPU_REG_WR" /\ q_state = "CPU_REG_WR_STG_1" /\ k = 2 /\ q_addr = p[2]
       \/ Op(p) = "QUERY_ERR_CODE" /\ q_state = "QUERY_ERR_CODE" /\ k = 1
       \/ /\ Op(p) = "PPU_DISABLE" /\ q_state = "PPU_DISABLE" /\ k = 1
          /\ q_decode_cnt \in 0 .. 5 /\ rx_wait >= RxClks - 2 - q_decode_cnt
       \/ /\ Op(p) = "CART_SET_CFG" /\ q_state = "CART_SET_CFG_STG_0" /\ k = 1
          /\ rx_fifo.empty /\ rx_wait >= 1
       \/ /\ Op(p) = "CART_SET_CFG" /\ q_state = "CART_SET_CFG_STG_1" /\ k \in 1 .. 5
          /\ q_execute_cnt = 5 - k
          /\ \A i \in 1 .. k - 1 : q_cart_cfg[6 - k + i] = p[1 + i]

Doing(p, k) == \/ Opcode(p, k) \/ Header(p, k) \/ Reads(p, k) \/ Writes(p, k)
               \/ Echoes(p, k) \/ Single(p, k)

\* A packet is under way, with k of its bytes taken; or there is none, and the
\* NES is in the state that the packets so far call for.
Carries(p, k) == ToCome(p, k) /\ Effect(p) /\ Answers(p) /\ Doing(p, k)
Same ==
    /\ ref.mem = cpu_mem /\ ref.vram = vram /\ ref.regs = cpu_regs
    /\ ref.cart = q_cart_cfg /\ ref.err = q_err_code /\ ref.run = (q_state = "DISABLED")
Idle ==
    /\ rx_fifo.empty /\ line = << >> /\ q_state \in {"DECODE", "DISABLED"}
    /\ Owed(0) /\ Same
Link == Idle \/ \E p \in Packets : \E k \in 0 .. Len(p) : Carries(p, k)

IInv == TypeInv /\ RxOk /\ TxOk /\ Link

LEMMA Rates ==
    ASSUME HostRules
    PROVE  /\ RxClks \in Nat /\ TxClks \in Nat /\ TxClks >= 1
           /\ RxClks >= 8 /\ RxClks > TxClks
BY HciAssumption DEF HciAssumption, HostRules

\* A clock in which n bytes are taken from the receive FIFO.
Clocks(n) == \E rd \in BOOLEAN : Bit(rd) = n /\ Serial(rd)

LEMMA ClocksTrue == Serial(TRUE) => Clocks(1)
<1> SUFFICES ASSUME Serial(TRUE) PROVE \E rd \in BOOLEAN : Bit(rd) = 1 /\ Serial(rd)
  BY DEF Clocks
<1>1. Bit(TRUE) = 1
  BY DEF Bit
<1> QED
  BY <1>1, Zenon

LEMMA ClocksFalse == Serial(FALSE) => Clocks(0)
<1> SUFFICES ASSUME Serial(FALSE) PROVE \E rd \in BOOLEAN : Bit(rd) = 0 /\ Serial(rd)
  BY DEF Clocks
<1>1. Bit(FALSE) = 0
  BY DEF Bit
<1> QED
  BY <1>1, Zenon

\* The receiving half of a clock.
RxPart(rd, done) ==
    /\ Bit(done) = 1 => line # << >> /\ rx_wait = 0
    /\ rx_fifo' = FifoClock(rx_fifo, rd, done, IF done THEN Head(line) ELSE 0)
    /\ line' = IF Bit(done) = 1 THEN Tail(line) ELSE line
    /\ rx_wait' = IF Bit(done) = 1 THEN RxClks
                  ELSE IF rx_wait > 0 THEN rx_wait - 1 ELSE 0

LEMMA RxParts ==
    ASSUME line \in Seq(Byte), NEW n, Clocks(n)
    PROVE  \E rd \in BOOLEAN, done \in BOOLEAN, d \in Byte :
               /\ Bit(rd) = n /\ RxPart(rd, done)
               /\ Bit(done) = 1 => d = Head(line)
               /\ rx_fifo' = FifoClock(rx_fifo, rd, done, d)
<1>1. PICK rd \in BOOLEAN : Bit(rd) = n /\ Serial(rd)
  BY DEF Clocks
<1>2. PICK done \in IF line # << >> /\ rx_wait = 0 THEN BOOLEAN ELSE {FALSE} :
           /\ rx_fifo' = FifoClock(rx_fifo, rd, done, IF done THEN Head(line) ELSE 0)
           /\ line' = IF done THEN Tail(line) ELSE line
           /\ rx_wait' = IF done THEN RxClks
                         ELSE IF rx_wait > 0 THEN rx_wait - 1 ELSE 0
  BY <1>1 DEF Serial
<1>3. done \in BOOLEAN /\ (done => line # << >> /\ rx_wait = 0)
  OBVIOUS
<1>4. done <=> Bit(done) = 1
  BY DEF Bit
<1> DEFINE d == IF done THEN Head(line) ELSE 0
<1>5. d \in Byte /\ (Bit(done) = 1 => d = Head(line))
  <2>1. line # << >> => Head(line) \in Byte
    BY HeadTailProperties
  <2> QED
    BY <2>1, <1>3, <1>4, ByteFacts
<1>6. RxPart(rd, done) /\ rx_fifo' = FifoClock(rx_fifo, rd, done, d)
  BY <1>2, <1>3, <1>4 DEF RxPart
<1> HIDE DEF d
<1> QED
  BY <1>1, <1>3, <1>5, <1>6

\* A byte that waits is taken.
LEMMA RxTake ==
    ASSUME HostRules, RxOk, line \in Seq(Byte),
           NEW p \in Seq(Byte), NEW k \in 0 .. Len(p), ToCome(p, k),
           HasByte, Clocks(1)
    PROVE  /\ RxOk' /\ line' \in Seq(Byte)
           /\ k + 1 \in 1 .. Len(p) /\ rd_data = p[k + 1] /\ p[k + 1] \in Byte
           /\ ToCome(p, k + 1)' /\ rx_fifo'.empty /\ rx_wait' = rx_wait - 1
           /\ k + 1 = Len(p) => line' = << >>
<1>1. /\ Safe(rx_fifo) /\ rx_wait \in 0 .. RxClks /\ ~ rx_fifo.empty
      /\ Count(rx_fifo) = 1 /\ rx_wait >= RxClks - 1
  BY DEF RxOk, HasByte
<1>2. RxClks \in Nat /\ RxClks >= 8 /\ Len(p) \in Nat
  BY Rates, LenProperties
<1>3. PICK rd \in BOOLEAN, done \in BOOLEAN, d \in Byte :
          /\ Bit(rd) = 1 /\ RxPart(rd, done)
          /\ rx_fifo' = FifoClock(rx_fifo, rd, done, d)
  BY RxParts
<1>4. Bit(done) = 0 /\ line' = line /\ rx_wait' = rx_wait - 1
  <2>1. Bit(done) \in {0, 1}
    BY DEF Bit
  <2> QED
    BY <2>1, <1>1, <1>2, <1>3 DEF RxPart
<1>5. Safe(rx_fifo') /\ Count(rx_fifo') = 0 /\ rx_fifo'.empty
  BY <1>1, <1>3, <1>4, FifoTakes
<1>6. k < Len(p) /\ rd_data = p[k + 1] /\ LineIs(p, k + 1)
  BY <1>1 DEF ToCome
<1>7. k + 1 \in 1 .. Len(p) /\ p[k + 1] \in Byte
  BY <1>2, <1>6, LenProperties
<1>8. RxOk'
  BY <1>1, <1>2, <1>4, <1>5 DEF RxOk
<1>9. ToCome(p, k + 1)'
  BY <1>4, <1>5, <1>6 DEF ToCome, LineIs
<1>10. k + 1 = Len(p) => line' = << >>
  BY <1>4, <1>6, <1>7, <1>2, EmptySeq DEF LineIs
<1> QED
  BY <1>4, <1>5, <1>6, <1>7, <1>8, <1>9, <1>10

\* No byte is taken: perhaps one comes.  A byte that waits is only passed over
\* for the break.
LEMMA RxKeep ==
    ASSUME HostRules, RxOk, line \in Seq(Byte),
           NEW p \in Seq(Byte), NEW k \in 0 .. Len(p), ToCome(p, k),
           Clocks(0), HasByte => q_state # "DECODE" /\ q_state' = "DECODE"
    PROVE  /\ RxOk' /\ line' \in Seq(Byte) /\ ToCome(p, k)'
           /\ rx_fifo.empty =>
                 \/ rx_fifo'.empty /\ rx_wait' = (IF rx_wait > 0 THEN rx_wait - 1 ELSE 0)
                 \/ ~ rx_fifo'.empty /\ rx_wait = 0
           /\ k = Len(p) => rx_fifo.empty /\ rx_fifo'.empty /\ line' = << >>
           /\ rx_wait \in Nat
<1>1. /\ Safe(rx_fifo) /\ rx_wait \in 0 .. RxClks
      /\ Count(rx_fifo) = IF rx_fifo.empty THEN 0 ELSE 1
      /\ ~ rx_fifo.empty => rx_wait = RxClks
      /\ ~ rx_fifo.empty => q_state' = "DECODE"
  BY DEF RxOk, HasByte
<1>2. RxClks \in Nat /\ RxClks >= 8 /\ Len(p) \in Nat
  BY Rates, LenProperties
<1>3. PICK rd \in BOOLEAN, done \in BOOLEAN, d \in Byte :
          /\ Bit(rd) = 0 /\ RxPart(rd, done)
          /\ Bit(done) = 1 => d = Head(line)
          /\ rx_fifo' = FifoClock(rx_fifo, rd, done, d)
  BY RxParts
<1>4. CASE ~ rx_fifo.empty
  <2>1. Bit(done) = 0 /\ line' = line /\ rx_wait' = RxClks - 1
    <3>1. Bit(done) \in {0, 1}
      BY DEF Bit
    <3> QED
      BY <3>1, <1>1, <1>2, <1>3, <1>4 DEF RxPart
  <2>2. Count(rx_fifo) = 1 /\ Count(rx_fifo) \in 0 .. 1
    BY <1>1, <1>4
  <2>3. /\ Safe(rx_fifo') /\ Count(rx_fifo') = 1 /\ ~ rx_fifo'.empty
        /\ RdData(rx_fifo') = RdData(rx_fifo)
    BY SMTT(30), <1>1, <1>3, <1>4, <2>1, <2>2, FifoKeeps
  <2>4. RxOk'
    BY <1>1, <1>2, <1>4, <2>1, <2>3 DEF RxOk
  <2>5. k < Len(p) /\ rd_data = p[k + 1] /\ LineIs(p, k + 1)
    BY <1>4 DEF ToCome
  <2>6. LineIs(p, k + 1)'
    BY <2>1, <2>5 DEF LineIs
  <2>7. ToCome(p, k)'
    BY <2>3, <2>5, <2>6 DEF ToCome, rd_data
  <2> QED
    BY <1>1, <1>2, <1>4, <2>1, <2>4, <2>5, <2>7
<1>5. CASE rx_fifo.empty
  <2>1. Count(rx_fifo) = 0 /\ Count(rx_fifo) \in 0 .. 1 /\ LineIs(p, k)
    BY <1>1, <1>5 DEF ToCome
  <2>2. CASE Bit(done) = 1
    <3>1. /\ line # << >> /\ rx_wait = 0 /\ line' = Tail(line) /\ rx_wait' = RxClks
          /\ d = Head(line)
      BY <1>3, <2>2 DEF RxPart
    <3>2. /\ Len(line) \in Nat /\ Len(line) >= 1 /\ d = line[1]
          /\ line' \in Seq(Byte) /\ Len(line') = Len(line) - 1
          /\ \A i \in 1 .. Len(line') : line'[i] = line[i + 1]
      BY <3>1, LenProperties, HeadTailProperties, EmptySeq
    <3>3. /\ Safe(rx_fifo') /\ Count(rx_fifo') = 1 /\ ~ rx_fifo'.empty
          /\ RdData(rx_fifo') = d
      BY <1>1, <1>3, <2>1, <2>2, FifoPuts
    <3>4. RxOk'
      BY <1>2, <3>1, <3>3 DEF RxOk
    <3>5. k < Len(p) /\ line[1] = p[k + 1]
      BY <2>1, <3>2, <1>2 DEF LineIs
    <3>6. LineIs(p, k + 1)'
      <4>1. Len(line') = Len(p) - (k + 1)
        BY <2>1, <3>2, <1>2 DEF LineIs
      <4>2. ASSUME NEW i \in 1 .. Len(line') PROVE line'[i] = p[(k + 1) + i]
        <5>1. i + 1 \in 1 .. Len(line) /\ k + (i + 1) = (k + 1) + i
          BY <3>2
        <5>2. line[i + 1] = p[k + (i + 1)]
          BY <5>1, <2>1 DEF LineIs
        <5> QED
          BY <5>1, <5>2, <3>2
      <4> QED
        BY <4>1, <4>2 DEF LineIs
    <3>7. ToCome(p, k)'
      BY <3>2, <3>3, <3>5, <3>6 DEF ToCome, rd_data
    <3> QED
      BY <1>1, <1>5, <3>1, <3>2, <3>3, <3>4, <3>5, <3>7, <1>2
  <2>3. CASE Bit(done) # 1
    <3>1. /\ Bit(done) = 0 /\ line' = line
          /\ rx_wait' = IF rx_wait > 0 THEN rx_wait - 1 ELSE 0
      BY <1>3, <2>3 DEF RxPart, Bit
    <3>2. Safe(rx_fifo') /\ Count(rx_fifo') = 0 /\ rx_fifo'.empty
      BY <1>1, <1>3, <1>5, <2>1, <3>1, FifoKeeps
    <3>3. RxOk'
      BY <1>1, <1>2, <3>1, <3>2 DEF RxOk
    <3>4. LineIs(p, k)'
      BY <2>1, <3>1 DEF LineIs
    <3>5. ToCome(p, k)'
      BY <3>2, <3>4 DEF ToCome
    <3>6. k = Len(p) => line' = << >>
      BY <2>1, <3>1, <1>2, EmptySeq DEF LineIs
    <3> QED
      BY <1>1, <1>5, <3>1, <3>2, <3>3, <3>5, <3>6
  <2> QED
    BY <2>2, <2>3
<1>6. rx_fifo.empty \in BOOLEAN
  BY <1>1 DEF Safe, Fifos
<1> QED
  BY <1>4, <1>5, <1>6

\* The transmitter delivers, in order, what it is given; it is given one byte at
\* a time, when there is room, and a right one.
LEMMA TxClock ==
    ASSUME HostRules, TypeInv, TxOk, NEW n, Clocks(n),
           ref'.replies = ref.replies, q_wr_en' \in BOOLEAN,
           q_wr_en' => /\ ~ q_wr_en /\ ~ tx_fifo.full
                       /\ Right(ref.replies, q_tx_data', Len(got) + Count(tx_fifo) + 1)
    PROVE  /\ TxOk' /\ got' \in Seq(Byte)
           /\ Made \in Nat /\ Made' = Made + Bit(q_wr_en')
           /\ Count(tx_fifo) \in 0 .. Depth
           /\ Count(tx_fifo)' = Count(tx_fifo) + Bit(q_wr_en)
                                    - (IF tx_left = 1 THEN 1 ELSE 0)
           /\ Len(got') = Len(got) + (IF tx_left = 1 THEN 1 ELSE 0)
           /\ tx_left' = IF tx_left > 0 THEN tx_left - 1
                         ELSE IF tx_fifo.empty THEN 0 ELSE TxClks
           /\ tx_left \in 0 .. TxClks
           /\ Count(tx_fifo) = 0 /\ q_wr_en => ~ tx_fifo'.empty
           /\ ~ tx_fifo.empty /\ tx_left # 1 => ~ tx_fifo'.empty
<1> DEFINE c == Count(tx_fifo)
           r == ref.replies
<1>1. /\ Safe(tx_fifo) /\ tx_left \in 0 .. TxClks
      /\ tx_left > 0 => ~ tx_fifo.empty
      /\ q_wr_en => ~ tx_fifo.full
      /\ \A i \in 1 .. Len(got) : Right(r, got[i], i)
      /\ \A i \in 1 .. c : Right(r, tx_fifo.data[Slot(tx_fifo, i)], Len(got) + i)
      /\ q_wr_en => Right(r, q_tx_data, Len(got) + c + 1)
  BY DEF TxOk
<1>2. /\ got \in Seq(Byte) /\ Len(got) \in Nat /\ q_tx_data \in Byte /\ q_wr_en \in BOOLEAN
      /\ TxClks \in Nat /\ TxClks >= 1 /\ Depth \in Nat /\ Depth >= 4
  BY Rates, DepthFits, LenProperties DEF TypeInv
<1>3. PICK done \in BOOLEAN :
           /\ done <=> tx_left = 1
           /\ tx_fifo' = FifoClock(tx_fifo, done, q_wr_en, q_tx_data)
           /\ got' = IF done THEN Append(got, RdData(tx_fifo)) ELSE got
  BY Zenon DEF Clocks, Serial
<1>4. /\ tx_fifo' = FifoClock(tx_fifo, done, q_wr_en, q_tx_data)
      /\ got' = IF done THEN Append(got, RdData(tx_fifo)) ELSE got
  BY <1>3
<1>5. done => ~ tx_fifo.empty
  BY <1>1, <1>3
<1>6. tx_left' = IF tx_left > 0 THEN tx_left - 1
                 ELSE IF tx_fifo.empty THEN 0 ELSE TxClks
  BY Zenon DEF Clocks, Serial
<1>7. Bit(done) = (IF tx_left = 1 THEN 1 ELSE 0) /\ Bit(done) \in 0 .. 1
  BY <1>3 DEF Bit
<1>20. Bit(q_wr_en) \in 0 .. 1 /\ Bit(q_wr_en') \in 0 .. 1
  BY DEF Bit
<1>21. /\ c \in 0 .. Depth /\ Count(tx_fifo') \in 0 .. Depth
       /\ Count(tx_fifo') = c + Bit(q_wr_en) - Bit(done)
       /\ Safe(tx_fifo')
  BY <1>1, <1>2, <1>4, <1>5, FifoCount
<1>8. /\ ~ tx_fifo.full /\ ~ q_wr_en => ~ tx_fifo'.full
      /\ ~ tx_fifo.empty /\ ~ done => ~ tx_fifo'.empty
      /\ c = 0 /\ q_wr_en => ~ tx_fifo'.empty
  BY <1>1, <1>2, <1>4, <1>5, FifoCount
<1>9. /\ \A i \in 1 .. c - Bit(done) :
             tx_fifo'.data[Slot(tx_fifo', i)] = tx_fifo.data[Slot(tx_fifo, i + Bit(done))]
      /\ q_wr_en => tx_fifo'.data[Slot(tx_fifo', Count(tx_fifo'))] = q_tx_data
      /\ RdData(tx_fifo) = tx_fifo.data[Slot(tx_fifo, 1)]
  BY <1>1, <1>2, <1>4, <1>5, FifoEntries
<1>10. done => c >= 1
  BY <1>1, <1>2, <1>5, <1>21 DEF Safe
<1>11. RdData(tx_fifo) \in Byte
  BY <1>1 DEF Safe, Fifos, RdData
<1>12. /\ got' \in Seq(Byte) /\ Len(got') = Len(got) + Bit(done)
       /\ \A i \in 1 .. Len(got) : got'[i] = got[i]
       /\ Bit(done) = 1 => got'[Len(got) + 1] = RdData(tx_fifo)
  <2>1. CASE done
    BY <2>1, <1>2, <1>4, <1>11, AppendProperties DEF Bit
  <2>2. CASE ~ done
    BY <2>2, <1>2, <1>4 DEF Bit
  <2> QED
    BY <2>1, <2>2
<1> DEFINE d == Bit(done)
           b == Bit(q_wr_en)
<1>22. /\ Len(got) \in Nat /\ c \in Nat /\ Count(tx_fifo') \in Nat
       /\ Count(tx_fifo') = c + b - d /\ Len(got') = Len(got) + d
       /\ d \in 0 .. 1 /\ b \in 0 .. 1
  BY <1>2, <1>7, <1>12, <1>20, <1>21
<1> HIDE DEF c, r, d, b
<1>13. ASSUME NEW i \in 1 .. Len(got') PROVE Right(r, got'[i], i)
  <2>1. CASE i \in 1 .. Len(got)
    BY <2>1, <1>1, <1>12
  <2>2. CASE i \notin 1 .. Len(got)
    <3>1. i = Len(got) + 1 /\ d = 1
      BY <2>2, <1>22
    <3>2. 1 \in 1 .. c
      BY <3>1, <1>10, <1>22 DEF Bit, d
    <3>3. Right(r, tx_fifo.data[Slot(tx_fifo, 1)], Len(got) + 1)
      BY <3>2, <1>1 DEF c
    <3> QED
      BY <3>1, <3>3, <1>9, <1>12 DEF d
  <2> QED
    BY <2>1, <2>2
<1>14. ASSUME NEW i \in 1 .. Count(tx_fifo')
       PROVE  Right(r, tx_fifo'.data[Slot(tx_fifo', i)], Len(got') + i)
  <2>1. CASE i \in 1 .. c - d
    <3>1. i + d \in 1 .. c /\ Len(got') + i = Len(got) + (i + d)
      BY <2>1, <1>22
    <3>2. Right(r, tx_fifo.data[Slot(tx_fifo, i + d)], Len(got) + (i + d))
      BY <3>1, <1>1 DEF c
    <3> QED
      BY <3>1, <3>2, <2>1, <1>9 DEF c, d
  <2>2. CASE i \notin 1 .. c - d
    <3>1. i = Count(tx_fifo') /\ b = 1 /\ Len(got') + i = Len(got) + c + 1
      BY <2>2, <1>22
    <3>2. tx_fifo'.data[Slot(tx_fifo', i)] = q_tx_data /\ q_wr_en
      BY <3>1, <1>9 DEF Bit, b
    <3> QED
      BY <3>1, <3>2, <1>1 DEF c
  <2> QED
    BY <2>1, <2>2
<1>15. ASSUME q_wr_en' PROVE Right(r, q_tx_data', Len(got') + Count(tx_fifo') + 1)
  <2>1. ~ q_wr_en /\ Right(r, q_tx_data', Len(got) + c + 1)
    BY <1>15 DEF c, r
  <2>2. b = 0
    BY <2>1 DEF Bit, b
  <2>3. Len(got') + Count(tx_fifo') + 1 = Len(got) + c + 1
    BY <2>2, <1>22
  <2> QED
    BY <2>1, <2>3
<1>16. q_wr_en' => ~ tx_fifo'.full
  BY <1>8
<1>17. tx_left' \in 0 .. TxClks /\ (tx_left' > 0 => ~ tx_fifo'.empty)
  BY <1>1, <1>2, <1>3, <1>6, <1>8
<1>18. TxOk'
  BY <1>21, <1>13, <1>14, <1>15, <1>16, <1>17 DEF TxOk, r
<1>19. Made \in Nat /\ Made' = Made + Bit(q_wr_en')
  <2> DEFINE e == Bit(q_wr_en')
  <2>1. e \in 0 .. 1 /\ Made = Len(got) + c + b /\ Made' = Len(got') + Count(tx_fifo') + e
    BY <1>20 DEF Made, c, b
  <2> HIDE DEF e
  <2>2. Made \in Nat /\ Made' = Made + e
    BY <2>1, <1>22
  <2> QED
    BY <2>2 DEF e
<1> QED
  BY <1>1, <1>3, <1>6, <1>7, <1>8, <1>12, <1>18, <1>19, <1>21 DEF c

-----------------------------------------------------------------------------
(* What most steps have in common.                                           *)

\* A FIFO holds no more than it has slots for.
LEMMA CountFits ==
    ASSUME NEW f, Safe(f)
    PROVE  Count(f) \in 0 .. Depth
<1>1. f.rd_ptr \in 0 .. Depth - 1 /\ f.wr_ptr \in 0 .. Depth - 1
  BY DEF Safe, Fifos, Ptr
<1> QED
  BY <1>1, DepthFits DEF Count, PtrDiff

\* With the buses idle the devices keep what they hold.
LEMMA BusIdleStill == BusIdle => UNCHANGED <<cpu_mem, vram, cpu_regs>> /\ q_ram_a' = q_addr
BY DEF BusIdle, CpuIdle, CpuBus

\* Nothing is answered.
LEMMA Silent ==
    ASSUME HostRules, TypeInv, TxOk, NEW n, Clocks(n), ref'.replies = ref.replies, NoReply
    PROVE  /\ TxOk' /\ got' \in Seq(Byte) /\ q_tx_data' \in Byte
           /\ q_wr_en' \in BOOLEAN /\ ~ q_wr_en'
           /\ Made' = Made
           /\ \A p : Fresh(p) => Fresh(p)'
<1>1. q_wr_en' \in BOOLEAN /\ ~ q_wr_en' /\ q_tx_data' = 0 /\ Bit(q_wr_en') = 0
  BY DEF NoReply, Bit
<1>2. /\ TxOk' /\ got' \in Seq(Byte)
      /\ Made \in Nat /\ Made' = Made + Bit(q_wr_en')
      /\ Count(tx_fifo)' = Count(tx_fifo) + Bit(q_wr_en) - (IF tx_left = 1 THEN 1 ELSE 0)
      /\ Len(got') = Len(got) + (IF tx_left = 1 THEN 1 ELSE 0)
  BY <1>1, TxClock
<1>3. Made' = Made
  BY <1>1, <1>2
<1>4. ASSUME NEW p, Fresh(p) PROVE Fresh(p)'
  <2>1. Count(tx_fifo) = 0 /\ ~ q_wr_en /\ Len(got) + Asked(p) = Len(ref.replies)
    BY <1>4 DEF Fresh
  <2>2. tx_fifo.empty /\ tx_left # 1
    BY <2>1 DEF TxOk, Safe
  <2>3. Bit(q_wr_en) = 0 /\ Len(got) \in Nat /\ Count(tx_fifo) = 0
    BY <2>1, LenProperties DEF Bit, TypeInv
  <2>4. Count(tx_fifo)' = 0 /\ Len(got') = Len(got)
    <3>1. (IF tx_left = 1 THEN 1 ELSE 0) = 0
      BY <2>2
    <3>2. Count(tx_fifo)' = 0 + 0 - 0 /\ Len(got') = Len(got) + 0
      BY <1>2, <2>3, <3>1, Zenon
    <3> QED
      BY <2>3, <3>2
  <2> QED
    BY <1>1, <2>1, <2>4 DEF Fresh
<1> QED
  BY <1>1, <1>2, <1>3, <1>4, ByteFacts

\* The next answer is given.
LEMMA AnswerNext ==
    ASSUME HostRules, TypeInv, TxOk, NEW n, Clocks(n), ref'.replies = ref.replies,
           NEW b \in Byte, Reply(b), NEW m \in Nat \ {0}, Owed(m),
           b \in ref.replies[Len(ref.replies) - m + 1],
           ~ q_wr_en, ~ tx_fifo.full
    PROVE  /\ TxOk' /\ got' \in Seq(Byte) /\ q_tx_data' \in Byte
           /\ q_wr_en' \in BOOLEAN /\ q_wr_en' /\ Bit(q_wr_en') = 1
           /\ Owed(m - 1)'
           /\ tx_left = 1 => Count(tx_fifo') = Count(tx_fifo) - 1
           /\ tx_left # 1 => Count(tx_fifo') = Count(tx_fifo)
<1>1. q_wr_en' \in BOOLEAN /\ q_wr_en' /\ q_tx_data' = b /\ Bit(q_wr_en') = 1
  BY DEF Reply, Bit
<1>2. Bit(q_wr_en) = 0
  BY DEF Bit
<1>3. Len(got) \in Nat /\ Count(tx_fifo) \in Nat
  <2>1. Count(tx_fifo) \in 0 .. Depth
    BY CountFits DEF TxOk
  <2> QED
    BY <2>1, LenProperties, DepthFits DEF TypeInv
<1>4. Len(ref.replies) = Len(got) + Count(tx_fifo) + m
  BY <1>2, <1>3 DEF Owed, Made
<1>5. Right(ref.replies, b, Len(got) + Count(tx_fifo) + 1)
  <2>1. Len(ref.replies) - m + 1 = Len(got) + Count(tx_fifo) + 1
    BY <1>3, <1>4
  <2>2. Len(got) + Count(tx_fifo) + 1 <= Len(ref.replies)
    BY <1>3, <1>4
  <2> QED
    BY <2>1, <2>2 DEF Right
<1>6. /\ TxOk' /\ got' \in Seq(Byte) /\ Made \in Nat /\ Made' = Made + Bit(q_wr_en')
      /\ Count(tx_fifo)' = Count(tx_fifo) + Bit(q_wr_en) - (IF tx_left = 1 THEN 1 ELSE 0)
  BY <1>1, <1>5, TxClock
<1>7. Owed(m - 1)'
  BY <1>1, <1>6 DEF Owed
<1>8. Count(tx_fifo)' = Count(tx_fifo) + 0 - (IF tx_left = 1 THEN 1 ELSE 0)
  BY <1>2, <1>6, Zenon
<1>9. /\ tx_left = 1 => Count(tx_fifo') = Count(tx_fifo) - 1
      /\ tx_left # 1 => Count(tx_fifo') = Count(tx_fifo)
  <2>1. Count(tx_fifo) + 0 - 1 = Count(tx_fifo) - 1 /\ Count(tx_fifo) + 0 - 0 = Count(tx_fifo)
    BY <1>3
  <2> QED
    BY <2>1, <1>8, Zenon
<1> QED
  BY <1>1, <1>6, <1>7, <1>9, ByteFacts

\* Nothing the packet is about changes.
LEMMA Kept ==
    ASSUME NEW p, Effect(p), Answers(p),
           UNCHANGED <<cpu_mem, vram, cpu_regs, q_err_code, q_cart_cfg, ref>>,
           q_state' = "DISABLED" <=> q_state = "DISABLED"
    PROVE  Effect(p)' /\ Answers(p)'
BY DEF Effect, Answers, AnswersAt, Asks

LEMMA TypeKept ==
    ASSUME TypeInv, line' \in Seq(Byte), got' \in Seq(Byte),
           q_tx_data' \in Byte, q_wr_en' \in BOOLEAN,
           UNCHANGED <<cpu_mem, vram, cpu_regs, q_err_code, q_cart_cfg, ref>>
    PROVE  TypeInv'
BY DEF TypeInv

\* A byte of the packet is taken and nothing is answered.
LEMMA Passes ==
    ASSUME HostRules, TypeInv, RxOk, TxOk, NEW p \in Packets, NEW k \in 0 .. Len(p),
           ToCome(p, k), Effect(p), Answers(p), HasByte, Serial(TRUE), NoReply,
           UNCHANGED <<cpu_mem, vram, cpu_regs, q_err_code, q_cart_cfg, ref>>,
           q_state' = "DISABLED" <=> q_state = "DISABLED"
    PROVE  /\ TypeInv' /\ RxOk' /\ TxOk' /\ Made' = Made
           /\ p \in Seq(Byte) /\ WellFormed(p)
           /\ k + 1 \in 1 .. Len(p) /\ rd_data = p[k + 1] /\ p[k + 1] \in Byte
           /\ ToCome(p, k + 1)' /\ rx_fifo'.empty /\ rx_wait' = rx_wait - 1
           /\ k + 1 = Len(p) => line' = << >>
           /\ Effect(p)' /\ Answers(p)' /\ (Fresh(p) => Fresh(p)')
<1>1. p \in Seq(Byte) /\ WellFormed(p)
  BY HciAssumption DEF HciAssumption, HostRules
<1>2. Clocks(1) /\ line \in Seq(Byte)
  BY ClocksTrue DEF TypeInv
<1>3. /\ RxOk' /\ line' \in Seq(Byte)
      /\ k + 1 \in 1 .. Len(p) /\ rd_data = p[k + 1] /\ p[k + 1] \in Byte
      /\ ToCome(p, k + 1)' /\ rx_fifo'.empty /\ rx_wait' = rx_wait - 1
      /\ k + 1 = Len(p) => line' = << >>
  BY <1>1, <1>2, RxTake
<1>4. /\ TxOk' /\ got' \in Seq(Byte) /\ q_tx_data' \in Byte /\ q_wr_en' \in BOOLEAN
      /\ Made' = Made /\ (Fresh(p) => Fresh(p)')
  BY <1>2, Silent
<1>5. TypeInv'
  BY <1>3, <1>4, TypeKept
<1>6. Effect(p)' /\ Answers(p)'
  BY Kept
<1> QED
  BY <1>1, <1>3, <1>4, <1>5, <1>6

\* None is taken, and nothing is answered.
LEMMA Waits ==
    ASSUME HostRules, TypeInv, RxOk, TxOk, NEW p \in Packets, NEW k \in 0 .. Len(p),
           ToCome(p, k), Effect(p), Answers(p), ~ HasByte, Serial(FALSE), NoReply,
           UNCHANGED <<cpu_mem, vram, cpu_regs, q_err_code, q_cart_cfg, ref>>,
           q_state' = "DISABLED" <=> q_state = "DISABLED"
    PROVE  /\ TypeInv' /\ RxOk' /\ TxOk' /\ Made' = Made
           /\ p \in Seq(Byte) /\ WellFormed(p)
           /\ ToCome(p, k)' /\ Effect(p)' /\ Answers(p)' /\ (Fresh(p) => Fresh(p)')
           /\ \/ rx_fifo'.empty /\ rx_wait' = (IF rx_wait > 0 THEN rx_wait - 1 ELSE 0)
              \/ ~ rx_fifo'.empty /\ rx_wait = 0
           /\ k = Len(p) => rx_fifo'.empty /\ line' = << >>
           /\ rx_wait \in Nat
<1>1. p \in Seq(Byte) /\ WellFormed(p)
  BY HciAssumption DEF HciAssumption, HostRules
<1>2. Clocks(0) /\ line \in Seq(Byte) /\ rx_fifo.empty
  BY ClocksFalse DEF TypeInv, HasByte
<1>3. /\ RxOk' /\ line' \in Seq(Byte) /\ ToCome(p, k)'
      /\ \/ rx_fifo'.empty /\ rx_wait' = (IF rx_wait > 0 THEN rx_wait - 1 ELSE 0)
         \/ ~ rx_fifo'.empty /\ rx_wait = 0
      /\ k = Len(p) => rx_fifo'.empty /\ line' = << >>
      /\ rx_wait \in Nat
  BY <1>1, <1>2, RxKeep
<1>4. /\ TxOk' /\ got' \in Seq(Byte) /\ q_tx_data' \in Byte /\ q_wr_en' \in BOOLEAN
      /\ Made' = Made /\ (Fresh(p) => Fresh(p)')
  BY <1>2, Silent
<1>5. TypeInv'
  BY <1>3, <1>4, TypeKept
<1>6. Effect(p)' /\ Answers(p)'
  BY Kept
<1> QED
  BY <1>1, <1>3, <1>4, <1>5, <1>6

\* The states, one after the other.
LEMMA Stages ==
    /\ Stg0("ECHO") = "ECHO_STG_0" /\ Stg1("ECHO_STG_0") = "ECHO_STG_1"
    /\ Stg0("CPU_MEM_RD") = "CPU_MEM_RD_STG_0" /\ Stg1("CPU_MEM_RD_STG_0") = "CPU_MEM_RD_STG_1"
    /\ Stg0("CPU_MEM_WR") = "CPU_MEM_WR_STG_0" /\ Stg1("CPU_MEM_WR_STG_0") = "CPU_MEM_WR_STG_1"
    /\ Stg0("PPU_MEM_RD") = "PPU_MEM_RD_STG_0" /\ Stg1("PPU_MEM_RD_STG_0") = "PPU_MEM_RD_STG_1"
    /\ Stg0("PPU_MEM_WR") = "PPU_MEM_WR_STG_0" /\ Stg1("PPU_MEM_WR_STG_0") = "PPU_MEM_WR_STG_1"
    /\ Stg0("CPU_REG_WR") = "CPU_REG_WR_STG_0" /\ Stg0("CART_SET_CFG") = "CART_SET_CFG_STG_0"
BY DEF Stg0, Stg1

\* What the state of the machine says of the packet.
LEMMA Where ==
    ASSUME NEW p, NEW k, Doing(p, k)
    PROVE  /\ q_state \in {"DECODE", "DISABLED"} => Opcode(p, k)
           /\ q_state \in MemStg0 \union {"ECHO_STG_0"} => Header(p, k)
           /\ q_state \in {"CPU_MEM_RD_STG_1", "PPU_MEM_RD_STG_1"} => Reads(p, k)
           /\ q_state \in {"CPU_MEM_WR_STG_1", "PPU_MEM_WR_STG_1"} => Writes(p, k)
           /\ q_state = "ECHO_STG_1" => Echoes(p, k)
           /\ q_state \in {"CPU_REG_RD", "CPU_REG_WR_STG_0", "CPU_REG_WR_STG_1",
                           "QUERY_ERR_CODE", "PPU_DISABLE", "CART_SET_CFG_STG_0",
                           "CART_SET_CFG_STG_1"} => Single(p, k)
<1>1. Opcode(p, k) => q_state \in {"DECODE", "DISABLED"}
  BY DEF Opcode
<1>2. Header(p, k) => q_state \in MemStg0 \union {"ECHO_STG_0"}
  BY Stages DEF Header, MemOps, MemReads, MemWrites, MemStg0
<1>3. Reads(p, k) => q_state \in {"CPU_MEM_RD_STG_1", "PPU_MEM_RD_STG_1"}
  BY Stages DEF Reads, MemReads
<1>4. Writes(p, k) => q_state \in {"CPU_MEM_WR_STG_1", "PPU_MEM_WR_STG_1"}
  BY Stages DEF Writes, MemWrites
<1>5. Echoes(p, k) => q_state = "ECHO_STG_1"
  BY DEF Echoes
<1>6. Single(p, k) => q_state \in {"CPU_REG_RD", "CPU_REG_WR_STG_0", "CPU_REG_WR_STG_1",
                           "QUERY_ERR_CODE", "PPU_DISABLE", "CART_SET_CFG_STG_0",
                           "CART_SET_CFG_STG_1"}
  BY DEF Single
<1> QED
  BY <1>1, <1>2, <1>3, <1>4, <1>5, <1>6 DEF Doing, MemStg0

\* A step to a place of the same packet.
LEMMA Moves ==
    ASSUME NEW p \in Packets, NEW k \in 0 .. Len(p),
           ToCome(p, k)', Effect(p)', Answers(p)', Doing(p, k)'
    PROVE  Link'
BY DEF Link, Carries

\* The packet is done with: it has no effect to come, or has had it.
LEMMA Finish ==
    ASSUME rx_fifo'.empty, line' = << >>, q_state' = "DECODE", Owed(0)', Same'
    PROVE  Link'
BY DEF Link, Idle

LEMMA NoEffect ==
    ASSUME TypeInv', NEW p, Effect(p)', q_state' = "DECODE",
           Op(p) \in {"ECHO", "CPU_MEM_RD", "DBG_BRK", "CPU_REG_RD", "QUERY_DBG_BRK",
                      "QUERY_ERR_CODE", "PPU_MEM_RD", "PPU_DISABLE"}
    PROVE  Same'
<1>1. /\ ref'.mem = cpu_mem' /\ ref'.vram = vram' /\ ref'.regs = cpu_regs'
      /\ ref'.cart = q_cart_cfg'
  BY DEF Effect
<1>2. ref'.err = q_err_code'
  BY DEF Effect, TypeInv
<1>3. ref'.run = (q_state' = "DISABLED")
  BY DEF Effect
<1> QED
  BY <1>1, <1>2, <1>3 DEF Same

\* The packets that write, once they have.
LEMMA WroteCpu ==
    ASSUME TypeInv', NEW p, Effect(p)', q_state' = "DECODE",
           Op(p) = "CPU_MEM_WR", Stored(cpu_mem', p) = cpu_mem'
    PROVE  Same'
<1>1. /\ ref'.mem = cpu_mem' /\ ref'.vram = vram' /\ ref'.regs = cpu_regs'
      /\ ref'.cart = q_cart_cfg'
  BY DEF Effect
<1>2. ref'.err = q_err_code'
  BY DEF Effect, TypeInv
<1>3. ref'.run = (q_state' = "DISABLED")
  BY DEF Effect
<1> QED
  BY <1>1, <1>2, <1>3 DEF Same

LEMMA WrotePpu ==
    ASSUME TypeInv', NEW p, Effect(p)', q_state' = "DECODE",
           Op(p) = "PPU_MEM_WR", Stored(vram', p) = vram'
    PROVE  Same'
<1>1. /\ ref'.mem = cpu_mem' /\ ref'.vram = vram' /\ ref'.regs = cpu_regs'
      /\ ref'.cart = q_cart_cfg'
  BY DEF Effect
<1>2. ref'.err = q_err_code'
  BY DEF Effect, TypeInv
<1>3. ref'.run = (q_state' = "DISABLED")
  BY DEF Effect
<1> QED
  BY <1>1, <1>2, <1>3 DEF Same

\* How many replies a packet asks for.
LEMMA AskedFacts ==
    ASSUME NEW p \in Seq(Byte), WellFormed(p)
    PROVE  /\ Asked(p) \in Nat
           /\ Op(p) \in MemReads \union {"ECHO"} => Asked(p) = DataCount(p)
           /\ Op(p) \in {"CPU_REG_RD", "QUERY_DBG_BRK", "QUERY_ERR_CODE"} => Asked(p) = 1
           /\ Op(p) \notin MemReads \union {"ECHO", "CPU_REG_RD", "QUERY_DBG_BRK", "QUERY_ERR_CODE"}
                 => Asked(p) = 0
<1>1. DataCount(p) \in Nat
  BY PacketShape, ByteFacts DEF Addr
<1> QED
  BY <1>1 DEF Asked, MemReads

LEMMA FreshOwes ==
    ASSUME TypeInv', NEW p \in Seq(Byte), WellFormed(p), Fresh(p)'
    PROVE  Owed(Asked(p))' /\ Count(tx_fifo') = 0 /\ ~ q_wr_en' /\ Bit(q_wr_en') = 0
<1> DEFINE n == Asked(p)
<1>1. n \in Nat
  BY AskedFacts
<1>2. Len(got') \in Nat /\ Bit(q_wr_en') = 0 /\ Len(got') + n = Len(ref'.replies)
      /\ Count(tx_fifo') = 0 /\ ~ q_wr_en'
  BY LenProperties DEF TypeInv, Fresh, Bit
<1> HIDE DEF n
<1>3. Made' = Len(got') + 0 + 0
  BY <1>2, Zenon DEF Made
<1>4. Len(ref'.replies) = Made' + n
  BY <1>1, <1>2, <1>3
<1> QED
  BY <1>2, <1>4 DEF Owed, n

-----------------------------------------------------------------------------
(* The steps, one action after the other.                                    *)

\* A packet p is under way, k of its bytes taken.
Busy(p, k) ==
    /\ HostRules /\ TypeInv /\ RxOk /\ TxOk
    /\ p \in Packets /\ k \in 0 .. Len(p) /\ Carries(p, k)

LEMMA Packet ==
    ASSUME NEW p, NEW k, Busy(p, k)
    PROVE  /\ p \in Packets /\ p \in Seq(Byte) /\ WellFormed(p)
           /\ k \in 0 .. Len(p) /\ k \in Nat /\ Len(p) \in Nat
           /\ HostRules /\ TypeInv /\ RxOk /\ TxOk
           /\ ToCome(p, k) /\ Effect(p) /\ Answers(p) /\ Doing(p, k)
<1>1. p \in Packets /\ p \in Seq(Byte) /\ WellFormed(p)
  BY HciAssumption DEF HciAssumption, HostRules, Busy
<1> QED
  BY <1>1, LenProperties DEF Busy, Carries

LEMMA ByteMod == \A b \in Byte : b % ByteBase = b
<1> SUFFICES ASSUME NEW b \in Byte PROVE b % ByteBase = b
  OBVIOUS
<1> QED
  BY ByteFacts, WrapsOnce DEF Byte

\* What a byte of a header does to the rest.
LEMMA HeaderTaken ==
    ASSUME NEW p, NEW k, Busy(p, k), Header(p, k), HeaderByte,
           q_state' # "DISABLED"
    PROVE  /\ TypeInv' /\ RxOk' /\ TxOk'
           /\ k \in 1 .. HeaderLen(p) - 1 /\ k + 1 \in 1 .. Len(p)
           /\ rd_data = p[k + 1] /\ p[k + 1] \in Byte
           /\ ToCome(p, k + 1)' /\ rx_fifo'.empty /\ rx_wait' \in Nat
           /\ k + 1 = Len(p) => line' = << >>
           /\ Effect(p)' /\ Answers(p)' /\ Fresh(p)'
           /\ q_decode_cnt = k - 1 /\ q_decode_cnt' = k /\ k \in 1 .. 4
<1>1. Op(p) \in MemOps \union {"ECHO"} /\ Fresh(p) /\ k \in 1 .. HeaderLen(p) - 1
      /\ q_decode_cnt = k - 1 /\ q_state = Stg0(Op(p))
  BY DEF Header
<1>2. HeaderLen(p) \in {3, 5}
  BY <1>1, Packet, PacketShape
<1>3. q_state # "DISABLED"
  BY <1>1, Stages DEF MemOps, MemReads, MemWrites
<1>4. UNCHANGED <<cpu_mem, vram, cpu_regs, q_err_code, q_cart_cfg, ref>> /\ NoReply
      /\ HasByte /\ Serial(TRUE) /\ q_decode_cnt' = (q_decode_cnt + 1) % 8
  BY BusIdleStill DEF HeaderByte, cfg, host
<1>5. /\ TypeInv' /\ RxOk' /\ TxOk' /\ k + 1 \in 1 .. Len(p)
      /\ rd_data = p[k + 1] /\ p[k + 1] \in Byte
      /\ ToCome(p, k + 1)' /\ rx_fifo'.empty
      /\ k + 1 = Len(p) => line' = << >>
      /\ Effect(p)' /\ Answers(p)' /\ Fresh(p)'
  BY <1>1, <1>3, <1>4, Packet, Passes
<1>6. k \in 1 .. 4 /\ q_decode_cnt' = k
  BY <1>1, <1>2, <1>4
<1>7. rx_wait' \in Nat
  BY <1>5, Rates, Packet DEF RxOk
<1> QED
  BY <1>1, <1>5, <1>6, <1>7

LEMMA StepMemAddr ==
    ASSUME NEW p, NEW k, Busy(p, k), MemAddr
    PROVE  IInv'
<1>1. /\ q_state \in MemStg0 /\ q_decode_cnt \in {0, 1} /\ HeaderByte
      /\ q_addr' = IF q_decode_cnt = 0 THEN rd_data ELSE Word(q_addr % ByteBase, rd_data)
      /\ q_state' = q_state /\ q_execute_cnt' = q_execute_cnt
  BY DEF MemAddr
<1>2. Header(p, k) /\ q_state' # "DISABLED"
  BY <1>1, Packet, Where DEF MemStg0
<1>3. /\ TypeInv' /\ RxOk' /\ TxOk'
      /\ k + 1 \in 1 .. Len(p) /\ rd_data = p[k + 1]
      /\ ToCome(p, k + 1)' /\ Effect(p)' /\ Answers(p)' /\ Fresh(p)'
      /\ q_decode_cnt = k - 1 /\ q_decode_cnt' = k /\ k \in 1 .. 4
  BY <1>1, <1>2, HeaderTaken
<1>4. k \in {1, 2}
  BY <1>1, <1>3
<1>5. Op(p) \in MemOps /\ q_state = Stg0(Op(p)) /\ HeaderLen(p) = 5 /\ Len(p) >= 5
  <2>1. Op(p) \in MemOps \union {"ECHO"} /\ q_state = Stg0(Op(p))
    BY <1>2 DEF Header
  <2>2. Op(p) \in MemOps
    BY <2>1, <1>1, Stages DEF MemStg0, MemOps, MemReads, MemWrites
  <2> QED
    BY <2>1, <2>2, Packet, PacketShape DEF WellFormed
<1>6. q_addr' = IF k = 1 THEN p[2] ELSE WordOf(p, 2)
  <2>1. CASE k = 1
    BY <2>1, <1>1, <1>3
  <2>2. CASE k = 2
    <3>1. q_addr = p[2] /\ q_addr' = Word(q_addr % ByteBase, p[3])
      BY <2>2, <1>1, <1>2, <1>3, <1>5 DEF Header, MemOps, MemReads, MemWrites
    <3>2. p[2] \in Byte
      BY <1>5, Packet, PacketShape
    <3> QED
      BY <3>1, <3>2, <2>2, ByteMod DEF WordOf
  <2> QED
    BY <2>1, <2>2, <1>4
<1>7. Header(p, k + 1)'
  <2>1. k + 1 \in 1 .. HeaderLen(p) - 1 /\ q_decode_cnt' = (k + 1) - 1 /\ k + 1 # HeaderLen(p) - 1
    BY <1>3, <1>4, <1>5
  <2>2. (k + 1 = 2 => q_addr' = p[2]) /\ (k + 1 > 2 => q_addr' = WordOf(p, 2))
    BY <1>4, <1>6
  <2> QED
    BY <2>1, <2>2, <1>1, <1>3, <1>5 DEF Header
<1>8. k + 1 \in 0 .. Len(p)
  BY <1>3
<1> QED
  BY <1>3, <1>7, <1>8, Moves, Packet DEF IInv, Doing

LEMMA StepCntLo ==
    ASSUME NEW p, NEW k, Busy(p, k), CntLo
    PROVE  IInv'
<1>1. /\ q_state \in MemStg0 \union {"ECHO_STG_0"} /\ q_decode_cnt = CntStage /\ HeaderByte
      /\ q_execute_cnt' = rd_data /\ q_state' = q_state /\ q_addr' = q_addr
  BY DEF CntLo
<1>2. Header(p, k) /\ q_state' # "DISABLED"
  BY <1>1, Packet, Where DEF MemStg0
<1>3. /\ TypeInv' /\ RxOk' /\ TxOk'
      /\ k + 1 \in 1 .. Len(p) /\ rd_data = p[k + 1]
      /\ ToCome(p, k + 1)' /\ Effect(p)' /\ Answers(p)' /\ Fresh(p)'
      /\ q_decode_cnt = k - 1 /\ q_decode_cnt' = k /\ k \in 1 .. 4
  BY <1>1, <1>2, HeaderTaken
<1>4. Op(p) \in MemOps \union {"ECHO"} /\ q_state = Stg0(Op(p))
  BY <1>2 DEF Header
<1>5. HeaderLen(p) = IF Op(p) = "ECHO" THEN 3 ELSE 5
  BY <1>4, Packet, PacketShape DEF MemOps, MemReads, MemWrites
<1>6. k = IF Op(p) = "ECHO" THEN 1 ELSE 3
  BY <1>1, <1>3, <1>4, Stages DEF CntStage, MemOps, MemReads, MemWrites
<1>7. Header(p, k + 1)'
  <2>1. k + 1 = HeaderLen(p) - 1 /\ k + 1 \in 1 .. HeaderLen(p) - 1 /\ q_decode_cnt' = (k + 1) - 1
    BY <1>3, <1>5, <1>6
  <2>2. Op(p) # "ECHO" => k + 1 # 2 /\ q_addr' = WordOf(p, 2)
    BY <1>1, <1>2, <1>6 DEF Header
  <2> QED
    BY <2>1, <2>2, <1>1, <1>3, <1>4 DEF Header
<1>8. k + 1 \in 0 .. Len(p)
  BY <1>3
<1> QED
  BY <1>3, <1>7, <1>8, Moves, Packet DEF IInv, Doing

LEMMA StepCntHi ==
    ASSUME NEW p, NEW k, Busy(p, k), CntHi
    PROVE  IInv'
<1> DEFINE c == DataCount(p)
<1>1. /\ q_state \in MemStg0 \union {"ECHO_STG_0"} /\ q_decode_cnt > CntStage /\ HeaderByte
      /\ q_execute_cnt' = ExecuteCnt(Word(q_execute_cnt, rd_data))
      /\ q_state' = AfterHeader(q_execute_cnt') /\ q_addr' = q_addr
  BY DEF CntHi, Goto
<1>2. Header(p, k) /\ q_state' # "DISABLED"
  BY <1>1, Packet, Where, Stages DEF MemStg0, AfterHeader
<1>3. /\ TypeInv' /\ RxOk' /\ TxOk'
      /\ k \in 1 .. HeaderLen(p) - 1 /\ k + 1 \in 1 .. Len(p) /\ rd_data = p[k + 1]
      /\ ToCome(p, k + 1)' /\ rx_fifo'.empty /\ rx_wait' \in Nat
      /\ k + 1 = Len(p) => line' = << >>
      /\ Effect(p)' /\ Answers(p)' /\ Fresh(p)'
      /\ q_decode_cnt = k - 1 /\ k \in 1 .. 4
  BY <1>1, <1>2, HeaderTaken
<1>4. Op(p) \in MemOps \union {"ECHO"} /\ q_state = Stg0(Op(p))
  BY <1>2 DEF Header
<1>5. /\ HeaderLen(p) = IF Op(p) = "ECHO" THEN 3 ELSE 5
      /\ c \in Addr /\ (Op(p) # "ECHO" => Op(p) \in MemOps)
      /\ Len(p) = HeaderLen(p) + (IF Op(p) \in MemReads THEN 0 ELSE c)
      /\ c = Word(p[HeaderLen(p) - 1], p[HeaderLen(p)])
  BY <1>4, Packet, PacketShape DEF MemOps, MemReads, MemWrites
<1>6. k = HeaderLen(p) - 1 /\ k + 1 = HeaderLen(p)
  <2>1. k - 1 > (IF Op(p) = "ECHO" THEN 0 ELSE 2)
    BY <1>1, <1>3, <1>4, Stages DEF CntStage, MemOps, MemReads, MemWrites
  <2> QED
    BY <2>1, <1>3, <1>5
<1>7. Word(q_execute_cnt, rd_data) = c
  BY <1>2, <1>3, <1>5, <1>6 DEF Header
<1>8. q_execute_cnt' = IF Op(p) \in MemReads THEN 2 * c ELSE c
  BY <1>1, <1>4, <1>7, Stages DEF ExecuteCnt, MemOps, MemReads, MemWrites
<1>9. c \in Nat /\ (q_execute_cnt' = 0 <=> c = 0)
  <2>1. c \in Addr
    BY <1>5
  <2>2. c \in Nat
    BY <2>1, ByteFacts DEF Addr
  <2> HIDE DEF c
  <2> QED
    BY <2>2, <1>8
<1>10. p \in Packets /\ p \in Seq(Byte) /\ WellFormed(p)
  BY Packet
<1>11. /\ Owed(Asked(p))' /\ Count(tx_fifo') = 0 /\ ~ q_wr_en' /\ Bit(q_wr_en') = 0
  BY <1>3, <1>10, FreshOwes
<1>12. Op(p) \in MemReads \union {"ECHO"} => Owed(c)'
  BY <1>10, <1>11, AskedFacts
<1>13. Op(p) \in MemOps => /\ q_addr' = AddrAt(p, 0)
                           /\ \A x \in Addr : Offset(p, x) \in Nat
  <2> SUFFICES ASSUME Op(p) \in MemOps
               PROVE  q_addr' = AddrAt(p, 0) /\ \A x \in Addr : Offset(p, x) \in Nat
    OBVIOUS
  <2>1. q_addr = WordOf(p, 2)
    BY <1>2, <1>5, <1>6 DEF Header, MemOps, MemReads, MemWrites
  <2>2. WordOf(p, 2) \in Addr
    BY <1>10, PacketShape
  <2> QED
    BY <2>1, <2>2, <1>1, Places, ByteFacts DEF Addr
<1>14. Op(p) \in MemWrites => StoredTo(IF Op(p) = "CPU_MEM_WR" THEN cpu_mem ELSE vram, p, 0)'
  <2> SUFFICES ASSUME Op(p) \in MemWrites, NEW mem,
                      mem = IF Op(p) = "CPU_MEM_WR" THEN cpu_mem' ELSE vram'
               PROVE  StoredTo(mem, p, 0)
    OBVIOUS
  <2>1. DOMAIN mem \subseteq Addr
    BY <1>3, HciAssumption DEF HciAssumption, TypeInv
  <2>2. \A x \in Addr : Offset(p, x) \in Nat
    BY <1>13 DEF MemOps
  <2> QED
    BY <2>1, <2>2 DEF StoredTo
<1> HIDE DEF c
<1>15. CASE c = 0
  <2>1. q_state' = "DECODE"
    BY <1>1, <1>9, <1>15 DEF AfterHeader
  <2>2. k + 1 = Len(p) /\ line' = << >>
    BY <1>3, <1>5, <1>6, <1>15
  <2>3. Asked(p) = 0
    BY <1>4, <1>10, <1>15, AskedFacts DEF c, MemOps, MemReads, MemWrites
  <2>4. Owed(0)'
    BY <2>3, <1>11
  <2>5. Same'
    <3>1. CASE Op(p) \in MemReads \union {"ECHO"}
      BY <3>1, <2>1, <1>3, NoEffect DEF MemReads
    <3>2. CASE Op(p) = "CPU_MEM_WR"
      <4>1. StoredTo(cpu_mem', p, DataCount(p)) /\ cpu_mem' \in [CpuAddrs -> Byte]
        BY <3>2, <1>3, <1>14, <1>15 DEF c, TypeInv, MemWrites
      <4>2. Stored(cpu_mem', p) = cpu_mem'
        BY <4>1, <3>2, <1>10, StoredAll DEF MemWrites
      <4> QED
        BY <4>2, <3>2, <2>1, <1>3, WroteCpu
    <3>3. CASE Op(p) = "PPU_MEM_WR"
      <4>1. StoredTo(vram', p, DataCount(p)) /\ vram' \in [VramAddrs -> Byte]
        BY <3>3, <1>3, <1>14, <1>15 DEF c, TypeInv, MemWrites
      <4>2. Stored(vram', p) = vram'
        BY <4>1, <3>3, <1>10, StoredAll DEF MemWrites
      <4> QED
        BY <4>2, <3>3, <2>1, <1>3, WrotePpu
    <3> QED
      BY <3>1, <3>2, <3>3, <1>4 DEF MemOps, MemWrites
  <2> QED
    BY <2>1, <2>2, <2>4, <2>5, <1>3, Finish DEF IInv
<1>16. CASE c # 0
  <2>1. q_state' = Stg1(Stg0(Op(p)))
    BY <1>1, <1>4, <1>9, <1>16 DEF AfterHeader
  <2>2. k + 1 \in 0 .. Len(p)
    BY <1>3
  <2>3. c \in Nat /\ c >= 1
    BY <1>9, <1>16
  <2>4. CASE Op(p) \in MemReads
    <3>1. q_execute_cnt' = 2 * c /\ Owed(c)' /\ k + 1 = 5
      BY <2>4, <1>5, <1>6, <1>8, <1>12 DEF MemReads
    <3>2. c \in 1 .. c /\ 2 * c # 2 * c - 1 /\ c - c = 0
      BY <2>3
    <3>3. q_addr' = AddrAt(p, c - c)
      BY <3>2, <2>4, <1>13 DEF MemOps
    <3>4. Reads(p, k + 1)'
      BY <3>1, <3>2, <3>3, <2>1, <2>4 DEF Reads, c
    <3> QED
      BY <3>4, <2>2, <1>3, <1>10, Moves DEF IInv, Doing
  <2>5. CASE Op(p) \in MemWrites
    <3>1. q_execute_cnt' = c /\ k + 1 = 5 /\ Len(p) = 5 + c /\ Op(p) \notin MemReads
      BY <2>5, <1>5, <1>6, <1>8 DEF MemWrites, MemReads
    <3>2. (k + 1) \in 5 .. Len(p) - 1 /\ q_execute_cnt' = Len(p) - (k + 1) /\ (k + 1) - 5 = 0
      BY <3>1, <2>3
    <3>3. q_addr' = AddrAt(p, (k + 1) - 5)
      BY <3>2, <2>5, <1>13 DEF MemOps
    <3>4. Writes(p, k + 1)'
      BY <3>2, <3>3, <2>1, <2>5, <1>3, <1>14 DEF Writes
    <3> QED
      BY <3>4, <2>2, <1>3, <1>10, Moves DEF IInv, Doing
  <2>6. CASE Op(p) = "ECHO"
    <3>1. q_execute_cnt' = c /\ k + 1 = 3 /\ Len(p) = 3 + c /\ q_state' = "ECHO_STG_1"
      BY <2>6, <2>1, <1>5, <1>6, <1>8, Stages DEF MemReads
    <3>2. (k + 1) \in 3 .. Len(p) - 1 /\ q_execute_cnt' = Len(p) - (k + 1) /\ Len(p) - (k + 1) = c
      BY <3>1, <2>3
    <3>3. Owed(Len(p) - (k + 1))'
      BY <3>2, <2>6, <1>12
    <3>4. Count(tx_fifo') + Bit(q_wr_en') <= 1 /\ Count(tx_fifo') # 1
      BY <1>11
    <3>5. TxBusy' = 0
      BY <1>11 DEF TxBusy
    <3>6. TxBusy' <= IF rx_fifo'.empty THEN rx_wait' + 2 ELSE 1
      <4>1. PICK w \in Nat : w = rx_wait'
        BY <1>3
      <4>2. 0 <= IF rx_fifo'.empty THEN w + 2 ELSE 1
        OBVIOUS
      <4> QED
        BY <3>5, <4>1, <4>2, Zenon
    <3>7. Echoes(p, k + 1)'
      BY <3>1, <3>2, <3>3, <3>4, <3>6, <2>6, Zenon DEF Echoes
    <3> QED
      BY <3>7, <2>2, <1>3, <1>10, Moves DEF IInv, Doing
  <2> QED
    BY <2>4, <2>5, <2>6, <1>4 DEF MemOps
<1> QED
  BY <1>15, <1>16

\* The count of the bytes to come, and the last one.
LEMMA CountsDown ==
    ASSUME NEW e \in 1 .. CntSpace - 1, q_execute_cnt = e, CountDown
    PROVE  /\ q_execute_cnt' = e - 1
           /\ q_state' = IF e = 1 THEN "DECODE" ELSE q_state
<1> DEFINE n == CntSpace
           x == e + n - 1
<1>1. n \in Nat \ {0} /\ n = CntSpace
  BY ByteFacts
<1>2. q_execute_cnt' = x % n /\ q_state' = IF q_execute_cnt' = 0 THEN "DECODE" ELSE q_state
  BY DEF CountDown, Goto
<1> HIDE DEF n
<1>3. x \in 0 .. 2 * n - 1 /\ x >= n /\ x - n = e - 1
  BY <1>1
<1> HIDE DEF x
<1>4. x % n = e - 1
  <2>1. x % n = IF x < n THEN x ELSE x - n
    BY <1>1, <1>3, WrapsOnce
  <2>2. x \in Nat /\ n \in Nat /\ ~ (x < n)
    BY <1>1, <1>3
  <2> QED
    BY <2>1, <2>2, <1>3
<1>5. q_execute_cnt' = e - 1
  BY <1>2, <1>4
<1>6. e - 1 = 0 <=> e = 1
  OBVIOUS
<1> QED
  BY <1>2, <1>5, <1>6

\* The bytes of an ECHO leave as they come: the transmitter is always done with
\* the one before.
LEMMA StepEcho ==
    ASSUME NEW p, NEW k, Busy(p, k), Echo
    PROVE  IInv'
<1>1. /\ q_state = "ECHO_STG_1" /\ HasByte /\ Serial(TRUE) /\ Reply(rd_data) /\ CountDown
      /\ UNCHANGED <<cpu_mem, vram, cpu_regs, q_err_code, q_cart_cfg, ref>>
  BY BusIdleStill DEF Echo, cfg, host
<1>2. /\ p \in Packets /\ p \in Seq(Byte) /\ WellFormed(p)
      /\ k \in 0 .. Len(p) /\ k \in Nat /\ Len(p) \in Nat
      /\ HostRules /\ TypeInv /\ RxOk /\ TxOk
      /\ ToCome(p, k) /\ Effect(p) /\ Answers(p) /\ line \in Seq(Byte)
  BY Packet DEF TypeInv
<1>3. /\ Op(p) = "ECHO" /\ k \in 3 .. Len(p) - 1 /\ q_execute_cnt = Len(p) - k
      /\ Owed(Len(p) - k) /\ Count(tx_fifo) + Bit(q_wr_en) <= 1
      /\ Count(tx_fifo) = 1 => ~ tx_fifo.empty
      /\ TxBusy <= 1
  BY <1>1, Packet, Where DEF Echoes, HasByte
<1>4. /\ RxOk' /\ line' \in Seq(Byte) /\ k + 1 \in 1 .. Len(p)
      /\ rd_data = p[k + 1] /\ p[k + 1] \in Byte
      /\ ToCome(p, k + 1)' /\ rx_fifo'.empty /\ rx_wait' = rx_wait - 1
      /\ k + 1 = Len(p) => line' = << >>
  BY <1>1, <1>2, ClocksTrue, RxTake
<1>5. /\ rx_wait = RxClks /\ RxClks \in Nat /\ TxClks \in Nat /\ TxClks >= 1 /\ RxClks > TxClks
  BY <1>1, <1>2, Rates DEF RxOk, HasByte
<1>6. /\ Count(tx_fifo) \in Nat /\ (Count(tx_fifo) = 0 => tx_fifo.empty)
      /\ (tx_fifo.full => Count(tx_fifo) >= 3)
      /\ tx_left \in 0 .. TxClks /\ (tx_left > 0 => ~ tx_fifo.empty)
  BY <1>2, CountFits, DepthFits DEF TxOk, Safe
<1>7. ~ q_wr_en
  BY <1>3, <1>5 DEF TxBusy
<1>8. Count(tx_fifo) \in {0, 1} /\ ~ tx_fifo.full
  <2>1. Bit(q_wr_en) \in {0, 1}
    BY DEF Bit
  <2> QED
    BY <2>1, <1>3, <1>6
<1>9. Count(tx_fifo) = IF tx_left = 1 THEN 1 ELSE 0
  BY <1>3, <1>5, <1>6, <1>7, <1>8 DEF TxBusy
<1> DEFINE m == Len(p) - k
<1>10. m \in Nat \ {0} /\ Owed(m) /\ m = Len(p) - k /\ m - 1 = Len(p) - (k + 1)
  BY <1>2, <1>3
<1>11. p[k + 1] \in ref.replies[Len(ref.replies) - m + 1]
  <2>1. Asked(p) = Len(p) - 3 /\ Asked(p) \in Nat
    BY <1>2, <1>3, AskedFacts, PacketShape
  <2>2. k - 2 \in 1 .. Asked(p) /\ 3 + (k - 2) = k + 1
    BY <2>1, <1>2, <1>3
  <2>3. Asks(p, k - 2) = {p[3 + (k - 2)]}
    BY <2>2, <1>2, <1>3 DEF Answers, AnswersAt
  <2>4. Len(ref.replies) - Asked(p) + (k - 2) = Len(ref.replies) - m + 1
    <3>1. Len(ref.replies) \in Nat
      BY <1>2, LenProperties DEF TypeInv
    <3> QED
      BY <3>1, <2>1, <1>2
  <2> QED
    BY <2>2, <2>3, <2>4 DEF Asks
<1> HIDE DEF m
<1>12. /\ TxOk' /\ got' \in Seq(Byte) /\ q_tx_data' \in Byte
       /\ q_wr_en' \in BOOLEAN /\ q_wr_en' /\ Bit(q_wr_en') = 1 /\ Owed(m - 1)'
       /\ Count(tx_fifo') = 0
  <2>1. Reply(p[k + 1]) /\ Clocks(1) /\ ref'.replies = ref.replies
    BY <1>1, <1>4, ClocksTrue
  <2> HIDE DEF Reply
  <2>2. /\ TxOk' /\ got' \in Seq(Byte) /\ q_tx_data' \in Byte
        /\ q_wr_en' \in BOOLEAN /\ q_wr_en' /\ Bit(q_wr_en') = 1 /\ Owed(m - 1)'
        /\ tx_left = 1 => Count(tx_fifo') = Count(tx_fifo) - 1
        /\ tx_left # 1 => Count(tx_fifo') = Count(tx_fifo)
    BY <2>1, <1>2, <1>4, <1>7, <1>8, <1>10, <1>11, AnswerNext
  <2>3. Count(tx_fifo') = 0
    BY <2>2, <1>9
  <2> QED
    BY <2>2, <2>3
<1>13. TypeInv'
  BY <1>1, <1>2, <1>4, <1>12, TypeKept
<1>14. /\ q_execute_cnt' = m - 1
       /\ q_state' = IF m = 1 THEN "DECODE" ELSE "ECHO_STG_1"
  <2>1. m \in 1 .. CntSpace - 1
    <3>1. Len(p) = 3 + DataCount(p) /\ DataCount(p) \in 0 .. AddrSpace - 1
      BY <1>2, <1>3, PacketShape DEF Addr
    <3>2. k >= 3 /\ k \in Nat
      BY <1>2, <1>3
    <3>3. AddrSpace \in Nat /\ CntSpace = 2 * AddrSpace
      BY ByteFacts
    <3> QED
      BY <3>1, <3>2, <3>3, <1>10
  <2>2. q_execute_cnt = m
    BY <1>3, <1>10
  <2> QED
    BY <2>1, <2>2, <1>1, CountsDown
<1>15. Effect(p)' /\ Answers(p)'
  BY <1>1, <1>2, <1>14, Kept
<1>16. CASE m = 1
  <2>1. k + 1 = Len(p) /\ q_state' = "DECODE" /\ m - 1 = 0
    BY <1>2, <1>10, <1>14, <1>16
  <2>2. Same'
    BY <2>1, <1>3, <1>13, <1>15, NoEffect
  <2>3. Owed(0)'
    BY <2>1, <1>12
  <2> QED
    BY <2>1, <2>2, <2>3, <1>4, <1>12, <1>13, Finish DEF IInv
<1>17. CASE m # 1
  <2>1. /\ (k + 1) \in 3 .. Len(p) - 1 /\ k + 1 \in 0 .. Len(p)
        /\ q_execute_cnt' = Len(p) - (k + 1) /\ q_state' = "ECHO_STG_1"
    BY <1>2, <1>3, <1>10, <1>14, <1>17
  <2>2. Owed(Len(p) - (k + 1))'
    BY <1>10, <1>12
  <2>3. Count(tx_fifo') + Bit(q_wr_en') <= 1 /\ Count(tx_fifo') # 1
    <3>1. PICK c, b : c = Count(tx_fifo') /\ b = Bit(q_wr_en')
      OBVIOUS
    <3>2. c = 0 /\ b = 1
      BY <3>1, <1>12
    <3>3. c + b <= 1 /\ c # 1
      BY <3>2
    <3> QED
      BY <3>1, <3>3, Zenon
  <2>4. TxBusy' <= IF rx_fifo'.empty THEN rx_wait' + 2 ELSE 1
    <3>1. TxBusy' = TxClks + 2
      BY <1>12 DEF TxBusy
    <3>2. PICK w : w = rx_wait'
      OBVIOUS
    <3>3. w = RxClks - 1
      BY <3>2, <1>4, <1>5
    <3>4. TxClks + 2 <= w + 2
      BY <3>3, <1>5
    <3> QED
      BY <3>1, <3>2, <3>4, <1>4, Zenon
  <2>5. Echoes(p, k + 1)'
    BY <2>1, <2>2, <2>3, <2>4, <1>3, Zenon DEF Echoes
  <2> QED
    BY <2>1, <2>5, <1>2, <1>4, <1>12, <1>13, <1>15, Moves DEF IInv, Doing
<1> QED
  BY <1>16, <1>17

\* In the middle of a memory read.
LEMMA ReadsOn ==
    ASSUME NEW p, NEW k, Busy(p, k),
           q_state \in {"CPU_MEM_RD_STG_1", "PPU_MEM_RD_STG_1"}
    PROVE  /\ Op(p) \in MemReads /\ k = Len(p) /\ k = 5 /\ ~ HasByte
           /\ q_state = Stg1(Stg0(Op(p)))
           /\ q_state = "CPU_MEM_RD_STG_1" <=> Op(p) = "CPU_MEM_RD"
           /\ DataCount(p) \in Addr /\ WordOf(p, 2) \in Addr
           /\ \E m \in 1 .. DataCount(p) :
                  /\ q_execute_cnt \in {2 * m - 1, 2 * m} /\ Owed(m)
                  /\ q_addr = AddrAt(p, DataCount(p) - m)
                  /\ q_execute_cnt = 2 * m - 1 => q_ram_a = q_addr /\ ~ q_wr_en
<1>1. Reads(p, k)
  BY Packet, Where
<1>2. /\ Op(p) \in MemReads /\ q_state = Stg1(Stg0(Op(p))) /\ k = 5
      /\ \E m \in 1 .. DataCount(p) :
             /\ q_execute_cnt \in {2 * m - 1, 2 * m} /\ Owed(m)
             /\ q_addr = AddrAt(p, DataCount(p) - m)
             /\ q_execute_cnt = 2 * m - 1 => q_ram_a = q_addr /\ ~ q_wr_en
  BY <1>1 DEF Reads
<1>3. Len(p) = 5 /\ DataCount(p) \in Addr /\ WordOf(p, 2) \in Addr
  BY <1>2, Packet, PacketShape DEF MemOps
<1>4. ~ HasByte
  BY <1>2, <1>3, Packet DEF ToCome, HasByte
<1>5. q_state = "CPU_MEM_RD_STG_1" <=> Op(p) = "CPU_MEM_RD"
  BY <1>2, Stages DEF MemReads
<1> QED
  BY <1>2, <1>3, <1>4, <1>5

LEMMA StepMemRdDummy ==
    ASSUME NEW p, NEW k, Busy(p, k), MemRdDummy
    PROVE  IInv'
<1>1. /\ q_state \in {"CPU_MEM_RD_STG_1", "PPU_MEM_RD_STG_1"} /\ q_execute_cnt % 2 = 0
      /\ Serial(FALSE) /\ NoReply /\ q_execute_cnt' = q_execute_cnt - 1
      /\ UNCHANGED <<cpu_mem, vram, cpu_regs, q_err_code, q_cart_cfg, ref>>
      /\ q_state' = q_state /\ q_addr' = q_addr /\ q_ram_a' = q_addr
  BY BusIdleStill DEF MemRdDummy, cfg, host
<1>2. /\ Op(p) \in MemReads /\ k = Len(p) /\ k = 5 /\ ~ HasByte
      /\ q_state = Stg1(Stg0(Op(p))) /\ DataCount(p) \in Addr
  BY <1>1, ReadsOn
<1>3. PICK m \in 1 .. DataCount(p) :
          /\ q_execute_cnt \in {2 * m - 1, 2 * m} /\ Owed(m)
          /\ q_addr = AddrAt(p, DataCount(p) - m)
  BY <1>1, ReadsOn
<1>4. m \in Nat /\ m >= 1
  BY <1>2, ByteFacts DEF Addr
<1>5. /\ TypeInv' /\ RxOk' /\ TxOk' /\ Made' = Made
      /\ ToCome(p, k)' /\ Effect(p)' /\ Answers(p)'
  BY <1>1, <1>2, Packet, Waits
<1>6. ~ q_wr_en'
  BY <1>1 DEF NoReply
<1>7. q_execute_cnt' = 2 * m - 1
  BY <1>1, <1>3, <1>4
<1>8. Owed(m)'
  BY <1>1, <1>3, <1>5 DEF Owed
<1>9. Reads(p, k)'
  BY <1>1, <1>2, <1>3, <1>6, <1>7, <1>8 DEF Reads
<1> QED
  BY <1>5, <1>9, Packet, Moves DEF IInv, Doing

LEMMA StepMemRd ==
    ASSUME NEW p, NEW k, Busy(p, k), MemRd
    PROVE  IInv'
<1> DEFINE c == DataCount(p)
           b == IF Op(p) = "CPU_MEM_RD" THEN CpuDin ELSE VramDin
<1>1. /\ q_state \in {"CPU_MEM_RD_STG_1", "PPU_MEM_RD_STG_1"} /\ q_execute_cnt % 2 = 1
      /\ ~ tx_fifo.full /\ Serial(FALSE)
      /\ Reply(IF q_state = "CPU_MEM_RD_STG_1" THEN CpuDin ELSE VramDin)
      /\ CountDown /\ q_addr' = (q_addr + 1) % AddrSpace
      /\ UNCHANGED <<cpu_mem, vram, cpu_regs, q_err_code, q_cart_cfg, ref>>
  BY BusIdleStill DEF MemRd, cfg, host, NextAddr
<1>2. /\ Op(p) \in MemReads /\ k = Len(p) /\ k = 5 /\ ~ HasByte
      /\ q_state = Stg1(Stg0(Op(p))) /\ c \in Addr /\ WordOf(p, 2) \in Addr
      /\ q_state = "CPU_MEM_RD_STG_1" <=> Op(p) = "CPU_MEM_RD"
  BY <1>1, ReadsOn
<1>3. Reply(b)
  BY <1>1, <1>2
<1>4. PICK m \in 1 .. c :
          /\ q_execute_cnt \in {2 * m - 1, 2 * m} /\ Owed(m)
          /\ q_addr = AddrAt(p, c - m)
          /\ q_execute_cnt = 2 * m - 1 => q_ram_a = q_addr /\ ~ q_wr_en
  BY <1>1, ReadsOn
<1>5. c \in 0 .. AddrSpace - 1 /\ AddrSpace \in Nat
  BY <1>2, ByteFacts DEF Addr
<1>6. /\ p \in Packets /\ p \in Seq(Byte) /\ WellFormed(p)
      /\ HostRules /\ TypeInv /\ RxOk /\ TxOk /\ line \in Seq(Byte) /\ k \in 0 .. Len(p)
      /\ ToCome(p, k) /\ Effect(p) /\ Answers(p) /\ Len(ref.replies) \in Nat
  BY Packet, LenProperties DEF TypeInv
<1>7. Asked(p) = c
  BY <1>2, <1>6, AskedFacts
<1> HIDE DEF c
<1>8. /\ m \in Nat \ {0} /\ m - 1 \in Nat /\ c - m \in Addr /\ c - m + 1 \in 1 .. c
      /\ (c - m + 1) - 1 = c - m /\ c - (m - 1) = c - m + 1
  BY <1>5 DEF Addr
<1>9. q_execute_cnt = 2 * m - 1 /\ q_ram_a = q_addr /\ ~ q_wr_en
  <2>1. 2 * m % 2 = 0
    BY <1>8
  <2> QED
    BY <2>1, <1>1, <1>4
<1>10. b \in ref.replies[Len(ref.replies) - m + 1] /\ b \in Byte
  <2>1. /\ Op(p) = "CPU_MEM_RD" => Asks(p, c - m + 1) = {At(cpu_mem, AddrAt(p, c - m))}
        /\ Op(p) = "PPU_MEM_RD" => Asks(p, c - m + 1) = {At(vram, AddrAt(p, c - m))}
    BY <1>6, <1>7, <1>8 DEF Answers, AnswersAt
  <2>2. Len(ref.replies) - c + (c - m + 1) = Len(ref.replies) - m + 1
    <3>1. PICK l \in Nat : l = Len(ref.replies)
      BY <1>6
    <3>2. l - c + (c - m + 1) = l - m + 1
      BY <1>5, <1>8
    <3> QED
      BY <3>1, <3>2
  <2>3. Asks(p, c - m + 1) = ref.replies[Len(ref.replies) - m + 1]
    BY <2>2, <1>7 DEF Asks
  <2>4. /\ DOMAIN cpu_mem = CpuAddrs /\ DOMAIN vram = VramAddrs
        /\ \A a \in CpuAddrs : cpu_mem[a] \in Byte
        /\ \A a \in VramAddrs : vram[a] \in Byte
    BY <1>6 DEF TypeInv
  <2>5. /\ CpuDin = At(cpu_mem, q_addr) /\ VramDin = At(vram, q_addr)
        /\ CpuDin \in Byte /\ VramDin \in Byte
    BY <2>4, <1>9, ByteFacts DEF CpuDin, VramDin, At
  <2> QED
    BY <2>1, <2>3, <2>5, <1>2, <1>4 DEF MemReads
<1> HIDE DEF b
<1>11. /\ TxOk' /\ got' \in Seq(Byte) /\ q_tx_data' \in Byte
       /\ q_wr_en' \in BOOLEAN /\ Owed(m - 1)'
  <2>1. Clocks(0) /\ ref'.replies = ref.replies
    BY <1>1, ClocksFalse
  <2> QED
    BY <2>1, <1>1, <1>3, <1>4, <1>6, <1>8, <1>9, <1>10, AnswerNext
<1>12. /\ RxOk' /\ line' \in Seq(Byte) /\ ToCome(p, k)'
       /\ k = Len(p) => rx_fifo'.empty /\ line' = << >>
  BY <1>1, <1>2, <1>6, ClocksFalse, RxKeep
<1>13. TypeInv'
  BY <1>1, <1>6, <1>11, <1>12, TypeKept
<1>14. /\ q_execute_cnt' = 2 * (m - 1)
       /\ q_state' = IF m = 1 THEN "DECODE" ELSE q_state
  <2>1. PICK e : e = 2 * m - 1
    OBVIOUS
  <2>2. e \in 1 .. CntSpace - 1 /\ e - 1 = 2 * (m - 1) /\ (e = 1 <=> m = 1)
    BY <2>1, <1>5, <1>8, ByteFacts
  <2>3. q_execute_cnt' = e - 1 /\ q_state' = IF e = 1 THEN "DECODE" ELSE q_state
    BY <2>1, <2>2, <1>1, <1>9, CountsDown
  <2> QED
    BY <2>2, <2>3
<1>15. q_state' # "DISABLED" /\ q_state # "DISABLED"
  BY <1>1, <1>14
<1>16. Effect(p)' /\ Answers(p)'
  BY <1>1, <1>6, <1>15, Kept
<1>17. CASE m = 1
  <2>1. q_state' = "DECODE" /\ m - 1 = 0
    BY <1>14, <1>17
  <2>2. Same'
    BY <2>1, <1>2, <1>13, <1>16, NoEffect DEF MemReads
  <2>3. Owed(0)'
    BY <2>1, <1>11
  <2> QED
    BY <2>1, <2>2, <2>3, <1>2, <1>11, <1>12, <1>13, Finish DEF IInv
<1>18. CASE m # 1
  <2>1. /\ q_state' = q_state /\ m - 1 \in 1 .. c
        /\ 2 * (m - 1) # 2 * (m - 1) - 1
    BY <1>5, <1>8, <1>14, <1>18
  <2>2. q_addr' = AddrAt(p, c - (m - 1))
    <3>1. c - m + 1 \in Addr
      BY <1>5, <1>8, <1>18 DEF Addr
    <3> QED
      BY <3>1, <1>1, <1>2, <1>4, <1>8, Places
  <2>3. Reads(p, k)'
    <3>1. PICK n \in 1 .. c : n = m - 1
      BY <2>1
    <3>2. /\ q_execute_cnt' \in {2 * n - 1, 2 * n} /\ Owed(n)'
          /\ q_addr' = AddrAt(p, DataCount(p) - n)
          /\ q_execute_cnt' # 2 * n - 1
      BY <3>1, <2>1, <2>2, <1>11, <1>14 DEF c
    <3> QED
      BY <3>2, <2>1, <1>2 DEF Reads, c
  <2> QED
    BY <2>3, <1>6, <1>11, <1>12, <1>13, <1>16, Moves DEF IInv, Doing
<1> QED
  BY <1>17, <1>18

\* In the middle of a memory write, with a byte to store.
LEMMA WritesOn ==
    ASSUME NEW p, NEW k, Busy(p, k), HasByte, Serial(TRUE), NoReply,
           q_state \in {"CPU_MEM_WR_STG_1", "PPU_MEM_WR_STG_1"},
           CountDown, NextAddr, ref' = ref
    PROVE  /\ Op(p) \in MemWrites /\ q_state = Stg1(Stg0(Op(p)))
           /\ q_state = "CPU_MEM_WR_STG_1" <=> Op(p) = "CPU_MEM_WR"
           /\ \E j \in Nat :
                  /\ j < DataCount(p) /\ k = 5 + j /\ q_addr = AddrAt(p, j)
                  /\ StoredTo(IF Op(p) = "CPU_MEM_WR" THEN cpu_mem ELSE vram, p, j)
                  /\ rd_data = p[6 + j]
                  /\ j + 1 < DataCount(p) => q_addr' = AddrAt(p, j + 1)
                  /\ q_execute_cnt' = DataCount(p) - (j + 1)
                  /\ q_state' = IF j + 1 = DataCount(p) THEN "DECODE" ELSE q_state
                  /\ k + 1 \in 1 .. Len(p) /\ Len(p) = 5 + DataCount(p)
           /\ RxOk' /\ TxOk' /\ line' \in Seq(Byte) /\ got' \in Seq(Byte)
           /\ q_tx_data' \in Byte /\ q_wr_en' \in BOOLEAN
           /\ ToCome(p, k + 1)' /\ rx_fifo'.empty
           /\ k + 1 = Len(p) => line' = << >>
           /\ Fresh(p)'
<1> DEFINE c == DataCount(p)
<1>1. /\ p \in Packets /\ p \in Seq(Byte) /\ WellFormed(p)
      /\ k \in 0 .. Len(p) /\ k \in Nat /\ Len(p) \in Nat
      /\ HostRules /\ TypeInv /\ RxOk /\ TxOk /\ ToCome(p, k) /\ line \in Seq(Byte)
  BY Packet DEF TypeInv
<1>2. /\ Op(p) \in MemWrites /\ q_state = Stg1(Stg0(Op(p))) /\ Fresh(p)
      /\ k \in 5 .. Len(p) - 1 /\ q_execute_cnt = Len(p) - k /\ q_addr = AddrAt(p, k - 5)
      /\ StoredTo(IF Op(p) = "CPU_MEM_WR" THEN cpu_mem ELSE vram, p, k - 5)
  BY Packet, Where DEF Writes
<1>3. /\ Len(p) = 5 + c /\ c \in 0 .. AddrSpace - 1 /\ AddrSpace \in Nat /\ WordOf(p, 2) \in Addr
  BY <1>1, <1>2, PacketShape, ByteFacts DEF MemOps, MemWrites, MemReads, Addr
<1> HIDE DEF c
<1>4. /\ RxOk' /\ line' \in Seq(Byte)
      /\ k + 1 \in 1 .. Len(p) /\ rd_data = p[k + 1]
      /\ ToCome(p, k + 1)' /\ rx_fifo'.empty
      /\ k + 1 = Len(p) => line' = << >>
  BY <1>1, ClocksTrue, RxTake
<1>5. /\ TxOk' /\ got' \in Seq(Byte) /\ q_tx_data' \in Byte /\ q_wr_en' \in BOOLEAN /\ Fresh(p)'
  BY <1>1, <1>2, ClocksTrue, Silent
<1>6. q_state = "CPU_MEM_WR_STG_1" <=> Op(p) = "CPU_MEM_WR"
  BY <1>2, Stages DEF MemWrites
<1>7. PICK j \in Nat : j = k - 5
  BY <1>2
<1>8. j < c /\ k = 5 + j /\ k + 1 = 6 + j /\ j \in Addr
  BY <1>1, <1>2, <1>3, <1>7 DEF Addr
<1>9. /\ q_execute_cnt' = c - (j + 1)
      /\ q_state' = IF j + 1 = c THEN "DECODE" ELSE q_state
  <2>1. PICK e : e = Len(p) - k
    OBVIOUS
  <2>2. e \in 1 .. CntSpace - 1 /\ e - 1 = c - (j + 1) /\ (e = 1 <=> j + 1 = c)
    BY <2>1, <1>3, <1>8, ByteFacts
  <2>3. q_execute_cnt' = e - 1 /\ q_state' = IF e = 1 THEN "DECODE" ELSE q_state
    BY <2>1, <2>2, <1>2, CountsDown
  <2> QED
    BY <2>2, <2>3
<1>10. ASSUME j + 1 < c PROVE q_addr' = AddrAt(p, j + 1)
  <2>1. j + 1 \in Addr
    BY <1>3, <1>8, <1>10 DEF Addr
  <2>2. AddrAt(p, j + 1) = (AddrAt(p, j) + 1) % AddrSpace
    BY <2>1, <1>3, <1>8, Places
  <2> QED
    BY <2>2, <1>2, <1>7 DEF NextAddr
<1>11. /\ j < DataCount(p) /\ k = 5 + j /\ q_addr = AddrAt(p, j)
       /\ StoredTo(IF Op(p) = "CPU_MEM_WR" THEN cpu_mem ELSE vram, p, j)
       /\ rd_data = p[6 + j]
       /\ j + 1 < DataCount(p) => q_addr' = AddrAt(p, j + 1)
       /\ q_execute_cnt' = DataCount(p) - (j + 1)
       /\ q_state' = IF j + 1 = DataCount(p) THEN "DECODE" ELSE q_state
       /\ k + 1 \in 1 .. Len(p) /\ Len(p) = 5 + DataCount(p)
  BY <1>2, <1>3, <1>4, <1>7, <1>8, <1>9, <1>10 DEF c
<1> QED
  BY <1>2, <1>4, <1>5, <1>6, <1>11

LEMMA StepCpuMemWr ==
    ASSUME NEW p, NEW k, Busy(p, k), CpuMemWr
    PROVE  IInv'
<1>1. /\ q_state = "CPU_MEM_WR_STG_1" /\ HasByte /\ Serial(TRUE) /\ NoReply
      /\ cpu_mem' = IF q_addr \in CpuAddrs THEN [cpu_mem EXCEPT ![q_addr] = rd_data] ELSE cpu_mem
      /\ CountDown /\ NextAddr
      /\ UNCHANGED <<vram, cpu_regs, q_err_code, q_cart_cfg, ref>>
  BY DEF CpuMemWr, CpuBus, cfg, host
<1>2. /\ p \in Packets /\ p \in Seq(Byte) /\ WellFormed(p)
      /\ HostRules /\ TypeInv /\ Effect(p)
  BY Packet
<1>3. /\ Op(p) = "CPU_MEM_WR" /\ Op(p) \in MemWrites /\ q_state = Stg1(Stg0(Op(p)))
      /\ RxOk' /\ TxOk' /\ line' \in Seq(Byte) /\ got' \in Seq(Byte)
      /\ q_tx_data' \in Byte /\ q_wr_en' \in BOOLEAN
      /\ ToCome(p, k + 1)' /\ rx_fifo'.empty
      /\ k + 1 = Len(p) => line' = << >>
      /\ Fresh(p)'
  BY <1>1, WritesOn
<1>4. PICK j \in Nat :
          /\ j < DataCount(p) /\ k = 5 + j /\ q_addr = AddrAt(p, j)
          /\ StoredTo(cpu_mem, p, j) /\ rd_data = p[6 + j]
          /\ j + 1 < DataCount(p) => q_addr' = AddrAt(p, j + 1)
          /\ q_execute_cnt' = DataCount(p) - (j + 1)
          /\ q_state' = IF j + 1 = DataCount(p) THEN "DECODE" ELSE q_state
          /\ k + 1 \in 1 .. Len(p) /\ Len(p) = 5 + DataCount(p)
  <2>1. \E j \in Nat :
          /\ j < DataCount(p) /\ k = 5 + j /\ q_addr = AddrAt(p, j)
          /\ StoredTo(IF Op(p) = "CPU_MEM_WR" THEN cpu_mem ELSE vram, p, j)
          /\ rd_data = p[6 + j]
          /\ j + 1 < DataCount(p) => q_addr' = AddrAt(p, j + 1)
          /\ q_execute_cnt' = DataCount(p) - (j + 1)
          /\ q_state' = IF j + 1 = DataCount(p) THEN "DECODE" ELSE q_state
          /\ k + 1 \in 1 .. Len(p) /\ Len(p) = 5 + DataCount(p)
    BY <1>1, WritesOn
  <2> QED
    BY <2>1, <1>3
<1>5. DataCount(p) \in Nat
  BY <1>2, PacketShape, ByteFacts DEF Addr
<1>6. /\ cpu_mem' \in [CpuAddrs -> Byte] /\ StoredTo(cpu_mem', p, j + 1)
      /\ Stored(cpu_mem', p) = Stored(cpu_mem, p)
  <2>1. CpuAddrs \in SUBSET Addr /\ cpu_mem \in [CpuAddrs -> Byte]
    BY <1>2, HciAssumption DEF HciAssumption, TypeInv
  <2>2. cpu_mem' = IF AddrAt(p, j) \in CpuAddrs
                   THEN [cpu_mem EXCEPT ![AddrAt(p, j)] = p[6 + j]] ELSE cpu_mem
    BY <1>1, <1>4
  <2>3. PICK new : new = cpu_mem'
    OBVIOUS
  <2>4. new = Put(cpu_mem, CpuAddrs, AddrAt(p, j), p[6 + j])
    BY <2>2, <2>3 DEF Put
  <2>5. /\ p \in Seq(Byte) /\ WellFormed(p) /\ Op(p) \in MemWrites
        /\ j < DataCount(p) /\ StoredTo(cpu_mem, p, j)
    BY <1>2, <1>3, <1>4
  <2>6. new \in [CpuAddrs -> Byte] /\ StoredTo(new, p, j + 1) /\ Stored(new, p) = Stored(cpu_mem, p)
    BY <2>1, <2>4, <2>5, StoreByte
  <2> QED
    BY <2>3, <2>6
<1>7. TypeInv'
  BY <1>1, <1>2, <1>3, <1>6 DEF TypeInv
<1>8. q_state' # "DISABLED" /\ q_state # "DISABLED"
  BY <1>1, <1>4
<1>9. Effect(p)'
  BY <1>1, <1>2, <1>3, <1>6, <1>8 DEF Effect
<1>10. Asked(p) = 0
  BY <1>2, <1>3, AskedFacts DEF MemReads
<1>11. Answers(p)'
  BY <1>7, <1>10, LenProperties DEF TypeInv, Answers
<1>12. CASE j + 1 = DataCount(p)
  <2>1. q_state' = "DECODE" /\ k + 1 = Len(p)
    BY <1>4, <1>5, <1>12
  <2>2. Stored(cpu_mem', p) = cpu_mem'
    BY <1>2, <1>3, <1>6, <1>12, StoredAll
  <2>3. Same'
    BY <2>1, <2>2, <1>3, <1>7, <1>9, WroteCpu
  <2>4. Owed(0)'
    BY <1>2, <1>3, <1>7, <1>10, FreshOwes
  <2> QED
    BY <2>1, <2>3, <2>4, <1>3, <1>7, Finish DEF IInv
<1>13. CASE j + 1 # DataCount(p)
  <2>1. /\ k + 1 \in 5 .. Len(p) - 1 /\ k + 1 \in 0 .. Len(p) /\ (k + 1) - 5 = j + 1
        /\ j + 1 < DataCount(p) /\ DataCount(p) - (j + 1) = Len(p) - (k + 1)
    BY <1>4, <1>5, <1>13
  <2>2. /\ q_state' = q_state /\ q_addr' = AddrAt(p, (k + 1) - 5)
        /\ q_execute_cnt' = Len(p) - (k + 1) /\ StoredTo(cpu_mem', p, (k + 1) - 5)
    BY <2>1, <1>4, <1>6, <1>13
  <2>3. Writes(p, k + 1)'
    BY <2>1, <2>2, <1>3 DEF Writes
  <2> QED
    BY <2>1, <2>3, <1>2, <1>3, <1>7, <1>9, <1>11, Moves DEF IInv, Doing
<1> QED
  BY <1>12, <1>13

LEMMA StepPpuMemWr ==
    ASSUME NEW p, NEW k, Busy(p, k), PpuMemWr
    PROVE  IInv'
<1>1. /\ q_state = "PPU_MEM_WR_STG_1" /\ HasByte /\ Serial(TRUE) /\ NoReply
      /\ vram' = IF q_addr \in VramAddrs THEN [vram EXCEPT ![q_addr] = rd_data] ELSE vram
      /\ CountDown /\ NextAddr
      /\ UNCHANGED <<cpu_mem, cpu_regs, q_err_code, q_cart_cfg, ref>>
  BY DEF PpuMemWr, CpuIdle, CpuBus, cfg, host
<1>2. /\ p \in Packets /\ p \in Seq(Byte) /\ WellFormed(p)
      /\ HostRules /\ TypeInv /\ Effect(p)
  BY Packet
<1>3. /\ Op(p) \in MemWrites /\ q_state = Stg1(Stg0(Op(p)))
      /\ q_state = "CPU_MEM_WR_STG_1" <=> Op(p) = "CPU_MEM_WR"
      /\ RxOk' /\ TxOk' /\ line' \in Seq(Byte) /\ got' \in Seq(Byte)
      /\ q_tx_data' \in Byte /\ q_wr_en' \in BOOLEAN
      /\ ToCome(p, k + 1)' /\ rx_fifo'.empty
      /\ k + 1 = Len(p) => line' = << >>
      /\ Fresh(p)'
  BY <1>1, WritesOn
<1>4. Op(p) = "PPU_MEM_WR" /\ Op(p) # "CPU_MEM_WR"
  BY <1>1, <1>3 DEF MemWrites
<1>5. PICK j \in Nat :
          /\ j < DataCount(p) /\ k = 5 + j /\ q_addr = AddrAt(p, j)
          /\ StoredTo(vram, p, j) /\ rd_data = p[6 + j]
          /\ j + 1 < DataCount(p) => q_addr' = AddrAt(p, j + 1)
          /\ q_execute_cnt' = DataCount(p) - (j + 1)
          /\ q_state' = IF j + 1 = DataCount(p) THEN "DECODE" ELSE q_state
          /\ k + 1 \in 1 .. Len(p) /\ Len(p) = 5 + DataCount(p)
  <2>1. \E j \in Nat :
          /\ j < DataCount(p) /\ k = 5 + j /\ q_addr = AddrAt(p, j)
          /\ StoredTo(IF Op(p) = "CPU_MEM_WR" THEN cpu_mem ELSE vram, p, j)
          /\ rd_data = p[6 + j]
          /\ j + 1 < DataCount(p) => q_addr' = AddrAt(p, j + 1)
          /\ q_execute_cnt' = DataCount(p) - (j + 1)
          /\ q_state' = IF j + 1 = DataCount(p) THEN "DECODE" ELSE q_state
          /\ k + 1 \in 1 .. Len(p) /\ Len(p) = 5 + DataCount(p)
    BY <1>1, WritesOn
  <2> QED
    BY <2>1, <1>4
<1>6. DataCount(p) \in Nat
  BY <1>2, PacketShape, ByteFacts DEF Addr
<1>7. /\ vram' \in [VramAddrs -> Byte] /\ StoredTo(vram', p, j + 1)
      /\ Stored(vram', p) = Stored(vram, p)
  <2>1. VramAddrs \in SUBSET Addr /\ vram \in [VramAddrs -> Byte]
    BY <1>2, HciAssumption DEF HciAssumption, TypeInv
  <2>2. vram' = IF AddrAt(p, j) \in VramAddrs
                THEN [vram EXCEPT ![AddrAt(p, j)] = p[6 + j]] ELSE vram
    BY <1>1, <1>5
  <2>3. PICK new : new = vram'
    OBVIOUS
  <2>4. new = Put(vram, VramAddrs, AddrAt(p, j), p[6 + j])
    BY <2>2, <2>3 DEF Put
  <2>5. /\ p \in Seq(Byte) /\ WellFormed(p) /\ Op(p) \in MemWrites
        /\ j < DataCount(p) /\ StoredTo(vram, p, j)
    BY <1>2, <1>3, <1>5
  <2>6. new \in [VramAddrs -> Byte] /\ StoredTo(new, p, j + 1) /\ Stored(new, p) = Stored(vram, p)
    BY <2>1, <2>4, <2>5, StoreByte
  <2> QED
    BY <2>3, <2>6
<1>8. TypeInv'
  BY <1>1, <1>2, <1>3, <1>7 DEF TypeInv
<1>9. q_state' # "DISABLED" /\ q_state # "DISABLED"
  BY <1>1, <1>5
<1>10. Effect(p)'
  BY <1>1, <1>2, <1>4, <1>7, <1>9 DEF Effect
<1>11. Asked(p) = 0
  BY <1>2, <1>4, AskedFacts DEF MemReads
<1>12. Answers(p)'
  BY <1>8, <1>11, LenProperties DEF TypeInv, Answers
<1>13. CASE j + 1 = DataCount(p)
  <2>1. q_state' = "DECODE" /\ k + 1 = Len(p)
    BY <1>5, <1>6, <1>13
  <2>2. Stored(vram', p) = vram'
    BY <1>2, <1>3, <1>7, <1>13, StoredAll
  <2>3. Same'
    BY <2>1, <2>2, <1>4, <1>8, <1>10, WrotePpu
  <2>4. Owed(0)'
    BY <1>2, <1>3, <1>8, <1>11, FreshOwes
  <2> QED
    BY <2>1, <2>3, <2>4, <1>3, <1>8, Finish DEF IInv
<1>14. CASE j + 1 # DataCount(p)
  <2>1. /\ k + 1 \in 5 .. Len(p) - 1 /\ k + 1 \in 0 .. Len(p) /\ (k + 1) - 5 = j + 1
        /\ j + 1 < DataCount(p) /\ DataCount(p) - (j + 1) = Len(p) - (k + 1)
    BY <1>5, <1>6, <1>14
  <2>2. /\ q_state' = q_state /\ q_addr' = AddrAt(p, (k + 1) - 5)
        /\ q_execute_cnt' = Len(p) - (k + 1) /\ StoredTo(vram', p, (k + 1) - 5)
    BY <2>1, <1>5, <1>7, <1>14
  <2>3. Writes(p, k + 1)'
    BY <2>1, <2>2, <1>3, <1>4 DEF Writes
  <2> QED
    BY <2>1, <2>3, <1>2, <1>3, <1>8, <1>10, <1>12, Moves DEF IInv, Doing
<1> QED
  BY <1>13, <1>14

\* A packet none of whose replies has been made.
LEMMA FreshNow ==
    ASSUME NEW p, NEW k, Busy(p, k), Fresh(p)
    PROVE  Owed(Asked(p)) /\ ~ q_wr_en /\ ~ tx_fifo.full
<1> DEFINE n == Asked(p)
<1>1. n \in Nat /\ TypeInv /\ TxOk
  BY Packet, AskedFacts
<1>2. /\ Len(got) \in Nat /\ Bit(q_wr_en) = 0 /\ Len(got) + n = Len(ref.replies)
      /\ Count(tx_fifo) = 0 /\ ~ q_wr_en
  BY <1>1, LenProperties DEF TypeInv, Fresh, Bit
<1> HIDE DEF n
<1>3. Made = Len(got) + 0 + 0
  BY <1>2, Zenon DEF Made
<1>4. Len(ref.replies) = Made + n
  BY <1>1, <1>2, <1>3
<1>5. ~ tx_fifo.full
  BY <1>1, <1>2, DepthFits DEF TxOk, Safe
<1> QED
  BY <1>2, <1>4, <1>5 DEF Owed, n

\* Behind its last byte none of a packet waits.
LEMMA Drained ==
    ASSUME NEW p \in Seq(Byte), NEW k, k = Len(p), ToCome(p, k)
    PROVE  ~ HasByte /\ rx_fifo.empty
<1>1. k \in Nat /\ ~ (k < k)
  BY LenProperties
<1>2. rx_fifo.empty
  BY <1>1, Zenon DEF ToCome
<1> QED
  BY <1>2 DEF HasByte

\* The only answer of a packet.
LEMMA OnlyAnswer ==
    ASSUME NEW p, NEW k, Busy(p, k), Fresh(p), Asked(p) = 1,
           NEW n, Clocks(n), ref' = ref, NEW b \in Byte, Reply(b), b \in Asks(p, 1)
    PROVE  /\ TxOk' /\ got' \in Seq(Byte) /\ q_tx_data' \in Byte
           /\ q_wr_en' \in BOOLEAN /\ Owed(0)'
<1>1. HostRules /\ TypeInv /\ TxOk
  BY Packet
<1>2. Owed(1) /\ ~ q_wr_en /\ ~ tx_fifo.full
  BY FreshNow
<1>3. b \in ref.replies[Len(ref.replies) - 1 + 1]
  BY DEF Asks
<1>4. PICK m \in Nat \ {0} : m = 1
  OBVIOUS
<1>5. Owed(m) /\ b \in ref.replies[Len(ref.replies) - m + 1] /\ m - 1 = 0
  BY <1>2, <1>3, <1>4
<1>6. /\ TxOk' /\ got' \in Seq(Byte) /\ q_tx_data' \in Byte
      /\ q_wr_en' \in BOOLEAN /\ Owed(m - 1)'
  BY <1>1, <1>2, <1>5, AnswerNext
<1> QED
  BY <1>5, <1>6

LEMMA RegSmall == \A r \in RegSel : r \in Nat /\ r % 16 = r
BY DEF RegSel

LEMMA StepCpuRegRd ==
    ASSUME NEW p, NEW k, Busy(p, k), CpuRegRd
    PROVE  IInv'
<1>1. /\ q_state = "CPU_REG_RD" /\ HasByte /\ Serial(TRUE)
      /\ Reply(At(cpu_regs, rd_data % 16)) /\ q_state' = "DECODE"
      /\ UNCHANGED <<cpu_mem, vram, cpu_regs, q_err_code, q_cart_cfg, ref>>
  BY BusIdleStill DEF CpuRegRd, Goto, cfg, host
<1>2. /\ p \in Packets /\ p \in Seq(Byte) /\ WellFormed(p)
      /\ k \in 0 .. Len(p) /\ HostRules /\ TypeInv /\ RxOk /\ TxOk
      /\ ToCome(p, k) /\ Effect(p) /\ Answers(p) /\ line \in Seq(Byte)
  BY Packet DEF TypeInv
<1>3. Op(p) = "CPU_REG_RD" /\ k = 1 /\ Fresh(p)
  BY <1>1, Packet, Where DEF Single
<1>4. Len(p) = 2 /\ p[2] \in RegSel /\ Asked(p) = 1
  BY <1>2, <1>3, PacketShape, AskedFacts
<1>5. /\ RxOk' /\ line' \in Seq(Byte) /\ rd_data = p[2] /\ rx_fifo'.empty /\ line' = << >>
  <2>1. /\ RxOk' /\ line' \in Seq(Byte) /\ rd_data = p[k + 1]
        /\ rx_fifo'.empty /\ (k + 1 = Len(p) => line' = << >>)
    BY <1>1, <1>2, ClocksTrue, RxTake
  <2> QED
    BY <2>1, <1>3, <1>4
<1>6. At(cpu_regs, rd_data % 16) = cpu_regs[p[2]] /\ cpu_regs[p[2]] \in Byte
  <2>1. rd_data % 16 = p[2]
    BY <1>4, <1>5, RegSmall
  <2> QED
    BY <2>1, <1>2, <1>4 DEF At, TypeInv
<1>7. Asks(p, 1) = {cpu_regs[p[2]]}
  BY <1>2, <1>3, <1>4 DEF Answers, AnswersAt
<1>8. /\ TxOk' /\ got' \in Seq(Byte) /\ q_tx_data' \in Byte
      /\ q_wr_en' \in BOOLEAN /\ Owed(0)'
  <2>1. Clocks(1) /\ ref' = ref /\ Reply(cpu_regs[p[2]]) /\ cpu_regs[p[2]] \in Asks(p, 1)
    BY <1>1, <1>6, <1>7, ClocksTrue
  <2> QED
    BY <2>1, <1>3, <1>4, <1>6, OnlyAnswer
<1>9. TypeInv'
  BY <1>1, <1>2, <1>5, <1>8, TypeKept
<1>10. Effect(p)'
  BY <1>1, <1>2, Kept
<1>11. Same'
  BY <1>1, <1>3, <1>9, <1>10, NoEffect
<1> QED
  BY <1>1, <1>5, <1>8, <1>9, <1>11, Finish DEF IInv

LEMMA StepQueryErrCode ==
    ASSUME NEW p, NEW k, Busy(p, k), QueryErrCode
    PROVE  IInv'
<1> DEFINE b == IF q_err_code THEN 2 ELSE 0
<1>1. /\ q_state = "QUERY_ERR_CODE" /\ Serial(FALSE) /\ Reply(b) /\ q_state' = "DECODE"
      /\ UNCHANGED <<cpu_mem, vram, cpu_regs, q_err_code, q_cart_cfg, ref>>
  BY BusIdleStill DEF QueryErrCode, Goto, cfg, host
<1>2. /\ p \in Packets /\ p \in Seq(Byte) /\ WellFormed(p)
      /\ k \in 0 .. Len(p) /\ HostRules /\ TypeInv /\ RxOk /\ TxOk
      /\ ToCome(p, k) /\ Effect(p) /\ Answers(p) /\ line \in Seq(Byte)
  BY Packet DEF TypeInv
<1>3. Op(p) = "QUERY_ERR_CODE" /\ k = 1 /\ Fresh(p)
  BY <1>1, Packet, Where DEF Single
<1>4. k = Len(p) /\ Asked(p) = 1
  BY <1>2, <1>3, PacketShape, AskedFacts
<1>5. RxOk' /\ line' \in Seq(Byte) /\ rx_fifo'.empty /\ line' = << >>
  <2>1. ~ HasByte
    BY <1>4, Packet, Drained
  <2> QED
    BY <2>1, <1>1, <1>2, <1>4, ClocksFalse, RxKeep
<1>6. b \in Byte /\ Asks(p, 1) = {b}
  BY <1>2, <1>3, <1>4, ByteFacts DEF Answers, AnswersAt
<1>7. Clocks(0) /\ ref' = ref
  BY <1>1, ClocksFalse
<1> HIDE DEF b
<1>8. /\ TxOk' /\ got' \in Seq(Byte) /\ q_tx_data' \in Byte
      /\ q_wr_en' \in BOOLEAN /\ Owed(0)'
  BY <1>1, <1>3, <1>4, <1>6, <1>7, OnlyAnswer
<1>9. TypeInv'
  BY <1>1, <1>2, <1>5, <1>8, TypeKept
<1>10. Effect(p)'
  BY <1>1, <1>2, Kept
<1>11. Same'
  BY <1>1, <1>3, <1>9, <1>10, NoEffect
<1> QED
  BY <1>1, <1>5, <1>8, <1>9, <1>11, Finish DEF IInv

LEMMA StepCpuRegWrSel ==
    ASSUME NEW p, NEW k, Busy(p, k), CpuRegWrSel
    PROVE  IInv'
<1>1. /\ q_state = "CPU_REG_WR_STG_0" /\ HasByte /\ Serial(TRUE) /\ NoReply
      /\ q_state' = "CPU_REG_WR_STG_1" /\ q_addr' = rd_data
      /\ UNCHANGED <<cpu_mem, vram, cpu_regs, q_err_code, q_cart_cfg, ref>>
  BY BusIdleStill DEF CpuRegWrSel, Goto, cfg, host
<1>2. Op(p) = "CPU_REG_WR" /\ k = 1 /\ Fresh(p)
  BY <1>1, Packet, Where DEF Single
<1>3. /\ TypeInv' /\ RxOk' /\ TxOk' /\ p \in Packets
      /\ k + 1 \in 1 .. Len(p) /\ rd_data = p[k + 1]
      /\ ToCome(p, k + 1)' /\ Effect(p)' /\ Answers(p)' /\ Fresh(p)'
  BY <1>1, <1>2, Packet, Passes
<1>4. k + 1 = 2 /\ k + 1 \in 0 .. Len(p)
  BY <1>2, <1>3
<1>5. Single(p, k + 1)'
  BY <1>1, <1>2, <1>3, <1>4 DEF Single
<1> QED
  BY <1>3, <1>4, <1>5, Moves DEF IInv, Doing

LEMMA StepCpuRegWr ==
    ASSUME NEW p, NEW k, Busy(p, k), CpuRegWr
    PROVE  IInv'
<1>1. /\ q_state = "CPU_REG_WR_STG_1" /\ HasByte /\ Serial(TRUE) /\ NoReply
      /\ q_state' = "DECODE"
      /\ cpu_regs' = IF q_addr % 16 \in RegSel
                     THEN [cpu_regs EXCEPT ![q_addr % 16] = rd_data] ELSE cpu_regs
      /\ UNCHANGED <<cpu_mem, vram, q_err_code, q_cart_cfg, ref>>
  BY DEF CpuRegWr, CpuIdle, CpuBus, Goto, cfg, host
<1>2. /\ p \in Packets /\ p \in Seq(Byte) /\ WellFormed(p)
      /\ k \in 0 .. Len(p) /\ HostRules /\ TypeInv /\ RxOk /\ TxOk
      /\ ToCome(p, k) /\ Effect(p) /\ Answers(p) /\ line \in Seq(Byte)
  BY Packet DEF TypeInv
<1>3. Op(p) = "CPU_REG_WR" /\ k = 2 /\ Fresh(p) /\ q_addr = p[2]
  BY <1>1, Packet, Where DEF Single
<1>4. Len(p) = 3 /\ p[2] \in RegSel /\ Asked(p) = 0
  BY <1>2, <1>3, PacketShape, AskedFacts DEF MemReads
<1>5. /\ RxOk' /\ line' \in Seq(Byte) /\ rd_data = p[3] /\ p[3] \in Byte
      /\ rx_fifo'.empty /\ line' = << >>
  <2>1. /\ RxOk' /\ line' \in Seq(Byte) /\ rd_data = p[k + 1] /\ p[k + 1] \in Byte
        /\ rx_fifo'.empty /\ (k + 1 = Len(p) => line' = << >>)
    BY <1>1, <1>2, ClocksTrue, RxTake
  <2> QED
    BY <2>1, <1>3, <1>4
<1>6. cpu_regs' = [cpu_regs EXCEPT ![p[2]] = p[3]]
  <2>1. q_addr % 16 = p[2]
    BY <1>3, <1>4, RegSmall
  <2> QED
    BY <2>1, <1>1, <1>4, <1>5
<1>7. /\ TxOk' /\ got' \in Seq(Byte) /\ q_tx_data' \in Byte /\ q_wr_en' \in BOOLEAN /\ Fresh(p)'
  BY <1>1, <1>2, <1>3, ClocksTrue, Silent
<1>8. TypeInv'
  BY <1>1, <1>2, <1>5, <1>6, <1>7 DEF TypeInv
<1>9. Same'
  <2>1. /\ ref.mem = cpu_mem /\ ref.vram = vram /\ ref.cart = q_cart_cfg
        /\ ref.regs = [cpu_regs EXCEPT ![p[2]] = p[3]]
    BY <1>2, <1>3 DEF Effect
  <2>2. ref.err = q_err_code
    BY <1>2, <1>3 DEF Effect, TypeInv
  <2>3. ref.run = (q_state = "DISABLED")
    BY <1>2, <1>3 DEF Effect
  <2>4. ref'.run = (q_state' = "DISABLED")
    BY <2>3, <1>1
  <2> QED
    BY <2>1, <2>2, <2>4, <1>1, <1>6 DEF Same
<1>10. Owed(0)'
  BY <1>2, <1>4, <1>7, <1>8, FreshOwes
<1> QED
  BY <1>1, <1>5, <1>7, <1>8, <1>9, <1>10, Finish DEF IInv

\* While PPU_DISABLE goes through its stages no byte can come: the host is not
\* that fast.  The zeroes it writes meet no memory.
LEMMA StepPpuDisable ==
    ASSUME NEW p, NEW k, Busy(p, k), PpuDisable, NEW ok \in BOOLEAN, Stage(ok)
    PROVE  IInv'
<1>n. PICK n : n = q_decode_cnt
  OBVIOUS
<1>1. /\ q_state = "PPU_DISABLE" /\ Serial(FALSE) /\ NoReply
      /\ CpuBus(n \notin {1, 3}, 0) /\ q_decode_cnt' = n + 1
      /\ q_state' = IF n = 5 THEN "DECODE" ELSE "PPU_DISABLE"
      /\ UNCHANGED <<vram, cpu_regs, q_err_code, q_cart_cfg, ref>>
  BY <1>n DEF PpuDisable, Goto, cfg, host
<1>2. /\ p \in Packets /\ p \in Seq(Byte) /\ WellFormed(p)
      /\ k \in 0 .. Len(p) /\ HostRules /\ TypeInv /\ RxOk /\ TxOk
      /\ ToCome(p, k) /\ Effect(p) /\ Answers(p) /\ line \in Seq(Byte)
  BY Packet DEF TypeInv
<1>3. /\ Op(p) = "PPU_DISABLE" /\ k = 1 /\ Fresh(p) /\ n \in 0 .. 5
      /\ rx_wait >= RxClks - 2 - n
  BY <1>1, <1>n, Packet, Where DEF Single
<1>4. k = Len(p) /\ Asked(p) = 0
  BY <1>2, <1>3, PacketShape, AskedFacts DEF MemReads
<1>5. ~ HasByte /\ rx_fifo.empty
  BY <1>2, <1>4, Drained
<1>6. cpu_mem' = cpu_mem
  <2>1. n \in {1, 3} => q_addr = PpuBase + n \div 2
    BY <1>1, <1>n DEF Stage
  <2>2. n \in {1, 3} => PpuSelected(q_addr)
    <3>1. 1 \div 2 = 0 /\ 3 \div 2 = 1 /\ PpuBase + 0 = PpuBase
      BY PpuPlaces
    <3> QED
      BY <3>1, <2>1, PpuPlaces
  <2>3. n \in {1, 3} => q_addr \notin CpuAddrs
    BY <2>2, <1>2 DEF HostRules
  <2> QED
    BY <2>3, <1>1 DEF CpuBus
<1>7. q_state' # "DISABLED" /\ q_state # "DISABLED"
  BY <1>1
<1>8. /\ TypeInv' /\ RxOk' /\ TxOk' /\ ToCome(p, k)' /\ Effect(p)' /\ Answers(p)' /\ Fresh(p)'
      /\ rx_fifo'.empty /\ line' = << >>
      /\ rx_wait' = (IF rx_wait > 0 THEN rx_wait - 1 ELSE 0) /\ rx_wait \in Nat
  BY <1>1, <1>2, <1>3, <1>4, <1>5, <1>6, <1>7, Waits
<1>9. CASE n = 5
  <2>1. q_state' = "DECODE"
    BY <1>1, <1>9
  <2>2. Same'
    BY <2>1, <1>3, <1>8, NoEffect
  <2>3. Owed(0)'
    BY <1>2, <1>4, <1>8, FreshOwes
  <2> QED
    BY <2>1, <2>2, <2>3, <1>8, Finish DEF IInv
<1>10. CASE n # 5
  <2>1. PICK m : m = n + 1
    OBVIOUS
  <2>2. m \in 0 .. 5 /\ q_decode_cnt' = m /\ q_state' = "PPU_DISABLE"
    BY <2>1, <1>1, <1>3, <1>10
  <2>3. rx_wait' >= RxClks - 2 - m
    <3>1. PICK w : w = rx_wait'
      OBVIOUS
    <3>2. w >= RxClks - 2 - m
      BY SMTT(30), <3>1, <2>1, <1>2, <1>3, <1>8, Rates
    <3> QED
      BY <3>1, <3>2, Zenon
  <2>4. Single(p, k)'
    BY <2>2, <2>3, <1>3, <1>8, Zenon DEF Single
  <2> QED
    BY <2>4, <1>2, <1>8, Moves DEF IInv, Doing
<1> QED
  BY <1>9, <1>10

LEMMA StepCartSetCfgCnt ==
    ASSUME NEW p, NEW k, Busy(p, k), CartSetCfgCnt
    PROVE  IInv'
<1>1. /\ q_state = "CART_SET_CFG_STG_0" /\ Serial(FALSE) /\ NoReply
      /\ q_state' = "CART_SET_CFG_STG_1" /\ q_execute_cnt' = 4
      /\ UNCHANGED <<cpu_mem, vram, cpu_regs, q_err_code, q_cart_cfg, ref>>
  BY BusIdleStill DEF CartSetCfgCnt, Goto, cfg, host
<1>2. Op(p) = "CART_SET_CFG" /\ k = 1 /\ Fresh(p) /\ rx_fifo.empty
  BY <1>1, Packet, Where DEF Single
<1>3. /\ TypeInv' /\ RxOk' /\ TxOk' /\ p \in Packets /\ k \in 0 .. Len(p)
      /\ ToCome(p, k)' /\ Effect(p)' /\ Answers(p)' /\ Fresh(p)'
  BY <1>1, <1>2, Packet, Waits DEF HasByte
<1>4. Single(p, k)'
  <2>1. k \in 1 .. 5 /\ q_execute_cnt' = 5 - k /\ \A i \in 1 .. k - 1 : FALSE
    BY <1>1, <1>2
  <2> QED
    BY <2>1, <1>1, <1>2, <1>3 DEF Single
<1> QED
  BY <1>3, <1>4, Moves DEF IInv, Doing

LEMMA ShiftIn ==
    ASSUME NEW s \in Seq(Byte), Len(s) = 5, NEW b \in Byte
    PROVE  /\ Append(Tail(s), b) \in Seq(Byte) /\ Len(Append(Tail(s), b)) = 5
           /\ Append(Tail(s), b)[5] = b
           /\ \A i \in 1 .. 4 : Append(Tail(s), b)[i] = s[i + 1]
<1>1. s # << >>
  <2>1. s = << >> => Len(s) = 0
    BY EmptySeq
  <2> QED
    BY <2>1
<1>2. PICK t : t = Tail(s)
  OBVIOUS
<1>3. t \in Seq(Byte) /\ Len(t) = 4 /\ \A i \in 1 .. 4 : t[i] = s[i + 1]
  <2>1. t \in Seq(Byte) /\ Len(t) = Len(s) - 1 /\ \A i \in 1 .. Len(t) : t[i] = s[i + 1]
    BY <1>1, <1>2, HeadTailProperties
  <2>2. 5 - 1 = 4
    OBVIOUS
  <2>3. Len(t) = 4
    BY <2>1, <2>2, Zenon
  <2> QED
    BY <2>1, <2>3, Zenon
<1>4. PICK u : u = Append(t, b)
  OBVIOUS
<1>5. u \in Seq(Byte) /\ Len(u) = 5 /\ u[5] = b /\ \A i \in 1 .. 4 : u[i] = t[i]
  <2>1. /\ u \in Seq(Byte) /\ Len(u) = Len(t) + 1 /\ u[Len(t) + 1] = b
        /\ \A i \in 1 .. Len(t) : u[i] = t[i]
    <3>1. t \in Seq(Byte)
      BY <1>3
    <3>2. /\ Append(t, b) \in Seq(Byte) /\ Len(Append(t, b)) = Len(t) + 1
          /\ Append(t, b)[Len(t) + 1] = b
          /\ \A i \in 1 .. Len(t) : Append(t, b)[i] = t[i]
      BY <3>1, AppendProperties
    <3> QED
      BY <3>2, <1>4, Zenon
  <2>2. 4 + 1 = 5
    OBVIOUS
  <2> QED
    BY <2>1, <2>2, <1>3, Zenon
<1> QED
  BY <1>2, <1>3, <1>4, <1>5

\* The five bytes shift through the register: the first one ends up in front.
LEMMA StepCartSetCfg ==
    ASSUME NEW p, NEW k, Busy(p, k), CartSetCfg
    PROVE  IInv'
<1>1. /\ q_state = "CART_SET_CFG_STG_1" /\ HasByte /\ Serial(TRUE) /\ NoReply
      /\ q_execute_cnt' = (q_execute_cnt + CntSpace - 1) % CntSpace
      /\ q_cart_cfg' = Append(Tail(q_cart_cfg), rd_data)
      /\ q_state' = IF q_execute_cnt = 0 THEN "DECODE" ELSE "CART_SET_CFG_STG_1"
      /\ UNCHANGED <<cpu_mem, vram, cpu_regs, q_err_code, ref>>
  BY BusIdleStill DEF CartSetCfg, Goto, host
<1>2. /\ p \in Packets /\ p \in Seq(Byte) /\ WellFormed(p)
      /\ k \in 0 .. Len(p) /\ HostRules /\ TypeInv /\ RxOk /\ TxOk
      /\ ToCome(p, k) /\ Effect(p) /\ Answers(p) /\ line \in Seq(Byte)
  BY Packet DEF TypeInv
<1>3. /\ Op(p) = "CART_SET_CFG" /\ k \in 1 .. 5 /\ Fresh(p) /\ q_execute_cnt = 5 - k
      /\ \A i \in 1 .. k - 1 : q_cart_cfg[6 - k + i] = p[1 + i]
  BY <1>1, Packet, Where DEF Single
<1>4. Len(p) = 6 /\ Asked(p) = 0
  BY <1>2, <1>3, PacketShape, AskedFacts DEF MemReads
<1>5. /\ RxOk' /\ line' \in Seq(Byte) /\ k + 1 \in 1 .. Len(p)
      /\ rd_data = p[k + 1] /\ p[k + 1] \in Byte
      /\ ToCome(p, k + 1)' /\ rx_fifo'.empty /\ (k + 1 = Len(p) => line' = << >>)
  BY <1>1, <1>2, ClocksTrue, RxTake
<1>6. /\ TxOk' /\ got' \in Seq(Byte) /\ q_tx_data' \in Byte /\ q_wr_en' \in BOOLEAN /\ Fresh(p)'
  BY <1>1, <1>2, <1>3, ClocksTrue, Silent
<1>9. PICK s : s = q_cart_cfg'
  OBVIOUS
<1>10. /\ s \in Seq(Byte) /\ Len(s) = 5 /\ s[5] = p[k + 1]
       /\ \A i \in 1 .. 4 : s[i] = q_cart_cfg[i + 1]
  <2>1. q_cart_cfg \in Seq(Byte) /\ Len(q_cart_cfg) = 5
    BY <1>2 DEF TypeInv
  <2>2. s = Append(Tail(q_cart_cfg), p[k + 1])
    BY <1>1, <1>5, <1>9
  <2> QED
    BY ZenonT(60), <2>1, <2>2, <1>5, ShiftIn
<1>11. \A i \in 1 .. k : s[5 - k + i] = p[1 + i]
  <2> SUFFICES ASSUME NEW i \in 1 .. k PROVE s[5 - k + i] = p[1 + i]
    OBVIOUS
  <2>1. CASE i = k
    BY <2>1, <1>3, <1>10
  <2>2. CASE i # k
    <3>1. i \in 1 .. k - 1 /\ 5 - k + i \in 1 .. 4 /\ (5 - k + i) + 1 = 6 - k + i
      BY <2>2, <1>3
    <3> QED
      BY <3>1, <1>3, <1>10
  <2> QED
    BY <2>1, <2>2
<1>12. TypeInv'
  BY <1>1, <1>2, <1>5, <1>6, <1>9, <1>10 DEF TypeInv
<1>13. CASE k = 5
  <2>1. q_state' = "DECODE" /\ k + 1 = Len(p)
    BY <1>1, <1>3, <1>4, <1>13
  <2>2. s = SubSeq(p, 2, 6)
    <3>1. \A i \in 2 .. 6 : p[i] \in Byte
      <4>1. \A i \in 1 .. Len(p) : p[i] \in Byte
        BY <1>2, PacketShape
      <4>2. \A i \in 2 .. 6 : i \in 1 .. Len(p)
        BY <1>4
      <4> QED
        BY <4>1, <4>2
    <3>2. /\ SubSeq(p, 2, 6) \in Seq(Byte) /\ Len(SubSeq(p, 2, 6)) = 5
          /\ \A i \in 1 .. 5 : SubSeq(p, 2, 6)[i] = p[2 + i - 1]
      <4>1. PICK u : u = SubSeq(p, 2, 6)
        OBVIOUS
      <4>2. /\ u \in Seq(Byte) /\ Len(u) = (IF 2 <= 6 THEN 6 - 2 + 1 ELSE 0)
            /\ \A i \in 1 .. 6 - 2 + 1 : u[i] = p[2 + i - 1]
        BY <3>1, <4>1, SubSeqProperties
      <4>3. u \in Seq(Byte) /\ Len(u) = 5 /\ \A i \in 1 .. 5 : u[i] = p[2 + i - 1]
        BY <4>2
      <4> QED
        BY <4>1, <4>3
    <3>3. \A i \in 1 .. 5 : s[i] = p[1 + i]
      <4>1. \A i \in 1 .. 5 : 5 - k + i = i
        BY <1>13
      <4> QED
        BY <4>1, <1>11, <1>13
    <3>4. \A i \in 1 .. 5 : 2 + i - 1 = 1 + i
      OBVIOUS
    <3>5. \A i \in 1 .. 5 : s[i] = SubSeq(p, 2, 6)[i]
      BY <3>2, <3>3, <3>4
    <3> QED
      BY <3>2, <3>5, <1>10, SeqEqual
  <2>3. Same'
    <3>1. /\ ref.mem = cpu_mem /\ ref.vram = vram /\ ref.regs = cpu_regs
          /\ ref.cart = SubSeq(p, 2, 6)
      BY <1>2, <1>3 DEF Effect
    <3>2. ref.err = q_err_code
      BY <1>2, <1>3 DEF Effect, TypeInv
    <3>3. ref.run = (q_state = "DISABLED")
      BY <1>2, <1>3 DEF Effect
    <3>4. ref'.run = (q_state' = "DISABLED")
      BY <3>3, <2>1, <1>1
    <3> QED
      BY <3>1, <3>2, <3>4, <2>2, <1>1, <1>9 DEF Same
  <2>4. Owed(0)'
    BY <1>2, <1>4, <1>6, <1>12, FreshOwes
  <2> QED
    BY <2>1, <2>3, <2>4, <1>5, <1>6, <1>12, Finish DEF IInv
<1>14. CASE k # 5
  <2>1. PICK j : j = k + 1
    OBVIOUS
  <2>2. j \in 1 .. 5 /\ j \in 0 .. Len(p) /\ q_state' = "CART_SET_CFG_STG_1" /\ 5 - k >= 1
    BY <2>1, <1>1, <1>3, <1>4, <1>14
  <2>3. q_execute_cnt' = 5 - j
    <3>1. PICK e : e = 5 - k
      OBVIOUS
    <3>2. e \in 1 .. CntSpace - 1 /\ e - 1 = 5 - j
      BY SMTT(30), <3>1, <2>1, <2>2, <1>3, ByteFacts
    <3>3. (e + CntSpace - 1) % CntSpace = e - 1
      <4>1. PICK n, x : n = CntSpace /\ x = e + n - 1
        OBVIOUS
      <4>2. n \in Nat \ {0} /\ x \in 0 .. 2 * n - 1 /\ ~ (x < n) /\ x - n = e - 1
        BY <4>1, <3>2, ByteFacts
      <4>3. x % n = x - n
        BY <4>2, WrapsOnce
      <4> QED
        BY <4>1, <4>2, <4>3
    <3> QED
      BY <3>1, <3>2, <3>3, <1>1, <1>3
  <2>4. \A i \in 1 .. j - 1 : q_cart_cfg'[6 - j + i] = p[1 + i]
    <3>1. j - 1 = k /\ \A i \in 1 .. k : 6 - j + i = 5 - k + i
      BY <2>1, <1>3
    <3> QED
      BY <3>1, <1>9, <1>11
  <2>5. Single(p, j)'
    BY <2>2, <2>3, <2>4, <1>3, <1>6 DEF Single
  <2>6. Effect(p)'
    <3>1. q_state' # "DISABLED" /\ q_state # "DISABLED"
      BY <2>2, <1>1
    <3> QED
      BY <3>1, <1>1, <1>2, <1>3 DEF Effect
  <2>7. Answers(p)'
    BY <1>4, <1>12, LenProperties DEF TypeInv, Answers
  <2>8. ToCome(p, j)'
    BY <2>1, <1>5
  <2> QED
    BY <2>2, <2>5, <2>6, <2>7, <2>8, <1>2, <1>5, <1>6, <1>12, Moves DEF IInv, Doing
<1> QED
  BY <1>13, <1>14

\* While an ECHO waits for its next byte the transmitter gets on.
LEMMA EchoWaits ==
    ASSUME NEW p, NEW k, Busy(p, k), Echoes(p, k), rx_fifo.empty,
           Serial(FALSE), NoReply, ref' = ref, rx_wait \in Nat,
           \/ rx_fifo'.empty /\ rx_wait' = (IF rx_wait > 0 THEN rx_wait - 1 ELSE 0)
           \/ ~ rx_fifo'.empty /\ rx_wait = 0
    PROVE  /\ Count(tx_fifo') + Bit(q_wr_en') <= 1
           /\ Count(tx_fifo') = 1 => ~ tx_fifo'.empty
           /\ TxBusy' <= IF rx_fifo'.empty THEN rx_wait' + 2 ELSE 1
<1>1. PICK c, b, t, n, d, u :
          /\ c = Count(tx_fifo) /\ b = Bit(q_wr_en) /\ t = tx_left /\ n = TxClks
          /\ d = Count(tx_fifo') /\ u = tx_left'
  OBVIOUS
<1>2. HostRules /\ TypeInv /\ TxOk
  BY Packet
<1>3. /\ Count(tx_fifo) + Bit(q_wr_en) <= 1
      /\ Count(tx_fifo) = 1 => ~ tx_fifo.empty
      /\ TxBusy <= IF rx_fifo.empty THEN rx_wait + 2 ELSE 1
  BY DEF Echoes
<1>4. c + b <= 1 /\ (c = 1 => ~ tx_fifo.empty) /\ TxBusy <= rx_wait + 2
  BY <1>1, <1>3
<1>5. ~ q_wr_en' /\ q_wr_en' \in BOOLEAN /\ Bit(q_wr_en') = 0
  BY DEF NoReply, Bit
<1>6. /\ Count(tx_fifo) \in 0 .. Depth
      /\ Count(tx_fifo)' = Count(tx_fifo) + Bit(q_wr_en) - (IF tx_left = 1 THEN 1 ELSE 0)
      /\ tx_left' = IF tx_left > 0 THEN tx_left - 1
                    ELSE IF tx_fifo.empty THEN 0 ELSE TxClks
      /\ tx_left \in 0 .. TxClks
      /\ Count(tx_fifo) = 0 /\ q_wr_en => ~ tx_fifo'.empty
      /\ ~ tx_fifo.empty /\ tx_left # 1 => ~ tx_fifo'.empty
  BY <1>2, <1>5, ClocksFalse, TxClock
<1>7. (c = 0 => tx_fifo.empty) /\ (t > 0 => ~ tx_fifo.empty)
  BY <1>1, <1>2 DEF TxOk, Safe
<1>8. n \in Nat /\ n >= 1 /\ Depth \in Nat
  BY <1>1, <1>2, Rates, DepthFits
<1>9. /\ c \in Nat /\ t \in 0 .. n
      /\ d = c + b - (IF t = 1 THEN 1 ELSE 0)
      /\ u = IF t > 0 THEN t - 1 ELSE IF tx_fifo.empty THEN 0 ELSE n
      /\ b \in {0, 1} /\ (b = 1 <=> q_wr_en)
  <2>1. b \in {0, 1} /\ (b = 1 <=> q_wr_en)
    BY <1>1, <1>2 DEF Bit, TypeInv
  <2>2. c \in Nat
    BY <1>1, <1>6, <1>8
  <2>3. /\ t \in 0 .. n /\ d = c + b - (IF t = 1 THEN 1 ELSE 0)
        /\ u = IF t > 0 THEN t - 1 ELSE IF tx_fifo.empty THEN 0 ELSE n
    BY <1>1, <1>6, Zenon
  <2> QED
    BY <2>1, <2>2, <2>3
<1>10. TxBusy = IF b = 1 THEN n + 2 ELSE IF c = 0 THEN 0 ELSE IF t = 0 THEN n + 1 ELSE t
  BY <1>1, <1>9 DEF TxBusy
<1>11. TxBusy' = IF d = 0 THEN 0 ELSE IF u = 0 THEN n + 1 ELSE u
  BY <1>1, <1>5, Zenon DEF TxBusy
<1>12. c \in {0, 1} /\ (c = 1 => b = 0) /\ (t > 0 => c = 1) /\ (tx_fifo.empty <=> c = 0)
  BY <1>4, <1>7, <1>9
<1>13. d \in {0, 1} /\ (d = 1 <=> b = 1 \/ (c = 1 /\ t # 1))
  BY <1>9, <1>12
<1>14. Count(tx_fifo') + Bit(q_wr_en') <= 1
  <2>1. d + 0 <= 1
    BY <1>13
  <2> QED
    BY <2>1, <1>1, <1>5, Zenon
<1>15. Count(tx_fifo') = 1 => ~ tx_fifo'.empty
  <2>1. d = 1 => (c = 0 /\ b = 1) \/ (c = 1 /\ t # 1)
    BY <1>12, <1>13
  <2> QED
    BY <2>1, <1>1, <1>6, <1>9, <1>12, Zenon
<1>16. PICK x : x = TxBusy'
  OBVIOUS
<1>17. x <= rx_wait + 1 /\ x <= (IF rx_wait > 0 THEN rx_wait - 1 ELSE 0) + 2
       /\ (rx_wait = 0 => x <= 1)
  <2>1. CASE b = 1
    <3>1. c = 0 /\ t = 0 /\ d = 1 /\ u = 0 /\ tx_fifo.empty
      BY <2>1, <1>9, <1>12, <1>13
    <3>2. x = n + 1 /\ n + 2 <= rx_wait + 2
      BY <3>1, <2>1, <1>4, <1>10, <1>11, <1>16
    <3> QED
      BY <3>2, <1>8
  <2>2. CASE b = 0 /\ c = 0
    <3>1. d = 0
      BY <2>2, <1>13
    <3>2. x = 0
      BY <3>1, <1>11, <1>16
    <3> QED
      BY <3>2
  <2>3. CASE b = 0 /\ c = 1 /\ t = 0
    <3>1. d = 1 /\ u = n /\ u # 0
      BY <2>3, <1>8, <1>9, <1>12, <1>13
    <3>2. x = n
      BY <3>1, <1>11, <1>16
    <3>3. n + 1 <= rx_wait + 2
      BY <2>3, <1>4, <1>10
    <3> QED
      BY <3>2, <3>3, <1>8
  <2>4. CASE b = 0 /\ c = 1 /\ t > 0
    <3>1. t <= rx_wait + 2 /\ t \in Nat /\ t >= 1
      BY <2>4, <1>4, <1>8, <1>9, <1>10
    <3>2. x = t - 1
      <4>1. CASE t = 1
        <5>1. d = 0
          BY <4>1, <2>4, <1>13
        <5> QED
          BY <5>1, <4>1, <1>11, <1>16
      <4>2. CASE t # 1
        <5>1. d = 1 /\ u = t - 1 /\ u # 0
          BY <4>2, <3>1, <2>4, <1>9, <1>13
        <5> QED
          BY <5>1, <1>11, <1>16
      <4> QED
        BY <4>1, <4>2
    <3> QED
      BY <3>1, <3>2
  <2> QED
    BY <2>1, <2>2, <2>3, <2>4, <1>8, <1>9, <1>12
<1>18. TxBusy' <= IF rx_fifo'.empty THEN rx_wait' + 2 ELSE 1
  BY <1>16, <1>17, Zenon
<1> QED
  BY <1>14, <1>15, <1>18

LEMMA StepWait ==
    ASSUME NEW p, NEW k, Busy(p, k), Wait
    PROVE  IInv'
<1>1. /\ Serial(FALSE) /\ NoReply /\ q_ram_a' = q_addr
      /\ UNCHANGED <<cpu_mem, vram, cpu_regs, q_err_code, q_cart_cfg, ref>>
      /\ UNCHANGED <<q_state, q_decode_cnt, q_execute_cnt, q_addr>>
  BY BusIdleStill DEF Wait, cfg, host, fsm
<1>2. \/ q_state \in NeedsByte /\ ~ HasByte
      \/ /\ q_state \in NeedsRoom /\ tx_fifo.full
         /\ q_state \in {"CPU_MEM_RD_STG_1", "PPU_MEM_RD_STG_1"} => q_execute_cnt % 2 = 1
  BY DEF Wait
<1>3. /\ p \in Packets /\ p \in Seq(Byte) /\ WellFormed(p)
      /\ k \in 0 .. Len(p) /\ HostRules /\ TypeInv /\ RxOk /\ TxOk
      /\ ToCome(p, k) /\ Effect(p) /\ Answers(p) /\ Doing(p, k)
  BY Packet
<1>4. Fresh(p) => ~ tx_fifo.full
  BY FreshNow
<1>5. CASE q_state \in {"CPU_MEM_RD_STG_1", "PPU_MEM_RD_STG_1"}
  <2>1. /\ Op(p) \in MemReads /\ k = Len(p) /\ k = 5 /\ ~ HasByte
        /\ q_state = Stg1(Stg0(Op(p))) /\ DataCount(p) \in Addr
    BY <1>5, ReadsOn
  <2>2. PICK m \in 1 .. DataCount(p) :
            /\ q_execute_cnt \in {2 * m - 1, 2 * m} /\ Owed(m)
            /\ q_addr = AddrAt(p, DataCount(p) - m)
    BY <1>5, ReadsOn
  <2>3. /\ TypeInv' /\ RxOk' /\ TxOk' /\ Made' = Made
        /\ ToCome(p, k)' /\ Effect(p)' /\ Answers(p)'
    BY <1>1, <1>3, <2>1, Waits
  <2>4. Owed(m)' /\ ~ q_wr_en'
    BY <1>1, <2>2, <2>3 DEF Owed, NoReply
  <2>5. Reads(p, k)'
    BY <1>1, <2>1, <2>2, <2>4 DEF Reads
  <2> QED
    BY <1>3, <2>3, <2>5, Moves DEF IInv, Doing
<1>6. CASE q_state \notin {"CPU_MEM_RD_STG_1", "PPU_MEM_RD_STG_1"}
  <2>1. q_state \in NeedsByte /\ ~ HasByte
    <3>1. q_state \in {"CPU_REG_RD", "QUERY_ERR_CODE"} => Fresh(p)
      BY <1>3, Where DEF Single
    <3> QED
      BY <3>1, <1>2, <1>4, <1>6 DEF NeedsRoom
  <2>2. q_state \notin {"DISABLED", "QUERY_ERR_CODE", "PPU_DISABLE", "CART_SET_CFG_STG_0"}
    BY <2>1 DEF NeedsByte, MemStg0
  <2>3. /\ TypeInv' /\ RxOk' /\ TxOk' /\ Made' = Made
        /\ ToCome(p, k)' /\ Effect(p)' /\ Answers(p)' /\ (Fresh(p) => Fresh(p)')
        /\ \/ rx_fifo'.empty /\ rx_wait' = (IF rx_wait > 0 THEN rx_wait - 1 ELSE 0)
           \/ ~ rx_fifo'.empty /\ rx_wait = 0
        /\ rx_wait \in Nat
    BY <1>1, <1>3, <2>1, Waits
  <2>4. CASE Opcode(p, k)
    <3>1. Opcode(p, k)'
      BY <1>1, <2>3, <2>4 DEF Opcode
    <3> QED
      BY <3>1, <1>3, <2>3, Moves DEF IInv, Doing
  <2>5. CASE Header(p, k)
    <3>1. Header(p, k)'
      BY <1>1, <2>3, <2>5 DEF Header
    <3> QED
      BY <3>1, <1>3, <2>3, Moves DEF IInv, Doing
  <2>6. CASE Writes(p, k)
    <3>1. Writes(p, k)'
      BY <1>1, <2>3, <2>6 DEF Writes
    <3> QED
      BY <3>1, <1>3, <2>3, Moves DEF IInv, Doing
  <2>7. CASE Single(p, k)
    <3>1. Single(p, k)'
      BY <1>1, <2>2, <2>3, <2>7 DEF Single
    <3> QED
      BY <3>1, <1>3, <2>3, Moves DEF IInv, Doing
  <2>8. CASE Echoes(p, k)
    <3>1. /\ Count(tx_fifo') + Bit(q_wr_en') <= 1
          /\ Count(tx_fifo') = 1 => ~ tx_fifo'.empty
          /\ TxBusy' <= IF rx_fifo'.empty THEN rx_wait' + 2 ELSE 1
      BY <1>1, <2>1, <2>3, <2>8, EchoWaits DEF HasByte
    <3>2. Owed(Len(p) - k)'
      BY <1>1, <2>3, <2>8 DEF Echoes, Owed
    <3>3. Echoes(p, k)'
      BY <1>1, <2>8, <3>1, <3>2, Zenon DEF Echoes
    <3> QED
      BY <3>3, <1>3, <2>3, Moves DEF IInv, Doing
  <2>9. CASE Reads(p, k)
    BY <2>9, <1>6, Stages DEF Reads, MemReads
  <2> QED
    BY <2>4, <2>5, <2>6, <2>7, <2>8, <2>9, <1>3 DEF Doing
<1> QED
  BY <1>5, <1>6

\* S_DECODE takes the opcode.
LEMMA StepDecode ==
    ASSUME NEW p, NEW k, Busy(p, k), Decode
    PROVE  IInv'
<1>1. /\ q_state = "DECODE" /\ HasByte /\ Serial(TRUE) /\ q_decode_cnt' = 0
      /\ q_state' = DecodeTarget(OpName(rd_data))
      /\ OpName(rd_data) = "QUERY_DBG_BRK" => Reply(1)
      /\ OpName(rd_data) # "QUERY_DBG_BRK" => NoReply
      /\ q_err_code' = (q_err_code \/ OpName(rd_data) = "UNKNOWN")
      /\ UNCHANGED <<cpu_mem, vram, cpu_regs, q_cart_cfg, ref>>
  BY BusIdleStill DEF Decode, Goto, host
<1>2. /\ p \in Packets /\ p \in Seq(Byte) /\ WellFormed(p)
      /\ k \in 0 .. Len(p) /\ HostRules /\ TypeInv /\ RxOk /\ TxOk
      /\ ToCome(p, k) /\ Effect(p) /\ Answers(p) /\ Doing(p, k) /\ line \in Seq(Byte)
  BY Packet DEF TypeInv
<1>3. k = 0 /\ Fresh(p)
  BY <1>1, <1>2, Where DEF Opcode
<1>4. /\ RxOk' /\ line' \in Seq(Byte) /\ 1 \in 1 .. Len(p) /\ 1 \in 0 .. Len(p) /\ rd_data = p[1]
      /\ ToCome(p, 1)' /\ rx_fifo'.empty /\ rx_wait' = rx_wait - 1
      /\ 1 = Len(p) => line' = << >>
  <2>1. /\ RxOk' /\ line' \in Seq(Byte) /\ k + 1 \in 1 .. Len(p) /\ rd_data = p[k + 1]
        /\ ToCome(p, k + 1)' /\ rx_fifo'.empty /\ rx_wait' = rx_wait - 1
        /\ k + 1 = Len(p) => line' = << >>
    BY <1>1, <1>2, ClocksTrue, RxTake
  <2>2. k + 1 = 1 /\ 1 \in 0 .. Len(p)
    <3>1. Len(p) \in Nat /\ Len(p) >= 1
      BY <1>2, PacketShape
    <3> QED
      BY <3>1, <1>3
  <2> QED
    BY <2>1, <2>2, Zenon
<1>5. OpName(rd_data) = Op(p) /\ Op(p) \in Ops
  BY <1>2, <1>4, PacketShape DEF Op
<1>6. /\ rx_wait' >= RxClks - 2 /\ rx_wait' >= 1
  <2>1. PICK w : w = rx_wait'
    OBVIOUS
  <2>2. rx_wait \in Nat /\ rx_wait >= RxClks - 1 /\ RxClks \in Nat /\ RxClks >= 8
    BY <1>1, <1>2, Rates DEF RxOk, HasByte
  <2>3. w >= RxClks - 2 /\ w >= 1
    BY <2>1, <2>2, <1>4
  <2> QED
    BY <2>1, <2>3, Zenon
<1>7. q_err_code \in BOOLEAN
  BY <1>2 DEF TypeInv
<1>8. CASE Op(p) \notin {"QUERY_DBG_BRK", "UNKNOWN", "DBG_RUN"}
  <2>1. NoReply /\ q_err_code' = q_err_code
    BY <1>1, <1>5, <1>7, <1>8
  <2>2. q_state' # "DISABLED" /\ q_state # "DISABLED"
    BY <1>1, <1>5, <1>8, Stages DEF DecodeTarget, Ops
  <2>3. TypeInv' /\ TxOk' /\ Effect(p)' /\ Answers(p)' /\ Fresh(p)'
    BY <2>1, <2>2, <1>1, <1>2, <1>3, Passes
  <2>4. CASE Op(p) = "DBG_BRK"
    <3>1. q_state' = "DECODE" /\ line' = << >>
      BY <2>4, <1>1, <1>2, <1>4, <1>5, PacketShape DEF DecodeTarget
    <3>2. Same'
      BY <3>1, <2>3, <2>4, NoEffect
    <3>3. Asked(p) = 0
      BY <2>4, <1>2, AskedFacts DEF MemReads
    <3>4. Owed(0)'
      BY <3>3, <2>3, <1>2, FreshOwes
    <3> QED
      BY <3>1, <3>2, <3>4, <2>3, <1>4, Finish DEF IInv
  <2>5. CASE Op(p) \in MemOps \union {"ECHO"}
    <3>1. q_state' = Stg0(Op(p))
      BY <2>5, <1>1, <1>5 DEF DecodeTarget, MemOps, MemReads, MemWrites
    <3>2. HeaderLen(p) \in {3, 5}
      BY <2>5, <1>2, PacketShape
    <3>3. 1 \in 1 .. HeaderLen(p) - 1 /\ 1 # HeaderLen(p) - 1 /\ 0 = 1 - 1
      BY <3>2
    <3>4. Header(p, 1)'
      BY <3>1, <3>3, <2>3, <2>5, <1>1 DEF Header
    <3> QED
      BY <3>4, <2>3, <1>2, <1>4, Moves DEF IInv, Doing
  <2>6. CASE Op(p) \in {"CPU_REG_RD", "CPU_REG_WR", "QUERY_ERR_CODE", "PPU_DISABLE", "CART_SET_CFG"}
    <3>1. q_state' = IF Op(p) \in {"CPU_REG_WR", "CART_SET_CFG"} THEN Stg0(Op(p)) ELSE Op(p)
      BY <2>6, <1>1, <1>5 DEF DecodeTarget
    <3>2. Op(p) = "PPU_DISABLE" => /\ q_decode_cnt' \in 0 .. 5
                                   /\ rx_wait' >= RxClks - 2 - q_decode_cnt'
      <4>1. PICK w : w = rx_wait'
        OBVIOUS
      <4>2. w >= RxClks - 2 - 0
        BY <4>1, <1>2, <1>6, Rates
      <4> QED
        BY <4>1, <4>2, <1>1
    <3>3. Single(p, 1)'
      BY <3>1, <3>2, <2>3, <2>6, <1>4, <1>6, Stages DEF Single
    <3> QED
      BY <3>3, <2>3, <1>2, <1>4, Moves DEF IInv, Doing
  <2> QED
    BY <2>4, <2>5, <2>6, <1>5, <1>8 DEF Ops, MemOps, MemReads, MemWrites
<1>9. CASE Op(p) \in {"UNKNOWN", "DBG_RUN"}
  <2>1. NoReply /\ q_err_code' = (q_err_code \/ Op(p) = "UNKNOWN") /\ q_err_code' \in BOOLEAN
    BY <1>1, <1>5, <1>7, <1>9
  <2>2. /\ TxOk' /\ got' \in Seq(Byte) /\ q_tx_data' \in Byte /\ q_wr_en' \in BOOLEAN /\ Fresh(p)'
    BY <2>1, <1>1, <1>2, <1>3, ClocksTrue, Silent
  <2>3. TypeInv'
    BY <2>1, <2>2, <1>1, <1>2, <1>4 DEF TypeInv
  <2>4. q_state' \in {"DECODE", "DISABLED"} /\ (q_state' = "DISABLED" <=> Op(p) = "DBG_RUN")
    BY <1>1, <1>5, <1>9 DEF DecodeTarget
  <2>5. Same'
    <3>1. /\ ref.mem = cpu_mem /\ ref.vram = vram /\ ref.regs = cpu_regs /\ ref.cart = q_cart_cfg
          /\ ref.err = (q_err_code \/ Op(p) = "UNKNOWN")
      BY <1>2, <1>9 DEF Effect
    <3>2. ref.run = (Op(p) = "DBG_RUN")
      <4>1. CASE Op(p) = "DBG_RUN"
        BY <4>1, <1>2 DEF Effect
      <4>2. CASE Op(p) = "UNKNOWN"
        BY <4>2, <1>1, <1>2 DEF Effect
      <4> QED
        BY <4>1, <4>2, <1>9
    <3>3. ref'.run = (q_state' = "DISABLED")
      BY <3>2, <2>4, <1>1
    <3> QED
      BY <3>1, <3>3, <2>1, <1>1 DEF Same
  <2>6. Asked(p) = 0 /\ line' = << >>
    BY <1>2, <1>4, <1>9, AskedFacts, PacketShape DEF MemReads
  <2>7. Owed(0)'
    BY <2>2, <2>3, <2>6, <1>2, FreshOwes
  <2> QED
    BY <2>2, <2>3, <2>4, <2>5, <2>6, <2>7, <1>4 DEF IInv, Link, Idle
<1>10. CASE Op(p) = "QUERY_DBG_BRK"
  <2>1. Reply(1) /\ q_err_code' = q_err_code /\ q_state' = "DECODE"
    BY <1>1, <1>5, <1>7, <1>10 DEF DecodeTarget
  <2>2. Asked(p) = 1 /\ line' = << >>
    BY <1>2, <1>4, <1>10, AskedFacts, PacketShape
  <2>3. 1 \in Asks(p, 1) /\ 1 \in Byte
    BY <2>2, <1>1, <1>2, <1>10, ByteFacts DEF Answers, AnswersAt
  <2>4. Clocks(1) /\ ref' = ref
    BY <1>1, ClocksTrue
  <2>5. /\ TxOk' /\ got' \in Seq(Byte) /\ q_tx_data' \in Byte
        /\ q_wr_en' \in BOOLEAN /\ Owed(0)'
    BY <2>1, <2>2, <2>3, <2>4, <1>3, OnlyAnswer
  <2>6. TypeInv'
    BY <2>1, <2>5, <1>1, <1>2, <1>4, TypeKept
  <2>7. Effect(p)'
    BY <2>1, <1>1, <1>2, Kept
  <2>8. Same'
    BY <2>1, <2>6, <2>7, <1>10, NoEffect
  <2> QED
    BY <2>1, <2>2, <2>5, <2>6, <2>8, <1>4, Finish DEF IInv
<1> QED
  BY <1>8, <1>9, <1>10

\* The program halts by itself: that is what a break behind it finds done, and
\* what a query may have seen or not.
LEMMA StepCpuBreak ==
    ASSUME NEW p, NEW k, Busy(p, k), CpuBreak
    PROVE  IInv'
<1>1. /\ q_state = "DISABLED" /\ BrkEnabled /\ q_state' = "DECODE" /\ Serial(FALSE) /\ NoReply
      /\ ref' = [ref EXCEPT !.run = FALSE]
      /\ UNCHANGED <<cpu_mem, vram, cpu_regs, q_err_code, q_cart_cfg>>
  BY DEF CpuBreak, Goto, cfg, dev
<1>2. /\ p \in Packets /\ p \in Seq(Byte) /\ WellFormed(p)
      /\ k \in 0 .. Len(p) /\ HostRules /\ TypeInv /\ RxOk /\ TxOk
      /\ ToCome(p, k) /\ Effect(p) /\ Answers(p) /\ Doing(p, k) /\ line \in Seq(Byte)
  BY Packet DEF TypeInv
<1>3. k = 0 /\ Fresh(p) /\ Op(p) \in {"DBG_BRK", "QUERY_DBG_BRK"}
  BY <1>1, <1>2, Where DEF Opcode
<1>4. ref' = [mem |-> ref.mem, vram |-> ref.vram, regs |-> ref.regs, cart |-> ref.cart,
              run |-> FALSE, err |-> ref.err, replies |-> ref.replies]
  BY <1>1, <1>2 DEF TypeInv
<1>5. /\ ref'.mem = ref.mem /\ ref'.vram = ref.vram /\ ref'.regs = ref.regs
      /\ ref'.cart = ref.cart /\ ref'.run = FALSE /\ ref'.err = ref.err
      /\ ref'.replies = ref.replies
  BY <1>4
<1>6. RxOk' /\ line' \in Seq(Byte) /\ ToCome(p, k)'
  BY <1>1, <1>2, ClocksFalse, RxKeep
<1>7. /\ TxOk' /\ got' \in Seq(Byte) /\ q_tx_data' \in Byte /\ q_wr_en' \in BOOLEAN /\ Fresh(p)'
  BY <1>1, <1>2, <1>3, <1>5, ClocksFalse, Silent
<1>8. TypeInv'
  <2>1. ref' = [mem |-> ref'.mem, vram |-> ref'.vram, regs |-> ref'.regs, cart |-> ref'.cart,
                run |-> ref'.run, err |-> ref'.err, replies |-> ref'.replies]
    BY <1>4
  <2> QED
    BY <2>1, <1>1, <1>2, <1>5, <1>6, <1>7 DEF TypeInv
<1>9. Effect(p)'
  <2>1. ref'.run = FALSE /\ (q_state' = "DISABLED") = FALSE
    BY <1>1, <1>5
  <2>2. /\ ref'.mem = cpu_mem' /\ ref'.vram = vram' /\ ref'.regs = cpu_regs'
        /\ ref'.cart = q_cart_cfg' /\ ref'.err = (q_err_code' \/ Op(p) = "UNKNOWN")
    BY <1>1, <1>2, <1>3, <1>5 DEF Effect
  <2> QED
    BY <2>1, <2>2, <1>3 DEF Effect
<1>10. Answers(p)'
  <2>1. Asked(p) <= Len(ref'.replies)
    BY <1>2, <1>5 DEF Answers
  <2>2. ASSUME NEW i \in 1 .. Asked(p) PROVE AnswersAt(p, i)'
    <3>1. Asks(p, i)' = Asks(p, i)
      BY <1>5 DEF Asks
    <3>2. CASE Op(p) = "QUERY_DBG_BRK"
      <4>1. 1 \in Asks(p, i)
        BY <3>2, <1>1, <1>2 DEF Answers, AnswersAt
      <4> QED
        BY <4>1, <3>1, <3>2, <1>1 DEF AnswersAt
    <3>3. CASE Op(p) = "DBG_BRK"
      <4>1. Asked(p) = 0
        BY <3>3, <1>2, AskedFacts DEF MemReads
      <4> QED
        BY <4>1
    <3> QED
      BY <3>2, <3>3, <1>3
  <2> QED
    BY <2>1, <2>2 DEF Answers
<1>11. Opcode(p, k)'
  BY <1>1, <1>3, <1>7 DEF Opcode
<1> QED
  BY <1>2, <1>6, <1>7, <1>8, <1>9, <1>10, <1>11, Moves DEF IInv, Doing

LEMMA StepDisabled ==
    ASSUME NEW p, NEW k, Busy(p, k), Disabled
    PROVE  IInv'
<1>1. /\ q_state = "DISABLED" /\ Serial(HasByte)
      /\ q_state' = IF HasByte /\ OpName(rd_data) = "DBG_BRK" THEN "DECODE" ELSE q_state
      /\ IF HasByte /\ OpName(rd_data) = "QUERY_DBG_BRK" THEN Reply(0) ELSE NoReply
      /\ UNCHANGED <<cpu_mem, vram, cpu_regs, q_err_code, q_cart_cfg, ref>>
  BY DEF Disabled, Goto, cfg, host
<1>2. /\ p \in Packets /\ p \in Seq(Byte) /\ WellFormed(p)
      /\ k \in 0 .. Len(p) /\ HostRules /\ TypeInv /\ RxOk /\ TxOk
      /\ ToCome(p, k) /\ Effect(p) /\ Answers(p) /\ Doing(p, k) /\ line \in Seq(Byte)
  BY Packet DEF TypeInv
<1>3. k = 0 /\ Fresh(p) /\ Op(p) \in {"DBG_BRK", "QUERY_DBG_BRK"}
  BY <1>1, <1>2, Where DEF Opcode
<1>4. Len(p) = 1
  BY <1>2, <1>3, PacketShape
<1>5. Clocks(Bit(HasByte)) /\ HasByte \in BOOLEAN
  <2>1. HasByte \in BOOLEAN
    BY DEF HasByte
  <2> QED
    BY <2>1, <1>1 DEF Clocks
<1>6. CASE HasByte
  <2>1. Clocks(1)
    BY <1>5, <1>6 DEF Bit
  <2>2. /\ RxOk' /\ line' \in Seq(Byte) /\ rd_data = p[1]
        /\ rx_fifo'.empty /\ line' = << >>
    <3>1. /\ RxOk' /\ line' \in Seq(Byte) /\ rd_data = p[k + 1]
          /\ rx_fifo'.empty /\ (k + 1 = Len(p) => line' = << >>)
      BY <2>1, <1>2, <1>6, RxTake
    <3>2. k + 1 = 1
      BY <1>3
    <3> QED
      BY <3>1, <3>2, <1>4
  <2>3. OpName(rd_data) = Op(p)
    BY <2>2 DEF Op
  <2>4. CASE Op(p) = "DBG_BRK"
    <3>1. q_state' = "DECODE" /\ NoReply
      BY <2>3, <2>4, <1>1, <1>6
    <3>2. /\ TxOk' /\ got' \in Seq(Byte) /\ q_tx_data' \in Byte /\ q_wr_en' \in BOOLEAN /\ Fresh(p)'
      BY <3>1, <2>1, <1>1, <1>2, <1>3, Silent
    <3>3. TypeInv'
      BY <3>2, <2>2, <1>1, <1>2, TypeKept
    <3>4. Effect(p)'
      BY <3>1, <2>4, <1>1, <1>2 DEF Effect
    <3>5. Same'
      BY <3>1, <3>3, <3>4, <2>4, NoEffect
    <3>6. Asked(p) = 0
      BY <2>4, <1>2, AskedFacts DEF MemReads
    <3>7. Owed(0)'
      BY <3>2, <3>3, <3>6, <1>2, FreshOwes
    <3> QED
      BY <3>1, <3>2, <3>3, <3>5, <3>7, <2>2, Finish DEF IInv
  <2>5. CASE Op(p) = "QUERY_DBG_BRK"
    <3>1. q_state' = q_state /\ Reply(0)
      BY <2>3, <2>5, <1>1, <1>6
    <3>2. Asked(p) = 1
      BY <2>5, <1>2, AskedFacts
    <3>3. 0 \in Asks(p, 1) /\ 0 \in Byte
      BY <3>2, <2>5, <1>1, <1>2, ByteFacts DEF Answers, AnswersAt
    <3>4. /\ TxOk' /\ got' \in Seq(Byte) /\ q_tx_data' \in Byte
          /\ q_wr_en' \in BOOLEAN /\ Owed(0)'
      BY <3>1, <3>2, <3>3, <2>1, <1>1, <1>3, OnlyAnswer
    <3>5. TypeInv'
      BY <3>4, <2>2, <1>1, <1>2, TypeKept
    <3>6. Same'
      <4>1. /\ ref.mem = cpu_mem /\ ref.vram = vram /\ ref.regs = cpu_regs
            /\ ref.cart = q_cart_cfg
        BY <2>5, <1>2 DEF Effect
      <4>2. ref.err = q_err_code
        BY <2>5, <1>2 DEF Effect, TypeInv
      <4>3. ref.run = (q_state = "DISABLED")
        BY <2>5, <1>2 DEF Effect
      <4> QED
        BY <4>1, <4>2, <4>3, <3>1, <1>1 DEF Same
    <3>7. q_state' \in {"DECODE", "DISABLED"}
      BY <3>1, <1>1
    <3> QED
      BY <3>4, <3>5, <3>6, <3>7, <2>2 DEF IInv, Link, Idle
  <2> QED
    BY <2>4, <2>5, <1>3
<1>7. CASE ~ HasByte
  <2>1. Clocks(0) /\ q_state' = q_state /\ NoReply
    BY <1>1, <1>5, <1>7 DEF Bit
  <2>2. RxOk' /\ line' \in Seq(Byte) /\ ToCome(p, k)'
    BY <2>1, <1>2, <1>7, RxKeep
  <2>3. /\ TxOk' /\ got' \in Seq(Byte) /\ q_tx_data' \in Byte /\ q_wr_en' \in BOOLEAN /\ Fresh(p)'
    BY <2>1, <1>1, <1>2, <1>3, Silent
  <2>4. TypeInv'
    BY <2>2, <2>3, <1>1, <1>2, TypeKept
  <2>5. Effect(p)' /\ Answers(p)'
    BY <2>1, <1>1, <1>2, Kept
  <2>6. Opcode(p, k)'
    BY <2>1, <2>3, <1>1, <1>3 DEF Opcode
  <2> QED
    BY <2>2, <2>3, <2>4, <2>5, <2>6, <1>2, Moves DEF IInv, Doing
<1> QED
  BY <1>6, <1>7

\* With no packet under way the machine waits, or the program halts.
Resting == HostRules /\ TypeInv /\ RxOk /\ TxOk /\ Idle

LEMMA RestingLine ==
    ASSUME Resting, Clocks(0)
    PROVE  RxOk' /\ rx_fifo'.empty /\ line' = << >> /\ line' \in Seq(Byte)
<1>1. PICK p : p = << >>
  OBVIOUS
<1>2. p \in Seq(Byte) /\ Len(p) = 0 /\ 0 \in 0 .. Len(p)
  BY <1>1
<1>3. HostRules /\ RxOk /\ line \in Seq(Byte) /\ rx_fifo.empty /\ line = << >>
  BY DEF Resting, TypeInv, Idle
<1>4. ToCome(p, 0) /\ ~ HasByte
  BY <1>2, <1>3 DEF ToCome, LineIs, HasByte
<1> QED
  BY <1>2, <1>3, <1>4, RxKeep

LEMMA StepIdle ==
    ASSUME Resting, Serial(FALSE), NoReply, q_state' = q_state,
           UNCHANGED <<cpu_mem, vram, cpu_regs, q_err_code, q_cart_cfg, ref>>
    PROVE  IInv'
<1>1. Clocks(0) /\ HostRules /\ TypeInv /\ TxOk /\ Idle
  BY ClocksFalse DEF Resting
<1>2. RxOk' /\ rx_fifo'.empty /\ line' = << >> /\ line' \in Seq(Byte)
  BY <1>1, RestingLine
<1>3. /\ TxOk' /\ got' \in Seq(Byte) /\ q_tx_data' \in Byte /\ q_wr_en' \in BOOLEAN
      /\ Made' = Made
  BY <1>1, Silent
<1>4. TypeInv'
  BY <1>1, <1>2, <1>3, TypeKept
<1>5. Owed(0)'
  BY <1>1, <1>3 DEF Idle, Owed
<1>6. Same'
  BY <1>1 DEF Idle, Same
<1>7. q_state' \in {"DECODE", "DISABLED"}
  BY <1>1 DEF Idle
<1> QED
  BY <1>2, <1>3, <1>4, <1>5, <1>6, <1>7 DEF IInv, Link, Idle

LEMMA StepIdleBreak ==
    ASSUME Resting, CpuBreak
    PROVE  IInv'
<1>1. /\ q_state = "DISABLED" /\ q_state' = "DECODE" /\ Serial(FALSE) /\ NoReply
      /\ ref' = [ref EXCEPT !.run = FALSE]
      /\ UNCHANGED <<cpu_mem, vram, cpu_regs, q_err_code, q_cart_cfg>>
  BY DEF CpuBreak, Goto, cfg, dev
<1>2. Clocks(0) /\ HostRules /\ TypeInv /\ TxOk /\ Idle
  BY <1>1, ClocksFalse DEF Resting
<1>3. ref' = [mem |-> ref.mem, vram |-> ref.vram, regs |-> ref.regs, cart |-> ref.cart,
              run |-> FALSE, err |-> ref.err, replies |-> ref.replies]
  BY <1>1, <1>2 DEF TypeInv
<1>4. /\ ref'.mem = ref.mem /\ ref'.vram = ref.vram /\ ref'.regs = ref.regs
      /\ ref'.cart = ref.cart /\ ref'.run = FALSE /\ ref'.err = ref.err
      /\ ref'.replies = ref.replies
  BY <1>3
<1>5. RxOk' /\ rx_fifo'.empty /\ line' = << >> /\ line' \in Seq(Byte)
  BY <1>2, RestingLine
<1>6. /\ TxOk' /\ got' \in Seq(Byte) /\ q_tx_data' \in Byte /\ q_wr_en' \in BOOLEAN
      /\ Made' = Made
  BY <1>1, <1>2, <1>4, Silent
<1>7. TypeInv'
  <2>1. ref' = [mem |-> ref'.mem, vram |-> ref'.vram, regs |-> ref'.regs, cart |-> ref'.cart,
                run |-> ref'.run, err |-> ref'.err, replies |-> ref'.replies]
    BY <1>3
  <2> QED
    BY <2>1, <1>1, <1>2, <1>4, <1>5, <1>6 DEF TypeInv
<1>8. Owed(0)'
  BY <1>2, <1>4, <1>6 DEF Idle, Owed
<1>9. Same'
  <2>1. ref'.run = FALSE /\ (q_state' = "DISABLED") = FALSE
    BY <1>1, <1>4
  <2>2. /\ ref'.mem = cpu_mem' /\ ref'.vram = vram' /\ ref'.regs = cpu_regs'
        /\ ref'.cart = q_cart_cfg' /\ ref'.err = q_err_code'
    BY <1>1, <1>2, <1>4 DEF Idle, Same
  <2> QED
    BY <2>1, <2>2 DEF Same
<1> QED
  BY <1>1, <1>5, <1>6, <1>7, <1>8, <1>9, Finish DEF IInv

LEMMA RestingNext ==
    ASSUME Resting, Clock
    PROVE  IInv'
<1>1. q_state \in {"DECODE", "DISABLED"} /\ ~ HasByte
  BY DEF Resting, Idle, HasByte
<1>2. ~ (Decode \/ CntLo \/ CntHi \/ MemAddr \/ Echo \/ MemRdDummy \/ MemRd)
  BY <1>1 DEF Decode, CntLo, CntHi, MemAddr, Echo, MemRdDummy, MemRd, HeaderByte
<1>3. ~ (CpuMemWr \/ PpuMemWr \/ CpuRegRd \/ CpuRegWrSel \/ CpuRegWr \/ QueryErrCode)
  BY <1>1 DEF CpuMemWr, PpuMemWr, CpuRegRd, CpuRegWrSel, CpuRegWr, QueryErrCode
<1>4. ~ (PpuDisable \/ CartSetCfgCnt \/ CartSetCfg)
  BY <1>1 DEF PpuDisable, CartSetCfgCnt, CartSetCfg
<1>5. CASE CpuBreak
  BY <1>5, StepIdleBreak
<1>6. CASE Disabled
  <2>1. Serial(HasByte) /\ NoReply /\ q_state' = q_state
    BY <1>1, <1>6 DEF Disabled
  <2>2. UNCHANGED <<cpu_mem, vram, cpu_regs, q_err_code, q_cart_cfg, ref>>
    BY <1>6 DEF Disabled, cfg, host
  <2>3. HasByte = FALSE
    BY <1>1
  <2>4. Serial(FALSE)
    BY <2>1, <2>3
  <2> QED
    BY <2>1, <2>2, <2>4, StepIdle
<1>7. CASE Wait
  <2>1. Serial(FALSE) /\ NoReply /\ q_state' = q_state
    BY <1>7 DEF Wait, fsm
  <2>2. UNCHANGED <<cpu_mem, vram, cpu_regs, q_err_code, q_cart_cfg, ref>>
    BY <1>7, BusIdleStill DEF Wait, cfg, host
  <2> QED
    BY <2>1, <2>2, StepIdle
<1> QED
  BY <1>2, <1>3, <1>4, <1>5, <1>6, <1>7 DEF Clock

\* A clock with a packet under way.
LEMMA BusyNext ==
    ASSUME NEW p, NEW k, Busy(p, k), NEW ok \in BOOLEAN, Stage(ok), Clock
    PROVE  IInv'
BY StepCpuBreak, StepDisabled, StepDecode, StepMemAddr, StepCntLo, StepCntHi, StepEcho,
   StepMemRdDummy, StepMemRd, StepCpuMemWr, StepPpuMemWr, StepCpuRegRd, StepCpuRegWrSel,
   StepCpuRegWr, StepQueryErrCode, StepPpuDisable, StepCartSetCfgCnt, StepCartSetCfg,
   StepWait, Zenon DEF Clock

\* The host sends no packet before it has every reply to the last.
LEMMA NoneBefore ==
    ASSUME NEW p, NEW k, Busy(p, k), line = << >>, rx_wait = 0,
           Len(got) = Len(ref.replies)
    PROVE  FALSE
<1>1. /\ p \in Seq(Byte) /\ WellFormed(p) /\ k \in Nat /\ Len(p) \in Nat
      /\ HostRules /\ TypeInv /\ RxOk /\ TxOk /\ ToCome(p, k) /\ Doing(p, k)
  BY Packet
<1>2. RxClks \in Nat /\ RxClks >= 8
  BY <1>1, Rates
<1>3. rx_fifo.empty
  BY <1>1, <1>2 DEF RxOk
<1>4. k = Len(p)
  BY <1>1, <1>3 DEF ToCome, LineIs
<1>5. Len(p) >= 1 /\ Len(p) >= HeaderLen(p)
  BY <1>1, PacketShape DEF WellFormed
<1>6. Len(got) \in Nat /\ Count(tx_fifo) \in Nat /\ Bit(q_wr_en) \in 0 .. 1
  BY <1>1, CountFits, LenProperties DEF TxOk, TypeInv, Bit
<1>7. Fresh(p) => Asked(p) = 0
  <2>1. Asked(p) \in Nat
    BY <1>1, AskedFacts
  <2> QED
    BY <2>1, <1>6 DEF Fresh
<1>8. ~ Opcode(p, k)
  BY <1>4, <1>5 DEF Opcode
<1>9. ~ Header(p, k)
  <2>1. Op(p) \in MemOps \union {"ECHO"} => HeaderLen(p) \in {3, 5}
    BY <1>1, PacketShape
  <2> QED
    BY <2>1, <1>4, <1>5 DEF Header
<1>10. ~ Reads(p, k)
  <2> SUFFICES ASSUME Reads(p, k) PROVE FALSE
    OBVIOUS
  <2>1. PICK m \in 1 .. DataCount(p) : Owed(m)
    BY DEF Reads
  <2>2. DataCount(p) \in Nat
    BY <1>1, PacketShape, ByteFacts DEF Addr
  <2>3. Len(got) = Len(got) + Count(tx_fifo) + Bit(q_wr_en) + m
    BY <2>1 DEF Owed, Made
  <2> QED
    BY SMTT(30), <2>1, <2>2, <2>3, <1>6
<1>11. ~ Writes(p, k) /\ ~ Echoes(p, k)
  BY <1>1, <1>4 DEF Writes, Echoes
<1>12. ~ Single(p, k)
  <2> SUFFICES ASSUME Single(p, k) PROVE FALSE
    OBVIOUS
  <2>1. Op(p) \notin {"CPU_REG_RD", "QUERY_ERR_CODE"}
    BY <1>1, <1>7, AskedFacts DEF Single
  <2>2. Op(p) # "CPU_REG_WR"
    <3>1. Op(p) = "CPU_REG_WR" => k \in {1, 2}
      BY DEF Single
    <3> QED
      BY <3>1, <1>1, <1>4, PacketShape
  <2>3. Op(p) # "PPU_DISABLE"
    <3>1. Op(p) = "PPU_DISABLE" => q_decode_cnt \in 0 .. 5 /\ rx_wait >= RxClks - 2 - q_decode_cnt
      BY DEF Single
    <3> QED
      BY <3>1, <1>2
  <2>4. Op(p) # "CART_SET_CFG"
    <3> SUFFICES ASSUME Op(p) = "CART_SET_CFG" PROVE FALSE
      OBVIOUS
    <3>1. Len(p) \in 1 .. 5
      BY SMTT(30), <1>4 DEF Single
    <3>2. Len(p) = 6
      BY <1>1, PacketShape
    <3> QED
      BY <3>1, <3>2
  <2> QED
    BY <2>1, <2>2, <2>3, <2>4 DEF Single
<1> QED
  BY <1>1, <1>8, <1>9, <1>10, <1>11, <1>12 DEF Doing

\* The i-th reply that a packet calls for when it is sent.
AnswerTo(p, i) ==
    CASE Op(p) = "ECHO" -> {p[3 + i]}
      [] Op(p) = "CPU_MEM_RD" -> {At(cpu_mem, AddrAt(p, i - 1))}
      [] Op(p) = "PPU_MEM_RD" -> {At(vram, AddrAt(p, i - 1))}
      [] Op(p) = "CPU_REG_RD" -> {cpu_regs[p[2]]}
      [] Op(p) = "QUERY_ERR_CODE" -> {IF q_err_code THEN 2 ELSE 0}
      [] Op(p) = "QUERY_DBG_BRK" -> IF q_state # "DISABLED" THEN {1}
                                    ELSE IF BrkEnabled THEN {0, 1} ELSE {0}

LEMMA AnswerType ==
    ASSUME TypeInv, NEW p \in Seq(Byte), WellFormed(p), NEW i \in 1 .. Asked(p)
    PROVE  AnswerTo(p, i) \in SUBSET Byte
<1>1. cpu_mem \in [CpuAddrs -> Byte] /\ vram \in [VramAddrs -> Byte] /\ cpu_regs \in [RegSel -> Byte]
  BY DEF TypeInv
<1>2. 0 \in Byte /\ 1 \in Byte /\ 2 \in Byte
  BY ByteFacts
<1>3. CASE Op(p) = "ECHO"
  <2>1. Asked(p) = DataCount(p) /\ Len(p) = 3 + DataCount(p) /\ DataCount(p) \in Nat
        /\ \A j \in 1 .. Len(p) : p[j] \in Byte
    BY <1>3, AskedFacts, PacketShape, ByteFacts DEF Addr
  <2>2. p[3 + i] \in Byte
    <3>1. 3 + i \in 1 .. Len(p)
      BY <2>1
    <3> QED
      BY <2>1, <3>1
  <2> QED
    BY <2>2, <1>3 DEF AnswerTo
<1>4. CASE Op(p) = "CPU_MEM_RD"
  <2>1. At(cpu_mem, AddrAt(p, i - 1)) \in Byte
    BY <1>1, <1>2 DEF At
  <2> QED
    BY <2>1, <1>4 DEF AnswerTo
<1>5. CASE Op(p) = "PPU_MEM_RD"
  <2>1. At(vram, AddrAt(p, i - 1)) \in Byte
    BY <1>1, <1>2 DEF At
  <2> QED
    BY <2>1, <1>5 DEF AnswerTo
<1>6. CASE Op(p) = "CPU_REG_RD"
  <2>1. cpu_regs[p[2]] \in Byte
    BY <1>1, <1>6, PacketShape
  <2> QED
    BY <2>1, <1>6 DEF AnswerTo
<1>7. CASE Op(p) = "QUERY_ERR_CODE"
  BY <1>2, <1>7 DEF AnswerTo
<1>8. CASE Op(p) = "QUERY_DBG_BRK"
  BY <1>2, <1>8 DEF AnswerTo
<1>9. Asked(p) # 0
  BY AskedFacts
<1> QED
  BY <1>3, <1>4, <1>5, <1>6, <1>7, <1>8, <1>9, AskedFacts DEF MemReads

\* The replies to an ECHO.
Echoed(p) == [i \in 1 .. DataCount(p) |-> {p[3 + i]}]

\* What a packet calls for when it is sent.
LEMMA Executes ==
    ASSUME Resting, NEW p \in Seq(Byte), WellFormed(p), NEW e, e = Execute(ref, p)
    PROVE  /\ e = [mem |-> e.mem, vram |-> e.vram, regs |-> e.regs, cart |-> e.cart,
                   run |-> e.run, err |-> e.err, replies |-> e.replies]
           /\ e.mem = IF Op(p) = "CPU_MEM_WR" THEN Stored(cpu_mem, p) ELSE cpu_mem
           /\ e.vram = IF Op(p) = "PPU_MEM_WR" THEN Stored(vram, p) ELSE vram
           /\ e.regs = IF Op(p) = "CPU_REG_WR" THEN [cpu_regs EXCEPT ![p[2]] = p[3]] ELSE cpu_regs
           /\ e.cart = IF Op(p) = "CART_SET_CFG" THEN SubSeq(p, 2, 6) ELSE q_cart_cfg
           /\ e.err = IF Op(p) = "UNKNOWN" THEN TRUE ELSE ref.err
           /\ e.run = CASE Op(p) = "DBG_BRK" -> FALSE
                        [] Op(p) = "DBG_RUN" -> TRUE
                        [] OTHER -> ref.run
           /\ e.replies = CASE Op(p) = "ECHO" ->
                                 ref.replies \o Echoed(p)
                            [] Op(p) = "CPU_MEM_RD" -> ref.replies \o Loaded(cpu_mem, p)
                            [] Op(p) = "PPU_MEM_RD" -> ref.replies \o Loaded(vram, p)
                            [] Op(p) \in {"CPU_REG_RD", "QUERY_DBG_BRK", "QUERY_ERR_CODE"} ->
                                 Append(ref.replies, AnswerTo(p, 1))
                            [] OTHER -> ref.replies
<1>1. /\ ref = [mem |-> ref.mem, vram |-> ref.vram, regs |-> ref.regs, cart |-> ref.cart,
                run |-> ref.run, err |-> ref.err, replies |-> ref.replies]
      /\ ref.mem = cpu_mem /\ ref.vram = vram /\ ref.regs = cpu_regs /\ ref.cart = q_cart_cfg
      /\ ref.err = q_err_code /\ ref.run = (q_state = "DISABLED")
  BY DEF Resting, TypeInv, Idle, Same
<1>2. Op(p) \in Ops
  BY PacketShape
<1>3. CASE Op(p) = "ECHO"
  <2>1. e = [ref EXCEPT !.replies = @ \o Echoed(p)]
    BY <1>3, PacketShape DEF Execute, Op, Echoed
  <2>2. e = [mem |-> ref.mem, vram |-> ref.vram, regs |-> ref.regs, cart |-> ref.cart,
             run |-> ref.run, err |-> ref.err, replies |-> ref.replies \o Echoed(p)]
    BY <1>1, <2>1
  <2> QED
    BY <1>1, <1>3, <2>2
<1>4. CASE Op(p) = "CPU_MEM_RD"
  <2>1. e = [ref EXCEPT !.replies = @ \o Loaded(ref.mem, p)]
    BY <1>4 DEF Execute, Op
  <2>2. e = [mem |-> ref.mem, vram |-> ref.vram, regs |-> ref.regs, cart |-> ref.cart,
             run |-> ref.run, err |-> ref.err, replies |-> ref.replies \o Loaded(ref.mem, p)]
    BY <1>1, <2>1
  <2> QED
    BY <1>1, <1>4, <2>2
<1>5. CASE Op(p) = "PPU_MEM_RD"
  <2>1. e = [ref EXCEPT !.replies = @ \o Loaded(ref.vram, p)]
    BY <1>5 DEF Execute, Op
  <2>2. e = [mem |-> ref.mem, vram |-> ref.vram, regs |-> ref.regs, cart |-> ref.cart,
             run |-> ref.run, err |-> ref.err, replies |-> ref.replies \o Loaded(ref.vram, p)]
    BY <1>1, <2>1
  <2> QED
    BY <1>1, <1>5, <2>2
<1>6. CASE Op(p) \in {"CPU_REG_RD", "QUERY_DBG_BRK", "QUERY_ERR_CODE"}
  <2>1. e = [ref EXCEPT !.replies = Append(@, AnswerTo(p, 1))]
    <3>1. CASE Op(p) = "CPU_REG_RD"
      BY <3>1, <1>1 DEF Execute, Op, AnswerTo
    <3>2. CASE Op(p) = "QUERY_DBG_BRK"
      <4>1. AnswerTo(p, 1) = IF ~ ref.run THEN {1} ELSE IF BrkEnabled THEN {0, 1} ELSE {0}
        BY <3>2, <1>1 DEF AnswerTo
      <4>2. e = [ref EXCEPT !.replies =
                    Append(@, IF ~ ref.run THEN {1} ELSE IF BrkEnabled THEN {0, 1} ELSE {0})]
        BY <3>2 DEF Execute, Op
      <4> QED
        BY <4>1, <4>2
    <3>3. CASE Op(p) = "QUERY_ERR_CODE"
      BY <3>3, <1>1 DEF Execute, Op, AnswerTo
    <3> QED
      BY <3>1, <3>2, <3>3, <1>6
  <2>2. e = [mem |-> ref.mem, vram |-> ref.vram, regs |-> ref.regs, cart |-> ref.cart,
             run |-> ref.run, err |-> ref.err, replies |-> Append(ref.replies, AnswerTo(p, 1))]
    BY <1>1, <2>1
  <2>3. /\ e.mem = cpu_mem /\ e.vram = vram /\ e.regs = cpu_regs /\ e.cart = q_cart_cfg
        /\ e.run = ref.run /\ e.err = ref.err /\ e.replies = Append(ref.replies, AnswerTo(p, 1))
    BY <1>1, <2>2
  <2>4. e = [mem |-> e.mem, vram |-> e.vram, regs |-> e.regs, cart |-> e.cart,
             run |-> e.run, err |-> e.err, replies |-> e.replies]
    BY <2>2
  <2> QED
    BY <1>6, <2>3, <2>4
<1>7. CASE Op(p) = "CPU_MEM_WR"
  <2>1. e = [ref EXCEPT !.mem = Stored(@, p)]
    BY <1>7 DEF Execute, Op
  <2>2. e = [mem |-> Stored(ref.mem, p), vram |-> ref.vram, regs |-> ref.regs, cart |-> ref.cart,
             run |-> ref.run, err |-> ref.err, replies |-> ref.replies]
    BY <1>1, <2>1
  <2> QED
    BY <1>1, <1>7, <2>2
<1>8. CASE Op(p) = "PPU_MEM_WR"
  <2>1. e = [ref EXCEPT !.vram = Stored(@, p)]
    BY <1>8 DEF Execute, Op
  <2>2. e = [mem |-> ref.mem, vram |-> Stored(ref.vram, p), regs |-> ref.regs, cart |-> ref.cart,
             run |-> ref.run, err |-> ref.err, replies |-> ref.replies]
    BY <1>1, <2>1
  <2> QED
    BY <1>1, <1>8, <2>2
<1>9. CASE Op(p) = "CPU_REG_WR"
  <2>1. e = [ref EXCEPT !.regs[p[2]] = p[3]]
    BY <1>9 DEF Execute, Op
  <2>2. e = [mem |-> ref.mem, vram |-> ref.vram, regs |-> [ref.regs EXCEPT ![p[2]] = p[3]],
             cart |-> ref.cart, run |-> ref.run, err |-> ref.err, replies |-> ref.replies]
    BY <1>1, <2>1
  <2> QED
    BY <1>1, <1>9, <2>2
<1>10. CASE Op(p) = "DBG_BRK"
  <2>1. e = [ref EXCEPT !.run = FALSE]
    BY <1>10 DEF Execute, Op
  <2>2. e = [mem |-> ref.mem, vram |-> ref.vram, regs |-> ref.regs, cart |-> ref.cart,
             run |-> FALSE, err |-> ref.err, replies |-> ref.replies]
    BY <1>1, <2>1
  <2> QED
    BY <1>1, <1>10, <2>2
<1>11. CASE Op(p) = "DBG_RUN"
  <2>1. e = [ref EXCEPT !.run = TRUE]
    BY <1>11 DEF Execute, Op
  <2>2. e = [mem |-> ref.mem, vram |-> ref.vram, regs |-> ref.regs, cart |-> ref.cart,
             run |-> TRUE, err |-> ref.err, replies |-> ref.replies]
    BY <1>1, <2>1
  <2> QED
    BY <1>1, <1>11, <2>2
<1>12. CASE Op(p) = "PPU_DISABLE"
  <2>1. e = ref
    BY <1>12 DEF Execute, Op
  <2> QED
    BY <1>1, <1>12, <2>1
<1>13. CASE Op(p) = "CART_SET_CFG"
  <2>1. e = [ref EXCEPT !.cart = SubSeq(p, 2, 6)]
    BY <1>13 DEF Execute, Op
  <2>2. e = [mem |-> ref.mem, vram |-> ref.vram, regs |-> ref.regs, cart |-> SubSeq(p, 2, 6),
             run |-> ref.run, err |-> ref.err, replies |-> ref.replies]
    BY <1>1, <2>1
  <2> QED
    BY <1>1, <1>13, <2>2
<1>14. CASE Op(p) = "UNKNOWN"
  <2>1. e = [ref EXCEPT !.err = TRUE]
    BY <1>14 DEF Execute, Op
  <2>2. e = [mem |-> ref.mem, vram |-> ref.vram, regs |-> ref.regs, cart |-> ref.cart,
             run |-> ref.run, err |-> TRUE, replies |-> ref.replies]
    BY <1>1, <2>1
  <2> QED
    BY <1>1, <1>14, <2>2
<1> QED
  BY <1>2, <1>3, <1>4, <1>5, <1>6, <1>7, <1>8, <1>9, <1>10, <1>11, <1>12, <1>13, <1>14 DEF Ops

\* A sequence from its values.
LEMMA ListType ==
    ASSUME NEW S, NEW n \in Nat, NEW a \in [1 .. n -> S]
    PROVE  a \in Seq(S) /\ Len(a) = n
OBVIOUS

LEMMA LoadedIs ==
    ASSUME NEW p \in Seq(Byte), WellFormed(p), Op(p) \in MemReads, NEW mem
    PROVE  Loaded(mem, p) = [i \in 1 .. DataCount(p) |-> {At(mem, AddrAt(p, i - 1))}]
<1>1. DataCount(p) = Word(p[4], p[5]) /\ DataCount(p) \in Nat /\ WordOf(p, 2) \in Nat
      /\ WordOf(p, 2) = Word(p[2], p[3])
  BY PacketShape, ByteFacts DEF MemOps, Addr, WordOf
<1>2. ASSUME NEW i \in 1 .. DataCount(p)
      PROVE  (Word(p[2], p[3]) + i - 1) % AddrSpace = AddrAt(p, i - 1)
  <2>1. WordOf(p, 2) + i - 1 = WordOf(p, 2) + (i - 1)
    BY <1>1
  <2> QED
    BY <2>1, <1>1 DEF AddrAt
<1> QED
  BY <1>1, <1>2 DEF Loaded

\* Its replies are those it calls for, behind the replies to the others.
LEMMA RepliesGrow ==
    ASSUME Resting, NEW p \in Seq(Byte), WellFormed(p), NEW e, e = Execute(ref, p)
    PROVE  /\ e.replies \in Seq(SUBSET Byte)
           /\ Len(e.replies) = Len(ref.replies) + Asked(p)
           /\ \A i \in 1 .. Len(ref.replies) : e.replies[i] = ref.replies[i]
           /\ \A i \in 1 .. Asked(p) : e.replies[Len(ref.replies) + i] = AnswerTo(p, i)
<1> DEFINE r == ref.replies
           n == Asked(p)
<1>1. TypeInv /\ r \in Seq(SUBSET Byte) /\ Len(r) \in Nat /\ n \in Nat
  BY AskedFacts, LenProperties DEF Resting, TypeInv
<1>2. \A i \in 1 .. n : AnswerTo(p, i) \in SUBSET Byte
  BY <1>1, AnswerType
<1>3. e.replies = CASE Op(p) = "ECHO" -> r \o Echoed(p)
                    [] Op(p) = "CPU_MEM_RD" -> r \o Loaded(cpu_mem, p)
                    [] Op(p) = "PPU_MEM_RD" -> r \o Loaded(vram, p)
                    [] Op(p) \in {"CPU_REG_RD", "QUERY_DBG_BRK", "QUERY_ERR_CODE"} ->
                         Append(r, AnswerTo(p, 1))
                    [] OTHER -> r
  BY Executes, Zenon
<1> HIDE DEF r
<1>4. ASSUME Op(p) \in MemReads \union {"ECHO"}
      PROVE  \E a \in Seq(SUBSET Byte) :
                 /\ e.replies = r \o a /\ Len(a) = n
                 /\ \A i \in 1 .. n : a[i] = AnswerTo(p, i)
  <2> DEFINE a == [i \in 1 .. n |-> AnswerTo(p, i)]
  <2>1. n = DataCount(p)
    BY <1>4, AskedFacts
  <2>2. e.replies = r \o a
    <3>1. CASE Op(p) = "ECHO"
      <4>1. Echoed(p) = a
        BY <2>1, <3>1 DEF Echoed, AnswerTo
      <4> QED
        BY <4>1, <3>1, <1>3
    <3>2. CASE Op(p) = "CPU_MEM_RD"
      <4>1. Loaded(cpu_mem, p) = a
        BY <2>1, <3>2, LoadedIs DEF AnswerTo, MemReads
      <4> QED
        BY <4>1, <3>2, <1>3
    <3>3. CASE Op(p) = "PPU_MEM_RD"
      <4>1. Loaded(vram, p) = a
        BY <2>1, <3>3, LoadedIs DEF AnswerTo, MemReads
      <4> QED
        BY <4>1, <3>3, <1>3
    <3> QED
      BY <3>1, <3>2, <3>3, <1>4 DEF MemReads
  <2>3. a \in [1 .. n -> SUBSET Byte] /\ \A i \in 1 .. n : a[i] = AnswerTo(p, i)
    BY <1>2
  <2> HIDE DEF a
  <2>4. a \in Seq(SUBSET Byte) /\ Len(a) = n
    BY <1>1, <2>3, ListType
  <2> QED
    BY <2>2, <2>3, <2>4
<1>5. CASE Op(p) \in MemReads \union {"ECHO"}
  <2>1. PICK a \in Seq(SUBSET Byte) :
            /\ e.replies = r \o a /\ Len(a) = n
            /\ \A i \in 1 .. n : a[i] = AnswerTo(p, i)
    BY <1>4, <1>5
  <2>2. /\ r \o a \in Seq(SUBSET Byte) /\ Len(r \o a) = Len(r) + Len(a)
        /\ \A i \in 1 .. Len(r) + Len(a) :
               (r \o a)[i] = IF i <= Len(r) THEN r[i] ELSE a[i - Len(r)]
    BY <1>1, <2>1, ConcatProperties
  <2>3. \A i \in 1 .. Len(r) : e.replies[i] = r[i]
    BY <1>1, <2>1, <2>2
  <2>4. ASSUME NEW i \in 1 .. n PROVE e.replies[Len(r) + i] = AnswerTo(p, i)
    <3>1. Len(r) + i \in 1 .. Len(r) + Len(a) /\ ~ (Len(r) + i <= Len(r))
          /\ (Len(r) + i) - Len(r) = i
      BY <1>1, <2>1
    <3>2. (r \o a)[Len(r) + i] = a[i]
      BY <3>1, <2>2
    <3> QED
      BY <3>2, <2>1
  <2> QED
    BY <2>1, <2>2, <2>3, <2>4 DEF r
<1>6. CASE Op(p) \in {"CPU_REG_RD", "QUERY_DBG_BRK", "QUERY_ERR_CODE"}
  <2>1. n = 1 /\ e.replies = Append(r, AnswerTo(p, 1)) /\ AnswerTo(p, 1) \in SUBSET Byte
    BY <1>2, <1>3, <1>6, AskedFacts
  <2>2. PICK b \in SUBSET Byte : b = AnswerTo(p, 1)
    BY <2>1
  <2>3. /\ Append(r, b) \in Seq(SUBSET Byte) /\ Len(Append(r, b)) = Len(r) + 1
        /\ \A i \in 1 .. Len(r) : Append(r, b)[i] = r[i]
        /\ Append(r, b)[Len(r) + 1] = b
    BY <1>1, AppendProperties
  <2> QED
    BY <2>1, <2>2, <2>3 DEF r
<1>7. CASE Op(p) \notin MemReads \union {"ECHO", "CPU_REG_RD", "QUERY_DBG_BRK", "QUERY_ERR_CODE"}
  <2>1. n = 0 /\ e.replies = r
    <3>1. e.replies = r
      BY <1>3, <1>7 DEF MemReads
    <3> QED
      BY <3>1, <1>7, AskedFacts
  <2> QED
    BY <2>1, <1>1 DEF r
<1> QED
  BY <1>5, <1>6, <1>7

\* A packet is sent: all of it is to come.
LEMMA StepSend ==
    ASSUME HostRules, IInv, NEW p \in Packets, SendPacket(p)
    PROVE  IInv'
<1>1. /\ line = << >> /\ rx_wait = 0
      /\ ref.run => OpName(p[1]) \in {"DBG_BRK", "QUERY_DBG_BRK"}
      /\ Len(got) = Len(ref.replies)
      /\ line' = p /\ ref' = Execute(ref, p)
      /\ UNCHANGED <<q_state, cpu_mem, vram, cpu_regs, q_err_code, q_cart_cfg>>
      /\ UNCHANGED <<q_tx_data, q_wr_en, rx_fifo, tx_fifo, tx_left, rx_wait, got>>
  BY DEF SendPacket, HostRules, fsm, cfg, out, dev
<1>2. p \in Seq(Byte) /\ WellFormed(p)
  BY HciAssumption DEF HciAssumption, HostRules
<1>3. TypeInv /\ RxOk /\ TxOk /\ Idle
  <2>1. TypeInv /\ RxOk /\ TxOk /\ Link
    BY DEF IInv
  <2>2. ASSUME NEW q \in Packets, NEW k \in 0 .. Len(q), Carries(q, k) PROVE FALSE
    BY <2>1, <2>2, <1>1, NoneBefore DEF Busy
  <2> QED
    BY <2>1, <2>2 DEF Link
<1>4. Resting
  BY <1>3 DEF Resting
<1>5. PICK e : e = Execute(ref, p)
  OBVIOUS
<1>6. ref' = e
  BY <1>1, <1>5
<1>7. /\ e = [mem |-> e.mem, vram |-> e.vram, regs |-> e.regs, cart |-> e.cart,
              run |-> e.run, err |-> e.err, replies |-> e.replies]
      /\ e.mem = IF Op(p) = "CPU_MEM_WR" THEN Stored(cpu_mem, p) ELSE cpu_mem
      /\ e.vram = IF Op(p) = "PPU_MEM_WR" THEN Stored(vram, p) ELSE vram
      /\ e.regs = IF Op(p) = "CPU_REG_WR" THEN [cpu_regs EXCEPT ![p[2]] = p[3]] ELSE cpu_regs
      /\ e.cart = IF Op(p) = "CART_SET_CFG" THEN SubSeq(p, 2, 6) ELSE q_cart_cfg
      /\ e.err = IF Op(p) = "UNKNOWN" THEN TRUE ELSE ref.err
      /\ e.run = CASE Op(p) = "DBG_BRK" -> FALSE
                   [] Op(p) = "DBG_RUN" -> TRUE
                   [] OTHER -> ref.run
  BY <1>2, <1>4, <1>5, Executes, Zenon
<1>8. /\ e.replies \in Seq(SUBSET Byte)
      /\ Len(e.replies) = Len(ref.replies) + Asked(p)
      /\ \A i \in 1 .. Len(ref.replies) : e.replies[i] = ref.replies[i]
      /\ \A i \in 1 .. Asked(p) : e.replies[Len(ref.replies) + i] = AnswerTo(p, i)
  BY <1>2, <1>4, <1>5, RepliesGrow, Zenon
<1>9. Len(got) \in Nat /\ Asked(p) \in Nat /\ q_wr_en \in BOOLEAN
  BY <1>2, <1>3, AskedFacts, LenProperties DEF TypeInv
<1>10. \A i \in 1 .. Asked(p) : Len(e.replies) - Asked(p) + i = Len(ref.replies) + i
  <2>1. PICK n, m, l : n = Asked(p) /\ m = Len(e.replies) /\ l = Len(ref.replies)
    OBVIOUS
  <2>2. n \in Nat /\ l \in Nat /\ m = l + n
    BY <2>1, <1>1, <1>8, <1>9
  <2>3. \A i \in 1 .. n : m - n + i = l + i
    BY <2>2
  <2> QED
    BY <2>1, <2>3
<1>11. Len(ref.replies) <= Len(e.replies)
  <2>1. PICK n, m, l : n = Asked(p) /\ m = Len(e.replies) /\ l = Len(ref.replies)
    OBVIOUS
  <2>2. n \in Nat /\ l \in Nat /\ m = l + n
    BY <2>1, <1>1, <1>8, <1>9
  <2> QED
    BY <2>1, <2>2
<1>12. Count(tx_fifo) = 0 /\ ~ q_wr_en
  <2>1. Count(tx_fifo) \in 0 .. Depth /\ Bit(q_wr_en) \in {0, 1} /\ (q_wr_en => Bit(q_wr_en) = 1)
    BY <1>3, CountFits DEF TxOk, Bit
  <2>2. Len(got) = Len(got) + Count(tx_fifo) + Bit(q_wr_en) + 0 /\ Depth \in Nat
    BY <1>1, <1>3, DepthFits DEF Idle, Owed, Made
  <2>3. Count(tx_fifo) = 0 /\ Bit(q_wr_en) = 0
    BY <2>1, <2>2, <1>9
  <2> QED
    BY <2>1, <2>3
<1>13. TypeInv'
  <2>1. e.replies \in Seq(SUBSET Byte) /\ line' \in Seq(Byte)
    BY <1>1, <1>2, <1>8
  <2> QED
    BY <2>1, <1>1, <1>3, <1>6, <1>7 DEF TypeInv
<1>14. RxOk'
  BY <1>1, <1>3 DEF RxOk
<1>15. TxOk'
  <2>1. /\ Safe(tx_fifo) /\ tx_left \in 0 .. TxClks /\ (tx_left > 0 => ~ tx_fifo.empty)
        /\ \A i \in 1 .. Len(got) : Right(ref.replies, got[i], i)
    BY <1>3 DEF TxOk
  <2>2. \A i \in 1 .. Len(got) : Right(e.replies, got[i], i)
    <3> SUFFICES ASSUME NEW i \in 1 .. Len(got) PROVE Right(e.replies, got[i], i)
      OBVIOUS
    <3>1. i <= Len(ref.replies) /\ got[i] \in ref.replies[i]
      BY <2>1 DEF Right
    <3>2. i \in 1 .. Len(ref.replies)
      BY <1>1
    <3>3. e.replies[i] = ref.replies[i]
      BY <3>2, <1>8
    <3>4. i <= Len(e.replies)
      <4>1. i \in Nat /\ Len(ref.replies) \in Nat /\ Len(e.replies) \in Nat
        BY <1>1, <1>8, <1>9, LenProperties
      <4> QED
        BY <4>1, <3>1, <1>11
    <3> QED
      BY <3>1, <3>3, <3>4 DEF Right
  <2>3. \A i \in 1 .. Count(tx_fifo) : FALSE
    BY <1>12
  <2> QED
    BY <2>1, <2>2, <2>3, <1>1, <1>6, <1>12 DEF TxOk
<1>16. Len(p) \in Nat /\ 0 \in 0 .. Len(p)
  BY <1>2, LenProperties
<1>17. ToCome(p, 0)'
  <2>1. rx_fifo'.empty
    BY <1>1, <1>3 DEF Idle
  <2>2. Len(line') = Len(p) - 0 /\ \A i \in 1 .. Len(line') : line'[i] = p[0 + i]
    BY <1>1, <1>16
  <2> QED
    BY <2>1, <2>2 DEF ToCome, LineIs
<1>18. Effect(p)'
  <2>1. /\ e.err = (q_err_code \/ Op(p) = "UNKNOWN")
        /\ e.run = CASE Op(p) = "DBG_BRK" -> FALSE
                     [] Op(p) = "DBG_RUN" -> TRUE
                     [] OTHER -> q_state = "DISABLED"
    <3>1. ref.err = q_err_code /\ ref.run = (q_state = "DISABLED") /\ q_err_code \in BOOLEAN
      BY <1>3 DEF Idle, Same, TypeInv
    <3>2. e.err = (q_err_code \/ Op(p) = "UNKNOWN")
      BY <3>1, <1>7
    <3> QED
      BY <3>1, <3>2, <1>7
  <2> QED
    BY <2>1, <1>1, <1>6, <1>7 DEF Effect
<1>19. Answers(p)'
  <2>1. Asked(p) <= Len(e.replies)
    BY <1>1, <1>8, <1>9
  <2>2. ASSUME NEW i \in 1 .. Asked(p) PROVE AnswersAt(p, i)'
    <3>1. e.replies[Len(e.replies) - Asked(p) + i] = AnswerTo(p, i)
      BY <1>8, <1>10
    <3>2. Asks(p, i)' = AnswerTo(p, i)
      BY <3>1, <1>6 DEF Asks
    <3>3. CASE Op(p) = "QUERY_DBG_BRK"
      <4>1. /\ q_state = "DISABLED" => 0 \in AnswerTo(p, i)
            /\ q_state # "DISABLED" \/ BrkEnabled => 1 \in AnswerTo(p, i)
        BY <3>3 DEF AnswerTo
      <4> QED
        BY <4>1, <3>2, <3>3, <1>1 DEF AnswersAt
    <3>4. CASE Op(p) \in MemReads \union {"ECHO", "CPU_REG_RD", "QUERY_ERR_CODE"}
      BY <3>2, <3>4, <1>1 DEF AnswersAt, AnswerTo, MemReads
    <3>5. Asked(p) # 0
      BY <1>9
    <3> QED
      BY <3>3, <3>4, <3>5, <1>2, AskedFacts
  <2> QED
    BY <2>1, <2>2, <1>6 DEF Answers
<1>20. Opcode(p, 0)'
  <2>1. q_state \in {"DECODE", "DISABLED"} /\ ref.run = (q_state = "DISABLED")
    BY <1>3 DEF Idle, Same
  <2>2. Fresh(p)'
    BY <1>1, <1>6, <1>8, <1>12 DEF Fresh
  <2> QED
    BY <2>1, <2>2, <1>1 DEF Opcode, Op
<1> QED
  BY <1>13, <1>14, <1>15, <1>16, <1>17, <1>18, <1>19, <1>20, Moves DEF IInv, Doing

\* The steps of everything together.
LEMMA IInvNext ==
    ASSUME HostRules, IInv, NEW ok \in BOOLEAN, Stage(ok), [Next]_vars
    PROVE  IInv'
<1>1. TypeInv /\ RxOk /\ TxOk /\ Link
  BY DEF IInv
<1>2. CASE Clock
  <2>1. CASE Idle
    BY <2>1, <1>1, <1>2, RestingNext DEF Resting
  <2>2. CASE \E p \in Packets : \E k \in 0 .. Len(p) : Carries(p, k)
    <3>1. PICK p \in Packets : \E k \in 0 .. Len(p) : Carries(p, k)
      BY <2>2
    <3>2. PICK k \in 0 .. Len(p) : Carries(p, k)
      BY <3>1
    <3>3. Busy(p, k)
      BY <3>2, <1>1 DEF Busy
    <3> QED
      BY <3>3, <1>2, BusyNext
  <2> QED
    BY <2>1, <2>2, <1>1 DEF Link
<1>3. CASE \E p \in Packets : SendPacket(p)
  BY <1>3, StepSend
<1>4. CASE UNCHANGED vars
  <2>1. /\ UNCHANGED <<q_state, q_decode_cnt, q_execute_cnt, q_addr, q_err_code, q_cart_cfg>>
        /\ UNCHANGED <<rx_fifo, tx_fifo, tx_left, line, rx_wait, got, q_tx_data, q_wr_en>>
        /\ UNCHANGED <<cpu_mem, vram, q_ram_a, cpu_regs, ref>>
    BY <1>4 DEF vars, fsm, cfg, uart, out, dev, host
  <2>2. TypeInv'
    BY <2>1, <1>1 DEF TypeInv
  <2>3. RxOk'
    BY <2>1, <1>1 DEF RxOk
  <2>4. TxOk'
    BY <2>1, <1>1 DEF TxOk
  <2>5. Idle => Idle'
    BY <2>1 DEF Idle, Owed, Made, Same
  <2>6. ASSUME NEW p \in Packets, NEW k \in 0 .. Len(p), Carries(p, k) PROVE Link'
    <3>1. ToCome(p, k) /\ Effect(p) /\ Answers(p) /\ Doing(p, k)
      BY <2>6 DEF Carries
    <3>2. ToCome(p, k)' /\ Effect(p)' /\ Answers(p)'
      BY <3>1, <2>1, Kept DEF ToCome, LineIs, rd_data
    <3>3. Fresh(p)' = Fresh(p) /\ \A n : Owed(n)' = Owed(n)
      BY <2>1 DEF Fresh, Owed, Made
    <3>4. Opcode(p, k) => Opcode(p, k)'
      BY <2>1, <3>3 DEF Opcode
    <3>5. Header(p, k) => Header(p, k)'
      BY <2>1, <3>3 DEF Header
    <3>6. Reads(p, k) => Reads(p, k)'
      BY <2>1, <3>3 DEF Reads
    <3>7. Writes(p, k) => Writes(p, k)'
      BY <2>1, <3>3 DEF Writes
    <3>8. Echoes(p, k) => Echoes(p, k)'
      BY <2>1, <3>3 DEF Echoes, TxBusy
    <3>9. Single(p, k) => Single(p, k)'
      BY <2>1, <3>3 DEF Single
    <3>10. Doing(p, k)'
      BY <3>1, <3>4, <3>5, <3>6, <3>7, <3>8, <3>9 DEF Doing
    <3> QED
      BY <3>2, <3>10, Moves
  <2> QED
    BY <2>2, <2>3, <2>4, <2>5, <2>6, <1>1 DEF IInv, Link
<1> QED
  BY <1>2, <1>3, <1>4 DEF Next

-----------------------------------------------------------------------------
(* The theorems.                                                             *)

LEMMA ResetIsSafe ==
    LET f == FifoReset([i \in Ptr |-> 0])
    IN  Safe(f) /\ Count(f) = 0 /\ f.empty /\ ~ f.full
<1> DEFINE f == FifoReset([i \in Ptr |-> 0])
<1>1. /\ f.rd_ptr = 0 /\ f.wr_ptr = 0 /\ f.empty = TRUE /\ f.full = FALSE
      /\ f \in Fifos
  <2>1. 0 \in Ptr /\ [i \in Ptr |-> 0] \in [Ptr -> Byte]
    BY DepthFits, ByteFacts DEF Ptr
  <2> QED
    BY <2>1 DEF FifoReset, Fifos
<1> HIDE DEF f
<1>2. Count(f) = 0
  BY <1>1 DEF Count
<1>3. Safe(f)
  BY <1>1, <1>2, DepthFits DEF Safe
<1> QED
  BY <1>1, <1>2, <1>3 DEF f

LEMMA IInvInit ==
    ASSUME HostRules, Init
    PROVE  IInv
<1>1. /\ q_state = "DECODE" /\ q_err_code = FALSE /\ q_cart_cfg = <<0, 0, 0, 0, 0>>
      /\ q_tx_data = 0 /\ q_wr_en = FALSE /\ tx_left = 0
      /\ cpu_mem = [a \in CpuAddrs |-> 0] /\ vram = [a \in VramAddrs |-> 0]
      /\ cpu_regs = [r \in RegSel |-> 0]
      /\ line = << >> /\ rx_wait = 0 /\ got = << >>
      /\ ref = [mem |-> cpu_mem, vram |-> vram, regs |-> cpu_regs,
                cart |-> q_cart_cfg, run |-> FALSE, err |-> FALSE, replies |-> << >>]
  BY DEF Init
<1>2. /\ Safe(rx_fifo) /\ Count(rx_fifo) = 0 /\ rx_fifo.empty
      /\ Safe(tx_fifo) /\ Count(tx_fifo) = 0 /\ tx_fifo.empty
  BY ResetIsSafe DEF Init
<1>3. RxClks \in Nat /\ TxClks \in Nat /\ 0 \in Byte
  BY Rates, ByteFacts
<1>4. ref.replies = << >> /\ Len(ref.replies) = 0 /\ Len(got) = 0
  BY <1>1
<1>5. TypeInv
  <2>1. /\ cpu_mem \in [CpuAddrs -> Byte] /\ vram \in [VramAddrs -> Byte]
        /\ cpu_regs \in [RegSel -> Byte]
    BY <1>1, <1>3
  <2>2. q_cart_cfg \in Seq(Byte) /\ Len(q_cart_cfg) = 5
    BY <1>1, <1>3
  <2>3. /\ ref = [mem |-> ref.mem, vram |-> ref.vram, regs |-> ref.regs, cart |-> ref.cart,
                  run |-> ref.run, err |-> ref.err, replies |-> ref.replies]
        /\ ref.replies \in Seq(SUBSET Byte)
    BY <1>1
  <2>4. /\ line \in Seq(Byte) /\ got \in Seq(Byte) /\ q_tx_data \in Byte
        /\ q_wr_en \in BOOLEAN /\ q_err_code \in BOOLEAN
    <3>1. PICK s, d, b : s = << >> /\ d = 0 /\ b = FALSE
      OBVIOUS
    <3>2. line = s /\ got = s /\ q_tx_data = d /\ q_wr_en = b /\ q_err_code = b
      BY <3>1, <1>1, Zenon
    <3>3. s \in Seq(Byte)
      BY <3>1
    <3>4. d \in Byte /\ b \in BOOLEAN
      BY <3>1, <1>3, Zenon
    <3> QED
      BY <3>2, <3>3, <3>4, Zenon
  <2> QED
    BY <2>1, <2>2, <2>3, <2>4, Zenon DEF TypeInv
<1>6. RxOk
  BY <1>1, <1>2, <1>3 DEF RxOk
<1>7. TxOk
  BY <1>1, <1>2, <1>3, <1>4 DEF TxOk
<1>8. Owed(0)
  BY <1>1, <1>2, <1>4 DEF Owed, Made, Bit
<1>9. Same
  BY <1>1 DEF Same
<1> QED
  BY <1>1, <1>2, <1>5, <1>6, <1>7, <1>8, <1>9 DEF IInv, Link, Idle

\* What the invariant says of a quiet link.
LEMMA QuietIsIdle ==
    ASSUME HostRules, IInv, Quiet
    PROVE  Same /\ Len(got) = Len(ref.replies)
<1>1. /\ line = << >> /\ Count(rx_fifo) = 0 /\ q_state \in {"DISABLED", "DECODE"}
      /\ ~ q_wr_en /\ Count(tx_fifo) = 0
  BY DEF Quiet
<1>2. TypeInv /\ RxOk /\ TxOk /\ Link
  BY DEF IInv
<1>3. rx_fifo.empty
  BY <1>1, <1>2 DEF RxOk, Safe
<1>4. ASSUME NEW p \in Packets, NEW k \in 0 .. Len(p), Carries(p, k) PROVE FALSE
  <2>1. ToCome(p, k) /\ Doing(p, k) /\ Len(p) \in Nat /\ Len(p) >= 1
    <3>1. p \in Seq(Byte) /\ WellFormed(p)
      BY HciAssumption DEF HciAssumption, HostRules
    <3> QED
      BY <3>1, <1>4, PacketShape DEF Carries
  <2>2. k = Len(p)
    BY <2>1, <1>1, <1>3 DEF ToCome, LineIs
  <2>3. k = 0
    BY <2>1, <1>1, Where DEF Opcode
  <2> QED
    BY <2>1, <2>2, <2>3
<1>5. Idle
  BY <1>2, <1>4 DEF Link
<1>6. Len(got) = Len(ref.replies)
  <2>1. Len(got) \in Nat /\ Bit(q_wr_en) = 0
    BY <1>1, <1>2, LenProperties DEF TypeInv, Bit
  <2>2. Len(ref.replies) = Len(got) + 0 + 0 + 0
    BY <2>1, <1>1, <1>5 DEF Idle, Owed, Made
  <2> QED
    BY <2>1, <2>2
<1> QED
  BY <1>5, <1>6 DEF Idle

LEMMA GotIsRight ==
    ASSUME IInv
    PROVE  RepliesRight
<1>1. \A i \in 1 .. Len(got) : i <= Len(ref.replies) /\ got[i] \in ref.replies[i]
  BY DEF IInv, TxOk, Right
<1>2. Len(got) \in Nat /\ Len(ref.replies) \in Nat
  BY LenProperties DEF IInv, TypeInv
<1>3. Len(got) <= Len(ref.replies)
  <2>1. CASE Len(got) = 0
    BY <2>1, <1>2
  <2>2. CASE Len(got) # 0
    <3>1. Len(got) \in 1 .. Len(got)
      BY <2>2, <1>2
    <3> QED
      BY <3>1, <1>1
  <2> QED
    BY <2>1, <2>2
<1> QED
  BY <1>1, <1>3 DEF RepliesRight

LEMMA RoomForAByte ==
    ASSUME IInv
    PROVE  ~ rx_fifo.full
<1>1. Safe(rx_fifo) /\ Count(rx_fifo) \in {0, 1} /\ Depth \in Nat /\ Depth >= 4
  BY DepthFits DEF IInv, RxOk
<1> QED
  BY <1>1 DEF Safe

\* The invariant.  Of what PPU_DISABLE finds on the buses only the width of its
\* counter is needed here.
THEOREM LinkHolds == ASSUME HostRules PROVE Spec => [](IInv /\ Stage(FALSE))
<1>1. Init => IInv /\ Stage(FALSE)
  BY IInvInit DEF Init, Stage
<1>2. IInv /\ Stage(FALSE) /\ [Next]_vars => (IInv /\ Stage(FALSE))'
  <2> SUFFICES ASSUME IInv, Stage(FALSE), [Next]_vars PROVE IInv' /\ Stage(FALSE)'
    OBVIOUS
  <2>1. Stage(FALSE)'
    BY StageNext
  <2>2. PICK ok \in BOOLEAN : Stage(ok)
    OBVIOUS
  <2>3. IInv'
    BY <2>2, IInvNext
  <2> QED
    BY <2>1, <2>3
<1> QED
  BY <1>1, <1>2, PTL DEF Spec

\* Whatever packets the host sends under its rules, the bytes it receives from
\* hci.v are right answers, in the order of its requests.
THEOREM RepliesCorrect == ASSUME HostRules PROVE Spec => []RepliesRight
<1>1. IInv => RepliesRight
  BY GotIsRight
<1> QED
  BY <1>1, LinkHolds, PTL

\* Whenever the link is quiet, the NES is in the state that the packets sent so
\* far call for, and every reply has come.
THEOREM QuietCorrect == ASSUME HostRules PROVE Spec => []QuietMeansDone
<1>1. IInv => QuietMeansDone
  BY QuietIsIdle DEF QuietMeansDone, Same
<1> QED
  BY <1>1, LinkHolds, PTL

\* A byte never arrives at a full receive FIFO, whose full output hci.v does not
\* look at.
THEOREM NoByteDroppedCorrect == ASSUME HostRules PROVE Spec => NoByteDropped
<1>1. IInv /\ [Next]_vars => [line' # line /\ Len(line') < Len(line) => ~ rx_fifo.full]_vars
  BY RoomForAByte
<1> QED
  BY <1>1, LinkHolds, PTL DEF Spec, NoByteDropped
=============================================================================
