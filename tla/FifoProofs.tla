----------------------------- MODULE FifoProofs -----------------------------
(***************************************************************************)
(* Theorems about Fifo.tla for every Depth >= 4 and every Data.            *)
(***************************************************************************)
EXTENDS Fifo, ProofLemmas

\* The inductive invariant: alone, neither the flags' bounds nor the mutual
\* exclusion of the flags is preserved, because Count reads equal pointers
\* through the full flag.
IInv == TypeOK /\ FlagsSafe /\ OneSideOpen

\* What a clock does to the fields of the record, for use without the record.
LEMMA ClockFields ==
    ASSUME NEW rd_en \in BOOLEAN, NEW wr_en \in BOOLEAN, NEW wr_data \in Data,
           NEW f \in Fifos
    PROVE  LET g  == FifoClock(f, rd_en, wr_en, wr_data)
               rd == RdEnProt(f, rd_en)
               wr == WrEnProt(f, wr_en)
           IN  /\ g.rd_ptr = IF rd THEN Succ(f.rd_ptr) ELSE f.rd_ptr
               /\ g.wr_ptr = IF wr THEN Succ(f.wr_ptr) ELSE f.wr_ptr
               /\ g.empty = NextEmpty(f, rd, wr)
               /\ g.full = NextFull(f, rd, wr)
               /\ g.data = IF wr THEN [f.data EXCEPT ![f.wr_ptr] = wr_data]
                                 ELSE f.data
BY DEF FifoClock

\* Pointers stay in range.
LEMMA SuccInPtr == \A p \in Ptr : Succ(p) \in Ptr
BY DepthAssumption DEF Ptr, Succ

\* A clock edge maps well-typed registers to well-typed registers.
LEMMA ClockType ==
    ASSUME NEW rd_en \in BOOLEAN, NEW wr_en \in BOOLEAN, NEW wr_data \in Data,
           NEW f \in Fifos
    PROVE  FifoClock(f, rd_en, wr_en, wr_data) \in Fifos
<1> DEFINE rd == RdEnProt(f, rd_en)
           wr == WrEnProt(f, wr_en)
<1>1. /\ f.rd_ptr \in Ptr /\ f.wr_ptr \in Ptr
      /\ f.empty \in BOOLEAN /\ f.full \in BOOLEAN
      /\ f.data \in [Ptr -> Data]
  BY DEF Fifos
<1>2. rd \in BOOLEAN /\ wr \in BOOLEAN
  BY <1>1 DEF RdEnProt, WrEnProt
<1>3. /\ (IF rd THEN Succ(f.rd_ptr) ELSE f.rd_ptr) \in Ptr
      /\ (IF wr THEN Succ(f.wr_ptr) ELSE f.wr_ptr) \in Ptr
  BY <1>1, SuccInPtr
<1>4. NextEmpty(f, rd, wr) \in BOOLEAN /\ NextFull(f, rd, wr) \in BOOLEAN
  BY DEF NextEmpty, NextFull
<1>5. (IF wr THEN [f.data EXCEPT ![f.wr_ptr] = wr_data] ELSE f.data)
          \in [Ptr -> Data]
  BY <1>1
<1> QED
  BY <1>3, <1>4, <1>5 DEF FifoClock, Fifos

\* The power-on registers are well typed.
THEOREM TypeInit == Init => TypeOK
<1> SUFFICES ASSUME NEW data \in [Ptr -> Data], fifo = FifoReset(data)
             PROVE  TypeOK
  BY DEF Init
<1> QED
  BY DepthAssumption DEF TypeOK, FifoReset, Fifos, Ptr

\* The reset state has no entries and both flags right.
LEMMA ResetInv ==
    ASSUME NEW data \in [Ptr -> Data], fifo' = FifoReset(data)
    PROVE  IInv'
<1>1. TypeOK'
  BY DepthAssumption DEF TypeOK, FifoReset, Fifos, Ptr
<1>2. Count(fifo)' = 0
  BY DEF Count, FifoReset
<1> QED
  BY <1>1, <1>2, DepthAssumption
     DEF IInv, FlagsSafe, OneSideOpen, FifoReset

\* What one clock does to the number of entries, given safe flags: exactly
\* the accepted read and the accepted write.
LEMMA CountStep ==
    ASSUME IInv, NEW rd_en \in BOOLEAN, NEW wr_en \in BOOLEAN,
           NEW wr_data \in Data, Clock(rd_en, wr_en, wr_data)
    PROVE  /\ Count(fifo) \in 0 .. Depth
           /\ Count(fifo)' = Count(fifo)
                  + (IF WrEnProt(fifo, wr_en) THEN 1 ELSE 0)
                  - (IF RdEnProt(fifo, rd_en) THEN 1 ELSE 0)
           /\ FlagsSafe'
           /\ OneSideOpen'
<1> DEFINE r  == fifo.rd_ptr
           w  == fifo.wr_ptr
           rd == RdEnProt(fifo, rd_en)
           wr == WrEnProt(fifo, wr_en)
<1>1. fifo \in Fifos
  BY DEF IInv, TypeOK
<1>2. /\ r \in 0 .. Depth - 1 /\ w \in 0 .. Depth - 1
      /\ fifo.empty \in BOOLEAN /\ fifo.full \in BOOLEAN
  BY <1>1 DEF Fifos, Ptr
<1>3. /\ fifo'.rd_ptr = IF rd THEN Succ(r) ELSE r
      /\ fifo'.wr_ptr = IF wr THEN Succ(w) ELSE w
      /\ fifo'.empty = NextEmpty(fifo, rd, wr)
      /\ fifo'.full = NextFull(fifo, rd, wr)
  BY ZenonT(60), <1>1, ClockFields DEF Clock
<1>4. /\ rd <=> rd_en /\ ~ fifo.empty
      /\ wr <=> wr_en /\ ~ fifo.full
  BY DEF RdEnProt, WrEnProt
<1>5. /\ Count(fifo) = 0 => fifo.empty
      /\ Count(fifo) = Depth => fifo.full
      /\ fifo.empty => Count(fifo) <= 1
      /\ fifo.full => Count(fifo) >= Depth - 1
      /\ ~ (fifo.empty /\ fifo.full)
  BY DEF IInv, FlagsSafe, OneSideOpen
<1> HIDE DEF rd, wr
<1>6. Count(fifo) \in 0 .. Depth
  BY <1>2, DepthAssumption DEF Count, PtrDiff
<1>7. Count(fifo)' = Count(fifo) + (IF wr THEN 1 ELSE 0) - (IF rd THEN 1 ELSE 0)
  BY <1>2, <1>3, <1>4, <1>5, DepthAssumption
     DEF Count, PtrDiff, Succ, NextEmpty, NextFull
<1>8. FlagsSafe'
  <2>1. (Count(fifo) = 0 => fifo.empty)'
    BY <1>2, <1>3, <1>4, <1>5, DepthAssumption
       DEF Count, PtrDiff, Succ, NextEmpty, NextFull
  <2>2. (Count(fifo) = Depth => fifo.full)'
    BY <1>2, <1>3, <1>4, <1>5, DepthAssumption
       DEF Count, PtrDiff, Succ, NextEmpty, NextFull
  <2>3. (fifo.empty => Count(fifo) <= 1)'
    <3> SUFFICES ASSUME fifo'.empty PROVE Count(fifo)' <= 1
      OBVIOUS
    <3>1. CASE fifo.empty /\ ~ wr
      BY <3>1, <1>4, <1>5, <1>6, <1>7, DepthAssumption
    <3>2. CASE PtrDiff(w, r) = 1 /\ rd
      <4>1. Count(fifo) = 1
        BY <3>2, <1>2, DepthAssumption DEF Count, PtrDiff
      <4> QED
        BY <4>1, <3>2, <1>7
    <3> QED
      BY <3>1, <3>2, <1>3 DEF NextEmpty
  <2>4. (fifo.full => Count(fifo) >= Depth - 1)'
    <3> SUFFICES ASSUME fifo'.full PROVE Count(fifo)' >= Depth - 1
      OBVIOUS
    <3>1. CASE fifo.full /\ ~ rd
      BY <3>1, <1>4, <1>5, <1>6, <1>7, DepthAssumption
    <3>2. CASE PtrDiff(r, w) = 1 /\ wr
      <4>1. Count(fifo) = Depth - 1
        BY <3>2, <1>2, DepthAssumption DEF Count, PtrDiff
      <4> QED
        BY <4>1, <3>2, <1>7, DepthAssumption
    <3> QED
      BY <3>1, <3>2, <1>3 DEF NextFull
  <2> QED
    BY <2>1, <2>2, <2>3, <2>4 DEF FlagsSafe
<1>9. OneSideOpen'
  BY <1>2, <1>3, <1>4, <1>5, DepthAssumption
     DEF OneSideOpen, Count, PtrDiff, Succ, NextEmpty, NextFull
<1> QED
  BY <1>6, <1>7, <1>8, <1>9 DEF rd, wr

-----------------------------------------------------------------------------
\* The power-on registers satisfy the inductive invariant.
THEOREM InvInit == Init => IInv
<1> SUFFICES ASSUME NEW data \in [Ptr -> Data], fifo = FifoReset(data)
             PROVE  IInv
  BY DEF Init
<1>1. TypeOK
  BY DepthAssumption DEF TypeOK, FifoReset, Fifos, Ptr
<1>2. Count(fifo) = 0
  BY DEF Count, FifoReset
<1> QED
  BY <1>1, <1>2, DepthAssumption DEF IInv, FlagsSafe, OneSideOpen, FifoReset

\* Every clock edge and every reset preserve the inductive invariant.
THEOREM InvStep == IInv /\ [Next]_fifo => IInv'
<1> SUFFICES ASSUME IInv, [Next]_fifo
             PROVE  IInv'
  OBVIOUS
<1>1. fifo \in Fifos
  BY DEF IInv, TypeOK
<1>2. CASE Reset
  BY <1>1, <1>2, ResetInv DEF Reset, Fifos
<1>3. ASSUME NEW rd_en \in BOOLEAN, NEW wr_en \in BOOLEAN,
             NEW wr_data \in Data, Clock(rd_en, wr_en, wr_data)
      PROVE  IInv'
  <2>1. TypeOK'
    BY <1>1, <1>3, ClockType DEF Clock, TypeOK
  <2>2. FlagsSafe' /\ OneSideOpen'
    BY <1>3, CountStep
  <2> QED
    BY <2>1, <2>2 DEF IInv
<1>4. CASE UNCHANGED fifo
  BY <1>4 DEF IInv, TypeOK, FlagsSafe, OneSideOpen
<1> QED
  BY <1>2, <1>3, <1>4 DEF Next

\* The registers of fifo.v stay well typed and its flags safe and exclusive,
\* for every depth from four up.
THEOREM FlagsCorrect == Spec => [](TypeOK /\ FlagsSafe /\ OneSideOpen)
<1>1. Init => IInv
  BY InvInit
<1>2. IInv /\ [Next]_fifo => IInv'
  BY InvStep
<1> QED
  BY <1>1, <1>2, PTL DEF Spec, IInv

\* A reader and a writer that each wait for their own flag never block each
\* other: empty is raised with at most one entry and full with at most one free
\* slot, which no depth from four up allows at once.
THEOREM OneSideOpenCorrect == Spec => []OneSideOpen
BY FlagsCorrect, PTL

-----------------------------------------------------------------------------
\* The unread entries are a sequence of Count entries.
LEMMA ContentsType ==
    ASSUME NEW f \in Fifos
    PROVE  /\ Count(f) \in 0 .. Depth
           /\ \A i \in 1 .. Count(f) : Slot(f, i) \in Ptr
           /\ Contents(f) \in Seq(Data)
           /\ Len(Contents(f)) = Count(f)
           /\ \A i \in 1 .. Count(f) : Contents(f)[i] = f.data[Slot(f, i)]
<1>1. /\ f.rd_ptr \in 0 .. Depth - 1 /\ f.wr_ptr \in 0 .. Depth - 1
      /\ f.data \in [Ptr -> Data]
  BY DEF Fifos, Ptr
<1>2. Count(f) \in 0 .. Depth
  BY <1>1, DepthAssumption DEF Count, PtrDiff
<1>3. \A i \in 1 .. Count(f) : Slot(f, i) \in Ptr
  BY <1>1, <1>2, DepthAssumption DEF Slot, Ptr
<1>4. Contents(f) \in [1 .. Count(f) -> Data]
  BY <1>1, <1>3 DEF Contents
<1>5. Count(f) \in Nat
  BY <1>2, DepthAssumption
<1> QED
  BY <1>2, <1>3, <1>4, <1>5, FunctionIsSeq DEF Contents

\* The free slot that is written is the one after the youngest entry, and it
\* is none of the slots in use.
LEMMA WriteSlot ==
    ASSUME NEW f \in Fifos, Count(f) < Depth
    PROVE  /\ Slot(f, Count(f) + 1) = f.wr_ptr
           /\ \A i \in 1 .. Count(f) : Slot(f, i) # f.wr_ptr
<1>1. f.rd_ptr \in 0 .. Depth - 1 /\ f.wr_ptr \in 0 .. Depth - 1
  BY DEF Fifos, Ptr
<1> QED
  BY <1>1, DepthAssumption DEF Count, PtrDiff, Slot

\* The entries after a clock: what was read is gone from the front, what was
\* written is at the end, everything else is where it was.
LEMMA ContentsStep ==
    ASSUME IInv, NEW rd_en \in BOOLEAN, NEW wr_en \in BOOLEAN,
           NEW wr_data \in Data, Clock(rd_en, wr_en, wr_data)
    PROVE  LET rd   == RdEnProt(fifo, rd_en)
               wr   == WrEnProt(fifo, wr_en)
               kept == IF rd THEN Tail(Contents(fifo)) ELSE Contents(fifo)
           IN  /\ rd => Contents(fifo) # << >>
               /\ wr /\ ~ rd => Len(Contents(fifo)) < Depth
               /\ Contents(fifo)' = IF wr THEN Append(kept, wr_data) ELSE kept
<1> DEFINE rd   == RdEnProt(fifo, rd_en)
           wr   == WrEnProt(fifo, wr_en)
           q    == Contents(fifo)
           kept == IF rd THEN Tail(q) ELSE q
           new  == IF wr THEN Append(kept, wr_data) ELSE kept
           n    == Count(fifo)
<1>1. fifo \in Fifos /\ fifo' \in Fifos
  BY ClockType DEF IInv, TypeOK, Clock
<1>2. /\ n \in 0 .. Depth /\ q \in Seq(Data) /\ Len(q) = n
      /\ \A i \in 1 .. n : /\ Slot(fifo, i) \in Ptr
                           /\ q[i] = fifo.data[Slot(fifo, i)]
  BY <1>1, ContentsType
<1>3. /\ Count(fifo') \in 0 .. Depth
      /\ Contents(fifo') \in Seq(Data) /\ Len(Contents(fifo')) = Count(fifo')
      /\ \A i \in 1 .. Count(fifo') :
             Contents(fifo')[i] = fifo'.data[Slot(fifo', i)]
  BY <1>1, ContentsType
<1>4. Count(fifo') = n + (IF wr THEN 1 ELSE 0) - (IF rd THEN 1 ELSE 0)
  BY CountStep
<1>5. /\ rd => n > 0
      /\ wr => n < Depth
  <2>1. (n = 0 => fifo.empty) /\ (n = Depth => fifo.full)
    BY DEF IInv, FlagsSafe
  <2>2. rd => ~ fifo.empty
    BY DEF RdEnProt
  <2>3. wr => ~ fifo.full
    BY DEF WrEnProt
  <2> QED
    BY <2>1, <2>2, <2>3, <1>2, DepthAssumption
<1>6. /\ fifo'.rd_ptr = IF rd THEN Succ(fifo.rd_ptr) ELSE fifo.rd_ptr
      /\ fifo'.data = IF wr THEN [fifo.data EXCEPT ![fifo.wr_ptr] = wr_data]
                            ELSE fifo.data
  BY <1>1, ClockFields DEF Clock
<1>7. kept \in Seq(Data) /\ Len(kept) = n - (IF rd THEN 1 ELSE 0)
  <2>1. CASE rd
    BY <2>1, <1>2, <1>5, HeadTailProperties, EmptySeq
  <2>2. CASE ~ rd
    BY <2>2, <1>2
  <2> QED
    BY <2>1, <2>2
<1>8. \A i \in 1 .. Len(kept) : kept[i] = q[IF rd THEN i + 1 ELSE i]
  <2>1. CASE rd
    BY <2>1, <1>2, <1>5, HeadTailProperties, EmptySeq
  <2>2. CASE ~ rd
    BY <2>2, <1>2
  <2> QED
    BY <2>1, <2>2
<1> HIDE DEF rd, wr, q, kept
<1>9. \A i \in 1 .. Count(fifo') : Slot(fifo', i) = Slot(fifo, IF rd THEN i + 1 ELSE i)
  <2>1. fifo.rd_ptr \in 0 .. Depth - 1
    BY <1>1 DEF Fifos, Ptr
  <2>2. CASE rd
    BY SMTT(30), <2>1, <2>2, <1>2, <1>4, <1>5, <1>6, DepthAssumption DEF Slot, Succ
  <2>3. CASE ~ rd
    BY <2>3, <1>6 DEF Slot
  <2> QED
    BY <2>2, <2>3
<1>10. new \in Seq(Data) /\ Len(new) = Count(fifo')
  BY <1>4, <1>7, <1>2, AppendProperties
<1>11. \A i \in 1 .. Count(fifo') : new[i] = Contents(fifo')[i]
  <2> SUFFICES ASSUME NEW i \in 1 .. Count(fifo')
               PROVE  new[i] = fifo'.data[Slot(fifo', i)]
    BY <1>3
  <2> DEFINE j == IF rd THEN i + 1 ELSE i
  <2>1. Slot(fifo', i) = Slot(fifo, j)
    BY <1>9
  <2>2. CASE j \in 1 .. n
    <3>1. i \in 1 .. Len(kept) /\ new[i] = kept[i]
      BY <2>2, <1>2, <1>4, <1>7, AppendProperties
    <3>2. new[i] = fifo.data[Slot(fifo, j)]
      BY <3>1, <1>8, <2>2, <1>2
    <3>3. wr => Slot(fifo, j) # fifo.wr_ptr
      BY <1>1, <1>5, <2>2, WriteSlot
    <3>4. fifo'.data[Slot(fifo, j)] = fifo.data[Slot(fifo, j)]
      BY <3>3, <1>6, <1>1, <1>2, <2>2 DEF Fifos
    <3> QED
      BY <3>2, <3>4, <2>1
  <2>3. CASE j \notin 1 .. n
    <3>1. wr /\ i = Len(kept) + 1 /\ j = n + 1
      BY <2>3, <1>2, <1>4, <1>7
    <3>2. new[i] = wr_data
      BY <3>1, <1>7, AppendProperties
    <3>3. Slot(fifo, j) = fifo.wr_ptr
      BY <3>1, <1>1, <1>5, WriteSlot
    <3>4. fifo'.data[fifo.wr_ptr] = wr_data
      BY <3>1, <1>6, <1>1 DEF Fifos
    <3> QED
      BY <3>2, <3>3, <3>4, <2>1
  <2> QED
    BY <2>2, <2>3
<1>12. Contents(fifo') = new
  BY <1>3, <1>10, <1>11, SeqEqual
<1>13. /\ rd => q # << >>
       /\ wr /\ ~ rd => Len(q) < Depth
  BY <1>2, <1>5, EmptySeq
<1> QED
  BY <1>12, <1>13 DEF rd, wr, q, kept

\* fifo.v implements the abstract queue, for every depth and data type: no
\* byte of the serial link is lost, repeated, reordered or overwritten inside
\* a FIFO.
THEOREM FifoImplementsQueue == Spec => ImplementsQueue
<1>1. Init => Queue!QueueInit
  <2> SUFFICES ASSUME NEW data \in [Ptr -> Data], fifo = FifoReset(data)
               PROVE  Contents(fifo) = << >>
    BY DEF Init, Queue!QueueInit
  <2>1. Count(fifo) = 0
    BY DEF Count, FifoReset
  <2>2. Contents(fifo) \in Seq(Data) /\ Len(Contents(fifo)) = 0
    BY <2>1, TypeInit, ContentsType DEF TypeOK, Init
  <2> QED
    BY <2>2, EmptySeq
<1>2. IInv /\ [Next]_fifo => [Queue!QueueNext]_(Contents(fifo))
  <2> SUFFICES ASSUME IInv, [Next]_fifo
               PROVE  [Queue!QueueNext]_(Contents(fifo))
    OBVIOUS
  <2>1. CASE Reset
    <3>1. fifo' \in Fifos /\ Count(fifo') = 0
      BY <2>1, DepthAssumption
         DEF Reset, FifoReset, Count, IInv, TypeOK, Fifos, Ptr
    <3>2. Contents(fifo') \in Seq(Data) /\ Len(Contents(fifo')) = 0
      BY <3>1, ContentsType
    <3>3. Contents(fifo') = << >>
      BY <3>2, EmptySeq
    <3> QED
      BY <3>3 DEF Queue!QueueNext, Queue!QueueReset
  <2>2. ASSUME NEW rd_en \in BOOLEAN, NEW wr_en \in BOOLEAN,
               NEW wr_data \in Data, Clock(rd_en, wr_en, wr_data)
        PROVE  [Queue!QueueNext]_(Contents(fifo))
    <3>1. CASE RdEnProt(fifo, rd_en) /\ WrEnProt(fifo, wr_en)
      <4>1. Queue!EnqDeq(wr_data)
        BY <2>2, <3>1, ContentsStep DEF Queue!EnqDeq
      <4> QED
        BY <4>1 DEF Queue!QueueNext
    <3>2. CASE RdEnProt(fifo, rd_en) /\ ~ WrEnProt(fifo, wr_en)
      BY <2>2, <3>2, ContentsStep DEF Queue!QueueNext, Queue!Deq
    <3>3. CASE ~ RdEnProt(fifo, rd_en) /\ WrEnProt(fifo, wr_en)
      <4>1. Queue!Enq(wr_data)
        BY <2>2, <3>3, ContentsStep DEF Queue!Enq
      <4> QED
        BY <4>1 DEF Queue!QueueNext
    <3>4. CASE ~ RdEnProt(fifo, rd_en) /\ ~ WrEnProt(fifo, wr_en)
      BY <2>2, <3>4, ContentsStep
    <3> QED
      BY <3>1, <3>2, <3>3, <3>4
  <2>3. CASE UNCHANGED fifo
    BY <2>3 DEF Contents, Count, Slot
  <2> QED
    BY <2>1, <2>2, <2>3 DEF Next
<1>3. Spec => []IInv
  BY InvInit, InvStep, PTL DEF Spec
<1> QED
  BY <1>1, <1>2, <1>3, PTL DEF Spec, ImplementsQueue, Queue!QueueSpec

\* A wrong flag never outlives the next movement of the other side.
THEOREM FlagsRecoverCorrect == Spec => FlagsRecover
<1>1. IInv /\ [Next]_fifo => [HiddenEntryReturns]_fifo
  <2> SUFFICES ASSUME IInv, [Next]_fifo
               PROVE  [HiddenEntryReturns]_fifo
    OBVIOUS
  <2>1. CASE Reset
    <3>1. Count(fifo') = 0
      BY <2>1 DEF Reset, FifoReset, Count
    <3> QED
      BY <3>1, <2>1, DepthAssumption DEF HiddenEntryReturns, Reset, FifoReset
  <2>2. ASSUME NEW rd_en \in BOOLEAN, NEW wr_en \in BOOLEAN,
               NEW wr_data \in Data, Clock(rd_en, wr_en, wr_data)
        PROVE  HiddenEntryReturns
    <3> DEFINE rd == RdEnProt(fifo, rd_en)
               wr == WrEnProt(fifo, wr_en)
    <3>1. /\ Count(fifo) \in 0 .. Depth
          /\ Count(fifo') = Count(fifo) + (IF wr THEN 1 ELSE 0)
                                       - (IF rd THEN 1 ELSE 0)
      BY <2>2, CountStep
    <3>2. /\ fifo.empty => ~ rd
          /\ fifo.full => ~ wr
      BY DEF RdEnProt, WrEnProt
    <3>3. /\ fifo'.empty = NextEmpty(fifo, rd, wr)
          /\ fifo'.full = NextFull(fifo, rd, wr)
      BY ZenonT(60), <2>2, ClockFields DEF Clock, IInv, TypeOK
    <3> HIDE DEF rd, wr
    <3>4. fifo.empty /\ Count(fifo) = 1 /\ Count(fifo') = 2 => ~ fifo'.empty
      BY <3>1, <3>2, <3>3 DEF NextEmpty
    <3>5. fifo.full /\ Count(fifo) = Depth - 1 /\ Count(fifo') = Depth - 2
            => ~ fifo'.full
      BY <3>1, <3>2, <3>3, DepthAssumption DEF NextFull
    <3> QED
      BY <3>4, <3>5 DEF HiddenEntryReturns
  <2>3. CASE UNCHANGED fifo
    BY <2>3
  <2> QED
    BY <2>1, <2>2, <2>3 DEF Next
<1>2. Spec => []IInv
  BY InvInit, InvStep, PTL DEF Spec
<1> QED
  BY <1>1, <1>2, PTL DEF Spec, FlagsRecover
=============================================================================
