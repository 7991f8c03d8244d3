---------------------------- MODULE LoaderProofs ----------------------------
(***************************************************************************)
(* Theorems about Loader.tla for every directory, every size of the banks  *)
(* and every number of packets in the link.                                *)
(*                                                                         *)
(* The NES runs behind the SoC by whatever is in the link, and the game    *)
(* moves on its own until the break arrives.  So what is invariant is not  *)
(* the NES's state but what it will be when a packet's turn comes: in the  *)
(* debugger, still, and holding what the packets before it carried.        *)
(***************************************************************************)
EXTENDS Loader, ProofLemmas

\* Where the SoC is about to send a packet of a load behind its break.
Loading == {"ppu", "cfg", "prg", "chr", "pcl", "pch", "run"}
Labels == Loading \cup {"dir", "header", "halt", "wait", "pads"}

\* When the k-th packet of s has its turn, a condition holds that now has the
\* value now, that handling a packet of kind setter establishes, and that
\* nothing but a DbgRun ends: either it holds now and no DbgRun is before k, or
\* a setter is before k and no DbgRun between.
NoRun(s, a, b) == \A m \in a .. b : s[m].op # "DbgRun"
WillHold(s, now, setter, k) ==
    \/ now /\ NoRun(s, 1, k - 1)
    \/ \E j \in 1 .. k - 1 : s[j].op = setter /\ NoRun(s, j + 1, k - 1)

WillBeHalted(k) == WillHold(link, halted, "DbgHlt", k)
WillBeStill(k) == WillHold(link, halted /\ ~ ppu_on, "PpuDisable", k)

\* Every packet but a break finds the debugger active, and every packet but a
\* break and PPU_DISABLE finds the PPU still.
PacketsInSync ==
    \A k \in 1 .. Len(link) : link[k].op # "DbgHlt" => WillBeHalted(k)
PacketsStill ==
    \A k \in 1 .. Len(link) :
        link[k].op \notin {"DbgHlt", "PpuDisable"} => WillBeStill(k)

\* And so will the packet that the SoC sends next.
NextInSync == at \in Loading => WillBeHalted(Len(link) + 1)
NextStill == at \in Loading \ {"ppu"} => WillBeStill(Len(link) + 1)

\* What the SoC counts: which transfer is next in each of the two loops.
LoopsInStep ==
    /\ at \in {"header", "halt", "ppu", "cfg"} => i = 0 /\ read = 0
    /\ at \in Loading \cup {"halt"} => Acceptable(file)
    /\ at = "prg" => read = i /\ i <= PrgTransfers(file)
    /\ at = "chr" => read = PrgTransfers(file) + i /\ i <= ChrTransfers(file)

TypeInv == TypeOK /\ LoopsInStep

SyncInv == PacketsInSync /\ NextInSync
StillInv == PacketsStill /\ NextStill

IInv == TypeInv /\ SyncInv /\ StillInv

-----------------------------------------------------------------------------
(* The data: what a file can hold, and how far the loops of an accepted one  *)
(* go.                                                                       *)

LEMMA FilesTyped == \A f \in FileSet : f \in FileType
BY LoaderAssumption DEF FileSet

LEMMA EntryInFileSet ==
    ASSUME NEW n \in 1 .. Len(Files)
    PROVE  Files[n] \in FileSet
BY DEF FileSet

LEMMA LoopBounds ==
    ASSUME NEW f \in FileSet, Acceptable(f)
    PROVE  /\ PrgTransfers(f) \in 0 .. 2 * PrgBank
           /\ ChrTransfers(f) \in 0 .. ChrBank
<1>1. /\ f.prg \in {0, 1, 2} /\ f.chr \in {0, 1}
  BY FilesTyped DEF Acceptable, FileType
<1>2. PrgTransfers(f) \in {0, PrgBank, 2 * PrgBank}
  <2>1. CASE f.prg = 0  BY <2>1, LoaderAssumption DEF PrgTransfers
  <2>2. CASE f.prg = 1  BY <2>2, LoaderAssumption DEF PrgTransfers
  <2>3. CASE f.prg = 2  BY <2>3, LoaderAssumption DEF PrgTransfers
  <2> QED  BY <1>1, <2>1, <2>2, <2>3
<1>3. ChrTransfers(f) \in {0, ChrBank}
  <2>1. CASE f.chr = 0  BY <2>1, LoaderAssumption DEF ChrTransfers
  <2>2. CASE f.chr = 1  BY <2>2, LoaderAssumption DEF ChrTransfers
  <2> QED  BY <1>1, <2>1, <2>2
<1> QED
  BY <1>2, <1>3, LoaderAssumption

LEMMA TransferInContents ==
    ASSUME NEW f \in FileSet, NEW n \in 0 .. 2 * PrgBank + ChrBank - 1
    PROVE  Transfer(f, n) \in Contents
BY DEF Contents

\* Both ends of the link keep it a sequence of packets within its bound.
LEMMA SendType ==
    ASSUME TypeOK, NEW p \in Packets, Send(p)
    PROVE  link' \in Seq(Packets) /\ Len(link') <= MaxLink
BY LoaderAssumption DEF TypeOK, Send

LEMMA TailType ==
    ASSUME TypeOK, link # << >>, link' = Tail(link)
    PROVE  link' \in Seq(Packets) /\ Len(link') <= MaxLink
BY LoaderAssumption DEF TypeOK

LEMMA HeadType ==
    ASSUME TypeOK, link # << >>
    PROVE  Head(link) \in Packets
BY DEF TypeOK

-----------------------------------------------------------------------------
(* Type correctness.  The loops stay within the memories because the two     *)
(* counters of a load move together: LoopsInStep.                            *)

LEMMA InitType == Init => TypeInv
<1> SUFFICES ASSUME Init PROVE TypeInv
  OBVIOUS
<1>1. Len(Files) \in Nat /\ 1 \in 1 .. Len(Files)
  BY LoaderAssumption
<1>2. file \in FileSet
  BY <1>1, EntryInFileSet DEF Init
<1>3. /\ buf \in Contents /\ vector \in Contents
      /\ prg \in [PrgSlots -> Contents] /\ chr \in [ChrSlots -> Contents]
      /\ pc \in [pcl : Contents, pch : Contents]
  BY DEF Init, Contents
<1>4. /\ i \in PrgSlots \cup ChrSlots \cup {2 * PrgBank, ChrBank}
      /\ read \in 0 .. 2 * PrgBank + ChrBank
  BY LoaderAssumption DEF Init, PrgSlots
<1>5. link \in Seq(Packets) /\ Len(link) <= MaxLink
  BY LoaderAssumption DEF Init
<1>6. TypeOK
  BY <1>1, <1>2, <1>3, <1>4, <1>5 DEF Init, TypeOK
<1>7. LoopsInStep
  BY DEF Init, LoopsInStep, Loading
<1> QED
  BY <1>6, <1>7 DEF TypeInv

\* A packet that is sent outside the copying loops.
LEMMA SendStepType ==
    ASSUME TypeInv, NEW label \in {"halt", "ppu", "cfg", "pcl", "pch", "run"},
           NEW p \in Packets, NEW then \in {"ppu", "cfg", "prg", "pch", "run", "wait"},
           SendStep(label, p, then),
           then \in Loading => label \in Loading \cup {"halt"},
           then \in {"ppu", "cfg", "prg"} => label \in {"halt", "ppu", "cfg"}
    PROVE  TypeInv'
<1>1. TypeOK'
  BY SendType DEF TypeInv, TypeOK, SendStep, Goto, user, nes
<1>2. CASE then = "prg"
  BY <1>1, <1>2, LoopBounds
     DEF TypeInv, TypeOK, LoopsInStep, SendStep, Goto, Loading
<1>3. CASE then # "prg"
  BY <1>1, <1>3 DEF TypeInv, LoopsInStep, SendStep, Goto, Loading
<1> QED
  BY <1>2, <1>3

\* A turn of a copying loop sends what the file has there, and counts on.
LEMMA CopyCounts ==
    ASSUME TypeInv, SendPrg \/ SendChr
    PROVE  /\ at \in {"prg", "chr"} /\ Acceptable(file) /\ file \in FileSet
           /\ i \in Nat /\ read \in 0 .. 2 * PrgBank + ChrBank - 1
           /\ Transfer(file, read) \in Contents
           /\ i + 1 \in PrgSlots \cup ChrSlots \cup {2 * PrgBank, ChrBank}
<1>1. /\ at \in {"prg", "chr"} /\ Acceptable(file) /\ file \in FileSet
      /\ i \in Nat /\ read \in Nat
      /\ PrgTransfers(file) \in 0 .. 2 * PrgBank
      /\ ChrTransfers(file) \in 0 .. ChrBank
  BY LoaderAssumption, LoopBounds
     DEF TypeInv, TypeOK, LoopsInStep, Loading, SendPrg, SendChr, Copy,
         PrgSlots, ChrSlots
<1>2. read \in 0 .. 2 * PrgBank + ChrBank - 1
  BY <1>1, LoaderAssumption DEF TypeInv, LoopsInStep, SendPrg, SendChr, Copy
<1>3. Transfer(file, read) \in Contents
  BY <1>1, <1>2, TransferInContents
<1>4. i + 1 \in PrgSlots \cup ChrSlots \cup {2 * PrgBank, ChrBank}
  BY <1>1, LoaderAssumption
     DEF TypeInv, LoopsInStep, SendPrg, SendChr, Copy, PrgSlots, ChrSlots
<1> QED
  BY <1>1, <1>2, <1>3, <1>4

LEMMA CopyType ==
    ASSUME TypeInv, SendPrg \/ SendChr
    PROVE  TypeInv'
<1>1. link' \in Seq(Packets) /\ Len(link') <= MaxLink
  BY CopyCounts, SendType DEF TypeInv, SendPrg, SendChr, Copy, Packets
<1>2. TypeOK'
  BY <1>1, CopyCounts, LoaderAssumption
     DEF TypeInv, TypeOK, SendPrg, SendChr, Copy, user, nes
<1>3. PrgTransfers(file) \in Nat /\ ChrTransfers(file) \in Nat
  BY CopyCounts, LoopBounds
<1>4. LoopsInStep'
  BY <1>3, CopyCounts DEF TypeInv, LoopsInStep, Loading, SendPrg, SendChr, Copy,
              PrgTransfers, ChrTransfers
<1> QED
  BY <1>2, <1>4 DEF TypeInv

LEMMA SocType ==
    ASSUME TypeInv, Soc
    PROVE  TypeInv'
<1>1. CASE OpenNext
  <2>1. Files[next] \in FileSet /\ NextEntry \in 1 .. Len(Files)
    BY LoaderAssumption, EntryInFileSet DEF TypeInv, TypeOK, NextEntry
  <2>2. <<"stack", 0>> \in Contents
    BY DEF Contents
  <2>3. 0 \in PrgSlots /\ 0 \in 0 .. 2 * PrgBank + ChrBank
    BY LoaderAssumption DEF PrgSlots
  <2> QED
    BY <1>1, <2>1, <2>2, <2>3
       DEF TypeInv, TypeOK, LoopsInStep, Loading, OpenNext, user, nes
<1>2. CASE CheckHeader
  BY <1>2 DEF TypeInv, TypeOK, LoopsInStep, Loading, CheckHeader, Goto,
              FirstPacket, user, nes
<1>3. CASE SendHalt
  BY <1>3, SendStepType DEF SendHalt, Packets, AfterHalt, Loading
<1>4. CASE SendPpuDisable
  BY <1>4, SendStepType DEF SendPpuDisable, Packets, Loading
<1>5. CASE SendCfg
  <2>1. CfgOf(file) \in [two : BOOLEAN, vertical : BOOLEAN]
    BY FilesTyped DEF TypeInv, TypeOK, CfgOf, FileType
  <2> QED
    BY <1>5, <2>1, SendStepType DEF SendCfg, Packets, Loading
<1>6. CASE SendPrg \/ SendChr
  BY <1>6, CopyType
<1>7. CASE EndPrg
  <2>1. /\ file \in FileSet /\ Acceptable(file) /\ i \in Nat /\ read = i
        /\ PrgTransfers(file) \in 0 .. 2 * PrgBank /\ i <= PrgTransfers(file)
        /\ ChrTransfers(file) \in 0 .. ChrBank
    BY <1>7, LoaderAssumption, LoopBounds
       DEF TypeInv, TypeOK, LoopsInStep, Loading, EndPrg, PrgSlots, ChrSlots
  <2>2. TypeOK'
    BY <1>7, LoaderAssumption
       DEF TypeInv, TypeOK, EndPrg, TakeVector, PrgSlots, user, nes
  <2>3. LoopsInStep'
    BY <1>7, <2>1
       DEF LoopsInStep, EndPrg, Loading, PrgTransfers, ChrTransfers
  <2> QED
    BY <2>2, <2>3 DEF TypeInv
<1>8. CASE EndChr
  BY <1>8 DEF TypeInv, TypeOK, LoopsInStep, Loading, EndChr, Goto, user, nes
<1>9. CASE ShortRead
  BY <1>9 DEF TypeInv, TypeOK, LoopsInStep, Loading, ShortRead, Goto, user, nes
<1>10. CASE SendPcl
  BY <1>10, SendStepType DEF SendPcl, Packets, Loading, TypeInv, TypeOK
<1>11. CASE SendPch
  BY <1>11, SendStepType DEF SendPch, Packets, Loading, TypeInv, TypeOK
<1>12. CASE SendRun
  BY <1>12, SendStepType DEF SendRun, Packets, Loading
<1>13. CASE PollButton
  BY <1>13 DEF TypeInv, TypeOK, LoopsInStep, Loading, PollButton, JustPressed,
               nes
<1>14. CASE ReadPads
  BY <1>14 DEF TypeInv, TypeOK, LoopsInStep, Loading, ReadPads, Goto, user, nes
<1> QED
  BY <1>1, <1>2, <1>3, <1>4, <1>5, <1>6, <1>7, <1>8, <1>9, <1>10, <1>11, <1>12,
     <1>13, <1>14 DEF Soc

\* What the NES, the game and the user do leaves the SoC's variables alone.
LEMMA NesType ==
    ASSUME TypeInv, Hci \/ Game \/ Press \/ Release
    PROVE  TypeInv'
<1>1. LoopsInStep'
  BY DEF TypeInv, LoopsInStep, Loading, Hci, TakeBreak, DisablePpu, SetCfg,
         WritePrg, WriteChr, SetPc, Run, Game, GamePpu, GameWritesPrg,
         GameWritesChr, GameHalts, Press, Release, soc, Acceptable,
         PrgTransfers, ChrTransfers
<1>2. UNCHANGED <<at, next, file, i, read, buf, vector, last>>
  BY DEF Hci, TakeBreak, DisablePpu, SetCfg, WritePrg, WriteChr, SetPc, Run,
         Game, GamePpu, GameWritesPrg, GameWritesChr, GameHalts, Press, Release,
         soc
<1>3. CASE Hci
  <2>1. link # << >> /\ link' = Tail(link)
    BY <1>3 DEF Hci, TakeBreak, DisablePpu, SetCfg, WritePrg, WriteChr, SetPc,
                Run, Received
  <2>2. /\ link' \in Seq(Packets) /\ Len(link') <= MaxLink
        /\ Head(link) \in Packets
    BY <2>1, TailType, HeadType DEF TypeInv
  <2>3. halted' \in BOOLEAN /\ ppu_on' \in BOOLEAN
    BY <1>3 DEF Hci, TakeBreak, DisablePpu, SetCfg, WritePrg, WriteChr, SetPc,
                Run, Effect, TypeInv, TypeOK
  <2>4. cfg' \in [two : BOOLEAN, vertical : BOOLEAN]
    BY <1>3, <2>2 DEF Hci, TakeBreak, DisablePpu, SetCfg, WritePrg, WriteChr,
                SetPc, Run, Received, Effect, TypeInv, TypeOK, Packets
  <2>5. prg' \in [PrgSlots -> Contents] /\ chr' \in [ChrSlots -> Contents]
    BY <1>3, <2>2 DEF Hci, TakeBreak, DisablePpu, SetCfg, WritePrg, WriteChr,
                SetPc, Run, Received, Effect, TypeInv, TypeOK, Packets
  <2>6. pc' \in [pcl : Contents, pch : Contents]
    BY <1>3, <2>2 DEF Hci, TakeBreak, DisablePpu, SetCfg, WritePrg, WriteChr,
                SetPc, Run, Received, Effect, TypeInv, TypeOK, Packets
  <2>7. UNCHANGED user
    BY <1>3 DEF Hci, TakeBreak, DisablePpu, SetCfg, WritePrg, WriteChr, SetPc,
                Run
  <2> QED
    BY <1>1, <1>2, <2>2, <2>3, <2>4, <2>5, <2>6, <2>7
       DEF TypeInv, TypeOK, user
<1>4. CASE Game
  <2>1. <<"game", 0>> \in Contents
    BY DEF Contents
  <2>2. prg' \in [PrgSlots -> Contents] /\ chr' \in [ChrSlots -> Contents]
    BY ZenonT(60), <1>4, <2>1 DEF Game, GamePpu, GameWritesPrg, GameWritesChr, GameHalts,
                      TypeInv, TypeOK
  <2> QED
    BY ZenonT(60), <1>1, <1>4, <2>2
       DEF Game, GamePpu, GameWritesPrg, GameWritesChr, GameHalts, TypeInv,
           TypeOK, soc, user
<1>5. CASE Press \/ Release
  BY ZenonT(60), <1>1, <1>5 DEF Press, Release, TypeInv, TypeOK, soc, nes
<1> QED
  BY <1>3, <1>4, <1>5

LEMMA NextType == TypeInv /\ [Next]_vars => TypeInv'
<1>1. CASE UNCHANGED vars
  BY <1>1 DEF vars, TypeInv, TypeOK, LoopsInStep, Loading, Acceptable,
              PrgTransfers, ChrTransfers
<1> QED
  BY <1>1, SocType, NesType DEF Next

\* Every variable keeps its type: no copying loop leaves the cartridge's
\* memories and no load sends more than two PRG banks and one CHR bank.
THEOREM TypeCorrect == Spec => []TypeOK
<1>1. TypeInv => TypeOK
  BY DEF TypeInv
<1> QED
  BY <1>1, InitType, NextType, PTL DEF Spec

-----------------------------------------------------------------------------
(* How WillHold fares when a packet is sent, when one is handled, and when   *)
(* the condition comes to hold on its own.                                   *)

LEMMA WillHoldAppend ==
    ASSUME NEW s \in Seq(Packets), NEW p \in Packets, NEW now, NEW setter
    PROVE  LET t == Append(s, p)
           IN  /\ \A k \in 1 .. Len(s) + 1 :
                      WillHold(s, now, setter, k) => WillHold(t, now, setter, k)
               /\ WillHold(s, now, setter, Len(s) + 1) /\ p.op # "DbgRun"
                    => WillHold(t, now, setter, Len(s) + 2)
               /\ p.op = setter => WillHold(t, now, setter, Len(s) + 2)
<1> DEFINE t == Append(s, p)
<1>1. /\ Len(s) \in Nat /\ t[Len(s) + 1] = p
      /\ \A m \in 1 .. Len(s) : t[m] = s[m]
  BY AppendProperties
<1> HIDE DEF t
<1>2. \A a, b \in Int : 1 <= a /\ b <= Len(s) /\ NoRun(s, a, b) => NoRun(t, a, b)
  BY <1>1 DEF NoRun
<1>3. \A a \in Int :
         1 <= a /\ NoRun(s, a, Len(s)) /\ p.op # "DbgRun" => NoRun(t, a, Len(s) + 1)
  BY <1>1 DEF NoRun
<1>4. ASSUME NEW k \in 1 .. Len(s) + 1, WillHold(s, now, setter, k)
      PROVE  WillHold(t, now, setter, k)
  <2>1. CASE now /\ NoRun(s, 1, k - 1)
    BY <1>1, <1>2, <2>1 DEF WillHold
  <2>2. CASE \E j \in 1 .. k - 1 : s[j].op = setter /\ NoRun(s, j + 1, k - 1)
    BY <1>1, <1>2, <2>2 DEF WillHold
  <2> QED
    BY <1>4, <2>1, <2>2 DEF WillHold
<1>5. ASSUME WillHold(s, now, setter, Len(s) + 1), p.op # "DbgRun"
      PROVE  WillHold(t, now, setter, Len(s) + 2)
  <2>1. CASE now /\ NoRun(s, 1, Len(s))
    BY <1>1, <1>3, <1>5, <2>1 DEF WillHold
  <2>2. CASE \E j \in 1 .. Len(s) : s[j].op = setter /\ NoRun(s, j + 1, Len(s))
    BY <1>1, <1>3, <1>5, <2>2 DEF WillHold
  <2> QED
    BY <1>1, <1>5, <2>1, <2>2 DEF WillHold
<1>6. ASSUME p.op = setter
      PROVE  WillHold(t, now, setter, Len(s) + 2)
  BY <1>1, <1>6 DEF WillHold, NoRun
<1> QED
  BY <1>4, <1>5, <1>6 DEF t

LEMMA WillHoldTail ==
    ASSUME NEW s \in Seq(Packets), s # << >>, NEW now, NEW now2, NEW setter,
           Head(s).op = setter => now2,
           now /\ Head(s).op # "DbgRun" => now2,
           NEW k \in 1 .. Len(s), WillHold(s, now, setter, k + 1)
    PROVE  WillHold(Tail(s), now2, setter, k)
<1> DEFINE t == Tail(s)
<1>1. /\ Len(s) \in Nat /\ Head(s) = s[1]
      /\ \A m \in 1 .. Len(s) - 1 : t[m] = s[m + 1]
  BY HeadTailProperties
<1> HIDE DEF t
<1>2. \A a \in Nat : NoRun(s, a + 1, k) /\ a >= 1 => NoRun(t, a, k - 1)
  BY <1>1 DEF NoRun
<1>3. CASE now /\ NoRun(s, 1, k)
  <2>1. s[1].op # "DbgRun" /\ NoRun(s, 2, k)
    BY <1>1, <1>3 DEF NoRun
  <2> QED
    BY <1>1, <1>2, <1>3, <2>1 DEF WillHold, t
<1>4. ASSUME NEW j \in 1 .. k, s[j].op = setter, NoRun(s, j + 1, k)
      PROVE  WillHold(t, now2, setter, k)
  <2>1. NoRun(t, j, k - 1)
    BY <1>2, <1>4
  <2>2. CASE j = 1
    BY <1>1, <1>4, <2>1, <2>2 DEF WillHold
  <2>3. CASE j # 1
    <3>1. j - 1 \in 1 .. k - 1 /\ t[j - 1] = s[j]
      BY <1>1, <2>3
    <3>2. NoRun(t, (j - 1) + 1, k - 1)
      BY <2>1
    <3> QED
      BY <1>4, <3>1, <3>2 DEF WillHold
  <2> QED
    BY <2>2, <2>3
<1> QED
  BY <1>3, <1>4 DEF WillHold, t

LEMMA WillHoldNow ==
    ASSUME NEW s, NEW now, NEW setter, WillHold(s, now, setter, 1)
    PROVE  now
BY DEF WillHold

-----------------------------------------------------------------------------
(* The NES is in the debugger when a packet needs it to be.                  *)

LEMMA InitSync == Init => SyncInv
BY DEF Init, SyncInv, PacketsInSync, NextInSync, Loading

LEMMA SendSync ==
    ASSUME TypeOK, SyncInv, NEW p \in Packets, Send(p), halted' = halted,
           p.op # "DbgHlt" => at \in Loading,
           at' \in Loading
               => p.op = "DbgHlt" \/ (at \in Loading /\ p.op # "DbgRun")
    PROVE  SyncInv'
<1>1. link \in Seq(Packets) /\ Len(link) \in Nat
  BY DEF TypeOK
<1>2. link' = Append(link, p)
  BY DEF Send
<1>3. /\ Len(link') = Len(link) + 1 /\ link'[Len(link) + 1] = p
      /\ \A k \in 1 .. Len(link) : link'[k] = link[k]
  BY <1>1, <1>2, AppendProperties
<1>4. /\ \A k \in 1 .. Len(link) + 1 : WillBeHalted(k) => WillBeHalted(k)'
      /\ WillBeHalted(Len(link) + 1) /\ p.op # "DbgRun"
           => WillHold(link', halted', "DbgHlt", Len(link) + 2)
      /\ p.op = "DbgHlt" => WillHold(link', halted', "DbgHlt", Len(link) + 2)
  BY <1>1, <1>2, WillHoldAppend DEF WillBeHalted
<1>5. PacketsInSync'
  BY <1>1, <1>3, <1>4 DEF SyncInv, PacketsInSync, NextInSync
<1>6. NextInSync'
  BY <1>1, <1>3, <1>4 DEF SyncInv, NextInSync, WillBeHalted
<1> QED
  BY <1>5, <1>6 DEF SyncInv

LEMMA SocSync ==
    ASSUME TypeInv, SyncInv, Soc
    PROVE  SyncInv'
<1>1. CASE SendHalt \/ SendPpuDisable \/ SendCfg \/ SendPcl \/ SendPch \/ SendRun
  <2>1. CfgOf(file) \in [two : BOOLEAN, vertical : BOOLEAN]
    BY FilesTyped DEF TypeInv, TypeOK, CfgOf, FileType
  <2> QED
    BY <1>1, <2>1, SendSync
       DEF SendHalt, SendPpuDisable, SendCfg, SendPcl, SendPch, SendRun,
           SendStep, Goto, Packets, Loading, AfterHalt, nes, TypeInv, TypeOK
<1>2. CASE SendPrg \/ SendChr
  <2>1. TypeOK /\ at' = at /\ at \in {"prg", "chr"} /\ halted' = halted
    BY <1>2 DEF SendPrg, SendChr, Copy, nes, TypeInv
  <2>2. PICK p \in {[op |-> "CpuMemWr", adr |-> i, data |-> Transfer(file, read)],
                    [op |-> "PpuMemWr", adr |-> i, data |-> Transfer(file, read)]} :
             Send(p)
    BY <1>2 DEF SendPrg, SendChr, Copy
  <2>3. p \in Packets
    BY <1>2, CopyCounts DEF Packets
  <2> QED
    BY <2>1, <2>2, <2>3, SendSync DEF Loading
<1>3. CASE OpenNext \/ CheckHeader \/ EndPrg \/ EndChr \/ ShortRead
           \/ PollButton \/ ReadPads
  <2>1. link' = link /\ halted' = halted /\ (at' \in Loading => at \in Loading)
    BY <1>3 DEF OpenNext, CheckHeader, EndPrg, EndChr, ShortRead, PollButton,
                ReadPads, Goto, FirstPacket, Loading, nes
  <2> QED
    BY <2>1 DEF SyncInv, PacketsInSync, NextInSync, WillBeHalted
<1> QED
  BY <1>1, <1>2, <1>3 DEF Soc

\* A packet is handled: the one behind it is now the first.
LEMMA HciSync ==
    ASSUME TypeInv, SyncInv, Hci
    PROVE  SyncInv'
<1>1. link \in Seq(Packets) /\ link # << >> /\ link' = Tail(link) /\ at' = at
  BY DEF TypeInv, TypeOK, Hci, TakeBreak, DisablePpu, SetCfg, WritePrg, WriteChr,
         SetPc, Run, Received, soc
<1>2. /\ Head(link).op = "DbgHlt" => halted'
      /\ halted /\ Head(link).op # "DbgRun" => halted'
  <2>1. CASE TakeBreak
    BY <2>1 DEF TakeBreak
  <2>2. CASE Run
    BY <2>2 DEF Run, Received
  <2>3. CASE DisablePpu \/ SetCfg \/ WritePrg \/ WriteChr \/ SetPc
    <3>1. halted' = halted
      BY <2>3 DEF DisablePpu, SetCfg, WritePrg, WriteChr, SetPc
    <3>2. Head(link).op # "DbgHlt"
      BY <2>3 DEF DisablePpu, SetCfg, WritePrg, WriteChr, SetPc, Received
    <3> QED
      BY <3>1, <3>2
  <2> QED
    BY <2>1, <2>2, <2>3 DEF Hci
<1>3. /\ Len(link) \in Nat \ {0} /\ Len(link') = Len(link) - 1
      /\ \A k \in 1 .. Len(link) - 1 : link'[k] = link[k + 1]
  BY <1>1, HeadTailProperties
<1>4. \A k \in 1 .. Len(link) : WillBeHalted(k + 1) => WillBeHalted(k)'
  BY <1>1, <1>2, WillHoldTail DEF WillBeHalted
<1>5. PacketsInSync'
  BY <1>3, <1>4 DEF SyncInv, PacketsInSync
<1>6. NextInSync'
  BY <1>1, <1>3, <1>4 DEF SyncInv, NextInSync
<1> QED
  BY <1>5, <1>6 DEF SyncInv

LEMMA NextSync == TypeInv /\ SyncInv /\ [Next]_vars => SyncInv'
<1> SUFFICES ASSUME TypeInv, SyncInv, [Next]_vars PROVE SyncInv'
  OBVIOUS
<1>1. CASE Game \/ Press \/ Release \/ UNCHANGED vars
  <2>1. link' = link /\ at' = at /\ (halted => halted')
    BY <1>1 DEF Game, GamePpu, GameWritesPrg, GameWritesChr, GameHalts, Press,
                Release, vars, soc, nes
  <2> QED
    BY <2>1 DEF SyncInv, PacketsInSync, NextInSync, WillBeHalted, WillHold
<1> QED
  BY <1>1, SocSync, HciSync DEF Next

\* The loader is never out of step with hci.v: no packet but a break arrives
\* in DISABLED, whatever the game does, how far the NES lags behind, and
\* wherever an earlier load was cut short.
THEOREM InSyncCorrect == Spec => []InSync
<1>1. TypeInv /\ SyncInv => InSync
  <2> SUFFICES ASSUME TypeInv, SyncInv, link # << >>, Head(link).op # "DbgHlt"
               PROVE  halted
    BY DEF InSync
  <2>1. 1 \in 1 .. Len(link) /\ Head(link) = link[1]
    BY HeadTailProperties DEF TypeInv, TypeOK
  <2>2. WillBeHalted(1)
    BY <2>1 DEF SyncInv, PacketsInSync
  <2> QED
    BY <2>2, WillHoldNow DEF WillBeHalted
<1>2. Init => TypeInv /\ SyncInv
  BY InitType, InitSync
<1>3. TypeInv /\ SyncInv /\ [Next]_vars => (TypeInv /\ SyncInv)'
  BY NextType, NextSync
<1> QED
  BY <1>1, <1>2, <1>3, PTL DEF Spec

-----------------------------------------------------------------------------
(* The PPU is still when a packet writes the cartridge's memories.  Once the *)
(* NES is in the debugger nothing but PPU_DISABLE touches the PPU, so the    *)
(* condition that lasts until the next DbgRun is "halted and still".         *)

LEMMA InitStill == Init => StillInv
BY DEF Init, StillInv, PacketsStill, NextStill, Loading

LEMMA SendStill ==
    ASSUME TypeOK, StillInv, NEW p \in Packets, Send(p), UNCHANGED nes,
           p.op \notin {"DbgHlt", "PpuDisable"} => at \in Loading \ {"ppu"},
           at' \in Loading \ {"ppu"}
               => \/ p.op = "PpuDisable"
                  \/ at \in Loading \ {"ppu"} /\ p.op # "DbgRun"
    PROVE  StillInv'
<1> DEFINE still == halted /\ ~ ppu_on
<1>1. link \in Seq(Packets) /\ Len(link) \in Nat /\ still' = still
  BY DEF TypeOK, nes
<1>2. link' = Append(link, p)
  BY DEF Send
<1>3. /\ Len(link') = Len(link) + 1 /\ link'[Len(link) + 1] = p
      /\ \A k \in 1 .. Len(link) : link'[k] = link[k]
  BY <1>1, <1>2, AppendProperties
<1>4. /\ \A k \in 1 .. Len(link) + 1 :
             WillHold(link, still, "PpuDisable", k)
               => WillHold(link', still', "PpuDisable", k)
      /\ WillHold(link, still, "PpuDisable", Len(link) + 1) /\ p.op # "DbgRun"
           => WillHold(link', still', "PpuDisable", Len(link) + 2)
      /\ p.op = "PpuDisable" => WillHold(link', still', "PpuDisable", Len(link) + 2)
  <2> HIDE DEF still
  <2> QED
    BY <1>1, <1>2, WillHoldAppend
<1>5. /\ \A k \in Int : WillBeStill(k) <=> WillHold(link, still, "PpuDisable", k)
      /\ \A k \in Int : WillBeStill(k)' <=> WillHold(link', still', "PpuDisable", k)
  BY DEF WillBeStill
<1> HIDE DEF still
<1>6. PacketsStill'
  BY <1>1, <1>3, <1>4, <1>5 DEF StillInv, PacketsStill, NextStill
<1>7. NextStill'
  BY <1>1, <1>3, <1>4, <1>5 DEF StillInv, NextStill
<1> QED
  BY <1>6, <1>7 DEF StillInv

LEMMA SocStill ==
    ASSUME TypeInv, StillInv, Soc
    PROVE  StillInv'
<1>1. CASE SendHalt \/ SendPpuDisable \/ SendCfg \/ SendPcl \/ SendPch \/ SendRun
  <2>1. CfgOf(file) \in [two : BOOLEAN, vertical : BOOLEAN]
    BY FilesTyped DEF TypeInv, TypeOK, CfgOf, FileType
  <2> QED
    BY <1>1, <2>1, SendStill
       DEF SendHalt, SendPpuDisable, SendCfg, SendPcl, SendPch, SendRun,
           SendStep, Goto, Packets, Loading, AfterHalt, TypeInv, TypeOK
<1>2. CASE SendPrg \/ SendChr
  <2>1. TypeOK /\ at' = at /\ at \in {"prg", "chr"} /\ UNCHANGED nes
    BY <1>2 DEF SendPrg, SendChr, Copy, TypeInv
  <2>2. PICK p \in {[op |-> "CpuMemWr", adr |-> i, data |-> Transfer(file, read)],
                    [op |-> "PpuMemWr", adr |-> i, data |-> Transfer(file, read)]} :
             Send(p)
    BY <1>2 DEF SendPrg, SendChr, Copy
  <2>3. p \in Packets
    BY <1>2, CopyCounts DEF Packets
  <2> QED
    BY <2>1, <2>2, <2>3, SendStill DEF Loading
<1>3. CASE OpenNext \/ CheckHeader \/ EndPrg \/ EndChr \/ ShortRead
           \/ PollButton \/ ReadPads
  <2>1. /\ link' = link /\ halted' = halted /\ ppu_on' = ppu_on
        /\ at' \in Loading \ {"ppu"} => at \in Loading \ {"ppu"}
    BY <1>3 DEF OpenNext, CheckHeader, EndPrg, EndChr, ShortRead, PollButton,
                ReadPads, Goto, FirstPacket, Loading, nes
  <2> QED
    BY <2>1 DEF StillInv, PacketsStill, NextStill, WillBeStill
<1> QED
  BY <1>1, <1>2, <1>3 DEF Soc

\* PPU_DISABLE has its effect because it never arrives in DISABLED: SyncInv.
LEMMA HciStill ==
    ASSUME TypeInv, SyncInv, StillInv, Hci
    PROVE  StillInv'
<1> DEFINE still == halted /\ ~ ppu_on
<1>1. link \in Seq(Packets) /\ link # << >> /\ link' = Tail(link) /\ at' = at
  BY DEF TypeInv, TypeOK, Hci, TakeBreak, DisablePpu, SetCfg, WritePrg, WriteChr,
         SetPc, Run, Received, soc
<1>2. /\ Head(link).op = "PpuDisable" => still'
      /\ still /\ Head(link).op # "DbgRun" => still'
  <2>1. CASE DisablePpu
    <3>1. 1 \in 1 .. Len(link) /\ link[1].op = "PpuDisable"
      BY <1>1, <2>1, HeadTailProperties DEF DisablePpu, Received
    <3>2. WillBeHalted(1)
      BY <3>1 DEF SyncInv, PacketsInSync
    <3>3. halted
      BY <3>2, WillHoldNow DEF WillBeHalted
    <3> QED
      BY <2>1, <3>3 DEF DisablePpu, Effect
  <2>2. CASE Run
    BY <2>2 DEF Run, Received
  <2>3. CASE TakeBreak
    BY <2>3 DEF TakeBreak, Received
  <2>4. CASE SetCfg \/ WritePrg \/ WriteChr \/ SetPc
    <3>1. halted' = halted /\ ppu_on' = ppu_on
      BY <2>4 DEF SetCfg, WritePrg, WriteChr, SetPc
    <3>2. Head(link).op # "PpuDisable"
      BY <2>4 DEF SetCfg, WritePrg, WriteChr, SetPc, Received
    <3> QED
      BY <3>1, <3>2
  <2> QED
    BY <2>1, <2>2, <2>3, <2>4 DEF Hci
<1>3. /\ Len(link) \in Nat \ {0} /\ Len(link') = Len(link) - 1
      /\ \A k \in 1 .. Len(link) - 1 : link'[k] = link[k + 1]
  BY <1>1, HeadTailProperties
<1>4. \A k \in 1 .. Len(link) :
         WillHold(link, still, "PpuDisable", k + 1)
           => WillHold(link', still', "PpuDisable", k)
  <2> HIDE DEF still
  <2> QED
    BY <1>1, <1>2, WillHoldTail
<1>5. /\ \A k \in Int : WillBeStill(k) <=> WillHold(link, still, "PpuDisable", k)
      /\ \A k \in Int : WillBeStill(k)' <=> WillHold(link', still', "PpuDisable", k)
  BY DEF WillBeStill
<1> HIDE DEF still
<1>6. PacketsStill'
  BY <1>3, <1>4, <1>5 DEF StillInv, PacketsStill
<1>7. NextStill'
  BY <1>1, <1>3, <1>4, <1>5 DEF StillInv, NextStill
<1> QED
  BY <1>6, <1>7 DEF StillInv

LEMMA NextStillKept == TypeInv /\ SyncInv /\ StillInv /\ [Next]_vars => StillInv'
<1> SUFFICES ASSUME TypeInv, SyncInv, StillInv, [Next]_vars PROVE StillInv'
  OBVIOUS
<1>1. CASE Game \/ Press \/ Release \/ UNCHANGED vars
  <2>1. link' = link /\ at' = at /\ (halted /\ ~ ppu_on => halted' /\ ~ ppu_on')
    BY <1>1 DEF Game, GamePpu, GameWritesPrg, GameWritesChr, GameHalts, Press,
                Release, vars, soc, nes
  <2> QED
    BY <2>1 DEF StillInv, PacketsStill, NextStill, WillBeStill, WillHold
<1> QED
  BY <1>1, SocStill, HciStill DEF Next

\* No packet writes the cartridge's memories while the PPU renders, whatever
\* the game left the PPU doing when the break reached it.
THEOREM StillCorrect == Spec => []NoWriteWhileRendering
<1>1. IInv => NoWriteWhileRendering
  <2> SUFFICES ASSUME IInv, link # << >>,
                      Head(link).op \in {"PpuMemWr", "CpuMemWr"}
               PROVE  ~ ppu_on
    BY DEF NoWriteWhileRendering
  <2>1. 1 \in 1 .. Len(link) /\ Head(link) = link[1]
    BY HeadTailProperties DEF IInv, TypeInv, TypeOK
  <2>2. WillBeStill(1)
    BY <2>1 DEF IInv, StillInv, PacketsStill
  <2> QED
    BY <2>2, WillHoldNow DEF WillBeStill
<1>2. Init => IInv
  BY InitType, InitSync, InitStill DEF IInv
<1>3. IInv /\ [Next]_vars => IInv'
  BY NextType, NextSync, NextStillKept DEF IInv
<1> QED
  BY <1>1, <1>2, <1>3, PTL DEF Spec

-----------------------------------------------------------------------------
(* What runs is what was loaded.  The NES is behind by whatever is in the    *)
(* link, several loads may be in it, and all but the last may be cut short.  *)
(* So each packet in the link is given a place: the load it belongs to and   *)
(* its number in it.  The NES's memories are those that the places before    *)
(* the first packet's call for.                                              *)

\* The files that are sent, and how their packets are numbered: break,
\* PPU_DISABLE, configuration, the transfers, the two register writes, run.
Accepted == {f \in FileSet : Acceptable(f)}
LastPlace(f) == 5 + PrgTransfers(f) + ChrTransfers(f)
Places == [game : Accepted, nr : Nat]
VectorOf(f) == Transfer(f, PrgTransfers(f) - 1)

\* Packet n of the load of f.
IsPacket(p, f, n) ==
    LET P == PrgTransfers(f)
        C == ChrTransfers(f)
    IN  /\ n = 0 => p = [op |-> "DbgHlt"]
        /\ n = 1 => p = [op |-> "PpuDisable"]
        /\ n = 2 => p = [op |-> "CartSetCfg", cfg |-> CfgOf(f)]
        /\ n \in 3 .. 2 + P =>
               p = [op |-> "CpuMemWr", adr |-> n - 3, data |-> Transfer(f, n - 3)]
        /\ n \in 3 + P .. 2 + P + C =>
               p = [op |-> "PpuMemWr", adr |-> n - 3 - P, data |-> Transfer(f, n - 3)]
        /\ n = 3 + P + C => p = [op |-> "CpuRegWr", reg |-> "pcl", data |-> VectorOf(f)]
        /\ n = 4 + P + C => p = [op |-> "CpuRegWr", reg |-> "pch", data |-> VectorOf(f)]
        /\ n = 5 + P + C => p = [op |-> "DbgRun"]

\* What the first n packets of the load of f leave in the NES.
Done(f, n) ==
    LET P == PrgTransfers(f)
        C == ChrTransfers(f)
    IN  /\ n > 0 => halted
        /\ n > 1 => ~ ppu_on
        /\ n > 2 => cfg = CfgOf(f)
        /\ \A a \in 0 .. P - 1 : a < n - 3 => prg[a] = Transfer(f, a)
        /\ \A s \in 0 .. C - 1 : s < n - 3 - P => chr[s] = Transfer(f, P + s)
        /\ n > 3 + P + C => pc.pcl = VectorOf(f)
        /\ n > 4 + P + C => pc.pch = VectorOf(f)

\* The packet that the SoC sends next.
Nr ==
    LET P == PrgTransfers(file)
        C == ChrTransfers(file)
    IN  CASE at = "halt" -> 0
          [] at = "ppu" -> 1
          [] at = "cfg" -> 2
          [] at = "prg" -> 3 + i
          [] at = "chr" -> 3 + P + i
          [] at = "pcl" -> 3 + P + C
          [] at = "pch" -> 4 + P + C
          [] at = "run" -> 5 + P + C

\* The loads follow each other in the link, each from its first packet on.
Planned(q) ==
    /\ q \in Seq(Places) /\ Len(q) = Len(link)
    /\ \A k \in 1 .. Len(q) : /\ q[k].nr \in 0 .. LastPlace(q[k].game)
                              /\ IsPacket(link[k], q[k].game, q[k].nr)
    /\ \A k \in 1 .. Len(q) - 1 :
           q[k + 1].nr = 0 \/ q[k + 1] = [game |-> q[k].game, nr |-> q[k].nr + 1]
    /\ q # << >> => Done(q[1].game, q[1].nr)
    /\ at \in Loading =>
           IF q = << >> THEN Done(file, Nr) ELSE q[Len(q)] = [game |-> file, nr |-> Nr - 1]

PlanInv == \E q : Planned(q)

\* The buffer still holds the last transfer when the first loop ends.
VectorTaken ==
    /\ at = "prg" /\ i > 0 => buf = Transfer(file, i - 1)
    /\ at \in {"chr", "pcl", "pch", "run"} => vector = VectorOf(file)

LoadInv == PlanInv /\ VectorTaken

\* No accepted file is without a program.
HasProgram == \A f \in Accepted : f.prg # 0

\* What an accepted file sends fits the cartridge.
LEMMA Sizes ==
    ASSUME NEW f \in Accepted
    PROVE  /\ PrgTransfers(f) \in 0 .. 2 * PrgBank
           /\ ChrTransfers(f) \in 0 .. ChrBank
           /\ PrgTransfers(f) \in Nat /\ ChrTransfers(f) \in Nat
BY LoopBounds, LoaderAssumption DEF Accepted

\* Every address of the CPU shows a transfer of the program, and the address that
\* a transfer is written to shows that transfer: with one bank the memory's
\* second half is the first one again.
LEMMA Programs ==
    ASSUME HasProgram, NEW f \in Accepted
    PROVE  /\ PrgTransfers(f) # 0
           /\ \A a \in PrgSlots : Slot(CfgOf(f), a) \in 0 .. PrgTransfers(f) - 1
           /\ \A a \in 0 .. PrgTransfers(f) - 1 : a \in PrgSlots /\ Slot(CfgOf(f), a) = a
<1>1. f.prg \in {1, 2} /\ PrgBank \in Nat \ {0}
  <2>1. f \in FileType /\ f.prg <= 2
    BY FilesTyped DEF Accepted, Acceptable
  <2>2. f.prg \in {0, 1, 2}
    BY <2>1 DEF FileType
  <2>3. f.prg # 0
    BY DEF HasProgram
  <2> QED
    BY <2>2, <2>3, LoaderAssumption DEF LoaderAssumption
<1>2. CASE f.prg = 1
  <2>1. CfgOf(f).two = FALSE /\ PrgTransfers(f) = PrgBank
    <3>1. (1 \div 2) % 2 # 1 /\ 1 * PrgBank = PrgBank
      BY <1>1
    <3> QED
      BY <3>1, <1>2 DEF CfgOf, PrgTransfers
  <2>2. \A a \in PrgSlots : a % PrgBank \in 0 .. PrgBank - 1
    BY <1>1 DEF PrgSlots
  <2>3. \A a \in 0 .. PrgBank - 1 : a \in PrgSlots /\ a % PrgBank = a
    <3> TAKE a \in 0 .. PrgBank - 1
    <3>1. a \in 0 .. 2 * PrgBank - 1 /\ a < PrgBank
      BY <1>1
    <3>2. a % PrgBank = a
      BY <3>1, <1>1, WrapsOnce
    <3> QED
      BY <3>1, <3>2 DEF PrgSlots
  <2> QED
    BY <2>1, <2>2, <2>3, <1>1 DEF Slot
<1>3. CASE f.prg = 2
  <2>1. CfgOf(f).two = TRUE /\ PrgTransfers(f) = 2 * PrgBank
    <3>1. (2 \div 2) % 2 = 1
      OBVIOUS
    <3> QED
      BY <3>1, <1>3 DEF CfgOf, PrgTransfers
  <2> QED
    BY <2>1, <1>1 DEF Slot, PrgSlots
<1> QED
  BY <1>1, <1>2, <1>3

\* A packet's opcode tells its number in its load, or the range of it.
LEMMA PacketKinds ==
    ASSUME NEW f \in Accepted, NEW n \in 0 .. LastPlace(f), NEW p, IsPacket(p, f, n)
    PROVE  LET P == PrgTransfers(f)
               C == ChrTransfers(f)
           IN  /\ p.op = "DbgHlt" => n = 0
               /\ p.op = "PpuDisable" => n = 1
               /\ p.op = "CartSetCfg" => n = 2 /\ p.cfg = CfgOf(f)
               /\ p.op = "CpuMemWr" =>
                      n \in 3 .. 2 + P /\ p.adr = n - 3 /\ p.data = Transfer(f, n - 3)
               /\ p.op = "PpuMemWr" =>
                      n \in 3 + P .. 2 + P + C /\ p.adr = n - 3 - P
                      /\ p.data = Transfer(f, n - 3)
               /\ p.op = "CpuRegWr" =>
                      /\ p.data = VectorOf(f)
                      /\ \/ n = 3 + P + C /\ p.reg = "pcl"
                         \/ n = 4 + P + C /\ p.reg = "pch"
               /\ p.op = "DbgRun" => n = LastPlace(f)
<1> DEFINE P == PrgTransfers(f)
           C == ChrTransfers(f)
<1>1. P \in Nat /\ C \in Nat
  BY Sizes
<1>2. \/ n = 0 \/ n = 1 \/ n = 2 \/ n \in 3 .. 2 + P \/ n \in 3 + P .. 2 + P + C
      \/ n = 3 + P + C \/ n = 4 + P + C \/ n = 5 + P + C
  BY <1>1 DEF LastPlace
<1> QED
  BY <1>2 DEF IsPacket, LastPlace

\* The NES handles the packet whose turn it is, and one more is done: each of the
\* handlers leaves what the earlier packets did alone.  A file without a program
\* would be run with a vector that no transfer of it holds.
LEMMA DoneStep ==
    ASSUME HasProgram, TypeInv, Hci, link # << >>,
           NEW f \in Accepted, NEW n \in 0 .. LastPlace(f) - 1,
           IsPacket(Head(link), f, n), Done(f, n)
    PROVE  Done(f, n + 1)'
<1> DEFINE P == PrgTransfers(f)
           C == ChrTransfers(f)
           p == Head(link)
<1>1. P \in 0 .. 2 * PrgBank /\ P \in Nat /\ C \in 0 .. ChrBank /\ C \in Nat
  BY Sizes
<1>2. n \in 0 .. 4 + P + C /\ n \in 0 .. LastPlace(f) /\ n \in Nat
  BY <1>1 DEF LastPlace
<1>3. /\ n > 0 => halted
      /\ n > 1 => ~ ppu_on
      /\ n > 2 => cfg = CfgOf(f)
      /\ \A a \in 0 .. P - 1 : a < n - 3 => prg[a] = Transfer(f, a)
      /\ \A s \in 0 .. C - 1 : s < n - 3 - P => chr[s] = Transfer(f, P + s)
      /\ n > 3 + P + C => pc.pcl = VectorOf(f)
      /\ n > 4 + P + C => pc.pch = VectorOf(f)
  BY DEF Done
<1>4. /\ p.op = "DbgHlt" => n = 0
      /\ p.op = "PpuDisable" => n = 1
      /\ p.op = "CartSetCfg" => n = 2 /\ p.cfg = CfgOf(f)
      /\ p.op = "CpuMemWr" =>
             n \in 3 .. 2 + P /\ p.adr = n - 3 /\ p.data = Transfer(f, n - 3)
      /\ p.op = "PpuMemWr" =>
             n \in 3 + P .. 2 + P + C /\ p.adr = n - 3 - P
             /\ p.data = Transfer(f, n - 3)
      /\ p.op = "CpuRegWr" =>
             /\ p.data = VectorOf(f)
             /\ \/ n = 3 + P + C /\ p.reg = "pcl"
                \/ n = 4 + P + C /\ p.reg = "pch"
      /\ p.op = "DbgRun" => n = LastPlace(f)
  BY <1>2, PacketKinds
<1>5. SUFFICES
      /\ n + 1 > 0 => halted'
      /\ n + 1 > 1 => ~ ppu_on'
      /\ n + 1 > 2 => cfg' = CfgOf(f)
      /\ \A a \in 0 .. P - 1 : a < n + 1 - 3 => prg'[a] = Transfer(f, a)
      /\ \A s \in 0 .. C - 1 : s < n + 1 - 3 - P => chr'[s] = Transfer(f, P + s)
      /\ n + 1 > 3 + P + C => pc'.pcl = VectorOf(f)
      /\ n + 1 > 4 + P + C => pc'.pch = VectorOf(f)
  BY <1>1, <1>2 DEF Done
<1> HIDE DEF P, C, p
<1>6. CASE TakeBreak
  <2>1. n = 0 /\ halted'
    BY <1>4, <1>6 DEF TakeBreak, Received, p
  <2> QED
    BY <2>1, <1>1
<1>7. CASE DisablePpu
  <2>1. n = 1
    BY <1>4, <1>7 DEF DisablePpu, Received, p
  <2>2. halted' /\ ppu_on' = FALSE
    BY <2>1, <1>3, <1>7 DEF DisablePpu, Effect
  <2> QED
    BY SMTT(30), <2>1, <2>2, <1>1
<1>8. CASE SetCfg
  <2>1. n = 2 /\ p.cfg = CfgOf(f)
    BY <1>4, <1>8 DEF SetCfg, Received, p
  <2>2. halted' /\ ppu_on' = FALSE /\ cfg' = CfgOf(f)
    BY <2>1, <1>3, <1>8 DEF SetCfg, Effect, p, TypeInv, TypeOK
  <2> QED
    BY <2>1, <2>2, <1>1
<1>9. CASE WritePrg
  <2>1. n \in 3 .. 2 + P /\ p.adr = n - 3 /\ p.data = Transfer(f, n - 3)
    BY <1>4, <1>9 DEF WritePrg, Received, p
  <2>2. halted' /\ ppu_on' = FALSE /\ cfg' = CfgOf(f)
    BY <2>1, <1>3, <1>9 DEF WritePrg, TypeInv, TypeOK
  <2>3. n - 3 \in 0 .. P - 1 /\ n - 3 \in PrgSlots /\ Slot(cfg, p.adr) = n - 3
    <3>1. n - 3 \in 0 .. P - 1 /\ n > 2
      BY <2>1, <1>1, <1>2
    <3> QED
      BY <3>1, <2>1, <1>3, Programs DEF P
  <2>4. prg' = [prg EXCEPT ![n - 3] = Transfer(f, n - 3)] /\ prg \in [PrgSlots -> Contents]
    <3>1. halted
      BY <2>1, <1>2, <1>3
    <3>2. prg' = Effect(prg, [prg EXCEPT ![Slot(cfg, p.adr)] = p.data])
      BY <1>9 DEF WritePrg, p
    <3> QED
      BY <3>1, <3>2, <2>1, <2>3 DEF Effect, TypeInv, TypeOK
  <2>5. ASSUME NEW a \in 0 .. P - 1, a < n + 1 - 3
        PROVE  prg'[a] = Transfer(f, a)
    <3>1. a \in PrgSlots
      BY Programs DEF P
    <3>2. CASE a = n - 3
      BY <2>4, <3>1, <3>2
    <3>3. CASE a # n - 3
      <4>1. a < n - 3
        BY <2>5, <3>3, <1>2
      <4> QED
        BY <4>1, <2>4, <3>1, <3>3, <1>3
    <3> QED
      BY <3>2, <3>3
  <2>6. \A s \in 0 .. C - 1 : ~ (s < n + 1 - 3 - P)
    BY <2>1, <1>1, <1>2
  <2>7. ~ (n + 1 > 3 + P + C) /\ ~ (n + 1 > 4 + P + C)
    BY <2>1, <1>1, <1>2
  <2> QED
    BY <2>2, <2>5, <2>6, <2>7
<1>10. CASE WriteChr
  <2>1. n \in 3 + P .. 2 + P + C /\ p.adr = n - 3 - P /\ p.data = Transfer(f, n - 3)
    BY <1>4, <1>10 DEF WriteChr, Received, p
  <2>2. halted' /\ ppu_on' = FALSE /\ cfg' = CfgOf(f)
    BY <2>1, <1>1, <1>3, <1>10 DEF WriteChr, TypeInv, TypeOK
  <2>3. /\ chr' = [chr EXCEPT ![n - 3 - P] = Transfer(f, n - 3)] /\ prg' = prg
        /\ chr \in [ChrSlots -> Contents]
    <3>1. halted
      BY <2>1, <1>1, <1>2, <1>3
    <3>2. chr' = Effect(chr, [chr EXCEPT ![p.adr] = p.data]) /\ prg' = prg
      BY <1>10 DEF WriteChr, p
    <3> QED
      BY <3>1, <3>2, <2>1 DEF Effect, TypeInv, TypeOK
  <2>4. ASSUME NEW s \in 0 .. C - 1, s < n + 1 - 3 - P
        PROVE  chr'[s] = Transfer(f, P + s)
    <3>1. s \in ChrSlots
      BY <1>1, LoaderAssumption DEF ChrSlots
    <3>2. CASE s = n - 3 - P
      <4>1. P + s = n - 3
        BY <3>2, <1>1, <1>2
      <4> QED
        BY <4>1, <2>3, <3>1, <3>2
    <3>3. CASE s # n - 3 - P
      <4>1. s < n - 3 - P
        BY <2>4, <3>3, <1>1, <1>2
      <4> QED
        BY <4>1, <2>3, <3>1, <3>3, <1>3
    <3> QED
      BY <3>2, <3>3
  <2>5. \A a \in 0 .. P - 1 : prg[a] = Transfer(f, a)
    <3>1. \A a \in 0 .. P - 1 : a < n - 3
      BY <2>1, <1>1
    <3> QED
      BY <3>1, <1>3
  <2>6. ~ (n + 1 > 3 + P + C) /\ ~ (n + 1 > 4 + P + C)
    BY <2>1, <1>1, <1>2
  <2> QED
    BY <2>2, <2>3, <2>4, <2>5, <2>6
<1>11. CASE SetPc
  <2>1. /\ p.data = VectorOf(f)
        /\ \/ n = 3 + P + C /\ p.reg = "pcl"
           \/ n = 4 + P + C /\ p.reg = "pch"
    BY <1>4, <1>11 DEF SetPc, Received, p
  <2>2. n \in Nat /\ n > 2 /\ n >= 3 + P + C
    BY <2>1, <1>1
  <2>3. halted' /\ ppu_on' = FALSE /\ cfg' = CfgOf(f) /\ prg' = prg /\ chr' = chr
    BY <2>2, <1>3, <1>11 DEF SetPc, TypeInv, TypeOK
  <2>4. pc' = [pc EXCEPT ![p.reg] = VectorOf(f)] /\ pc \in [pcl : Contents, pch : Contents]
    <3>1. halted
      BY <2>2, <1>3
    <3>2. pc' = Effect(pc, [pc EXCEPT ![p.reg] = p.data])
      BY <1>11 DEF SetPc, p
    <3> QED
      BY <3>1, <3>2, <2>1 DEF Effect, TypeInv, TypeOK
  <2>5. \A a \in 0 .. P - 1 : prg[a] = Transfer(f, a)
    <3>1. \A a \in 0 .. P - 1 : a < n - 3
      BY <2>2, <1>1
    <3> QED
      BY <3>1, <1>3
  <2>6. \A s \in 0 .. C - 1 : chr[s] = Transfer(f, P + s)
    <3>1. \A s \in 0 .. C - 1 : s < n - 3 - P
      BY <2>2, <1>1
    <3> QED
      BY <3>1, <1>3
  <2>7. CASE n = 3 + P + C /\ p.reg = "pcl"
    <3>1. pc'.pcl = VectorOf(f) /\ ~ (n + 1 > 4 + P + C)
      BY <2>4, <2>7, <1>1
    <3> QED
      BY <3>1, <2>3, <2>5, <2>6
  <2>8. CASE n = 4 + P + C /\ p.reg = "pch"
    <3>1. n > 3 + P + C
      BY <2>8, <1>1
    <3>2. pc'.pcl = VectorOf(f) /\ pc'.pch = VectorOf(f)
      BY <3>1, <2>4, <2>8, <1>3
    <3> QED
      BY <3>2, <2>3, <2>5, <2>6
  <2> QED
    BY <2>1, <2>7, <2>8
<1>12. CASE Run
  <2>1. n = LastPlace(f)
    BY <1>4, <1>12 DEF Run, Received, p
  <2> QED
    BY <2>1, <1>1 DEF LastPlace, P, C
<1> QED
  BY <1>6, <1>7, <1>8, <1>9, <1>10, <1>11, <1>12 DEF Hci

\* Only the NES's own state counts for what is done.
LEMMA SamePlaces ==
    ASSUME NEW f, NEW n, UNCHANGED nes
    PROVE  Done(f, n)' <=> Done(f, n)
BY DEF Done, nes, PrgTransfers, ChrTransfers, CfgOf, VectorOf, Transfer

\* The SoC's place does not change unless it sends.
LEMMA SocSilent ==
    ASSUME TypeInv, VectorTaken,
           OpenNext \/ CheckHeader \/ EndPrg \/ EndChr \/ ShortRead \/ PollButton \/ ReadPads
    PROVE  /\ UNCHANGED link /\ UNCHANGED nes
           /\ at' \in Loading => at \in Loading /\ file' = file /\ Nr' = Nr
<1>1. UNCHANGED link /\ UNCHANGED nes /\ (at' \in Loading => at \in Loading /\ file' = file)
  BY DEF OpenNext, CheckHeader, EndPrg, EndChr, ShortRead, PollButton, ReadPads, Goto,
         FirstPacket, Loading
<1>2. CASE EndPrg
  <2>1. /\ i = PrgTransfers(file) /\ at = "prg" /\ at' = "chr" /\ i' = 0 /\ file' = file
        /\ PrgTransfers(file) \in Nat
    <3>1. file \in Accepted /\ i <= PrgTransfers(file) /\ i \in Int
      BY <1>2, LoaderAssumption
         DEF TypeInv, TypeOK, LoopsInStep, EndPrg, Loading, Accepted, PrgSlots, ChrSlots
    <3>2. PrgTransfers(file) \in Nat
      BY <3>1, Sizes
    <3> QED
      BY <3>1, <3>2, <1>2 DEF EndPrg
  <2>2. Nr = 3 + i /\ Nr' = 3 + PrgTransfers(file') + i'
    BY <2>1 DEF Nr, PrgTransfers
  <2> QED
    BY <1>1, <2>1, <2>2
<1>3. CASE EndChr
  <2>1. /\ i = ChrTransfers(file) /\ at = "chr" /\ at' = "pcl" /\ file' = file
        /\ PrgTransfers(file) \in Nat /\ ChrTransfers(file) \in Nat
    <3>1. file \in Accepted /\ i <= ChrTransfers(file) /\ i \in Int
      BY <1>3, LoaderAssumption
         DEF TypeInv, TypeOK, LoopsInStep, EndChr, Loading, Accepted, PrgSlots, ChrSlots
    <3>2. PrgTransfers(file) \in Nat /\ ChrTransfers(file) \in Nat
      BY <3>1, Sizes
    <3> QED
      BY <3>1, <3>2, <1>3 DEF EndChr, Goto
  <2>2. Nr = 3 + PrgTransfers(file) + i /\ Nr' = 3 + PrgTransfers(file') + ChrTransfers(file')
    BY <2>1 DEF Nr, PrgTransfers, ChrTransfers
  <2> QED
    BY <1>1, <2>1, <2>2
<1>4. CASE OpenNext \/ CheckHeader \/ ShortRead \/ PollButton \/ ReadPads
  BY <1>4, <1>1 DEF OpenNext, CheckHeader, ShortRead, PollButton, ReadPads, Goto,
                    FirstPacket, Loading
<1> QED
  BY <1>2, <1>3, <1>4

Sending == SendHalt \/ SendPpuDisable \/ SendCfg \/ SendPrg \/ SendChr
           \/ SendPcl \/ SendPch \/ SendRun

\* What the SoC sends is the packet of its place.
LEMMA SocSends ==
    ASSUME TypeInv, VectorTaken, Sending
    PROVE  /\ file \in Accepted /\ Nr \in 0 .. LastPlace(file)
           /\ \E p \in Packets : Send(p) /\ IsPacket(p, file, Nr)
           /\ at \in Loading \/ Nr = 0
           /\ UNCHANGED nes /\ file' = file
           /\ at' \in Loading => Nr' = Nr + 1
<1> DEFINE P == PrgTransfers(file)
           C == ChrTransfers(file)
<1>1. at \in Loading \cup {"halt"} /\ UNCHANGED nes /\ file' = file
  BY DEF Sending, SendHalt, SendPpuDisable, SendCfg, SendPrg, SendChr, Copy, SendPcl,
         SendPch, SendRun, SendStep, Goto, Loading
<1>2. file \in Accepted /\ P \in Nat /\ C \in Nat /\ LastPlace(file) = 5 + P + C
  <2>1. file \in Accepted
    BY <1>1 DEF TypeInv, TypeOK, LoopsInStep, Accepted
  <2> QED
    BY <2>1, Sizes DEF LastPlace
<1>3. PrgTransfers(file)' = P /\ ChrTransfers(file)' = C
  BY <1>1 DEF PrgTransfers, ChrTransfers
<1>4. SUFFICES /\ Nr \in 0 .. 5 + P + C
               /\ \E p \in Packets : Send(p) /\ IsPacket(p, file, Nr)
               /\ at = "halt" => Nr = 0
               /\ at' \in Loading => Nr' = Nr + 1
  BY <1>1, <1>2
<1> HIDE DEF P, C
<1>5. CASE SendHalt
  <2>1. at = "halt" /\ at' = "ppu" /\ Send([op |-> "DbgHlt"])
    BY <1>5 DEF SendHalt, SendStep, Goto, AfterHalt
  <2>2. Nr = 0 /\ Nr' = 1
    BY <2>1 DEF Nr
  <2>3. IsPacket([op |-> "DbgHlt"], file, Nr)
    BY <1>2, <2>2 DEF IsPacket, P, C
  <2> QED
    BY <1>2, <2>1, <2>2, <2>3 DEF Packets
<1>6. CASE SendPpuDisable
  <2>1. at = "ppu" /\ at' = "cfg" /\ Send([op |-> "PpuDisable"])
    BY <1>6 DEF SendPpuDisable, SendStep, Goto
  <2>2. Nr = 1 /\ Nr' = 2
    BY <2>1 DEF Nr
  <2>3. IsPacket([op |-> "PpuDisable"], file, Nr)
    BY <1>2, <2>2 DEF IsPacket, P, C
  <2> QED
    BY <1>2, <2>1, <2>2, <2>3 DEF Packets
<1>7. CASE SendCfg
  <2> DEFINE p == [op |-> "CartSetCfg", cfg |-> CfgOf(file)]
  <2>1. at = "cfg" /\ at' = "prg" /\ i' = i /\ i = 0 /\ Send(p)
    BY <1>7 DEF SendCfg, SendStep, Goto, TypeInv, LoopsInStep
  <2>2. Nr = 2 /\ Nr' = 3
    BY <2>1 DEF Nr
  <2>3. IsPacket(p, file, Nr)
    BY <1>2, <2>2 DEF IsPacket, P, C
  <2>4. p \in Packets
    BY FilesTyped DEF TypeInv, TypeOK, CfgOf, FileType, Packets
  <2> HIDE DEF p
  <2> QED
    BY <1>2, <2>1, <2>2, <2>3, <2>4
<1>8. CASE SendPrg
  <2> DEFINE p == [op |-> "CpuMemWr", adr |-> i, data |-> Transfer(file, read)]
  <2>1. /\ at = "prg" /\ at' = "prg" /\ i' = i + 1 /\ Send(p) /\ read = i /\ i \in Nat /\ i < P
        /\ p \in Packets
    BY <1>8, CopyCounts
       DEF SendPrg, Copy, TypeInv, LoopsInStep, P, Packets
  <2>2. Nr = 3 + i /\ Nr' = 3 + (i + 1)
    BY <2>1 DEF Nr
  <2>3. IsPacket(p, file, Nr)
    <3>1. Nr \in 3 .. 2 + P /\ Nr - 3 = i
      BY <2>1, <2>2, <1>2
    <3> QED
      BY <3>1, <2>1, <1>2 DEF IsPacket, P, C
  <2> HIDE DEF p
  <2> QED
    BY <1>2, <2>1, <2>2, <2>3
<1>9. CASE SendChr
  <2> DEFINE p == [op |-> "PpuMemWr", adr |-> i, data |-> Transfer(file, read)]
  <2>1. /\ at = "chr" /\ at' = "chr" /\ i' = i + 1 /\ Send(p) /\ read = P + i /\ i \in Nat
        /\ i < C /\ p \in Packets
    BY <1>9, CopyCounts
       DEF SendChr, Copy, TypeInv, LoopsInStep, P, C, Packets
  <2>2. Nr = 3 + P + i /\ Nr' = 3 + P + (i + 1)
    BY <2>1, <1>1 DEF Nr, P, PrgTransfers
  <2>3. IsPacket(p, file, Nr)
    <3>1. Nr \in 3 + P .. 2 + P + C /\ Nr - 3 - P = i /\ Nr - 3 = read
      BY <2>1, <2>2, <1>2
    <3> QED
      BY <3>1, <2>1, <1>2 DEF IsPacket, P, C
  <2> HIDE DEF p
  <2> QED
    BY <1>2, <2>1, <2>2, <2>3
<1>10. CASE SendPcl
  <2> DEFINE p == [op |-> "CpuRegWr", reg |-> "pcl", data |-> vector]
  <2>1. at = "pcl" /\ at' = "pch" /\ Send(p) /\ vector = VectorOf(file) /\ vector \in Contents
    BY <1>10 DEF SendPcl, SendStep, Goto, VectorTaken, TypeInv, TypeOK
  <2>2. Nr = 3 + P + C /\ Nr' = 4 + P + C
    BY <2>1, <1>1 DEF Nr, P, C, PrgTransfers, ChrTransfers
  <2>3. IsPacket(p, file, Nr)
    BY <1>2, <2>1, <2>2 DEF IsPacket, P, C
  <2>4. p \in Packets
    BY <2>1 DEF Packets
  <2> HIDE DEF p
  <2> QED
    BY <1>2, <2>1, <2>2, <2>3, <2>4
<1>11. CASE SendPch
  <2> DEFINE p == [op |-> "CpuRegWr", reg |-> "pch", data |-> vector]
  <2>1. at = "pch" /\ at' = "run" /\ Send(p) /\ vector = VectorOf(file) /\ vector \in Contents
    BY <1>11 DEF SendPch, SendStep, Goto, VectorTaken, TypeInv, TypeOK
  <2>2. Nr = 4 + P + C /\ Nr' = 5 + P + C
    BY <2>1, <1>1 DEF Nr, P, C, PrgTransfers, ChrTransfers
  <2>3. IsPacket(p, file, Nr)
    BY <1>2, <2>1, <2>2 DEF IsPacket, P, C
  <2>4. p \in Packets
    BY <2>1 DEF Packets
  <2> HIDE DEF p
  <2> QED
    BY <1>2, <2>1, <2>2, <2>3, <2>4
<1>12. CASE SendRun
  <2>1. at = "run" /\ at' = "wait" /\ Send([op |-> "DbgRun"])
    BY <1>12 DEF SendRun, SendStep, Goto
  <2>2. Nr = 5 + P + C
    BY <2>1 DEF Nr, P, C
  <2>3. IsPacket([op |-> "DbgRun"], file, Nr)
    BY <1>2, <2>2 DEF IsPacket, P, C
  <2> QED
    BY <1>2, <2>1, <2>2, <2>3 DEF Packets, Loading
<1> QED
  BY <1>5, <1>6, <1>7, <1>8, <1>9, <1>10, <1>11, <1>12 DEF Sending

\* Nothing is asked of the NES before a load's first packet.
LEMMA DoneNothing ==
    ASSUME NEW f \in Accepted
    PROVE  Done(f, 0) /\ Done(f, 0)'
<1> DEFINE P == PrgTransfers(f)
           C == ChrTransfers(f)
<1>1. P \in Nat /\ C \in Nat
  BY Sizes
<1>2. /\ ~ (0 > 0) /\ ~ (0 > 1) /\ ~ (0 > 2)
      /\ \A a \in 0 .. P - 1 : ~ (a < 0 - 3)
      /\ \A s \in 0 .. C - 1 : ~ (s < 0 - 3 - P)
      /\ ~ (0 > 3 + P + C) /\ ~ (0 > 4 + P + C)
  BY <1>1
<1> QED
  BY <1>1, <1>2 DEF Done

\* A running game changes nothing that any load has done, since a load that has
\* done anything has halted it.
LEMMA GameKeeps ==
    ASSUME Game, NEW f \in Accepted, NEW n \in Nat, Done(f, n)
    PROVE  Done(f, n)'
<1>1. ~ halted
  BY DEF Game, GamePpu, GameWritesPrg, GameWritesChr, GameHalts
<1>2. n = 0
  BY <1>1 DEF Done
<1> QED
  BY <1>2, DoneNothing

\* A packet is sent.
LEMMA PlanAppend ==
    ASSUME TypeInv, VectorTaken, Sending, NEW q, Planned(q)
    PROVE  \E r : Planned(r)'
<1>f. PICK f : f = file
  OBVIOUS
<1>n. PICK n : n = Nr
  OBVIOUS
<1>x. PICK x : x = [game |-> f, nr |-> n]
  OBVIOUS
<1>r. PICK r : r = Append(q, x)
  OBVIOUS
<1>m. PICK m : m = Len(q)
  OBVIOUS
<1> SUFFICES Planned(r)'
  OBVIOUS
<1>1. /\ q \in Seq(Places) /\ m = Len(link) /\ link \in Seq(Packets) /\ m \in Nat
      /\ \A k \in 1 .. m : /\ q[k].nr \in 0 .. LastPlace(q[k].game)
                           /\ IsPacket(link[k], q[k].game, q[k].nr)
      /\ \A k \in 1 .. m - 1 :
             q[k + 1].nr = 0 \/ q[k + 1] = [game |-> q[k].game, nr |-> q[k].nr + 1]
      /\ q # << >> => Done(q[1].game, q[1].nr)
      /\ at \in Loading =>
             IF q = << >> THEN Done(f, n) ELSE q[m] = [game |-> f, nr |-> n - 1]
  <2>1. q \in Seq(Places) /\ Len(q) = Len(link) /\ link \in Seq(Packets) /\ Len(q) \in Nat
    BY DEF Planned, TypeInv, TypeOK
  <2>2. /\ \A k \in 1 .. Len(q) : /\ q[k].nr \in 0 .. LastPlace(q[k].game)
                                  /\ IsPacket(link[k], q[k].game, q[k].nr)
        /\ \A k \in 1 .. Len(q) - 1 :
               q[k + 1].nr = 0 \/ q[k + 1] = [game |-> q[k].game, nr |-> q[k].nr + 1]
        /\ q # << >> => Done(q[1].game, q[1].nr)
    BY DEF Planned
  <2>3. at \in Loading =>
            IF q = << >> THEN Done(file, Nr)
                         ELSE q[Len(q)] = [game |-> file, nr |-> Nr - 1]
    BY DEF Planned
  <2> QED
    BY <2>1, <2>2, <2>3, <1>f, <1>n, <1>m
<1>2. /\ f \in Accepted /\ n \in 0 .. LastPlace(f)
      /\ at \in Loading \/ n = 0
      /\ UNCHANGED nes /\ file' = f
      /\ at' \in Loading => Nr' = n + 1
  BY <1>f, <1>n, SocSends
<1>3. PICK p \in Packets : Send(p) /\ IsPacket(p, f, n)
  BY <1>f, <1>n, SocSends
<1>4. n \in Nat /\ x \in Places
  <2>1. LastPlace(f) \in Nat
    BY <1>2, Sizes DEF LastPlace
  <2> QED
    BY <2>1, <1>2, <1>x DEF Places
<1>5. /\ r \in Seq(Places) /\ Len(r) = m + 1 /\ r[m + 1] = x
      /\ \A k \in 1 .. m : r[k] = q[k]
  BY <1>1, <1>4, <1>r, <1>m, AppendProperties
<1>6. /\ Len(link') = m + 1 /\ link'[m + 1] = p
      /\ \A k \in 1 .. m : link'[k] = link[k]
  <2>1. link' = Append(link, p)
    BY <1>3 DEF Send
  <2> QED
    BY <2>1, <1>1, AppendProperties
<1>7. x.game = f /\ x.nr = n
  BY <1>x
<1>8. \A k \in 1 .. m + 1 : /\ r[k].nr \in 0 .. LastPlace(r[k].game)
                            /\ IsPacket(link'[k], r[k].game, r[k].nr)
  <2> TAKE k \in 1 .. m + 1
  <2>1. CASE k = m + 1
    BY <2>1, <1>2, <1>3, <1>5, <1>6, <1>7
  <2>2. CASE k # m + 1
    <3>1. k \in 1 .. m
      BY <2>2, <1>1
    <3> QED
      BY <3>1, <1>1, <1>5, <1>6
  <2> QED
    BY <2>1, <2>2
<1>9. \A k \in 1 .. m : r[k + 1].nr = 0 \/ r[k + 1] = [game |-> r[k].game, nr |-> r[k].nr + 1]
  <2> TAKE k \in 1 .. m
  <2>1. CASE k = m
    <3>1. r[k + 1] = x /\ r[k] = q[m] /\ q # << >>
      BY <2>1, <1>1, <1>5, <1>m, EmptySeq
    <3>2. CASE n = 0
      BY <3>1, <3>2, <1>7
    <3>3. CASE n # 0
      <4>1. q[m] = [game |-> f, nr |-> n - 1]
        BY <3>1, <3>3, <1>1, <1>2
      <4>2. q[m].game = f /\ q[m].nr + 1 = n
        BY <4>1, <1>4
      <4> QED
        BY <3>1, <4>2, <1>x
    <3> QED
      BY <3>2, <3>3
  <2>2. CASE k # m
    <3>1. k \in 1 .. m - 1 /\ k + 1 \in 1 .. m
      BY <2>2, <1>1
    <3> QED
      BY <3>1, <1>1, <1>5
  <2> QED
    BY <2>1, <2>2
<1>10. Done(r[1].game, r[1].nr)'
  <2>1. CASE q = << >>
    <3>1. r[1] = x
      BY <2>1, <1>5, <1>m
    <3>2. Done(f, n)
      <4>1. CASE n = 0
        BY <4>1, <1>2, DoneNothing
      <4>2. CASE n # 0
        BY <4>2, <2>1, <1>1, <1>2
      <4> QED
        BY <4>1, <4>2
    <3>3. Done(f, n)'
      BY <3>2, <1>2, SamePlaces
    <3> QED
      BY <3>1, <3>3, <1>7
  <2>2. CASE q # << >>
    <3>1. r[1] = q[1]
      <4>1. m # 0
        BY <2>2, <1>1, <1>m, EmptySeq
      <4>2. 1 \in 1 .. m
        BY <4>1, <1>1
      <4> QED
        BY <4>2, <1>5
    <3>2. Done(q[1].game, q[1].nr)
      BY <2>2, <1>1
    <3> QED
      BY <3>1, <3>2, <1>2, SamePlaces
  <2> QED
    BY <2>1, <2>2
<1>11. at' \in Loading => r[m + 1] = [game |-> file', nr |-> Nr' - 1]
  <2> SUFFICES ASSUME at' \in Loading
               PROVE  r[m + 1] = [game |-> file', nr |-> Nr' - 1]
    OBVIOUS
  <2>1. Nr' - 1 = n /\ file' = f
    BY <1>2, <1>4
  <2> QED
    BY <2>1, <1>5, <1>x
<1>12. r # << >> /\ m + 1 - 1 = m
  BY <1>1, <1>5, EmptySeq
<1>13. Len(r) = Len(link') /\ Len(r) - 1 = m
  BY <1>1, <1>5, <1>6, <1>12
<1>14. /\ \A k \in 1 .. Len(r) : /\ r[k].nr \in 0 .. LastPlace(r[k].game)
                                 /\ IsPacket(link'[k], r[k].game, r[k].nr)
       /\ \A k \in 1 .. Len(r) - 1 :
              r[k + 1].nr = 0 \/ r[k + 1] = [game |-> r[k].game, nr |-> r[k].nr + 1]
       /\ at' \in Loading => r[Len(r)] = [game |-> file', nr |-> Nr' - 1]
  BY <1>5, <1>8, <1>9, <1>11, <1>13
<1> QED
  BY <1>5, <1>10, <1>12, <1>13, <1>14 DEF Planned

\* The packet that the SoC sends next is one of its load.
LEMMA PlaceInLoad ==
    ASSUME TypeInv, at \in Loading
    PROVE  file \in Accepted /\ Nr \in 0 .. LastPlace(file)
<1> DEFINE P == PrgTransfers(file)
           C == ChrTransfers(file)
<1>1. file \in Accepted /\ P \in Nat /\ C \in Nat /\ LastPlace(file) = 5 + P + C
  <2>1. file \in Accepted
    BY DEF TypeInv, TypeOK, LoopsInStep, Accepted
  <2> QED
    BY <2>1, Sizes DEF LastPlace
<1>2. i \in Nat /\ (at = "prg" => i <= P) /\ (at = "chr" => i <= C)
  BY LoaderAssumption DEF TypeInv, TypeOK, LoopsInStep, PrgSlots, ChrSlots
<1> HIDE DEF P, C
<1>3. /\ at = "ppu" => Nr = 1
      /\ at = "cfg" => Nr = 2
      /\ at = "prg" => Nr = 3 + i
      /\ at = "chr" => Nr = 3 + P + i
      /\ at = "pcl" => Nr = 3 + P + C
      /\ at = "pch" => Nr = 4 + P + C
      /\ at = "run" => Nr = 5 + P + C
  BY DEF Nr, P, C
<1>4. /\ at = "prg" => Nr \in 0 .. 5 + P + C
      /\ at = "chr" => Nr \in 0 .. 5 + P + C
      /\ at \in {"ppu", "cfg", "pcl", "pch", "run"} => Nr \in 0 .. 5 + P + C
  BY <1>1, <1>2, <1>3
<1> QED
  BY <1>1, <1>4 DEF Loading

\* A packet is taken off the link.
LEMMA PlanTail ==
    ASSUME HasProgram, TypeInv, Hci, NEW q, Planned(q)
    PROVE  \E r : Planned(r)'
<1>r. PICK r : r = Tail(q)
  OBVIOUS
<1>m. PICK m : m = Len(q)
  OBVIOUS
<1>f. PICK f : f = q[1].game
  OBVIOUS
<1>n. PICK n : n = q[1].nr
  OBVIOUS
<1>g. PICK g : g = file
  OBVIOUS
<1>w. PICK w : w = Nr
  OBVIOUS
<1> SUFFICES Planned(r)'
  OBVIOUS
<1>1. /\ q \in Seq(Places) /\ m = Len(link) /\ link \in Seq(Packets) /\ m \in Nat
      /\ \A k \in 1 .. m : /\ q[k].nr \in 0 .. LastPlace(q[k].game)
                           /\ IsPacket(link[k], q[k].game, q[k].nr)
      /\ \A k \in 1 .. m - 1 :
             q[k + 1].nr = 0 \/ q[k + 1] = [game |-> q[k].game, nr |-> q[k].nr + 1]
      /\ q # << >> => Done(q[1].game, q[1].nr)
      /\ at \in Loading =>
             IF q = << >> THEN Done(g, w) ELSE q[m] = [game |-> g, nr |-> w - 1]
  <2>1. q \in Seq(Places) /\ Len(q) = Len(link) /\ link \in Seq(Packets) /\ Len(q) \in Nat
    BY DEF Planned, TypeInv, TypeOK
  <2>2. /\ \A k \in 1 .. Len(q) : /\ q[k].nr \in 0 .. LastPlace(q[k].game)
                                  /\ IsPacket(link[k], q[k].game, q[k].nr)
        /\ \A k \in 1 .. Len(q) - 1 :
               q[k + 1].nr = 0 \/ q[k + 1] = [game |-> q[k].game, nr |-> q[k].nr + 1]
        /\ q # << >> => Done(q[1].game, q[1].nr)
    BY DEF Planned
  <2>3. at \in Loading =>
            IF q = << >> THEN Done(file, Nr)
                         ELSE q[Len(q)] = [game |-> file, nr |-> Nr - 1]
    BY DEF Planned
  <2> QED
    BY <2>1, <2>2, <2>3, <1>g, <1>w, <1>m
<1>2. /\ link # << >> /\ link' = Tail(link)
      /\ at' = at /\ file' = g /\ Nr' = w
  <2>1. link # << >> /\ link' = Tail(link) /\ UNCHANGED soc
    BY DEF Hci, TakeBreak, DisablePpu, SetCfg, WritePrg, WriteChr, SetPc, Run, Received
  <2>2. UNCHANGED <<at, file, i>>
    BY <2>1 DEF soc
  <2>3. Nr' = Nr
    BY <2>2 DEF Nr, PrgTransfers, ChrTransfers
  <2> QED
    BY <2>1, <2>2, <2>3, <1>g, <1>w
<1>3. m > 0 /\ q # << >> /\ Head(link) = link[1] /\ 1 \in 1 .. m
  <2>1. Len(link) # 0
    BY <1>1, <1>2, EmptySeq
  <2> QED
    BY <2>1, <1>1, <1>m, HeadTailProperties, EmptySeq
<1>4. \A k \in 1 .. m : q[k].game \in Accepted /\ q[k].nr \in Nat
  <2>1. \A k \in 1 .. m : q[k] \in Places
    BY <1>1, <1>m
  <2> QED
    BY <2>1 DEF Places
<1>5. /\ f \in Accepted /\ n \in Nat /\ n \in 0 .. LastPlace(f)
      /\ IsPacket(Head(link), f, n) /\ Done(f, n) /\ LastPlace(f) \in Nat
  <2>1. f \in Accepted /\ n \in Nat
    BY <1>3, <1>4, <1>f, <1>n
  <2>2. LastPlace(f) \in Nat
    BY <2>1, Sizes DEF LastPlace
  <2> QED
    BY <2>1, <2>2, <1>1, <1>3, <1>f, <1>n
<1>6. /\ r \in Seq(Places) /\ Len(r) = m - 1
      /\ \A k \in 1 .. m - 1 : r[k] = q[k + 1]
  BY <1>1, <1>3, <1>r, <1>m, HeadTailProperties
<1>7. /\ Len(link') = m - 1
      /\ \A k \in 1 .. m - 1 : link'[k] = link[k + 1]
  BY <1>1, <1>2, HeadTailProperties
<1>8. \A k \in 1 .. m - 1 : /\ r[k].nr \in 0 .. LastPlace(r[k].game)
                            /\ IsPacket(link'[k], r[k].game, r[k].nr)
  <2> TAKE k \in 1 .. m - 1
  <2>1. k + 1 \in 1 .. m
    BY <1>1
  <2> QED
    BY <2>1, <1>1, <1>6, <1>7
<1>9. \A k \in 1 .. m - 2 : r[k + 1].nr = 0 \/ r[k + 1] = [game |-> r[k].game, nr |-> r[k].nr + 1]
  <2> TAKE k \in 1 .. m - 2
  <2>1. k + 1 \in 1 .. m - 1 /\ k \in 1 .. m - 1
    BY <1>1
  <2> QED
    BY <2>1, <1>1, <1>6
<1>10. ASSUME n < LastPlace(f) PROVE Done(f, n + 1)'
  <2>1. n \in 0 .. LastPlace(f) - 1
    BY <1>5, <1>10
  <2> QED
    BY <2>1, <1>2, <1>5, DoneStep
<1>11. ASSUME r # << >> PROVE Done(r[1].game, r[1].nr)'
  <2>1. m > 1 /\ 1 \in 1 .. m - 1 /\ 2 \in 1 .. m
    <3>1. Len(r) # 0 /\ Len(r) \in Nat
      BY <1>6, <1>11, EmptySeq
    <3> QED
      BY <3>1, <1>1, <1>6
  <2>2. r[1] = q[2]
    BY <2>1, <1>6
  <2>3. q[2].game \in Accepted /\ q[2].nr \in 0 .. LastPlace(q[2].game)
    BY <2>1, <1>1, <1>4
  <2>4. q[2].nr = 0 \/ q[2] = [game |-> f, nr |-> n + 1]
    <3>1. q[1 + 1].nr = 0 \/ q[1 + 1] = [game |-> q[1].game, nr |-> q[1].nr + 1]
      BY <2>1, <1>1
    <3> QED
      BY <3>1, <1>f, <1>n
  <2>5. CASE q[2].nr = 0
    BY <2>2, <2>3, <2>5, DoneNothing
  <2>6. CASE q[2] = [game |-> f, nr |-> n + 1]
    <3>1. q[2].game = f /\ q[2].nr = n + 1
      BY <2>6
    <3>2. n < LastPlace(f)
      BY <3>1, <2>3, <1>5
    <3> QED
      BY <3>1, <3>2, <2>2, <1>10
  <2> QED
    BY <2>4, <2>5, <2>6
<1>12. ASSUME at' \in Loading
       PROVE  IF r = << >> THEN Done(file, Nr)' ELSE r[m - 1] = [game |-> g, nr |-> w - 1]
  <2>1. q[m] = [game |-> g, nr |-> w - 1]
    BY <1>1, <1>2, <1>3, <1>12
  <2>2. CASE r = << >>
    <3>1. m = 1
      <4>1. Len(r) = 0
        BY <2>2
      <4>2. m \in Nat
        BY <1>1
      <4>3. m - 1 = 0
        BY <4>1, <1>6
      <4> QED
        BY <4>2, <4>3
    <3>2. f = g /\ n = w - 1
      BY <3>1, <2>1, <1>f, <1>n
    <3>3. w \in 0 .. LastPlace(g)
      BY <1>2, <1>12, <1>g, <1>w, PlaceInLoad
    <3>4. n < LastPlace(f) /\ n + 1 = w
      BY <3>2, <3>3, <1>5
    <3>5. Done(g, w)'
      BY <3>2, <3>4, <1>10
    <3>6. Done(file, Nr)'
      BY <3>5, <1>2 DEF Done, PrgTransfers, ChrTransfers, CfgOf, VectorOf, Transfer
    <3> QED
      BY <2>2, <3>6
  <2>3. CASE r # << >>
    <3>1. m - 1 \in 1 .. m - 1 /\ m - 1 + 1 = m
      <4>1. Len(r) # 0 /\ Len(r) \in Nat
        BY <1>6, <2>3, EmptySeq
      <4> QED
        BY <4>1, <1>1, <1>6
    <3> QED
      BY <3>1, <2>1, <2>3, <1>6
  <2> QED
    BY <2>2, <2>3
<1>13. Len(r) = Len(link') /\ Len(r) = m - 1 /\ Len(r) - 1 = m - 2
  BY <1>1, <1>6, <1>7
<1>14. at' \in Loading =>
           IF r = << >> THEN Done(file, Nr)' ELSE r[Len(r)] = [game |-> file', nr |-> Nr' - 1]
  BY <1>2, <1>12, <1>13
<1> QED
  BY <1>6, <1>8, <1>9, <1>11, <1>13, <1>14 DEF Planned

\* An empty link has a plan, and nothing is being loaded.
LEMMA InitLoad == Init => LoadInv
<1> SUFFICES ASSUME Init PROVE LoadInv
  OBVIOUS
<1>1. Planned(<< >>)
  <2>1. /\ << >> \in Seq(Places) /\ Len(<< >>) = Len(link) /\ Len(<< >>) = 0
        /\ at \notin Loading
    BY DEF Init, Loading
  <2>2. 1 .. 0 = {} /\ 1 .. 0 - 1 = {}
    OBVIOUS
  <2> QED
    BY <2>1, <2>2 DEF Planned
<1>2. VectorTaken
  BY DEF Init, VectorTaken
<1> QED
  BY <1>1, <1>2 DEF LoadInv, PlanInv

\* Neither end of the link moves.
LEMMA PlanKept ==
    ASSUME NEW q, Planned(q), UNCHANGED link,
           at' \in Loading => at \in Loading /\ file' = file /\ Nr' = Nr,
           \A f \in Accepted, n \in Nat : Done(f, n) => Done(f, n)',
           at \in Loading => file \in Accepted /\ Nr \in Nat
    PROVE  Planned(q)'
<1>g. PICK g : g = file
  OBVIOUS
<1>w. PICK w : w = Nr
  OBVIOUS
<1>1. /\ q \in Seq(Places) /\ Len(q) = Len(link')
      /\ \A k \in 1 .. Len(q) : /\ q[k].nr \in 0 .. LastPlace(q[k].game)
                                /\ IsPacket(link'[k], q[k].game, q[k].nr)
      /\ \A k \in 1 .. Len(q) - 1 :
             q[k + 1].nr = 0 \/ q[k + 1] = [game |-> q[k].game, nr |-> q[k].nr + 1]
  BY DEF Planned
<1>2. q # << >> => Done(q[1].game, q[1].nr)'
  <2> SUFFICES ASSUME q # << >> PROVE Done(q[1].game, q[1].nr)'
    OBVIOUS
  <2>1. 1 \in 1 .. Len(q)
    BY <1>1, EmptySeq
  <2>2. q[1].game \in Accepted /\ q[1].nr \in Nat
    <3>1. q[1] \in Places
      BY <2>1, <1>1
    <3> QED
      BY <3>1 DEF Places
  <2>3. Done(q[1].game, q[1].nr)
    BY DEF Planned
  <2> QED
    BY <2>2, <2>3
<1>3. ASSUME at' \in Loading
      PROVE  IF q = << >> THEN Done(file, Nr)' ELSE q[Len(q)] = [game |-> file', nr |-> Nr' - 1]
  <2>1. at \in Loading /\ file' = g /\ Nr' = w /\ g \in Accepted /\ w \in Nat
    BY <1>3, <1>g, <1>w
  <2>2. IF q = << >> THEN Done(g, w) ELSE q[Len(q)] = [game |-> g, nr |-> w - 1]
    <3>1. IF q = << >> THEN Done(file, Nr) ELSE q[Len(q)] = [game |-> file, nr |-> Nr - 1]
      BY <2>1 DEF Planned
    <3> QED
      BY <3>1, <1>g, <1>w
  <2>3. q = << >> => Done(g, w)'
    BY <2>1, <2>2
  <2>4. q = << >> => Done(file, Nr)'
    BY <2>1, <2>3 DEF Done, PrgTransfers, ChrTransfers, CfgOf, VectorOf, Transfer
  <2> QED
    BY <2>1, <2>2, <2>4
<1> QED
  BY <1>1, <1>2, <1>3 DEF Planned

\* Every step of the two sides, the game and the user leaves a plan of the link.
LEMMA NextPlan == HasProgram /\ TypeInv /\ LoadInv /\ [Next]_vars => PlanInv'
<1> SUFFICES ASSUME HasProgram, TypeInv, LoadInv, [Next]_vars PROVE PlanInv'
  OBVIOUS
<1>1. PICK q : Planned(q)
  BY DEF LoadInv, PlanInv
<1>2. VectorTaken
  BY DEF LoadInv
<1>3. at \in Loading => file \in Accepted /\ Nr \in Nat
  <2> SUFFICES ASSUME at \in Loading PROVE file \in Accepted /\ Nr \in Nat
    OBVIOUS
  <2>1. file \in Accepted /\ Nr \in 0 .. LastPlace(file)
    BY PlaceInLoad
  <2>2. LastPlace(file) \in Nat
    BY <2>1, Sizes DEF LastPlace
  <2> QED
    BY <2>1, <2>2
<1>4. CASE Sending
  <2>1. \E r : Planned(r)'
    BY <1>1, <1>2, <1>4, PlanAppend
  <2> QED
    BY <2>1 DEF PlanInv
<1>5. CASE Hci
  <2>1. \E r : Planned(r)'
    BY <1>1, <1>5, PlanTail
  <2> QED
    BY <2>1 DEF PlanInv
<1>6. CASE OpenNext \/ CheckHeader \/ EndPrg \/ EndChr \/ ShortRead \/ PollButton \/ ReadPads
  <2>1. /\ UNCHANGED link /\ UNCHANGED nes
        /\ at' \in Loading => at \in Loading /\ file' = file /\ Nr' = Nr
    BY <1>2, <1>6, SocSilent
  <2>2. \A f \in Accepted, n \in Nat : Done(f, n) => Done(f, n)'
    BY <2>1, SamePlaces
  <2>3. Planned(q)'
    BY <1>1, <1>3, <2>1, <2>2, PlanKept
  <2> QED
    BY <2>3 DEF PlanInv
<1>7. CASE Game \/ Press \/ Release \/ UNCHANGED vars
  <2>1. UNCHANGED link /\ UNCHANGED <<at, file, i>>
    BY <1>7 DEF Game, GamePpu, GameWritesPrg, GameWritesChr, GameHalts, Press,
                Release, vars, soc
  <2>2. Nr' = Nr
    BY <2>1 DEF Nr, PrgTransfers, ChrTransfers
  <2>3. \A f \in Accepted, n \in Nat : Done(f, n) => Done(f, n)'
    <3>1. CASE Game
      BY <3>1, GameKeeps
    <3>2. CASE Press \/ Release \/ UNCHANGED vars
      <4>1. UNCHANGED nes
        BY <3>2 DEF Press, Release, vars, nes
      <4> QED
        BY <4>1, SamePlaces
    <3> QED
      BY <1>7, <3>1, <3>2
  <2>4. Planned(q)'
    BY <1>1, <1>3, <2>1, <2>2, <2>3, PlanKept
  <2> QED
    BY <2>4 DEF PlanInv
<1> QED
  BY <1>4, <1>5, <1>6, <1>7 DEF Next, Soc, Sending

\* The vector is that of the file whose program was copied, as long as there is a
\* program: the buffer is only written by the first loop until then.
LEMMA NextVector == HasProgram /\ TypeInv /\ VectorTaken /\ [Next]_vars => VectorTaken'
<1> SUFFICES ASSUME HasProgram, TypeInv, VectorTaken, [Next]_vars PROVE VectorTaken'
  OBVIOUS
<1>1. CASE Hci \/ Game \/ Press \/ Release \/ UNCHANGED vars
  <2>1. UNCHANGED <<at, file, i, buf, vector>>
    BY <1>1 DEF Hci, TakeBreak, DisablePpu, SetCfg, WritePrg, WriteChr, SetPc, Run,
                Game, GamePpu, GameWritesPrg, GameWritesChr, GameHalts, Press,
                Release, vars, soc
  <2> QED
    BY <2>1 DEF VectorTaken, VectorOf, Transfer, PrgTransfers
<1>2. CASE SendPrg
  <2>1. /\ at' = "prg" /\ file' = file /\ buf' = Transfer(file, read) /\ read = i
        /\ i' = i + 1 /\ i \in Nat
    BY <1>2, LoaderAssumption
       DEF SendPrg, Copy, TypeInv, LoopsInStep, TypeOK, PrgSlots, ChrSlots
  <2>2. i' - 1 = i
    BY <2>1
  <2> QED
    BY <2>1, <2>2 DEF VectorTaken, Transfer
<1>3. CASE EndPrg
  <2>1. /\ at = "prg" /\ at' = "chr" /\ file' = file /\ vector' = buf
        /\ i <= PrgTransfers(file) /\ i >= PrgTransfers(file) /\ i \in Nat /\ file \in Accepted
    BY <1>3, LoaderAssumption
       DEF EndPrg, TakeVector, TypeInv, LoopsInStep, TypeOK, PrgSlots, ChrSlots, Loading,
           Accepted
  <2>2. PrgTransfers(file) \in Nat /\ PrgTransfers(file) # 0
    BY <2>1, Sizes, Programs
  <2>3. i = PrgTransfers(file) /\ i > 0
    BY <2>1, <2>2
  <2>4. buf = VectorOf(file)
    BY <2>1, <2>3 DEF VectorTaken, VectorOf
  <2> QED
    BY <2>1, <2>4 DEF VectorTaken, VectorOf, Transfer, PrgTransfers
<1>4. CASE SendCfg
  <2>1. at' = "prg" /\ i' = 0
    BY <1>4 DEF SendCfg, SendStep, Goto, TypeInv, LoopsInStep
  <2> QED
    BY <2>1 DEF VectorTaken
<1>5. CASE SendChr \/ EndChr \/ SendPcl \/ SendPch
  <2>1. /\ at' \in {"chr", "pcl", "pch", "run"} /\ at \in {"chr", "pcl", "pch", "run"}
        /\ UNCHANGED <<file, vector>>
    BY <1>5 DEF SendChr, Copy, EndChr, SendPcl, SendPch, SendStep, Goto
  <2> QED
    BY <2>1 DEF VectorTaken, VectorOf, Transfer, PrgTransfers
<1>6. CASE OpenNext \/ CheckHeader \/ SendHalt \/ SendPpuDisable \/ ShortRead \/ SendRun
           \/ PollButton \/ ReadPads
  <2>1. at' \notin {"prg", "chr", "pcl", "pch", "run"}
    BY <1>6 DEF OpenNext, CheckHeader, SendHalt, SendPpuDisable, ShortRead, SendRun,
                PollButton, ReadPads, SendStep, Goto, FirstPacket, AfterHalt
  <2> QED
    BY <2>1 DEF VectorTaken
<1> QED
  BY <1>1, <1>2, <1>3, <1>4, <1>5, <1>6 DEF Next, Soc

\* Only a DbgRun lets the NES leave the debugger, and its place is the last of its
\* load: everything before it is done.
LEMMA RunIsLoaded ==
    ASSUME HasProgram, TypeInv, LoadInv, [Next]_vars, halted, ~ halted'
    PROVE  ~ ppu_on /\ \E f \in FileSet : Acceptable(f) /\ Loaded(f)
<1>1. Run
  BY DEF Next, Soc, OpenNext, CheckHeader, SendHalt, SendPpuDisable, SendCfg, SendPrg,
         EndPrg, SendChr, EndChr, ShortRead, SendPcl, SendPch, SendRun, PollButton,
         ReadPads, SendStep, Copy, Press, Release, Hci, TakeBreak, DisablePpu, SetCfg,
         WritePrg, WriteChr, SetPc, Game, GamePpu, GameWritesPrg, GameWritesChr,
         GameHalts, vars, nes
<1>2. PICK q : Planned(q)
  BY DEF LoadInv, PlanInv
<1>3. /\ q \in Seq(Places) /\ q # << >> /\ 1 \in 1 .. Len(q)
      /\ Head(link) = link[1] /\ Head(link).op = "DbgRun"
  <2>1. link # << >> /\ link \in Seq(Packets) /\ Head(link).op = "DbgRun"
    BY <1>1 DEF Run, Received, TypeInv, TypeOK
  <2>2. q \in Seq(Places) /\ Len(q) = Len(link)
    BY <1>2 DEF Planned
  <2>3. Len(q) # 0
    BY <2>1, <2>2, EmptySeq
  <2> QED
    BY <2>1, <2>2, <2>3, EmptySeq, HeadTailProperties
<1> DEFINE f == q[1].game
           n == q[1].nr
           P == PrgTransfers(f)
           C == ChrTransfers(f)
<1>4. /\ f \in Accepted /\ n \in 0 .. LastPlace(f) /\ IsPacket(Head(link), f, n)
      /\ Done(f, n)
  <2>1. q[1] \in Places
    BY <1>3
  <2> QED
    BY <2>1, <1>2, <1>3 DEF Planned, Places
<1>5. n = LastPlace(f)
  BY <1>3, <1>4, PacketKinds
<1>6. P \in Nat /\ C \in Nat /\ n = 5 + P + C
  BY <1>4, <1>5, Sizes DEF LastPlace
<1>7. /\ n > 1 => ~ ppu_on
      /\ n > 2 => cfg = CfgOf(f)
      /\ \A a \in 0 .. P - 1 : a < n - 3 => prg[a] = Transfer(f, a)
      /\ \A s \in 0 .. C - 1 : s < n - 3 - P => chr[s] = Transfer(f, P + s)
      /\ n > 3 + P + C => pc.pcl = VectorOf(f)
      /\ n > 4 + P + C => pc.pch = VectorOf(f)
  BY <1>4 DEF Done
<1>8. f \in FileSet /\ Acceptable(f)
  BY <1>4 DEF Accepted
<1>9. /\ \A a \in PrgSlots : Slot(CfgOf(f), a) \in 0 .. P - 1
      /\ f.chr # 0 => C = ChrBank
  <2>1. f.chr \in Nat /\ f.chr <= 1
    BY SMTT(30), <1>8, FilesTyped DEF Acceptable, FileType
  <2>2. f.chr # 0 => f.chr * ChrBank = ChrBank
    BY <2>1, LoaderAssumption DEF LoaderAssumption
  <2> QED
    BY <2>2, <1>4, Programs DEF ChrTransfers
<1> HIDE DEF f, n, P, C
<1>10. /\ ppu_on = FALSE /\ cfg = CfgOf(f)
       /\ \A a \in 0 .. P - 1 : prg[a] = Transfer(f, a)
       /\ \A s \in 0 .. C - 1 : chr[s] = Transfer(f, P + s)
       /\ pc.pcl = VectorOf(f) /\ pc.pch = VectorOf(f)
  <2>1. /\ n > 1 /\ n > 2 /\ n > 3 + P + C /\ n > 4 + P + C
        /\ \A a \in 0 .. P - 1 : a < n - 3
        /\ \A s \in 0 .. C - 1 : s < n - 3 - P
    BY <1>6
  <2>2. ppu_on \in BOOLEAN
    BY DEF TypeInv, TypeOK
  <2> QED
    BY <2>1, <2>2, <1>7
<1>11. Loaded(f)
  <2>1. \A a \in PrgSlots : prg[Slot(cfg, a)] = Transfer(f, Slot(cfg, a))
    BY <1>9, <1>10
  <2>2. f.chr # 0 => \A s \in ChrSlots : chr[s] = Transfer(f, PrgTransfers(f) + s)
    BY <1>9, <1>10 DEF ChrSlots, P
  <2>3. pc = [pcl |-> VectorOf(f), pch |-> VectorOf(f)]
    <3>1. pc \in [pcl : Contents, pch : Contents]
      BY DEF TypeInv, TypeOK
    <3> QED
      BY <3>1, <1>10
  <2> QED
    BY <2>1, <2>2, <2>3, <1>10 DEF Loaded, VectorOf
<1> QED
  BY <1>8, <1>10, <1>11

\* A game is never let run half loaded, for every directory whose accepted files
\* have a program: however many loads are in the link, wherever they were cut
\* short and whatever the games before them left behind.  main.c rejects more
\* than two PRG banks but not none, and a header with none is loaded and run with
\* the vector that happens to be in the buffer; the hypothesis excludes it.
THEOREM RunsOnlyLoadedCorrect ==
    ASSUME HasProgram
    PROVE  Spec => RunsOnlyLoaded
<1>1. Init => TypeInv /\ LoadInv
  BY InitType, InitLoad
<1>2. TypeInv /\ LoadInv /\ [Next]_vars => (TypeInv /\ LoadInv)'
  BY NextType, NextPlan, NextVector DEF LoadInv
<1>3. TypeInv /\ LoadInv /\ [Next]_vars =>
          [halted /\ ~ halted' =>
              ~ ppu_on /\ \E f \in FileSet : Acceptable(f) /\ Loaded(f)]_vars
  BY RunIsLoaded
<1> QED
  BY <1>1, <1>2, <1>3, PTL DEF Spec, RunsOnlyLoaded

-----------------------------------------------------------------------------
(* One press, one game.                                                      *)

\* A press that the polls have not seen yet is still to be counted.
PressPending == last = "up" /\ button = "down" => pressed

\* The wait ends only for a press that was not counted before, however long the
\* button is held down and whatever loads and failed transfers come between.
THEOREM NextOnlyOnPressCorrect == Spec => NextOnlyOnPress
<1> DEFINE Inv == TypeInv /\ PressPending
<1>1. Init => Inv
  BY InitType DEF Init, PressPending
<1>2. Inv /\ [Next]_vars => PressPending'
  BY DEF TypeInv, TypeOK, PressPending, Next, Soc, OpenNext, CheckHeader, SendHalt,
         SendPpuDisable, SendCfg, SendPrg, EndPrg, SendChr, EndChr, ShortRead, SendPcl,
         SendPch, SendRun, PollButton, JustPressed, ReadPads, SendStep, Copy, Goto, Press,
         Release, Hci, TakeBreak, DisablePpu, SetCfg, WritePrg, WriteChr, SetPc, Run, Game,
         GamePpu, GameWritesPrg, GameWritesChr, GameHalts, vars, user, soc
<1>3. Inv /\ [Next]_vars => [at = "wait" /\ at' = "dir" => pressed]_vars
  BY DEF TypeInv, TypeOK, PressPending, Next, Soc, OpenNext, CheckHeader, SendHalt,
         SendPpuDisable, SendCfg, SendPrg, EndPrg, SendChr, EndChr, ShortRead, SendPcl,
         SendPch, SendRun, PollButton, JustPressed, ReadPads, SendStep, Copy, Goto, Press,
         Release, Hci, TakeBreak, DisablePpu, SetCfg, WritePrg, WriteChr, SetPc, Run, Game,
         GamePpu, GameWritesPrg, GameWritesChr, GameHalts, vars, user, soc
<1>4. Inv /\ [Next]_vars => Inv'
  BY <1>2, NextType
<1> QED
  BY <1>1, <1>3, <1>4, PTL DEF Spec, NextOnlyOnPress
=============================================================================
