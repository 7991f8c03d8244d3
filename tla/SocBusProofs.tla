---------------------------- MODULE SocBusProofs ----------------------------
(***************************************************************************)
(* What is proved of SocBus for every set of ports and every set of bursts *)
(* that satisfies its assumptions: each half of the bus loses, repeats,    *)
(* reorders and mislabels no beat, one answer at most is owed, and no      *)
(* burst is accepted before the one before it is done.                     *)
(*                                                                         *)
(* The properties say little about the registers in between two beats, so  *)
(* none of them is inductive.  What is carried along is the reckoning that *)
(* the converter does in arcnt_q and awcnt_q: the beats that came, the one *)
(* that the distributor waits for and those still to be asked for are the  *)
(* burst (ReadCount, WriteCount), and the address register holds the       *)
(* address of the next one.  BeatAddr is AXI's definition of that address, *)
(* calculate_addr_next the repository's step from one to the next; NextBeat *)
(* shows that the one is the other's iteration.                            *)
(*                                                                         *)
(* A clock of the read half does one of four things and a clock of the     *)
(* write half one of five (ReadCases, WriteCases); each is then shown to   *)
(* keep the invariant.                                                     *)
(***************************************************************************)
EXTENDS SocBus, ProofLemmas

\* What the master gets with one beat of a read.
Beat == [data : Int, id : Nat, last : BOOLEAN]
\* How many answers the distributor waits for.
Owed(dist) == IF dist.pending THEN 1 ELSE 0

\* The types of the read half: of the converter's registers, of the bit that the
\* distributor waits by, and of the ghost.
ReadTypes ==
    /\ rconv \in [mask : BOOLEAN, valid : BOOLEAN, addr : Int, cnt : Nat,
                  burst : BurstType]
    /\ rdist.pending \in BOOLEAN
    /\ rd \in [burst : BurstType, open : BOOLEAN, got : Seq(Beat)]

\* While a burst is open the master's address is hidden, and the converter's copy
\* of the burst is the burst; between two bursts nothing is asked for or awaited.
ReadShape ==
    /\ rconv.mask = rd.open /\ rconv.burst = rd.burst
    /\ rd.open \/ rd.got # << >> => rd.burst \in Bursts
    /\ ~ rd.open => rdist.pending = FALSE /\ rconv.valid = FALSE

\* Of an open burst: the beats handed over, the one awaited and those that arcnt_q
\* counts are all of it; arvalid_q says whether any is left to be asked for, and
\* araddr_q is the address of the first of these.
ReadCount ==
    rd.open =>
      /\ Len(rd.got) + Owed(rdist) + rconv.cnt = rd.burst.len + 1
      /\ rconv.valid <=> rconv.cnt # 0
      /\ rconv.valid => rconv.addr = BeatAddr(rd.burst, Len(rd.got) + Owed(rdist))

\* The one access that is owed.
Only(dist, addr) == [p \in Ports |-> IF dist.pending /\ p = dist.sel THEN <<addr>> ELSE << >>]

\* The only access in a peripheral is the one that the distributor waits for, and
\* it is for the next beat to be handed over.
ReadPort ==
    /\ rdist.pending => rdist.sel \in Ports
    /\ rport = Only(rdist, BeatAddr(rd.burst, Len(rd.got)))

\* The inductive invariant of the read half.
ReadInv == ReadTypes /\ ReadShape /\ ReadCount /\ ReadPort /\ ReadBeats

\* The types of the write half.
WriteTypes ==
    /\ wconv \in [mask : BOOLEAN, valid : BOOLEAN, addr : Int, cnt : Nat,
                  burst : BurstType, blast : BOOLEAN]
    /\ wdist.pending \in BOOLEAN
    /\ wr \in [burst : BurstType, open : BOOLEAN, taken : Nat, came : Seq(Int)]

\* The same for writes.  The distributor never keeps an address for later, because
\* the converter raises awvalid only together with wvalid.
WriteShape ==
    /\ wdist.awvalid = FALSE
    /\ wconv.mask = wr.open /\ wconv.burst = wr.burst
    /\ wr.open \/ wr.came # << >> => wr.burst \in Bursts
    /\ ~ wr.open => /\ wdist.pending = FALSE /\ wconv.valid = FALSE
                    /\ wconv.blast = FALSE

\* Of an open burst: awvalid_q says whether beats are left to be taken, blast_q
\* whether all are, awcnt_q counts those left, modulo its width since a burst of
\* 256 beats whose address comes first does not fit, and awaddr_q is the address of
\* the next one.
WriteCount ==
    wr.open =>
      /\ wr.taken <= wr.burst.len + 1
      /\ wconv.valid <=> wr.taken <= wr.burst.len
      /\ wconv.blast <=> wr.taken = wr.burst.len + 1
      /\ wconv.cnt = (wr.burst.len + 1 - wr.taken) % CntBase
      /\ wconv.valid => wconv.addr = BeatAddr(wr.burst, wr.taken)

\* The only access in a peripheral is the one that the distributor waits for: the
\* beat taken last.
WritePort ==
    /\ wdist.pending => wdist.sel \in Ports
    /\ wport = Only(wdist, BeatAddr(wr.burst, wr.taken - 1))

\* The inductive invariant of the write half, and that of the bus.
WriteInv == WriteTypes /\ WriteShape /\ WriteCount /\ WritePort /\ WriteBeats
BusInv == ReadInv /\ WriteInv

-----------------------------------------------------------------------------
\* What the assumptions say of the constants.
LEMMA BusConstants ==
    /\ CntBase \in Nat /\ CntBase >= 2 /\ PageWords \in Nat \ {0}
    /\ Ports \subseteq 0 .. 7
    /\ \A b \in Bursts : /\ b \in BurstType /\ b.id \in Nat /\ b.addr \in Nat
                         /\ b.len \in 0 .. CntBase - 1 /\ b.kind \in Kinds
                         /\ b.kind = "wrap" => b.len \in {0, 1, 3, 7, 15}
BY BusAssumption, WrapLengths DEF BusAssumption, WrapLengths, BurstType, Selects

\* A count that is lowered by one in a register that is CntBase wide.
LEMMA CountDown ==
    ASSUME NEW c \in 1 .. CntBase
    PROVE  (c + CntBase - 1) % CntBase = c - 1
<1>1. CntBase \in Nat \ {0} /\ c + CntBase - 1 \in CntBase .. 2 * CntBase - 1
  BY BusConstants
<1> DEFINE x == c + CntBase - 1
<1>2. x \in CntBase .. 2 * CntBase - 1
  BY <1>1
<1> HIDE DEF x
<1>3. x % CntBase = x - CntBase
  <2>1. x \in 0 .. 2 * CntBase - 1 /\ ~ (x < CntBase)
    BY <1>1, <1>2
  <2> QED
    BY <2>1, <1>1, WrapsOnce
<1> QED
  BY <1>1, <1>3 DEF x

\* Beat 0 goes to the address of the burst, for each kind of burst.
LEMMA FirstBeat ==
    ASSUME NEW b \in Bursts
    PROVE  BeatAddr(b, 0) = b.addr
<1>1. b.addr \in Nat /\ b.len \in Nat /\ b.kind \in Kinds
      /\ (b.kind = "wrap" => b.len \in {0, 1, 3, 7, 15})
  BY BusConstants
<1>2. CASE b.kind = "fixed"
  BY <1>1, <1>2 DEF BeatAddr
<1>3. CASE b.kind = "incr"
  BY <1>1, <1>3 DEF BeatAddr
<1>4. CASE b.kind = "wrap"
  <2> DEFINE a == b.addr
  <2>1. /\ b.len = 0 => (a - (a % 1)) + ((a - (a - (a % 1)) + 0) % 1) = a
        /\ b.len = 1 => (a - (a % 2)) + ((a - (a - (a % 2)) + 0) % 2) = a
        /\ b.len = 3 => (a - (a % 4)) + ((a - (a - (a % 4)) + 0) % 4) = a
        /\ b.len = 7 => (a - (a % 8)) + ((a - (a - (a % 8)) + 0) % 8) = a
        /\ b.len = 15 => (a - (a % 16)) + ((a - (a - (a % 16)) + 0) % 16) = a
    BY <1>1
  <2>2. BeatAddr(b, 0) = (a - (a % (b.len + 1))) + ((a - (a - (a % (b.len + 1))) + 0) % (b.len + 1))
    BY <1>4 DEF BeatAddr
  <2> QED
    BY <2>1, <2>2, <1>1, <1>4
<1> QED
  BY <1>1, <1>2, <1>3, <1>4 DEF Kinds

\* What a wrapping burst needs of remainders, for the lengths that AXI allows: the
\* block of an address begins where its remainder is 0, and a step within the block
\* is a step of the remainder.
LEMMA WrapArithmetic ==
    ASSUME NEW n \in {1, 2, 4, 8, 16}
    PROVE  /\ \A a \in Nat : (a - (a % n)) % n = 0
           /\ \A o \in Int, k \in Nat :
                  /\ (o + k) % n \in 0 .. n - 1
                  /\ (((o + k) % n) + 1) % n = (o + (k + 1)) % n
           /\ \A base \in Int, r \in 0 .. n - 1 : base % n = 0 =>
                  /\ (base + r) - ((base + r) % n) = base
                  /\ ((base + r) + 1) % n = (r + 1) % n
<1>1. CASE n = 1
  BY <1>1
<1>2. CASE n = 2
  BY <1>2
<1>3. CASE n = 4
  BY <1>3
<1>4. CASE n = 8
  BY <1>4
<1>5. CASE n = 16
  BY <1>5
<1> QED
  BY <1>1, <1>2, <1>3, <1>4, <1>5

\* calculate_addr_next takes the address of each beat to that of the next.
LEMMA NextBeat ==
    ASSUME NEW b \in Bursts, NEW k \in Nat
    PROVE  /\ BeatAddr(b, k) \in Int
           /\ calculate_addr_next(BeatAddr(b, k), b.kind, b.len) = BeatAddr(b, k + 1)
<1>1. b.addr \in Nat /\ b.len \in Nat /\ b.kind \in Kinds
      /\ (b.kind = "wrap" => b.len \in {0, 1, 3, 7, 15})
  BY BusConstants
<1>2. CASE b.kind = "fixed"
  BY <1>1, <1>2 DEF BeatAddr, calculate_addr_next
<1>3. CASE b.kind = "incr"
  BY <1>1, <1>3 DEF BeatAddr, calculate_addr_next
<1>4. ASSUME b.kind = "wrap", NEW n \in {1, 2, 4, 8, 16}, b.len + 1 = n
      PROVE  /\ BeatAddr(b, k) \in Int
             /\ calculate_addr_next(BeatAddr(b, k), b.kind, b.len) = BeatAddr(b, k + 1)
  <2> DEFINE base == b.addr - (b.addr % n)
             o == b.addr - base
             x == base + ((o + k) % n)
  <2>1. Span(b.len) = n
    BY <1>1, <1>4 DEF Span
  <2>2. BeatAddr(b, k) = x /\ BeatAddr(b, k + 1) = base + ((o + (k + 1)) % n)
    BY <1>4 DEF BeatAddr
  <2>3. calculate_addr_next(BeatAddr(b, k), b.kind, b.len) = (x - (x % n)) + ((x + 1) % n)
    BY <2>1, <2>2, <1>4 DEF calculate_addr_next
  <2>4. base \in Int /\ base % n = 0 /\ o \in Int
    <3>1. (b.addr - (b.addr % n)) % n = 0
      BY <1>1, WrapArithmetic
    <3> QED
      BY <3>1, <1>1
  <2> DEFINE r == (o + k) % n
  <2>5. r \in 0 .. n - 1 /\ (r + 1) % n = (o + (k + 1)) % n
    <3> HIDE DEF o, base
    <3> QED
      BY ZenonT(60), <2>4, WrapArithmetic
  <2>6. (base + r) - ((base + r) % n) = base /\ ((base + r) + 1) % n = (r + 1) % n
    <3> HIDE DEF r, o, base
    <3> QED
      BY ZenonT(60), <2>4, <2>5, WrapArithmetic
  <2> HIDE DEF o, base
  <2> QED
    BY <2>2, <2>3, <2>4, <2>5, <2>6
<1>5. CASE b.kind = "wrap"
  <2>1. b.len + 1 \in {1, 2, 4, 8, 16}
    BY <1>1, <1>5
  <2> QED
    BY <2>1, <1>4, <1>5
<1> QED
  BY <1>1, <1>2, <1>3, <1>5 DEF Kinds

\* A queue of one access.
LEMMA OneInQueue ==
    ASSUME NEW x
    PROVE  /\ << >> \o <<x>> = <<x>> /\ << >> \o << >> = << >> /\ <<x>> \o << >> = <<x>>
           /\ Tail(<<x>>) = << >> /\ Head(<<x>>) = x
           /\ <<x>> # << >> /\ Len(<<x>>) = 1
OBVIOUS

-----------------------------------------------------------------------------
\* The four things that a clock of the read half can do.
NewRead(b, p) ==
    /\ rd.open = FALSE /\ rdist.pending = FALSE
    /\ rd' = [burst |-> b, open |-> TRUE, got |-> << >>]
    /\ rconv' = [ReadAccepted(rconv, b) EXCEPT !.mask = TRUE]
    /\ rdist' = [pending |-> TRUE, sel |-> p]
    /\ rport' = [q \in Ports |-> IF q = p THEN <<b.addr>> ELSE << >>]

NextRead(p) ==
    /\ rconv.valid = TRUE /\ rdist.pending = FALSE
    /\ rd' = rd /\ rconv' = AfterRead(rconv)
    /\ rdist' = [pending |-> TRUE, sel |-> p]
    /\ rport' = [q \in Ports |-> IF q = p THEN <<rconv.addr>> ELSE << >>]

ReadAnswered ==
    /\ rdist.pending = TRUE
    /\ rd' = [rd EXCEPT !.got = Append(@, [data |-> BeatAddr(rd.burst, Len(rd.got)),
                                           id |-> rd.burst.id, last |-> rconv.cnt = 0]),
                        !.open = rconv.cnt # 0]
    /\ rconv' = [rconv EXCEPT !.mask = rconv.cnt # 0]
    /\ rdist'.pending = FALSE
    /\ rport' = [q \in Ports |-> << >>]

ReadIdle ==
    /\ rd' = rd /\ rconv' = rconv /\ rport' = rport
    /\ rdist'.pending = rdist.pending
    /\ rdist.pending => rdist'.sel = rdist.sel

\* No clock of the read half does anything else, in a state of the invariant.
LEMMA ReadCases ==
    ASSUME ReadInv, Read
    PROVE  \/ \E b \in Bursts, p \in Ports : NewRead(b, p)
           \/ \E p \in Ports : NextRead(p)
           \/ ReadAnswered
           \/ ReadIdle
<1>1. PICK arvalid \in BOOLEAN, rready \in BOOLEAN, b \in Bursts,
           ready \in SUBSET Room(rport), up \in SUBSET Ports :
             ReadClock(arvalid, b, rready, ready, up)
  BY DEF Read
<1> DEFINE out_arvalid == (arvalid /\ ~ rconv.mask) \/ rconv.valid
           out_araddr == IF rconv.valid THEN rconv.addr ELSE b.addr
           sel == IF rdist.pending THEN rdist.sel ELSE Sel(out_araddr)
           out_arready == sel \in ready /\ ReadFree
           arready == out_arready /\ ~ rconv.mask
           accepted == arvalid /\ arready
           asked == {p \in ready : out_arvalid /\ sel = p /\ ReadFree}
           rvalid == rdist.sel \in up /\ rport[rdist.sel] # << >>
           answered == {p \in up : rvalid /\ rready /\ rdist.sel = p}
           beat == [data |-> Head(rport[rdist.sel]), id |-> rconv.burst.id,
                    last |-> rlast]
           regs == IF rconv.valid /\ out_arready THEN AfterRead(rconv)
                   ELSE IF accepted THEN ReadAccepted(rconv, b)
                   ELSE rconv
           pend == IF rvalid /\ rready THEN FALSE
                   ELSE IF ReadFree /\ out_arvalid THEN out_arready ELSE rdist.pending
<1>2. /\ rdist' = [pending |-> pend, sel |-> sel]
      /\ rconv' = [regs EXCEPT !.mask = NextMask(@, accepted, rvalid /\ rlast /\ rready)]
      /\ rport' = [p \in Ports |->
                     (IF p \in answered THEN Tail(rport[p]) ELSE rport[p])
                       \o (IF p \in asked THEN <<out_araddr>> ELSE << >>)]
      /\ rd' = IF accepted THEN [burst |-> b, open |-> TRUE, got |-> << >>]
               ELSE IF rvalid /\ rready
                    THEN [rd EXCEPT !.got = Append(@, beat), !.open = ~ rlast]
                    ELSE rd
  BY <1>1 DEF ReadClock
<1>3. /\ rconv \in [mask : BOOLEAN, valid : BOOLEAN, addr : Int, cnt : Nat,
                    burst : BurstType]
      /\ rdist.pending \in BOOLEAN
      /\ rd \in [burst : BurstType, open : BOOLEAN, got : Seq(Beat)]
      /\ rconv.mask = rd.open /\ rconv.burst = rd.burst
      /\ rd.open = FALSE => rdist.pending = FALSE /\ rconv.valid = FALSE
      /\ rport = Only(rdist, BeatAddr(rd.burst, Len(rd.got)))
      /\ rdist.pending => rdist.sel \in Ports
      /\ ready \subseteq Ports /\ up \subseteq Ports
  BY DEF ReadInv, ReadTypes, ReadShape, ReadPort, Room
<1>4. (rlast <=> rconv.cnt = 0) /\ (ReadFree <=> rdist.pending = FALSE)
  BY <1>3 DEF rlast, ReadFree
<1>5. rdist.pending = FALSE => \A p \in Ports : rport[p] = << >>
  BY <1>3 DEF Only
<1>6. rdist.pending = TRUE =>
        /\ rport[rdist.sel] = <<BeatAddr(rd.burst, Len(rd.got))>>
        /\ \A p \in Ports : p # rdist.sel => rport[p] = << >>
  BY <1>3 DEF Only
<1>7. CASE accepted
  <2>1. /\ rd.open = FALSE /\ rdist.pending = FALSE /\ rconv.valid = FALSE
        /\ sel \in Ports /\ out_arvalid /\ out_araddr = b.addr /\ asked = {sel}
    BY <1>3, <1>4, <1>7
  <2>2. ~ rvalid /\ answered = {}
    BY <2>1, <1>3, <1>5
  <2>3. pend = TRUE /\ regs = ReadAccepted(rconv, b)
    BY <2>1, <2>2, <1>4, <1>7
  <2>4. rconv' = [ReadAccepted(rconv, b) EXCEPT !.mask = TRUE]
    BY <2>3, <1>2, <1>7 DEF NextMask
  <2>5. rport' = [p \in Ports |-> IF p = sel THEN <<b.addr>> ELSE << >>]
    <3>1. \A p \in Ports : rport[p] = << >>
      BY <2>1, <1>5
    <3> HIDE DEF sel, asked, answered, out_araddr
    <3> QED
      BY <3>1, <2>1, <2>2, <1>2, OneInQueue
  <2>6. rd' = [burst |-> b, open |-> TRUE, got |-> << >>]
    BY <1>2, <1>7
  <2>7. rdist' = [pending |-> TRUE, sel |-> sel]
    BY <1>2, <2>3
  <2>8. NewRead(b, sel)
    BY <2>1, <2>4, <2>5, <2>6, <2>7 DEF NewRead
  <2> QED
    BY <2>1, <2>8
<1>8. CASE ~ accepted /\ rconv.valid /\ out_arready
  <2>1. /\ rdist.pending = FALSE /\ rconv.mask = TRUE /\ sel \in Ports
        /\ out_arvalid /\ out_araddr = rconv.addr /\ asked = {sel}
    BY <1>3, <1>4, <1>8
  <2>2. ~ rvalid /\ answered = {}
    BY <2>1, <1>3, <1>5
  <2>3. pend = TRUE /\ regs = AfterRead(rconv)
    BY <2>1, <2>2, <1>4, <1>8
  <2>4. rconv' = AfterRead(rconv)
    BY <2>1, <2>2, <2>3, <1>2, <1>3, <1>8 DEF NextMask, AfterRead
  <2>5. rport' = [p \in Ports |-> IF p = sel THEN <<rconv.addr>> ELSE << >>]
    <3>1. \A p \in Ports : rport[p] = << >>
      BY <2>1, <1>5
    <3> HIDE DEF sel, asked, answered, out_araddr
    <3> QED
      BY <3>1, <2>1, <2>2, <1>2, OneInQueue
  <2>6. rd' = rd
    BY <1>2, <1>8, <2>2
  <2>7. rdist' = [pending |-> TRUE, sel |-> sel]
    BY <1>2, <2>3
  <2>8. NextRead(sel)
    BY <2>1, <2>4, <2>5, <2>6, <2>7, <1>8 DEF NextRead
  <2> QED
    BY <2>1, <2>8
<1>9. CASE ~ accepted /\ ~ (rconv.valid /\ out_arready) /\ rvalid /\ rready
  <2>1. rdist.pending = TRUE /\ rdist.sel \in Ports
    BY <1>3, <1>5, <1>9
  <2>2. asked = {} /\ answered = {rdist.sel} /\ pend = FALSE /\ regs = rconv
    BY <2>1, <1>4, <1>9
  <2>3. rd.open = TRUE /\ rconv.mask = TRUE
    BY <2>1, <1>3
  <2>4. beat = [data |-> BeatAddr(rd.burst, Len(rd.got)), id |-> rd.burst.id,
                last |-> rconv.cnt = 0]
    <3>1. Head(rport[rdist.sel]) = BeatAddr(rd.burst, Len(rd.got))
      BY <2>1, <1>6, OneInQueue
    <3> QED
      BY <3>1, <1>3 DEF rlast
  <2>5. rconv' = [rconv EXCEPT !.mask = rconv.cnt # 0]
    BY <2>2, <2>3, <1>2, <1>4, <1>9 DEF NextMask
  <2>6. rd' = [rd EXCEPT !.got = Append(@, beat), !.open = rconv.cnt # 0]
    BY <1>2, <1>4, <1>9
  <2>7. rport' = [p \in Ports |-> << >>]
    <3> HIDE DEF asked, answered
    <3>1. \A p \in Ports : p \in answered => Tail(rport[p]) = << >>
      BY <2>1, <2>2, <1>6, OneInQueue
    <3>2. \A p \in Ports : p \notin answered => rport[p] = << >>
      BY <2>1, <2>2, <1>6
    <3>3. rport' = [p \in Ports |->
                      (IF p \in answered THEN Tail(rport[p]) ELSE rport[p]) \o << >>]
      BY <2>2, <1>2
    <3> QED
      BY <3>1, <3>2, <3>3, OneInQueue
  <2>8. rdist'.pending = FALSE
    BY <1>2, <2>2
  <2>9. ReadAnswered
    BY <2>1, <2>4, <2>5, <2>6, <2>7, <2>8 DEF ReadAnswered
  <2> QED
    BY <2>9
<1>10. CASE ~ accepted /\ ~ (rconv.valid /\ out_arready) /\ ~ (rvalid /\ rready)
  <2>1. asked = {}
    BY <1>3, <1>4, <1>10
  <2>2. answered = {} /\ regs = rconv /\ (pend <=> rdist.pending)
    BY <1>3, <1>4, <1>10
  <2>3. rport' = rport
    <3> HIDE DEF asked, answered
    <3>1. rport' = [p \in Ports |-> rport[p] \o << >>]
      BY <2>1, <2>2, <1>2
    <3>2. \A p \in Ports : rport[p] \o << >> = rport[p]
      BY ZenonT(60), <1>5, <1>6, <1>3, OneInQueue
    <3>3. rport = [p \in Ports |-> rport[p]]
      BY <1>3 DEF Only
    <3> QED
      BY <3>1, <3>2, <3>3
  <2>4. rd' = rd
    BY <1>2, <1>10
  <2>5. rconv' = rconv
    BY <2>2, <1>2, <1>3, <1>10 DEF NextMask
  <2>6. rdist'.pending = rdist.pending /\ (rdist.pending => rdist'.sel = rdist.sel)
    BY <1>2, <1>3, <2>2
  <2> QED
    BY <2>3, <2>4, <2>5, <2>6 DEF ReadIdle
<1> QED
  BY <1>7, <1>8, <1>9, <1>10

\* A burst is accepted and its first beat asked for.
LEMMA NewReadStep ==
    ASSUME ReadInv, NEW b \in Bursts, NEW p \in Ports, NewRead(b, p)
    PROVE  ReadInv'
<1>1. /\ b \in BurstType /\ b.addr \in Nat /\ b.len \in Nat
      /\ calculate_addr_next(b.addr, b.kind, b.len) = BeatAddr(b, 1)
      /\ BeatAddr(b, 0) = b.addr /\ BeatAddr(b, 1) \in Int
  <2>1. b.addr = BeatAddr(b, 0) /\ 0 + 1 = 1
    BY FirstBeat
  <2> QED
    BY <2>1, BusConstants, NextBeat
<1>2. rconv \in [mask : BOOLEAN, valid : BOOLEAN, addr : Int, cnt : Nat, burst : BurstType]
  BY DEF ReadInv, ReadTypes
<1>3. rconv' = [ReadAccepted(rconv, b) EXCEPT !.mask = TRUE]
  BY DEF NewRead
<1>4. /\ rconv' \in [mask : BOOLEAN, valid : BOOLEAN, addr : Int, cnt : Nat,
                     burst : BurstType]
      /\ rconv'.mask = TRUE /\ rconv'.valid = (b.len # 0) /\ rconv'.cnt = b.len
      /\ rconv'.burst = b /\ rconv'.addr = BeatAddr(b, 1)
  BY <1>1, <1>2, <1>3 DEF ReadAccepted
<1>5. /\ rd' = [burst |-> b, open |-> TRUE, got |-> << >>]
      /\ rdist' = [pending |-> TRUE, sel |-> p]
      /\ rport' = [q \in Ports |-> IF q = p THEN <<b.addr>> ELSE << >>]
  BY DEF NewRead
<1>6. << >> \in Seq(Beat) /\ Len(<< >>) = 0
  OBVIOUS
<1>7. ReadTypes'
  BY <1>1, <1>4, <1>5, <1>6 DEF ReadTypes
<1>8. ReadShape'
  BY <1>4, <1>5 DEF ReadShape
<1>9. ReadCount'
  <2>1. Len(rd'.got) + Owed(rdist)' = 1
    BY <1>5, <1>6 DEF Owed
  <2> QED
    BY <2>1, <1>1, <1>4, <1>5, <1>6 DEF ReadCount, Owed
<1>10. ReadPort'
  BY <1>1, <1>5, <1>6 DEF ReadPort, Only
<1>11. ReadBeats'
  BY <1>5 DEF ReadBeats
<1> QED
  BY <1>7, <1>8, <1>9, <1>10, <1>11 DEF ReadInv

\* The converter asks for the next beat of the burst.
LEMMA NextReadStep ==
    ASSUME ReadInv, NEW p \in Ports, NextRead(p)
    PROVE  ReadInv'
<1> DEFINE n == Len(rd.got)
           b == rd.burst
<1>1. /\ rconv \in [mask : BOOLEAN, valid : BOOLEAN, addr : Int, cnt : Nat,
                    burst : BurstType]
      /\ rd \in [burst : BurstType, open : BOOLEAN, got : Seq(Beat)]
      /\ rconv.mask = rd.open /\ rconv.burst = b
  BY DEF ReadInv, ReadTypes, ReadShape
<1>2. /\ rconv.valid = TRUE /\ rdist.pending = FALSE /\ rd' = rd
      /\ rconv' = AfterRead(rconv)
      /\ rdist' = [pending |-> TRUE, sel |-> p]
      /\ rport' = [q \in Ports |-> IF q = p THEN <<rconv.addr>> ELSE << >>]
  BY DEF NextRead
<1>3. rd.open = TRUE /\ b \in Bursts
  BY <1>1, <1>2 DEF ReadInv, ReadShape
<1>4. n \in Nat
  BY <1>1
<1>5. n + rconv.cnt = b.len + 1 /\ rconv.cnt # 0 /\ rconv.addr = BeatAddr(b, n)
  BY <1>2, <1>3, <1>4, <1>1 DEF ReadInv, ReadCount, Owed
<1>6. b.len \in Nat /\ b.len <= CntBase - 1 /\ CntBase \in Nat
  BY <1>3, BusConstants
<1>7. (rconv.cnt + CntBase - 1) % CntBase = rconv.cnt - 1
  <2>1. rconv.cnt \in 1 .. CntBase
    BY <1>1, <1>4, <1>5, <1>6
  <2> QED
    BY <2>1, CountDown
<1>8. /\ calculate_addr_next(rconv.addr, b.kind, b.len) = BeatAddr(b, n + 1)
      /\ BeatAddr(b, n + 1) \in Int
  <2>1. n + 1 \in Nat /\ rconv.addr = BeatAddr(b, n)
    BY <1>4, <1>5
  <2> HIDE DEF n, b
  <2> QED
    BY <2>1, <1>3, <1>4, NextBeat
<1>9. /\ rconv' \in [mask : BOOLEAN, valid : BOOLEAN, addr : Int, cnt : Nat,
                     burst : BurstType]
      /\ rconv'.mask = rconv.mask /\ rconv'.valid = (rconv.cnt # 1)
      /\ rconv'.cnt = rconv.cnt - 1
      /\ rconv'.burst = rconv.burst /\ rconv'.addr = BeatAddr(b, n + 1)
  <2>1. rconv' = [rconv EXCEPT !.addr = BeatAddr(b, n + 1), !.valid = rconv.cnt # 1,
                               !.cnt = rconv.cnt - 1]
    BY <1>1, <1>2, <1>7, <1>8 DEF AfterRead
  <2>2. rconv.cnt - 1 \in Nat
    BY <1>1, <1>5
  <2> QED
    BY <2>1, <2>2, <1>1, <1>8
<1>10. rdist'.pending = TRUE /\ rdist'.sel = p /\ rd' = rd
  BY <1>2
<1>11. ReadTypes'
  BY <1>1, <1>9, <1>10 DEF ReadTypes
<1>12. ReadShape'
  BY <1>1, <1>3, <1>9, <1>10 DEF ReadShape
<1>13. ReadCount'
  BY <1>1, <1>4, <1>5, <1>6, <1>9, <1>10 DEF ReadCount, Owed
<1>14. ReadPort'
  BY <1>2, <1>5, <1>10 DEF ReadPort, Only
<1>15. ReadBeats'
  BY <1>10 DEF ReadInv, ReadBeats
<1> QED
  BY <1>11, <1>12, <1>13, <1>14, <1>15 DEF ReadInv

\* A peripheral's answer is handed to the master.
LEMMA ReadAnsweredStep ==
    ASSUME ReadInv, ReadAnswered
    PROVE  ReadInv'
<1> DEFINE n == Len(rd.got)
           b == rd.burst
           beat == [data |-> BeatAddr(b, n), id |-> b.id, last |-> rconv.cnt = 0]
<1>1. /\ rconv \in [mask : BOOLEAN, valid : BOOLEAN, addr : Int, cnt : Nat,
                    burst : BurstType]
      /\ rd \in [burst : BurstType, open : BOOLEAN, got : Seq(Beat)]
      /\ rconv.mask = rd.open /\ rconv.burst = b
  BY DEF ReadInv, ReadTypes, ReadShape
<1>2. /\ rdist.pending = TRUE
      /\ rd' = [rd EXCEPT !.got = Append(@, beat), !.open = rconv.cnt # 0]
      /\ rconv' = [rconv EXCEPT !.mask = rconv.cnt # 0]
      /\ rdist'.pending = FALSE
      /\ rport' = [q \in Ports |-> << >>]
  BY DEF ReadAnswered
<1>3. rd.open = TRUE /\ b \in Bursts
  BY <1>1, <1>2 DEF ReadInv, ReadShape
<1>4. n \in Nat
  BY <1>1
<1>5. /\ n + 1 + rconv.cnt = b.len + 1 /\ (rconv.valid <=> rconv.cnt # 0)
      /\ rconv.valid => rconv.addr = BeatAddr(b, n + 1)
  BY <1>2, <1>3 DEF ReadInv, ReadCount, Owed
<1>6. beat \in Beat
  BY <1>3, <1>4, NextBeat, BusConstants DEF Beat
<1>7. /\ rd'.got \in Seq(Beat) /\ Len(rd'.got) = n + 1
      /\ \A k \in 1 .. n : rd'.got[k] = rd.got[k]
      /\ rd'.got[n + 1] = beat
  <2>1. rd'.got = Append(rd.got, beat)
    BY <1>1, <1>2
  <2>2. rd.got \in Seq(Beat)
    BY <1>1
  <2> HIDE DEF beat
  <2> QED
    BY <2>1, <2>2, <1>6, AppendProperties
<1>8. rd'.burst = b /\ rd'.open = (rconv.cnt # 0)
  BY <1>1, <1>2
<1>9. /\ rconv'.mask = (rconv.cnt # 0) /\ rconv'.valid = rconv.valid
      /\ rconv'.addr = rconv.addr /\ rconv'.cnt = rconv.cnt /\ rconv'.burst = b
      /\ rconv' \in [mask : BOOLEAN, valid : BOOLEAN, addr : Int, cnt : Nat,
                     burst : BurstType]
  BY <1>1, <1>2
<1>10. ReadTypes'
  <2>1. rd' \in [burst : BurstType, open : BOOLEAN, got : Seq(Beat)]
    BY <1>1, <1>2, <1>7, <1>8
  <2> QED
    BY <2>1, <1>2, <1>9 DEF ReadTypes
<1>11. ReadShape'
  BY <1>1, <1>2, <1>3, <1>5, <1>8, <1>9 DEF ReadShape
<1>12. ReadCount'
  <2>1. Owed(rdist)' = 0
    BY <1>2 DEF Owed
  <2> QED
    BY <2>1, <1>1, <1>4, <1>5, <1>7, <1>8, <1>9 DEF ReadCount
<1>13. ReadPort'
  BY <1>2 DEF ReadPort, Only
<1>14. ReadBeats'
  <2>1. DOMAIN rd'.got = 1 .. n + 1 /\ DOMAIN rd.got = 1 .. n
    BY <1>1, <1>7, LenProperties
  <2>2. ASSUME NEW k \in 1 .. n + 1
        PROVE  rd'.got[k] = [data |-> BeatAddr(b, k - 1), id |-> b.id,
                             last |-> k = b.len + 1]
    <3>1. CASE k = n + 1
      <4>1. k - 1 = n /\ (rconv.cnt = 0 <=> k = b.len + 1)
        BY <3>1, <1>1, <1>4, <1>5
      <4> QED
        BY <4>1, <3>1, <1>7
    <3>2. CASE k # n + 1
      <4>1. k \in 1 .. n
        BY <3>2, <2>2, <1>4
      <4> QED
        BY <4>1, <2>1, <1>7 DEF ReadInv, ReadBeats
    <3> QED
      BY <3>1, <3>2
  <2> QED
    BY <2>1, <2>2, <1>8 DEF ReadBeats
<1> QED
  BY <1>10, <1>11, <1>12, <1>13, <1>14 DEF ReadInv

\* The distributor changes at most the select that it does not use.
LEMMA ReadIdleStep ==
    ASSUME ReadInv, ReadIdle
    PROVE  ReadInv'
<1>1. /\ rd' = rd /\ rconv' = rconv /\ rport' = rport
      /\ rdist'.pending = rdist.pending /\ rdist.pending \in BOOLEAN
      /\ rdist.pending => rdist'.sel = rdist.sel
  BY DEF ReadIdle, ReadInv, ReadTypes
<1>2. ReadTypes' /\ ReadShape' /\ ReadCount' /\ ReadBeats'
  BY <1>1 DEF ReadInv, ReadTypes, ReadShape, ReadCount, ReadBeats, Owed
<1>3. ReadPort'
  BY <1>1 DEF ReadInv, ReadPort, Only
<1> QED
  BY <1>2, <1>3 DEF ReadInv

-----------------------------------------------------------------------------
\* The five things that a clock of the write half can do.
NewWriteWithData(b, p) ==
    /\ wr.open = FALSE /\ wdist.pending = FALSE
    /\ wr' = [burst |-> b, open |-> TRUE, taken |-> 1, came |-> <<b.addr>>]
    /\ wconv' = [WriteAcceptedWithData(wconv, b, b.len = 0) EXCEPT !.mask = TRUE]
    /\ wdist'.pending = TRUE /\ wdist'.sel = p
    /\ wport' = [q \in Ports |-> IF q = p THEN <<b.addr>> ELSE << >>]

NewWrite(b) ==
    /\ wr.open = FALSE
    /\ wr' = [burst |-> b, open |-> TRUE, taken |-> 0, came |-> << >>]
    /\ wconv' = [WriteAccepted(wconv, b) EXCEPT !.mask = TRUE]
    /\ wdist'.pending = FALSE
    /\ wport' = [q \in Ports |-> << >>]

NextWrite(p) ==
    /\ wconv.valid = TRUE /\ wdist.pending = FALSE
    /\ wr' = [wr EXCEPT !.taken = @ + 1, !.came = @ \o <<wconv.addr>>]
    /\ wconv' = AfterWrite(wconv)
    /\ wdist'.pending = TRUE /\ wdist'.sel = p
    /\ wport' = [q \in Ports |-> IF q = p THEN <<wconv.addr>> ELSE << >>]

WriteAnswered ==
    /\ wdist.pending = TRUE
    /\ wr' = [wr EXCEPT !.open = ~ wconv.blast]
    /\ wconv' = [wconv EXCEPT !.mask = ~ wconv.blast, !.blast = FALSE]
    /\ wdist'.pending = FALSE
    /\ wport' = [q \in Ports |-> << >>]

WriteIdle ==
    /\ wr' = wr /\ wconv' = wconv /\ wport' = wport
    /\ wdist'.pending = wdist.pending
    /\ wdist.pending => wdist'.sel = wdist.sel

\* No clock of the write half does anything else, and the distributor keeps no
\* address.
LEMMA WriteCases ==
    ASSUME WriteInv, Write
    PROVE  /\ wdist'.awvalid = FALSE
           /\ \/ \E b \in Bursts, p \in Ports : NewWriteWithData(b, p)
              \/ \E b \in Bursts : NewWrite(b)
              \/ \E p \in Ports : NextWrite(p)
              \/ WriteAnswered
              \/ WriteIdle
<1>1. PICK awvalid \in BOOLEAN, wvalid \in BOOLEAN, bready \in BOOLEAN, b \in Bursts,
           ready \in SUBSET Room(wport), up \in SUBSET Ports :
             WriteClock(awvalid, b, wvalid, bready, ready, up)
  BY DEF Write
<1> DEFINE out_awvalid == wvalid /\ ((awvalid /\ ~ wconv.mask) \/ wconv.valid)
           out_awaddr == IF wconv.valid THEN wconv.addr ELSE b.addr
           awvalid_w == out_awvalid \/ wdist.awvalid
           awaddr_w == IF wdist.awvalid THEN wdist.awaddr ELSE out_awaddr
           sel == IF wdist.pending THEN wdist.sel ELSE Sel(awaddr_w)
           out_awready == sel \in ready /\ WriteFree /\ ~ wdist.awvalid
           wready == sel \in ready /\ WriteFree /\ awvalid_w
           awready == out_awready /\ ~ wconv.mask
           accepted == awvalid /\ awready
           taken == wvalid /\ wready
           asked == {p \in ready : awvalid_w /\ wvalid /\ sel = p /\ WriteFree}
           out_bvalid == wdist.sel \in up /\ wport[wdist.sel] # << >>
           out_bready == ~ wconv.blast \/ bready
           bvalid == out_bvalid /\ wconv.blast
           confirmed == {p \in up : out_bvalid /\ out_bready /\ wdist.sel = p}
           regs == IF wconv.valid /\ out_awvalid /\ out_awready
                   THEN AfterWrite(wconv)
                   ELSE IF accepted
                        THEN IF taken THEN WriteAcceptedWithData(wconv, b, Wlast(b))
                                      ELSE WriteAccepted(wconv, b)
                        ELSE [wconv EXCEPT !.blast = @ /\ ~ (bvalid /\ bready)]
           came == IF asked # {} THEN <<awaddr_w>> ELSE << >>
           n == IF taken THEN 1 ELSE 0
           pend == IF out_bvalid /\ out_bready THEN FALSE
                   ELSE IF WriteFree /\ wvalid THEN wready ELSE wdist.pending
<1>2. /\ wdist' = [awvalid |-> \/ out_awvalid /\ out_awready /\ ~ wvalid
                               \/ wdist.awvalid /\ ~ (out_bvalid /\ out_bready),
                   awaddr |-> IF out_awvalid /\ out_awready
                              THEN out_awaddr ELSE wdist.awaddr,
                   pending |-> pend, sel |-> sel]
      /\ wconv' = [regs EXCEPT !.mask = NextMask(@, accepted, bvalid /\ bready)]
      /\ wport' = [p \in Ports |->
                     (IF p \in confirmed THEN Tail(wport[p]) ELSE wport[p])
                       \o (IF p \in asked THEN came ELSE << >>)]
      /\ wr' = IF accepted
               THEN [burst |-> b, open |-> TRUE, taken |-> n, came |-> came]
               ELSE [wr EXCEPT !.taken = @ + n, !.came = @ \o came,
                               !.open = @ /\ ~ (bvalid /\ bready)]
  BY <1>1 DEF WriteClock
<1>3. /\ wconv \in [mask : BOOLEAN, valid : BOOLEAN, addr : Int, cnt : Nat,
                    burst : BurstType, blast : BOOLEAN]
      /\ wdist.pending \in BOOLEAN /\ wdist.awvalid = FALSE
      /\ wr \in [burst : BurstType, open : BOOLEAN, taken : Nat, came : Seq(Int)]
      /\ wconv.mask = wr.open /\ wconv.burst = wr.burst
      /\ wr.open = FALSE =>
           wdist.pending = FALSE /\ wconv.valid = FALSE /\ wconv.blast = FALSE
      /\ wport = Only(wdist, BeatAddr(wr.burst, wr.taken - 1))
      /\ wdist.pending => wdist.sel \in Ports
      /\ ready \subseteq Ports /\ up \subseteq Ports
  BY DEF WriteInv, WriteTypes, WriteShape, WritePort, Room
<1>4. (WriteFree <=> wdist.pending = FALSE)
  BY <1>3 DEF WriteFree
<1>5. wdist.pending = FALSE => \A p \in Ports : wport[p] = << >>
  BY <1>3 DEF Only
<1>6. wdist.pending = TRUE =>
        /\ wport[wdist.sel] = <<BeatAddr(wr.burst, wr.taken - 1)>>
        /\ \A p \in Ports : p # wdist.sel => wport[p] = << >>
  BY <1>3 DEF Only
<1>7. wdist'.awvalid = FALSE
  <2>1. ~ (out_awvalid /\ out_awready /\ ~ wvalid) /\ ~ wdist.awvalid
    BY <1>3
  <2> HIDE DEF out_awvalid, out_awready
  <2>2. wdist'.awvalid = (\/ out_awvalid /\ out_awready /\ ~ wvalid
                          \/ wdist.awvalid /\ ~ (out_bvalid /\ out_bready))
    BY <1>2
  <2> QED
    BY <2>1, <2>2
<1>8. wdist'.pending = pend /\ wdist'.sel = sel
  BY <1>2
<1>9. CASE accepted
  <2>1. /\ wr.open = FALSE /\ wdist.pending = FALSE /\ wconv.valid = FALSE
        /\ wconv.mask = FALSE /\ sel \in Ports /\ sel \in ready
    BY <1>3, <1>4, <1>9
  <2>2. ~ out_bvalid /\ confirmed = {} /\ ~ bvalid
    BY <2>1, <1>3, <1>5
  <2>3. CASE wvalid
    <3>1. taken /\ asked = {sel} /\ awaddr_w = b.addr /\ came = <<b.addr>> /\ n = 1
      BY <2>1, <2>3, <1>3, <1>4, <1>9
    <3>2. pend = TRUE
      BY <2>1, <2>2, <2>3, <3>1, <1>4
    <3>3. Wlast(b) = (b.len = 0)
      BY <2>1 DEF Wlast
    <3>4. regs = WriteAcceptedWithData(wconv, b, b.len = 0)
      BY <2>1, <3>1, <3>3, <1>9
    <3>5. wconv' = [WriteAcceptedWithData(wconv, b, b.len = 0) EXCEPT !.mask = TRUE]
      BY <3>4, <1>2, <1>9 DEF NextMask
    <3>6. wport' = [p \in Ports |-> IF p = sel THEN <<b.addr>> ELSE << >>]
      <4>1. \A p \in Ports : wport[p] = << >>
        BY <2>1, <1>5
      <4> HIDE DEF sel, asked, confirmed, came
      <4> QED
        BY <4>1, <2>2, <3>1, <1>2, OneInQueue
    <3>7. wr' = [burst |-> b, open |-> TRUE, taken |-> 1, came |-> <<b.addr>>]
      BY <3>1, <1>2, <1>9
    <3>8. NewWriteWithData(b, sel)
      BY <2>1, <3>2, <3>5, <3>6, <3>7, <1>8 DEF NewWriteWithData
    <3> QED
      BY <2>1, <3>8, <1>7
  <2>4. CASE ~ wvalid
    <3>1. ~ taken /\ asked = {} /\ came = << >> /\ n = 0
      BY <2>4
    <3>2. pend = FALSE
      BY <2>1, <2>2, <2>4
    <3>3. regs = WriteAccepted(wconv, b)
      BY <2>1, <3>1, <1>9
    <3>4. wconv' = [WriteAccepted(wconv, b) EXCEPT !.mask = TRUE]
      BY <3>3, <1>2, <1>9 DEF NextMask
    <3>5. wport' = [p \in Ports |-> << >>]
      <4>1. \A p \in Ports : wport[p] = << >>
        BY <2>1, <1>5
      <4> HIDE DEF sel, asked, confirmed, came
      <4> QED
        BY <4>1, <2>2, <3>1, <1>2, OneInQueue
    <3>6. wr' = [burst |-> b, open |-> TRUE, taken |-> 0, came |-> << >>]
      BY <3>1, <1>2, <1>9
    <3>7. NewWrite(b)
      BY <2>1, <3>2, <3>4, <3>5, <3>6, <1>8 DEF NewWrite
    <3> QED
      BY <3>7, <1>7
  <2> QED
    BY <2>3, <2>4
<1>10. CASE ~ accepted /\ wconv.valid /\ out_awvalid /\ out_awready
  <2>1. /\ wr.open = TRUE /\ wdist.pending = FALSE /\ wconv.mask = TRUE
        /\ sel \in Ports /\ sel \in ready /\ wvalid
    BY <1>3, <1>4, <1>10
  <2>2. ~ out_bvalid /\ confirmed = {} /\ ~ bvalid
    BY <2>1, <1>3, <1>5
  <2>3. taken /\ asked = {sel} /\ awaddr_w = wconv.addr /\ came = <<wconv.addr>> /\ n = 1
    BY <2>1, <1>3, <1>4, <1>10
  <2>4. pend = TRUE
    BY <2>1, <2>2, <2>3, <1>4
  <2>5. regs = AfterWrite(wconv)
    BY <1>10
  <2>6. wconv' = AfterWrite(wconv)
    BY <2>1, <2>2, <2>5, <1>2, <1>3, <1>10 DEF NextMask, AfterWrite
  <2>7. wport' = [p \in Ports |-> IF p = sel THEN <<wconv.addr>> ELSE << >>]
    <3>1. \A p \in Ports : wport[p] = << >>
      BY <2>1, <1>5
    <3> HIDE DEF sel, asked, confirmed, came
    <3> QED
      BY <3>1, <2>2, <2>3, <1>2, OneInQueue
  <2>8. wr' = [wr EXCEPT !.taken = @ + 1, !.came = @ \o <<wconv.addr>>]
    <3>1. wr' = [wr EXCEPT !.taken = @ + n, !.came = @ \o came,
                           !.open = @ /\ ~ (bvalid /\ bready)]
      BY <1>2, <1>10
    <3>2. (wr.open /\ ~ (bvalid /\ bready)) = wr.open
      BY <2>1, <2>2
    <3> HIDE DEF came, n, bvalid
    <3> QED
      BY <3>1, <3>2, <2>3, <1>3
  <2>9. NextWrite(sel)
    BY <2>1, <2>4, <2>6, <2>7, <2>8, <1>8, <1>10 DEF NextWrite
  <2> QED
    BY <2>1, <2>9, <1>7
<1>11. CASE ~ accepted /\ ~ (wconv.valid /\ out_awvalid /\ out_awready)
  <2>1. ~ taken /\ asked = {} /\ came = << >> /\ n = 0
    BY <1>3, <1>4, <1>11
  <2>2. wr' = [wr EXCEPT !.open = @ /\ ~ (bvalid /\ bready)]
    <3>1. wr' = [wr EXCEPT !.taken = @ + n, !.came = @ \o came,
                           !.open = @ /\ ~ (bvalid /\ bready)]
      BY <1>2, <1>11
    <3>2. wr.came \o << >> = wr.came /\ wr.taken + 0 = wr.taken
      <4>1. wr.came \in Seq(Int) /\ wr.taken \in Nat
        BY <1>3
      <4> QED
        BY <4>1, ConcatEmptySeq
    <3> HIDE DEF came, n, bvalid
    <3> QED
      BY <3>1, <3>2, <2>1, <1>3
  <2>3. wconv' = [wconv EXCEPT !.mask = @ /\ ~ (bvalid /\ bready),
                               !.blast = @ /\ ~ (bvalid /\ bready)]
    <3>1. regs = [wconv EXCEPT !.blast = @ /\ ~ (bvalid /\ bready)]
      BY <1>11
    <3> HIDE DEF bvalid, accepted
    <3> QED
      BY <3>1, <1>2, <1>3, <1>11 DEF NextMask
  <2>4. CASE out_bvalid /\ out_bready
    <3>1. wdist.pending = TRUE /\ wdist.sel \in Ports /\ pend = FALSE
          /\ confirmed = {wdist.sel}
      BY <2>4, <1>3, <1>5
    <3>2. wr.open = TRUE /\ wconv.mask = TRUE
      BY <3>1, <1>3
    <3>3. bvalid /\ bready <=> wconv.blast
      BY <2>4
    <3>4. wr' = [wr EXCEPT !.open = ~ wconv.blast]
      <4>1. (wr.open /\ ~ (bvalid /\ bready)) = ~ wconv.blast
        BY <3>2, <3>3
      <4> HIDE DEF bvalid
      <4> QED
        BY <4>1, <2>2, <1>3
    <3>5. wconv' = [wconv EXCEPT !.mask = ~ wconv.blast, !.blast = FALSE]
      <4>1. /\ (wconv.mask /\ ~ (bvalid /\ bready)) = ~ wconv.blast
            /\ (wconv.blast /\ ~ (bvalid /\ bready)) = FALSE
        BY <3>2, <3>3
      <4> HIDE DEF bvalid
      <4> QED
        BY <4>1, <2>3, <1>3
    <3>6. wport' = [p \in Ports |-> << >>]
      <4> HIDE DEF asked, confirmed, came
      <4>1. \A p \in Ports : p \in confirmed => Tail(wport[p]) = << >>
        BY <3>1, <1>6, OneInQueue
      <4>2. \A p \in Ports : p \notin confirmed => wport[p] = << >>
        BY <3>1, <1>6
      <4>3. wport' = [p \in Ports |->
                        (IF p \in confirmed THEN Tail(wport[p]) ELSE wport[p]) \o << >>]
        BY <2>1, <1>2
      <4> QED
        BY <4>1, <4>2, <4>3, OneInQueue
    <3>7. WriteAnswered
      BY <3>1, <3>4, <3>5, <3>6, <1>8 DEF WriteAnswered
    <3> QED
      BY <3>7, <1>7
  <2>5. CASE ~ (out_bvalid /\ out_bready)
    <3>1. confirmed = {} /\ ~ (bvalid /\ bready) /\ (pend <=> wdist.pending)
      <4>1. confirmed = {} /\ ~ (bvalid /\ bready)
        BY <2>5
      <4>2. ~ wready \/ ~ wvalid
        BY <2>1
      <4> QED
        BY <4>1, <4>2, <2>5, <1>3, <1>4
    <3>2. wr' = wr
      <4> HIDE DEF bvalid
      <4> QED
        BY <3>1, <2>2, <1>3
    <3>3. wconv' = wconv
      <4> HIDE DEF bvalid
      <4> QED
        BY <3>1, <2>3, <1>3
    <3>4. wport' = wport
      <4> HIDE DEF asked, confirmed, came
      <4>1. wport' = [p \in Ports |-> wport[p] \o << >>]
        BY <2>1, <3>1, <1>2
      <4>2. \A p \in Ports : wport[p] \o << >> = wport[p]
        <5>1. CASE wdist.pending = FALSE
          <6>1. \A p \in Ports : wport[p] = << >>
            BY <5>1, <1>5
          <6> QED
            BY <6>1, OneInQueue
        <5>2. CASE wdist.pending = TRUE
          <6> DEFINE a == BeatAddr(wr.burst, wr.taken - 1)
          <6>1. /\ wport[wdist.sel] = <<a>>
                /\ \A p \in Ports : p # wdist.sel => wport[p] = << >>
            BY <5>2, <1>6
          <6> HIDE DEF a
          <6> QED
            BY <6>1, OneInQueue
        <5> QED
          BY <5>1, <5>2, <1>3
      <4>3. wport = [p \in Ports |-> wport[p]]
        BY <1>3 DEF Only
      <4> QED
        BY <4>1, <4>2, <4>3
    <3>5. wdist'.pending = wdist.pending /\ (wdist.pending => wdist'.sel = wdist.sel)
      BY <3>1, <1>3, <1>8
    <3> QED
      BY <3>2, <3>3, <3>4, <3>5, <1>7 DEF WriteIdle
  <2> QED
    BY <2>4, <2>5
<1> QED
  BY <1>9, <1>10, <1>11

\* awcnt_q counts the beats left modulo its width, and yet it is 1 exactly before
\* the last of them.
LEMMA BeatsLeft ==
    ASSUME NEW x \in 1 .. CntBase
    PROVE  /\ x % CntBase \in Nat
           /\ x % CntBase = 1 <=> x = 1
           /\ ((x % CntBase) + CntBase - 1) % CntBase = (x - 1) % CntBase
           /\ (x - 1) % CntBase = x - 1
<1>1. CntBase \in Nat \ {0} /\ CntBase >= 2
  BY BusConstants
<1> DEFINE c == x % CntBase
           y == x - 1
<1>2. y \in 0 .. CntBase - 1
  BY <1>1
<1>3. y % CntBase = y
  <2> HIDE DEF y
  <2> QED
    BY <1>1, <1>2, WrapsOnce
<1>4. CASE x = CntBase
  <2>1. c = 0
    BY <1>1, <1>4, WrapsOnce
  <2>2. c + CntBase - 1 = y
    BY <2>1, <1>1, <1>4
  <2> QED
    BY <2>1, <2>2, <1>1, <1>3, <1>4
<1>5. CASE x # CntBase
  <2>1. x \in 0 .. CntBase - 1
    BY <1>1, <1>5
  <2>2. c = x
    BY <2>1, <1>1, WrapsOnce
  <2>3. (c + CntBase - 1) % CntBase = y
    BY <2>2, CountDown
  <2> QED
    BY <2>2, <2>3, <1>1, <1>3
<1> QED
  BY <1>4, <1>5

\* A burst is accepted together with its first beat.
LEMMA NewWriteWithDataStep ==
    ASSUME WriteInv, wdist'.awvalid = FALSE,
           NEW b \in Bursts, NEW p \in Ports, NewWriteWithData(b, p)
    PROVE  WriteInv'
<1>1. /\ b \in BurstType /\ b.addr \in Nat /\ b.len \in Nat
      /\ calculate_addr_next(b.addr, b.kind, b.len) = BeatAddr(b, 1)
      /\ BeatAddr(b, 0) = b.addr /\ BeatAddr(b, 1) \in Int
  <2>1. b.addr = BeatAddr(b, 0) /\ 0 + 1 = 1
    BY FirstBeat
  <2> QED
    BY <2>1, BusConstants, NextBeat
<1>2. wconv \in [mask : BOOLEAN, valid : BOOLEAN, addr : Int, cnt : Nat,
                 burst : BurstType, blast : BOOLEAN]
  BY DEF WriteInv, WriteTypes
<1>3. wconv' = [WriteAcceptedWithData(wconv, b, b.len = 0) EXCEPT !.mask = TRUE]
  BY DEF NewWriteWithData
<1>4. /\ wconv' \in [mask : BOOLEAN, valid : BOOLEAN, addr : Int, cnt : Nat,
                     burst : BurstType, blast : BOOLEAN]
      /\ wconv'.mask = TRUE /\ wconv'.valid = (b.len # 0) /\ wconv'.blast = (b.len = 0)
      /\ wconv'.cnt = b.len /\ wconv'.burst = b /\ wconv'.addr = BeatAddr(b, 1)
  BY <1>1, <1>2, <1>3 DEF WriteAcceptedWithData
<1>5. /\ wr' = [burst |-> b, open |-> TRUE, taken |-> 1, came |-> <<b.addr>>]
      /\ wdist'.pending = TRUE /\ wdist'.sel = p
      /\ wport' = [q \in Ports |-> IF q = p THEN <<b.addr>> ELSE << >>]
  BY DEF NewWriteWithData
<1>6. <<b.addr>> \in Seq(Int) /\ Len(<<b.addr>>) = 1 /\ <<b.addr>>[1] = b.addr
      /\ DOMAIN <<b.addr>> = {1}
  BY <1>1
<1>7. WriteTypes'
  BY <1>1, <1>4, <1>5, <1>6 DEF WriteTypes
<1>8. WriteShape'
  BY <1>4, <1>5 DEF WriteShape
<1>9. WriteCount'
  <2>1. b.len \in 0 .. CntBase - 1 /\ CntBase \in Nat \ {0}
    BY BusConstants
  <2>2. b.len % CntBase = b.len
    <3> DEFINE l == b.len
    <3> HIDE DEF l
    <3>1. l \in 0 .. 2 * CntBase - 1 /\ l < CntBase
      BY <2>1 DEF l
    <3>2. l % CntBase = l
      BY <3>1, <2>1, WrapsOnce
    <3> QED
      BY <3>2 DEF l
  <2>3. b.len + 1 - 1 = b.len
    BY <1>1
  <2>4. wr'.burst = b /\ wr'.taken = 1
    BY <1>5
  <2> QED
    BY <2>2, <2>3, <2>4, <1>1, <1>4 DEF WriteCount
<1>10. WritePort'
  <2>1. wr'.burst = b /\ wr'.taken - 1 = 0
    BY <1>5
  <2> QED
    BY <2>1, <1>1, <1>5 DEF WritePort, Only
<1>11. WriteBeats'
  <2>1. wr'.burst = b /\ wr'.taken = 1 /\ wr'.came = <<b.addr>> /\ wr'.open
    BY <1>5
  <2>2. \A k \in DOMAIN wr'.came : wr'.came[k] = BeatAddr(wr'.burst, k - 1)
    <3>1. 1 - 1 = 0
      OBVIOUS
    <3> QED
      BY <3>1, <2>1, <1>1, <1>6
  <2> QED
    BY <2>1, <2>2, <1>1, <1>6 DEF WriteBeats
<1> QED
  BY <1>7, <1>8, <1>9, <1>10, <1>11 DEF WriteInv

\* A burst is accepted before any of its data.
LEMMA NewWriteStep ==
    ASSUME WriteInv, wdist'.awvalid = FALSE, NEW b \in Bursts, NewWrite(b)
    PROVE  WriteInv'
<1>1. /\ b \in BurstType /\ b.addr \in Nat /\ b.len \in Nat /\ BeatAddr(b, 0) = b.addr
      /\ CntBase \in Nat \ {0}
  BY FirstBeat, BusConstants
<1>2. wconv \in [mask : BOOLEAN, valid : BOOLEAN, addr : Int, cnt : Nat,
                 burst : BurstType, blast : BOOLEAN]
  BY DEF WriteInv, WriteTypes
<1>3. wconv' = [WriteAccepted(wconv, b) EXCEPT !.mask = TRUE]
  BY DEF NewWrite
<1>4. (b.len + 1) % CntBase \in Nat
  BY <1>1
<1>5. /\ wconv' \in [mask : BOOLEAN, valid : BOOLEAN, addr : Int, cnt : Nat,
                     burst : BurstType, blast : BOOLEAN]
      /\ wconv'.mask = TRUE /\ wconv'.valid = TRUE /\ wconv'.blast = FALSE
      /\ wconv'.cnt = (b.len + 1) % CntBase
      /\ wconv'.burst = b /\ wconv'.addr = b.addr
  <2> DEFINE c == (b.len + 1) % CntBase
  <2>1. wconv' = [wconv EXCEPT !.valid = TRUE, !.cnt = c, !.addr = b.addr, !.burst = b,
                               !.blast = FALSE, !.mask = TRUE]
    BY <1>3 DEF WriteAccepted
  <2>2. c \in Nat
    BY <1>4
  <2> HIDE DEF c
  <2>3. b.addr \in Int
    BY <1>1
  <2> QED
    BY <2>1, <2>2, <2>3, <1>1, <1>2 DEF c
<1>6. /\ wr' = [burst |-> b, open |-> TRUE, taken |-> 0, came |-> << >>]
      /\ wdist'.pending = FALSE
      /\ wport' = [q \in Ports |-> << >>]
  BY DEF NewWrite
<1>7. << >> \in Seq(Int) /\ Len(<< >>) = 0 /\ DOMAIN << >> = {}
  OBVIOUS
<1>8. WriteTypes'
  BY <1>1, <1>5, <1>6, <1>7 DEF WriteTypes
<1>9. WriteShape'
  BY <1>5, <1>6 DEF WriteShape
<1>10. WriteCount'
  <2>1. b.len + 1 - 0 = b.len + 1 /\ wr'.burst = b /\ wr'.taken = 0
    BY <1>1, <1>6
  <2> QED
    BY <2>1, <1>1, <1>5 DEF WriteCount
<1>11. WritePort'
  BY <1>6 DEF WritePort, Only
<1>12. WriteBeats'
  BY <1>1, <1>6, <1>7 DEF WriteBeats
<1> QED
  BY <1>8, <1>9, <1>10, <1>11, <1>12 DEF WriteInv

\* The next beat of the burst is taken.
LEMMA NextWriteStep ==
    ASSUME WriteInv, wdist'.awvalid = FALSE, NEW p \in Ports, NextWrite(p)
    PROVE  WriteInv'
<1> DEFINE n == wr.taken
           b == wr.burst
           x == b.len + 1 - n
<1>1. /\ wconv \in [mask : BOOLEAN, valid : BOOLEAN, addr : Int, cnt : Nat,
                    burst : BurstType, blast : BOOLEAN]
      /\ wr \in [burst : BurstType, open : BOOLEAN, taken : Nat, came : Seq(Int)]
      /\ wconv.mask = wr.open /\ wconv.burst = b
  BY DEF WriteInv, WriteTypes, WriteShape
<1>2. /\ wconv.valid = TRUE /\ wdist.pending = FALSE
      /\ wr' = [wr EXCEPT !.taken = @ + 1, !.came = @ \o <<wconv.addr>>]
      /\ wconv' = AfterWrite(wconv)
      /\ wdist'.pending = TRUE /\ wdist'.sel = p
      /\ wport' = [q \in Ports |-> IF q = p THEN <<wconv.addr>> ELSE << >>]
  BY DEF NextWrite
<1>3. wr.open = TRUE /\ b \in Bursts
  BY <1>1, <1>2 DEF WriteInv, WriteShape
<1>4. n \in Nat /\ b.len \in Nat /\ b.len <= CntBase - 1 /\ CntBase \in Nat
  BY <1>1, <1>3, BusConstants
<1>5. /\ n <= b.len /\ wconv.blast = FALSE /\ wconv.cnt = x % CntBase
      /\ wconv.addr = BeatAddr(b, n)
  <2>1. n <= b.len /\ wconv.cnt = x % CntBase /\ wconv.addr = BeatAddr(b, n)
        /\ (wconv.blast <=> n = b.len + 1)
    BY <1>2, <1>3 DEF WriteInv, WriteCount
  <2>2. n # b.len + 1
    BY <2>1, <1>4
  <2> QED
    BY <2>1, <2>2, <1>1
<1>6. x \in 1 .. CntBase /\ x - 1 = b.len + 1 - (n + 1)
  BY <1>4, <1>5
<1>7. /\ wconv.cnt = 1 <=> n = b.len
      /\ (wconv.cnt + CntBase - 1) % CntBase = (b.len + 1 - (n + 1)) % CntBase
      /\ (wconv.cnt + CntBase - 1) % CntBase \in Nat
  <2>1. x = 1 <=> n = b.len
    BY <1>4
  <2>2. x - 1 \in Nat
    BY <1>6, <1>4
  <2> HIDE DEF x
  <2> QED
    BY <2>1, <2>2, <1>5, <1>6, BeatsLeft
<1>8. /\ calculate_addr_next(wconv.addr, b.kind, b.len) = BeatAddr(b, n + 1)
      /\ BeatAddr(b, n) \in Int /\ BeatAddr(b, n + 1) \in Int
  <2>1. n + 1 \in Nat /\ wconv.addr = BeatAddr(b, n)
    BY <1>4, <1>5
  <2> HIDE DEF n, b
  <2> QED
    BY <2>1, <1>3, <1>4, NextBeat
<1>9. /\ wconv' \in [mask : BOOLEAN, valid : BOOLEAN, addr : Int, cnt : Nat,
                     burst : BurstType, blast : BOOLEAN]
      /\ wconv'.mask = wconv.mask /\ wconv'.burst = wconv.burst
      /\ wconv'.valid = (n # b.len) /\ wconv'.blast = (n = b.len)
      /\ wconv'.cnt = (b.len + 1 - (n + 1)) % CntBase
      /\ wconv'.addr = BeatAddr(b, n + 1)
  <2> DEFINE c == (wconv.cnt + CntBase - 1) % CntBase
  <2>1. wconv' = [wconv EXCEPT !.addr = BeatAddr(b, n + 1), !.valid = wconv.cnt # 1,
                               !.blast = wconv.blast \/ wconv.cnt = 1, !.cnt = c]
    BY <1>1, <1>2, <1>8 DEF AfterWrite
  <2>2. c \in Nat /\ c = (b.len + 1 - (n + 1)) % CntBase
    BY <1>7
  <2> HIDE DEF c, n, b
  <2>3. (wconv.cnt # 1) = (n # b.len) /\ (wconv.blast \/ wconv.cnt = 1) = (n = b.len)
    BY <1>5, <1>7
  <2> QED
    BY <2>1, <2>2, <2>3, <1>1, <1>8
<1>10. /\ wr'.burst = b /\ wr'.open = TRUE /\ wr'.taken = n + 1
       /\ wr'.came = wr.came \o <<wconv.addr>>
  BY <1>1, <1>2, <1>3
<1>11. Len(wr.came) = n
  BY DEF WriteInv, WriteBeats
<1>12. /\ wr'.came \in Seq(Int) /\ Len(wr'.came) = n + 1
       /\ \A k \in 1 .. n : wr'.came[k] = wr.came[k]
       /\ wr'.came[n + 1] = wconv.addr
  <2>1. wr.came \in Seq(Int) /\ wconv.addr \in Int
    BY <1>1
  <2>2. wr'.came = Append(wr.came, wconv.addr)
    BY <2>1, <1>10, AppendIsConcat
  <2> HIDE DEF n
  <2> QED
    BY <2>1, <2>2, <1>11, AppendProperties
<1>13. WriteTypes'
  <2>1. wr' \in [burst : BurstType, open : BOOLEAN, taken : Nat, came : Seq(Int)]
    <3> DEFINE m == wr.taken + 1
               came == wr.came \o <<wconv.addr>>
    <3>1. wr' = [wr EXCEPT !.taken = m, !.came = came]
      BY <1>2
    <3>2. m \in Nat /\ came \in Seq(Int)
      BY <1>4, <1>10, <1>12
    <3> HIDE DEF m, came
    <3> QED
      BY <3>1, <3>2, <1>1
  <2> QED
    BY <2>1, <1>2, <1>9 DEF WriteTypes
<1>14. WriteShape'
  BY <1>1, <1>3, <1>9, <1>10 DEF WriteShape
<1>15. WriteCount'
  <2>1. /\ n + 1 <= b.len + 1
        /\ n # b.len <=> n + 1 <= b.len
        /\ n = b.len <=> n + 1 = b.len + 1
    BY <1>4, <1>5
  <2> HIDE DEF n, b
  <2> QED
    BY <2>1, <1>9, <1>10 DEF WriteCount
<1>16. WritePort'
  <2>1. (n + 1) - 1 = n
    BY <1>4
  <2> QED
    BY <2>1, <1>2, <1>5, <1>10 DEF WritePort, Only
<1>17. WriteBeats'
  <2>1. DOMAIN wr'.came = 1 .. n + 1 /\ DOMAIN wr.came = 1 .. n
    BY <1>1, <1>11, <1>12, LenProperties
  <2>2. ASSUME NEW k \in 1 .. n + 1
        PROVE  wr'.came[k] = BeatAddr(b, k - 1)
    <3>1. CASE k = n + 1
      <4>1. k - 1 = n
        BY <3>1, <1>4
      <4> QED
        BY <4>1, <3>1, <1>5, <1>12
    <3>2. CASE k # n + 1
      <4>1. k \in 1 .. n
        BY <3>2, <2>2, <1>4
      <4> QED
        BY <4>1, <2>1, <1>12 DEF WriteInv, WriteBeats
    <3> QED
      BY <3>1, <3>2
  <2>3. n + 1 <= b.len + 1
    BY <1>4, <1>5
  <2> HIDE DEF n, b
  <2> QED
    BY <2>1, <2>2, <2>3, <1>10, <1>12 DEF WriteBeats
<1> QED
  BY <1>13, <1>14, <1>15, <1>16, <1>17 DEF WriteInv

\* A peripheral has written a beat; the master is told after the last one only.
LEMMA WriteAnsweredStep ==
    ASSUME WriteInv, wdist'.awvalid = FALSE, WriteAnswered
    PROVE  WriteInv'
<1>1. /\ wconv \in [mask : BOOLEAN, valid : BOOLEAN, addr : Int, cnt : Nat,
                    burst : BurstType, blast : BOOLEAN]
      /\ wr \in [burst : BurstType, open : BOOLEAN, taken : Nat, came : Seq(Int)]
      /\ wconv.mask = wr.open /\ wconv.burst = wr.burst
  BY DEF WriteInv, WriteTypes, WriteShape
<1>2. /\ wdist.pending = TRUE
      /\ wr' = [wr EXCEPT !.open = ~ wconv.blast]
      /\ wconv' = [wconv EXCEPT !.mask = ~ wconv.blast, !.blast = FALSE]
      /\ wdist'.pending = FALSE
      /\ wport' = [q \in Ports |-> << >>]
  BY DEF WriteAnswered
<1>3. wr.open = TRUE /\ wr.burst \in Bursts
  BY <1>1, <1>2 DEF WriteInv, WriteShape
<1>4. /\ wr.taken <= wr.burst.len + 1
      /\ wconv.valid <=> wr.taken <= wr.burst.len
      /\ wconv.blast <=> wr.taken = wr.burst.len + 1
      /\ wconv.cnt = (wr.burst.len + 1 - wr.taken) % CntBase
      /\ wconv.valid => wconv.addr = BeatAddr(wr.burst, wr.taken)
  BY <1>3 DEF WriteInv, WriteCount
<1>5. /\ wr'.open = ~ wconv.blast /\ wr'.burst = wr.burst /\ wr'.taken = wr.taken
      /\ wr'.came = wr.came
      /\ wr' \in [burst : BurstType, open : BOOLEAN, taken : Nat, came : Seq(Int)]
  BY <1>1, <1>2
<1>6. /\ wconv'.mask = ~ wconv.blast /\ wconv'.blast = FALSE
      /\ wconv'.valid = wconv.valid /\ wconv'.addr = wconv.addr
      /\ wconv'.cnt = wconv.cnt /\ wconv'.burst = wconv.burst
      /\ wconv' \in [mask : BOOLEAN, valid : BOOLEAN, addr : Int, cnt : Nat,
                     burst : BurstType, blast : BOOLEAN]
  BY <1>1, <1>2
<1>7. WriteTypes'
  BY <1>2, <1>5, <1>6 DEF WriteTypes
<1>8. wconv.blast => ~ wconv.valid
  <2>1. wr.taken \in Nat /\ wr.burst.len \in Nat
    BY <1>1, <1>3, BusConstants
  <2>2. ~ (wr.taken <= wr.burst.len /\ wr.taken = wr.burst.len + 1)
    BY <2>1
  <2> QED
    BY <2>2, <1>4
<1>9. WriteShape'
  BY <1>1, <1>2, <1>3, <1>5, <1>6, <1>8 DEF WriteShape
<1>10. WriteCount'
  BY <1>4, <1>5, <1>6 DEF WriteCount
<1>11. WritePort'
  BY <1>2 DEF WritePort, Only
<1>12. WriteBeats'
  BY <1>2, <1>4, <1>5 DEF WriteInv, WriteBeats
<1> QED
  BY <1>7, <1>9, <1>10, <1>11, <1>12 DEF WriteInv

\* The distributor changes at most the select that it does not use.
LEMMA WriteIdleStep ==
    ASSUME WriteInv, wdist'.awvalid = FALSE, WriteIdle
    PROVE  WriteInv'
<1>1. /\ wr' = wr /\ wconv' = wconv /\ wport' = wport
      /\ wdist'.pending = wdist.pending /\ wdist.pending \in BOOLEAN
      /\ wdist.pending => wdist'.sel = wdist.sel
  BY DEF WriteIdle, WriteInv, WriteTypes
<1>2. WriteTypes' /\ WriteCount' /\ WriteBeats'
  BY <1>1 DEF WriteInv, WriteTypes, WriteCount, WriteBeats
<1>3. WriteShape'
  BY <1>1 DEF WriteInv, WriteShape
<1>4. WritePort'
  BY <1>1 DEF WriteInv, WritePort, Only
<1> QED
  BY <1>2, <1>3, <1>4 DEF WriteInv

-----------------------------------------------------------------------------
\* The registers after reset satisfy the invariant.
LEMMA BusInit == Init => BusInv
<1> SUFFICES ASSUME Init PROVE BusInv
  OBVIOUS
<1>1. NoBurst \in BurstType
  BY BusConstants DEF NoBurst, BurstType, Kinds
<1>2. /\ rconv = [mask |-> FALSE, valid |-> FALSE, addr |-> 0, cnt |-> 0,
                  burst |-> NoBurst]
      /\ rdist = [pending |-> FALSE, sel |-> 0] /\ rport = [p \in Ports |-> << >>]
      /\ rd = [burst |-> NoBurst, open |-> FALSE, got |-> << >>]
  BY DEF Init
<1>3. /\ wconv = [mask |-> FALSE, valid |-> FALSE, addr |-> 0, cnt |-> 0,
                  burst |-> NoBurst, blast |-> FALSE]
      /\ wdist = [awvalid |-> FALSE, awaddr |-> 0, pending |-> FALSE, sel |-> 0]
      /\ wport = [p \in Ports |-> << >>]
      /\ wr = [burst |-> NoBurst, open |-> FALSE, taken |-> 0, came |-> << >>]
  BY DEF Init
<1>4. << >> \in Seq(Beat) /\ << >> \in Seq(Int) /\ Len(<< >>) = 0 /\ DOMAIN << >> = {}
  OBVIOUS
<1>5. ReadTypes
  BY <1>1, <1>2, <1>4 DEF ReadTypes
<1>6. ReadShape /\ ReadCount /\ ReadPort /\ ReadBeats
  BY <1>2, <1>4 DEF ReadShape, ReadCount, ReadPort, Only, ReadBeats
<1>7. WriteTypes
  BY <1>1, <1>3, <1>4 DEF WriteTypes
<1>8. WriteShape /\ WriteCount /\ WritePort
  BY <1>3, <1>4 DEF WriteShape, WriteCount, WritePort, Only
<1>9. WriteBeats
  <2>1. NoBurst.len = 0
    BY DEF NoBurst
  <2> QED
    BY <2>1, <1>3, <1>4 DEF WriteBeats
<1> QED
  BY <1>5, <1>6, <1>7, <1>8, <1>9 DEF BusInv, ReadInv, WriteInv

\* The read half is left alone by the write half.
LEMMA ReadSame ==
    ASSUME ReadInv, UNCHANGED rvars
    PROVE  ReadInv'
BY DEF rvars, ReadInv, ReadTypes, ReadShape, ReadCount, ReadPort, ReadBeats, Owed, Only

\* The write half is left alone by the read half.
LEMMA WriteSame ==
    ASSUME WriteInv, UNCHANGED wvars
    PROVE  WriteInv'
BY DEF wvars, WriteInv, WriteTypes, WriteShape, WriteCount, WritePort, WriteBeats, Only

\* Every clock keeps the invariant.
LEMMA BusStep == BusInv /\ [Next]_vars => BusInv'
<1> SUFFICES ASSUME BusInv, [Next]_vars PROVE BusInv'
  OBVIOUS
<1>1. ReadInv /\ WriteInv
  BY DEF BusInv
<1>2. CASE Read
  <2>1. UNCHANGED wvars
    BY <1>2 DEF Read
  <2>2. ReadInv'
    BY <1>1, <1>2, ReadCases, NewReadStep, NextReadStep, ReadAnsweredStep, ReadIdleStep
  <2> QED
    BY <2>1, <2>2, <1>1, WriteSame DEF BusInv
<1>3. CASE Write
  <2>1. UNCHANGED rvars
    BY <1>3 DEF Write
  <2>2. WriteInv'
    BY <1>1, <1>3, WriteCases, NewWriteWithDataStep, NewWriteStep, NextWriteStep,
       WriteAnsweredStep, WriteIdleStep
  <2> QED
    BY <2>1, <2>2, <1>1, ReadSame DEF BusInv
<1>4. CASE UNCHANGED vars
  BY <1>1, <1>4, ReadSame, WriteSame DEF BusInv, vars
<1> QED
  BY <1>2, <1>3, <1>4 DEF Next

\* The invariant holds in every state of the bus.
LEMMA BusInvCorrect == Spec => []BusInv
<1>1. Init => BusInv
  BY BusInit
<1>2. BusInv /\ [Next]_vars => BusInv'
  BY BusStep
<1> QED
  BY <1>1, <1>2, PTL DEF Spec

\* Every beat of every burst, read or written, carries its own address, its place
\* in the burst and its mark, and the master hears of a write when all of it is done
\* (axi4_axi4lite_conv.v).
THEOREM BeatsCorrect == Spec => []Beats
<1>1. BusInv => Beats
  BY DEF BusInv, ReadInv, WriteInv, Beats
<1> QED
  BY <1>1, BusInvCorrect, PTL

\* One access is one that is owed.
LEMMA OnlyOwes ==
    ASSUME NEW dist, NEW addr, dist.pending \in BOOLEAN
    PROVE  Owes(Only(dist, addr), dist)
<1>1. Len(<<addr>>) = 1 /\ Len(<< >>) = 0
  OBVIOUS
<1> QED
  BY <1>1 DEF Owes, Only

\* What axi4lite_dist.v remembers of an access is enough to find its answer.
THEOREM OneAnswerOwedCorrect == Spec => []OneAnswerOwed
<1>1. BusInv => OneAnswerOwed
  BY OnlyOwes DEF BusInv, ReadInv, ReadTypes, ReadPort, WriteInv, WriteTypes, WritePort,
     OneAnswerOwed
<1> QED
  BY <1>1, BusInvCorrect, PTL

\* No burst is accepted before the one before it is answered in full (the masks in
\* axi4_axi4lite_conv.v).
THEOREM BurstsDoNotOverlapCorrect == Spec => BurstsDoNotOverlap
<1> DEFINE A == /\ (rd'.got = << >> /\ rd' # rd) => ~ rd.open
                /\ (wr'.taken < wr.taken \/ wr'.burst # wr.burst) => ~ wr.open
<1>1. BusInv /\ [Next]_vars => [A]_vars
  <2> SUFFICES ASSUME BusInv, Next PROVE A
    OBVIOUS
  <2>1. CASE Read
    <3>1. wr' = wr
      BY <2>1 DEF Read, wvars
    <3>2. ~ (wr.taken < wr.taken)
      <4>1. wr.taken \in Nat
        BY DEF BusInv, WriteInv, WriteTypes
      <4> QED
        BY <4>1
    <3>3. (rd'.got = << >> /\ rd' # rd) => ~ rd.open
      <4>1. CASE ReadAnswered
        <5>1. rd.got \in Seq(Beat) /\ rd \in [burst : BurstType, open : BOOLEAN, got : Seq(Beat)]
          BY DEF BusInv, ReadInv, ReadTypes
        <5>2. PICK x : rd'.got = Append(rd.got, x)
          BY <4>1, <5>1 DEF ReadAnswered
        <5>3. Append(rd.got, x) # << >>
          BY <5>1
        <5> QED
          BY <5>2, <5>3
      <4> QED
        BY <4>1, <2>1, ReadCases DEF BusInv, NewRead, NextRead, ReadIdle
    <3> QED
      BY <3>1, <3>2, <3>3
  <2>2. CASE Write
    <3>1. rd' = rd
      BY <2>2 DEF Write, rvars
    <3>2. (wr'.taken < wr.taken \/ wr'.burst # wr.burst) => ~ wr.open
      <4>1. wr \in [burst : BurstType, open : BOOLEAN, taken : Nat, came : Seq(Int)]
        BY DEF BusInv, WriteInv, WriteTypes
      <4>2. ~ (wr.taken < wr.taken) /\ ~ (wr.taken + 1 < wr.taken)
        BY <4>1
      <4>3. CASE \E p \in Ports : NextWrite(p)
        <5>1. wr'.taken = wr.taken + 1 /\ wr'.burst = wr.burst
          BY <4>1, <4>3 DEF NextWrite
        <5> QED
          BY <5>1, <4>2
      <4>4. CASE WriteAnswered
        <5>1. wr'.taken = wr.taken /\ wr'.burst = wr.burst
          BY <4>1, <4>4 DEF WriteAnswered
        <5> QED
          BY <5>1, <4>2
      <4> QED
        BY <4>2, <4>3, <4>4, <2>2, WriteCases
           DEF BusInv, NewWriteWithData, NewWrite, WriteIdle
    <3> QED
      BY <3>1, <3>2
  <2> QED
    BY <2>1, <2>2 DEF Next
<1>2. Spec => []BusInv /\ [][Next]_vars
  BY BusInvCorrect, PTL DEF Spec
<1> QED
  BY <1>1, <1>2, PTL DEF BurstsDoNotOverlap
=============================================================================
