-------------------------- MODULE SpiffsGeoProofs --------------------------
(* Theorems about SpiffsGeo for every geometry: the numbers of pages and of  *)
(* index entries, which spiffs_nucleus.h computes by division, are bijective. *)
EXTENDS SpiffsGeo, ProofLemmas

-----------------------------------------------------------------------------
\* Every pair of a block and a lookup entry is one page, which is none of the
\* lookup pages, and every other page is one such pair: what the lookup says of
\* an entry it says of exactly one page (SPIFFS_OBJ_LOOKUP_ENTRY_TO_PIX,
\* SPIFFS_BLOCK_FOR_PAGE, SPIFFS_OBJ_LOOKUP_ENTRY_FOR_PAGE).
THEOREM EntriesAreThePages ==
    /\ \A block \in Blocks, entry \in Entries :
           /\ Pix(block, entry) \in Pages
           /\ BlockOf(Pix(block, entry)) = block
           /\ EntryOf(Pix(block, entry)) = entry
    /\ \A pix \in Pages :
           /\ BlockOf(pix) \in Blocks /\ EntryOf(pix) \in Entries
           /\ Pix(BlockOf(pix), EntryOf(pix)) = pix
<1> DEFINE n == PagesPerBlock
<1>0. BlockCount \in Nat \ {0} /\ MaxEntries \in Nat \ {0} /\ n \in Nat \ {0}
      /\ n = MaxEntries + 1
  BY GeoAssumption DEF PagesPerBlock
<1> HIDE DEF n
<1>1. ASSUME NEW block \in Blocks, NEW entry \in Entries
      PROVE  /\ Pix(block, entry) \in Pages
             /\ BlockOf(Pix(block, entry)) = block
             /\ EntryOf(Pix(block, entry)) = entry
  <2>1. block \in Nat /\ block < BlockCount /\ entry + 1 \in 0..n - 1
        /\ entry \in Nat /\ entry + 1 > 0
    BY <1>0 DEF Blocks, Entries
  <2>2. Pix(block, entry) = n * block + (entry + 1)
    BY <2>1, <1>0 DEF Pix, n
  <2>3. /\ (n * block + (entry + 1)) \div n = block
        /\ (n * block + (entry + 1)) % n = entry + 1
    BY <2>1, <1>0, DivModUnique
  <2>4. n * block + n <= n * BlockCount
    BY <2>1, <1>0, MulMono
  <2>5. Pix(block, entry) \in 0..MaxPages - 1
    <3>1. n * block \in Nat /\ n * BlockCount \in Nat /\ MaxPages = n * BlockCount
      BY <2>1, <1>0 DEF MaxPages, n
    <3> QED
      BY <3>1, <2>1, <2>2, <2>4, <1>0
  <2> QED
    BY <2>1, <2>2, <2>3, <2>5 DEF Pages, BlockOf, EntryOf, IsLookupPage, n
<1>2. ASSUME NEW pix \in Pages
      PROVE  /\ BlockOf(pix) \in Blocks /\ EntryOf(pix) \in Entries
             /\ Pix(BlockOf(pix), EntryOf(pix)) = pix
  <2>1. pix \in Nat /\ pix % n # 0 /\ pix < n * BlockCount
    BY <1>0 DEF Pages, IsLookupPage, MaxPages, n
  <2>2. pix \div n \in Nat /\ pix % n \in 0..n - 1 /\ pix = n * (pix \div n) + (pix % n)
    BY <2>1, <1>0, DivMod
  <2>3. pix \div n < BlockCount
    <3>1. SUFFICES ASSUME BlockCount <= pix \div n
                   PROVE  FALSE
      BY <2>2, <1>0
    <3> DEFINE q == pix \div n
    <3>2. q \in Nat /\ BlockCount \in Nat /\ n \in Nat /\ BlockCount <= q
      BY <3>1, <2>2, <1>0
    <3>3. pix >= n * q
      BY <2>2, <1>0
    <3> HIDE DEF q
    <3>4. n * BlockCount <= n * q
      BY <3>2, MulMonoWeak
    <3>5. n * BlockCount \in Nat /\ n * q \in Nat
      BY <3>2
    <3> QED
      BY <3>3, <3>4, <3>5, <2>1
  <2>4. pix \div n \in Blocks /\ (pix % n) - 1 \in Entries
    BY <2>1, <2>2, <2>3, <1>0 DEF Blocks, Entries
  <2>5. (pix \div n) * n + 1 + ((pix % n) - 1) = pix
    BY <2>2, <1>0
  <2> QED
    BY <2>4, <2>5 DEF BlockOf, EntryOf, Pix, n
<1> QED
  BY <1>1, <1>2

-----------------------------------------------------------------------------
\* The number of entries of an index page.
IxLenOf(ixspan) == IF ixspan = 0 THEN HdrIxLen ELSE IxLen

\* Every page of data has one entry in one page of its object's index, and every
\* entry of every index page stands for one page of data: SPIFFS_OBJ_IX_ENTRY
\* and SPIFFS_OBJ_IX_ENTRY_SPAN_IX, by which files are read and written, and
\* SPIFFS_DATA_SPAN_IX_FOR_OBJ_IX_SPAN_IX, by which the garbage collector and
\* the page check walk an index page, are each other's inverse.
THEOREM EntriesAreTheSpans ==
    /\ \A span \in Nat :
           /\ IxSpan(span) \in Nat
           /\ IxEntry(span) \in 0..IxLenOf(IxSpan(span)) - 1
           /\ FirstDataSpan(IxSpan(span)) + IxEntry(span) = span
    /\ \A ixspan \in Nat : \A entry \in 0..IxLenOf(ixspan) - 1 :
           /\ FirstDataSpan(ixspan) + entry \in Nat
           /\ IxSpan(FirstDataSpan(ixspan) + entry) = ixspan
           /\ IxEntry(FirstDataSpan(ixspan) + entry) = entry
<1>0. HdrIxLen \in Nat \ {0} /\ IxLen \in Nat \ {0}
  BY GeoAssumption
<1>1. ASSUME NEW span \in Nat
      PROVE  /\ IxSpan(span) \in Nat
             /\ IxEntry(span) \in 0..IxLenOf(IxSpan(span)) - 1
             /\ FirstDataSpan(IxSpan(span)) + IxEntry(span) = span
  <2>1. CASE span < HdrIxLen
    BY <2>1, <1>0 DEF IxSpan, IxEntry, IxLenOf, FirstDataSpan
  <2>2. CASE span >= HdrIxLen
    <3> DEFINE a == span - HdrIxLen
    <3>1. a \in Nat /\ span = HdrIxLen + a
      BY <2>2, <1>0
    <3>2. a \div IxLen \in Nat /\ a % IxLen \in 0..IxLen - 1
          /\ a = IxLen * (a \div IxLen) + (a % IxLen)
      BY <3>1, <1>0, DivMod
    <3>3. IxSpan(span) = 1 + a \div IxLen /\ IxEntry(span) = a % IxLen
      BY <2>2, <1>0 DEF IxSpan, IxEntry
    <3>4. IxSpan(span) \in Nat /\ IxSpan(span) # 0
      BY <3>2, <3>3
    <3>5. FirstDataSpan(IxSpan(span)) = HdrIxLen + (a \div IxLen) * IxLen
      BY <3>2, <3>3, <3>4, <1>0 DEF FirstDataSpan
    <3>6. (a \div IxLen) * IxLen = IxLen * (a \div IxLen)
      BY <3>2, <1>0
    <3> HIDE DEF a
    <3> QED
      BY <3>1, <3>2, <3>3, <3>4, <3>5, <3>6, <1>0 DEF IxLenOf
  <2> QED
    BY <2>1, <2>2, <1>0
<1>2. ASSUME NEW ixspan \in Nat, NEW entry \in 0..IxLenOf(ixspan) - 1
      PROVE  /\ FirstDataSpan(ixspan) + entry \in Nat
             /\ IxSpan(FirstDataSpan(ixspan) + entry) = ixspan
             /\ IxEntry(FirstDataSpan(ixspan) + entry) = entry
  <2>1. CASE ixspan = 0
    BY <2>1, <1>0 DEF IxSpan, IxEntry, IxLenOf, FirstDataSpan
  <2>2. CASE ixspan # 0
    <3> DEFINE q == ixspan - 1
               a == IxLen * q + entry
    <3>1. q \in Nat /\ entry \in 0..IxLen - 1
      BY <2>2, <1>0 DEF IxLenOf
    <3>2. a \in Nat /\ a \div IxLen = q /\ a % IxLen = entry
      <4> HIDE DEF q
      <4>1. IxLen * q \in Nat
        BY <3>1, <1>0
      <4> QED
        BY <3>1, <4>1, <1>0, DivModUnique
    <3>3. FirstDataSpan(ixspan) + entry = HdrIxLen + a
      BY <2>2, <3>1, <1>0 DEF FirstDataSpan
    <3> HIDE DEF a
    <3>4. HdrIxLen + a \in Nat /\ ~(HdrIxLen + a < HdrIxLen)
          /\ (HdrIxLen + a) - HdrIxLen = a
      BY <3>2, <1>0
    <3>5. IxSpan(HdrIxLen + a) = 1 + a \div IxLen /\ IxEntry(HdrIxLen + a) = a % IxLen
      BY <3>4 DEF IxSpan, IxEntry
    <3> QED
      BY <3>1, <3>2, <3>3, <3>4, <3>5
  <2> QED
    BY <2>1, <2>2
<1> QED
  BY <1>1, <1>2
=============================================================================
