----------------------------- MODULE SpiffsGeo -----------------------------
(* The geometry of the SPIFFS file system: how pages, blocks, lookup entries *)
(* and the pages of an object's index are numbered.  A block has one object  *)
(* lookup page, whose number is that of the block's first page, so that page *)
(* 0 never holds an object and serves as "none".  The all-ones word of the   *)
(* flash is the free id, the undefined page and the undefined span at once.  *)
EXTENDS Integers

CONSTANTS
    BlockCount,     \* logical blocks
    MaxEntries,     \* SPIFFS_OBJ_LOOKUP_MAX_ENTRIES: object pages of a block
    HdrIxLen,       \* SPIFFS_OBJ_HDR_IX_LEN: entries of an index header page
    IxLen,          \* SPIFFS_OBJ_IX_LEN: entries of any other index page
    DataPageSize,   \* SPIFFS_DATA_PAGE_SIZE: data cells of a page
    IxFlag          \* SPIFFS_OBJ_ID_IX_FLAG, the top bit of an id

PagesPerBlock == MaxEntries + 1
MaxPages == BlockCount * PagesPerBlock

(* Block, entry and page: SPIFFS_OBJ_LOOKUP_ENTRY_TO_PIX and its inverses.   *)
Pix(block, entry) == block * PagesPerBlock + 1 + entry
BlockOf(pix) == pix \div PagesPerBlock
EntryOf(pix) == (pix % PagesPerBlock) - 1
IsLookupPage(pix) == pix % PagesPerBlock = 0

Blocks == 0..BlockCount - 1
Entries == 0..MaxEntries - 1
Pages == {pix \in 0..MaxPages - 1 : ~IsLookupPage(pix)}
PagesOf(block) == {Pix(block, e) : e \in Entries}

Free == 2 * IxFlag - 1
Deleted == 0
Undef == Free
IsIx(id) == id \div IxFlag = 1
NoIx(id) == id % IxFlag
OrIx(id) == IxFlag + NoIx(id)
IsObject(id) == id \notin {Free, Deleted}

(* Mutant of FirstDataSpan: the entries of the header are forgotten.         *)
FirstDataSpanNoHeader(ixspan) ==
    IF ixspan = 0 THEN 0 ELSE (ixspan - 1) * IxLen

(* Where the page of data span spix is indexed: the entry in an index page,  *)
(* the span of that index page, and the first data span of an index page.    *)
IxEntry(spix) ==
    IF spix < HdrIxLen THEN spix ELSE (spix - HdrIxLen) % IxLen
IxSpan(spix) ==
    IF spix < HdrIxLen THEN 0 ELSE 1 + (spix - HdrIxLen) \div IxLen

FirstDataSpan(ixspan) ==
    IF ixspan = 0 THEN 0 ELSE HdrIxLen + (ixspan - 1) * IxLen

ASSUME GeoAssumption ==
    /\ {BlockCount, MaxEntries, HdrIxLen, IxLen, DataPageSize, IxFlag}
           \subseteq (Nat \ {0})
    /\ MaxPages < Undef
=============================================================================
