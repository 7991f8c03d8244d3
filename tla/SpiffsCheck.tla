---------------------------- MODULE SpiffsCheck ----------------------------
(* The consistency check of the file system (spiffs_check.c): the object     *)
(* lookup against the page headers, the index pages against the headers of   *)
(* their files, and the data pages against the index pages.                  *)
(*                                                                           *)
(* Two kinds of damage are left out, because a call that was cut off leaves  *)
(* neither: a lookup entry that names another object, or the other kind of   *)
(* page, than a live page's header does, and an index entry that is no page. *)
(* Where the code would mend them the state is marked astray.                *)
EXTENDS SpiffsObj

CONSTANTS
    PagesPerScan,       \* pages whose marks fit into the work buffer
    MaxRestarts         \* bound on how often the page check starts over

ASSUME CheckAssumption ==
    /\ PagesPerScan \in Nat \ {0} /\ MaxRestarts \in Nat
    /\ MaxPages + PagesPerScan <= Undef     \* the undefined page is in no scan

Intact == {"USED", "INDEX", "FINAL"}        \* the flags of a whole index page
IsBad(s) == s.err = "CHECK_INDEX_BAD"

(* The page that the index holds for a data page.  Destroys nothing here:    *)
(* the lookup buffer is loaded again after it.                               *)
Reference(s, id, span) == FindIdAndSpan(s, OrIx(id), IxSpan(span), 0)
Referred(r, span) == r.dev.pg[r.pix].body[IxEntry(span)]

(* Mutant of RewritePage: only the header is copied.                         *)
RewritePageHeader(s, pix) ==
    LET page == s.dev.pg[pix]
    IN  AllocateOpen(s, page.id, page.span, page.fl, ErasedPage.body)

(* spiffs_rewrite_page: the page under its own header on a free page.        *)
RewritePage(s, pix) ==
    LET page == s.dev.pg[pix]
    IN  Then(AllocateOpen(s, page.id, page.span, page.fl, ErasedPage.body),
             LAMBDA r : WritePage(r, r.pix,
                 [page EXCEPT !.id = Free, !.span = Undef, !.fl = {}]))

(* Mutant of RewriteIndex: the page that was copied stays.                   *)
RewriteIndexKeep(s, id, span, dataPix, ixPix) ==
    Then(FindFree(s), LAMBDA r :
        WriteLu(WritePage(r, r.pix, [s.dev.pg[ixPix] EXCEPT !.body[IxEntry(span)] = dataPix]),
                r.pix, OrIx(id)))

(* spiffs_rewrite_index: a copy of index page ixPix with one entry changed.  *)
(* The copy is listed without being counted as allocated.                    *)
RewriteIndex(s, id, span, dataPix, ixPix) ==
    LET page == s.dev.pg[ixPix]
        whole == page.id = OrIx(id) /\ page.span = IxSpan(span) /\ page.fl = Intact
    IN  Then(FindFree(s), LAMBDA r :
            IF ~whole THEN Fail(PageDelete(r, r.pix), "CHECK_INDEX_BAD")
            ELSE PageDelete(
                     WriteLu(WritePage(r, r.pix, [page EXCEPT !.body[IxEntry(span)] = dataPix]),
                             r.pix, OrIx(id)),
                     ixPix))

(* spiffs_delete_obj_lazy: marks a page of span 0 with this very id.         *)
DeleteLazy(s, id) ==
    LET found == FindIdAndSpan(s, id, 0, 0)
    IN  IF Ok(found) THEN WriteFlags(found, found.pix, {"IXDELE"}) ELSE Fail(found, "OK")

(* The index follows a data page to its copy; or the file cannot be mended:  *)
(* the copy and the file are deleted.                                        *)
Unmended(r, id, dataPix) ==
    IF IsBad(r) THEN DeleteLazy(PageDelete(Fail(r, "OK"), dataPix), id) ELSE r

Redirect(s, id, span, dataPix, ixPix) ==
    Unmended(RewriteIndex(s, id, span, dataPix, ixPix), id, dataPix)

-----------------------------------------------------------------------------
(* spiffs_lookup_check_validate, for the lookup entry of page p.             *)
DeleteAfter(s, p) == Then(s, LAMBDA r : PageDelete(r, p))

(* Free or deleted in the lookup, in use on the page.  What its file still   *)
(* needs is copied: a data page that the index refers to, and an index page   *)
(* that there is no other of in a file that has a header.                    *)
UnlistedData(found, p, page) ==
    IF Ok(found) /\ Referred(found, page.span) = p
    THEN DeleteAfter(Then(RewritePage(found, p), LAMBDA r :
             Redirect(r, page.id, page.span, r.pix, found.pix)), p)
    ELSE PageDelete(Fail(found, "OK"), p)

UnlistedSole(header, p) ==
    IF Ok(header) THEN DeleteAfter(RewritePage(header, p), p)
    ELSE PageDelete(Fail(header, "OK"), p)

UnlistedIndex(other, p, id) ==
    IF Ok(other) THEN PageDelete(other, p)
    ELSE UnlistedSole(FindIdAndSpanByPhdr(other, OrIx(id), 0, 0), p)

Unlisted(s, p) ==
    LET page == s.dev.pg[p]
    IN  IF "INDEX" \in page.fl
        THEN UnlistedIndex(FindIdAndSpan(s, OrIx(page.id), page.span, p), p, page.id)
        ELSE UnlistedData(Reference(s, page.id, page.span), p, page)

(* In use in the lookup: a page that is dead or half written goes, unless the *)
(* index of its file already refers to it.                                   *)
NamesOther(s, p) ==
    LET fl == s.dev.pg[p].fl
    IN  IF "DELET" \in fl \/ "FINAL" \notin fl \/ {"INDEX", "IXDELE"} \subseteq fl
        THEN PageDelete(s, p) ELSE [s EXCEPT !.astray = TRUE]

HalfWritten(found, p) ==
    IF Ok(found) /\ Referred(found, found.dev.pg[p].span) = p
    THEN WriteFlags(found, p, {"FINAL"})
    ELSE PageDelete(Fail(found, "OK"), p)

InLookup(s, p) ==
    LET id == s.dev.lu[p]
        page == s.dev.pg[p]
        alike == OrIx(page.id) = OrIx(id)
        sameKind == IsIx(id) = ("INDEX" \in page.fl)
    IN  CASE ~alike -> NamesOther(s, p)
          [] alike /\ ~sameKind -> [s EXCEPT !.astray = TRUE]
          [] alike /\ sameKind /\ "DELET" \in page.fl -> PageDelete(s, p)
          [] alike /\ sameKind /\ {"DELET", "FINAL"} \cap page.fl = {} ->
               HalfWritten(Reference(s, id, page.span), p)
          [] OTHER -> s

LookupCheckPage(s, p) ==
    LET id == s.dev.lu[p]
        page == s.dev.pg[p]
    IN  CASE ~Ok(s) -> s
          [] Ok(s) /\ \/ id = Deleted /\ "DELET" \notin page.fl
                      \/ id = Free /\ "USED" \in page.fl -> Unlisted(s, p)
          [] Ok(s) /\ IsObject(id) -> InLookup(s, p)
          [] OTHER -> s

AllPages == [i \in 1..BlockCount * MaxEntries |-> LuPix(i - 1)]

LookupCheck(s) == FoldLeft(LookupCheckPage, Fail(s, "OK"), AllPages)

-----------------------------------------------------------------------------
(* spiffs_object_index_consistency_check: t holds the state and the ids that *)
(* were found to have a header, or to have none.  A whole page passes before *)
(* anything else is asked.                                                   *)
IndexCheckPage(t, p) ==
    LET s == t.s
        id == s.dev.lu[p]
        page == s.dev.pg[p]
        header == FindIdAndSpan(s, OrIx(id), 0, 0)
        known == NoIx(id) \in t.with \cup t.without
        orphan == IF known THEN NoIx(id) \in t.without ELSE ~Ok(header)
        noted == IF orphan THEN [t EXCEPT !.without = @ \cup {NoIx(id)}]
                 ELSE [t EXCEPT !.with = @ \cup {NoIx(id)}]
        sought == IF known THEN s ELSE Fail(header, "OK")
    IN  CASE ~IsObject(id) \/ ~IsIx(id) -> t
          [] IsObject(id) /\ IsIx(id) /\ page.span = 0 /\ "DELET" \notin page.fl
             /\ {"INDEX", "FINAL", "IXDELE"} \subseteq page.fl ->
               [t EXCEPT !.s = PageDelete(s, p)]
          [] IsObject(id) /\ IsIx(id) /\ {"INDEX", "FINAL"} \subseteq page.fl
             /\ {"DELET", "IXDELE"} \cap page.fl = {} -> t
          [] OTHER ->
               IF page.span = 0
               THEN IF known THEN t ELSE [t EXCEPT !.with = @ \cup {NoIx(id)}]
               ELSE [noted EXCEPT !.s = IF orphan THEN PageDelete(sought, p) ELSE sought]

IndexCheck(s) ==
    FoldLeft(IndexCheckPage, [s |-> Fail(s, "OK"), with |-> {}, without |-> {}], AllPages).s

-----------------------------------------------------------------------------
(* spiffs_page_consistency_check_i, for the pages from offset on that fit    *)
(* into one scan: first every entry of every index page, noting the pages    *)
(* that are referred to (c.seen) and those in use that are no index (c.loose);*)
(* then the pages in use that are not referred to.                           *)
LiveIndex(page) == {"USED", "INDEX"} \subseteq page.fl /\ {"DELET", "IXDELE"} \cap page.fl = {}
InUse(page) == "USED" \in page.fl /\ "DELET" \notin page.fl
Within(pix, offset) == pix \in offset..offset + PagesPerScan - 1

Restart(c, r) == [c EXCEPT !.s = r, !.restart = TRUE]

(* The entry e of index page p refers to a page that is not its data page.   *)
Found(c, right, p, span, id) ==
    LET lost(r) == DeleteLazy(Fail(r, "OK"), id)
        kept(r) == IF IsBad(r) THEN lost(r) ELSE r
    IN  IF ~Ok(right) THEN [c EXCEPT !.s = lost(right), !.skip = p]
        ELSE Restart(c, kept(RewriteIndex(right, id, span, right.pix, p)))

Mend(c, p, span, data) ==
    LET id == c.s.dev.pg[p].id
    IN  Found(c, FindIdAndSpan(c.s, NoIx(id), span, data), p, span, id)

CheckEntry(c, p, e) ==
    LET page == c.s.dev.pg[p]
        span == FirstDataSpan(page.span) + e
        data == page.body[e]
        target == c.s.dev.pg[data]
        fits == /\ target.id = NoIx(page.id) /\ target.span = span
                /\ InUse(target) /\ "INDEX" \notin target.fl
    IN  IF IsLookupPage(data) THEN [c EXCEPT !.s.astray = TRUE]
        ELSE IF ~fits THEN Mend(c, p, span, data)
        ELSE IF data \notin c.seen THEN [c EXCEPT !.seen = @ \cup {data}]
        ELSE Restart(c, PageDelete(DeleteLazy(c.s, page.id), p))

CheckIndex(c, p, offset) ==
    LET page == c.s.dev.pg[p]
        entries == IF page.span = 0 THEN HdrIxLen ELSE IxLen
        loose == Within(p, offset) /\ InUse(page) /\ ~LiveIndex(page)
        step(d, e) == IF ~Ok(d.s) \/ d.restart \/ d.skip = p
                         \/ ~Within(d.s.dev.pg[p].body[e], offset)
                      THEN d ELSE CheckEntry(d, p, e)
    IN  CASE ~Ok(c.s) \/ c.restart -> c
          [] Ok(c.s) /\ ~c.restart /\ LiveIndex(page) ->
               FoldLeft(step, c, [i \in 1..entries |-> i - 1])
          [] OTHER -> IF loose THEN [c EXCEPT !.loose = @ \cup {p}] ELSE c

(* Page p was in use, and referred to from nowhere.                          *)
CheckUnreferred(c, p) ==
    LET page == c.s.dev.pg[p]
        index == Reference(c.s, page.id, page.span)
        data == Referred(index, page.span)
        nowhere == data = Undef \/ IsLookupPage(data)
        other == index.dev.pg[data]
        good == /\ other.id = NoIx(page.id) /\ {"USED", "FINAL"} \subseteq other.fl
                /\ {"INDEX", "DELET"} \cap other.fl = {}
    IN  CASE index.err = "NOT_FOUND" -> [c EXCEPT !.s = PageDelete(Fail(index, "OK"), p)]
          [] Ok(index) /\ (IF nowhere THEN TRUE ELSE ~good /\ data # p) ->
               Restart(c, Redirect(index, page.id, page.span, p, index.pix))
          [] Ok(index) /\ ~nowhere /\ good -> [c EXCEPT !.s = PageDelete(index, p)]
          [] OTHER -> [c EXCEPT !.s = index]

ScanPages(s, offset) ==
    LET start == [s |-> s, seen |-> {}, loose |-> {}, skip |-> 0, restart |-> FALSE]
        marked == FoldLeft(LAMBDA c, p : CheckIndex(c, p, offset), start, AllPages)
        step(c, p) == IF ~Ok(c.s) \/ c.restart \/ p \notin c.loose \ c.seen
                      THEN c ELSE CheckUnreferred(c, p)
    IN  FoldLeft(step, marked, AllPages)

(* One scan after the other; one that mended something is done again.        *)
Scanned(v, offset) ==
    [s |-> v.s, offset |-> IF v.restart THEN offset ELSE offset + PagesPerScan]
NextScan(v) ==
    IF v.offset >= MaxPages \/ ~Ok(v.s) THEN v ELSE Scanned(ScanPages(v.s, v.offset), v.offset)

EndOfScans(v) == IF v.offset < MaxPages /\ Ok(v.s) THEN Fail(v.s, "NEVER_ENDS") ELSE v.s

PageCheck(s) ==
    EndOfScans(FoldLeft(LAMBDA v, n : NextScan(v), [s |-> Fail(s, "OK"), offset |-> 0],
        [n \in 1..MaxRestarts + (MaxPages + PagesPerScan - 1) \div PagesPerScan |-> n]))

(* SPIFFS_check: no stage stops for what an earlier one returned.            *)
Rescanned(s) == IF s.err = "NEVER_ENDS" THEN s ELSE Fail(LuScan(s), "OK")
Check(s) == Rescanned(PageCheck(IndexCheck(LookupCheck(s))))
=============================================================================
