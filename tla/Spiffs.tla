------------------------------- MODULE Spiffs -------------------------------
(* The file system as its user meets it: one call after the other, and the   *)
(* power that may go in the middle of a call.  A call runs to its end before *)
(* the next one starts (SPIFFS_LOCK is empty and main.c has one thread), so  *)
(* a call is one step; a call cut off leaves a prefix of its flash writes.   *)
EXTENDS SpiffsApi

CONSTANTS
    Names,          \* file names
    Modes,          \* sets of open flags
    PageModes,      \* those with which a page or a directory entry is opened
    PagesTried,     \* pages that a caller opens by number
    Datas,          \* sequences of cells to write
    Offsets,        \* offsets to seek to
    Histories,      \* what was saved before: sequences of [name, data]
    Asides,         \* further calls: a subset of {"creat", "fremove", "rename",
                    \*   "readdir", "openpage", "gc", "gcquick", "mount", "check"}
    MaxCalls,       \* bound on the calls of a behaviour
    MaxCuts,        \* bound on its power losses
    NoFile

VARIABLES
    fs,             \* the flash and spiffs_t
    files,          \* the files in the flash: always Files(fs)
    mounted,        \* fs->mounted
    ret,            \* the last call and its result
    cut,            \* the call that a power loss cut off, and the files before it
    dir,            \* where a directory listing stands, and the page it gave
    calls, cuts     \* bounded counters

vars == <<fs, files, mounted, ret, cut, dir, calls, cuts>>

NoCall == [op |-> "none", name |-> "", new |-> "", flags |-> {}, at |-> 0,
           data |-> <<>>, res |-> "OK"]
NoCut == [call |-> NoCall, files |-> <<>>]
NoDir == [at |-> 0, pix |-> 0]

(* The live index pages of an object.                                        *)
IndexPages(s, id, span) ==
    {p \in Pages : s.dev.lu[p] = OrIx(id) /\ IsLivePage(s.dev.pg[p], OrIx(id), span)}

(* What is in the flash: the files that a search by name can find, and the   *)
(* cells that their index pages lead to.                                     *)
Lost == -1

CellOf(s, header, i) ==
    LET id == s.dev.lu[header]
        span == i \div DataPageSize
        index == IF IxSpan(span) = 0 THEN {header} ELSE IndexPages(s, id, IxSpan(span))
        data == {s.dev.pg[p].body[IxEntry(span)] : p \in index}
        good == {p \in data \cap Pages : DataError(s.dev.pg[p], NoIx(id), span) = "OK"
                                         /\ s.dev.lu[p] = NoIx(id)}
    IN  IF Cardinality(data) = 1 /\ good = data
        THEN s.dev.pg[CHOOSE p \in good : TRUE].body[i % DataPageSize] ELSE Lost

Contents(s, header) ==
    [i \in 1..StatPix(s, header).size |-> CellOf(s, header, i - 1)]

HeadersOf(s, n) == {p \in Pages : IsFileHeader(s, p) /\ s.dev.pg[p].name = n}

Files(s) ==
    [n \in Names |-> IF HeadersOf(s, n) = {} THEN NoFile
                     ELSE Contents(s, Min(HeadersOf(s, n)))]

-----------------------------------------------------------------------------
(* The call c ends with the state r, or the power goes after k of its writes *)
(* and the next mount finds the flash that was left.                         *)
Finish(c, r) ==
    /\ fs' = [r EXCEPT !.log = <<>>, !.err = "OK", !.pix = 0]
    /\ ret' = [c EXCEPT !.res = r.err]
    /\ UNCHANGED <<mounted, cut, dir, cuts>>

PowerCut(c, r) ==
    /\ cuts < MaxCuts
    /\ cuts' = cuts + 1
    /\ \E k \in 0..Len(r.log) - 1 :
           fs' = [Mount(FoldLeft(ApplyWrite, fs.dev, SubSeq(r.log, 1, k)))
                     EXCEPT !.garbled = fs.garbled, !.starved = fs.starved]
    /\ ret' = [c EXCEPT !.res = "CUT"]
    /\ cut' = [call |-> c, files |-> files]
    /\ dir' = NoDir
    /\ UNCHANGED mounted

Call(c, r) ==
    /\ mounted /\ calls < MaxCalls
    /\ cuts = 0 \/ c.op = "check"
    /\ calls' = calls + 1
    /\ Finish(c, r) \/ PowerCut(c, r)
    /\ files' = Files(fs')

Plain(op, r) == Call([NoCall EXCEPT !.op = op], r)

OpenFds == {f \in Fds : IsOpen(fs, f)}

(* The name of the object a handle is open on.                               *)
FileOf(s, fd) ==
    LET headers == IndexPages(s, s.fds[fd].id, 0)
    IN  IF headers = {} THEN "" ELSE s.dev.pg[Min(headers)].name

-----------------------------------------------------------------------------
OpenName == \E n \in Names, m \in Modes :
    Call([NoCall EXCEPT !.op = "open", !.name = n, !.flags = m], Open(fs, n, m))

CreateName == \E n \in Names :
    /\ "creat" \in Asides
    /\ Call([NoCall EXCEPT !.op = "open", !.name = n, !.flags = {"CREAT", "EXCL"}],
            Creat(fs, n))

ReadFd == \E f \in OpenFds :
    LET h == fs.fds[f]
        got == Read(fs, f, IF h.size = Undef THEN 1 ELSE h.size)
    IN  Call([NoCall EXCEPT !.op = "read", !.name = FileOf(fs, f), !.at = h.fdoff,
                            !.data = got.data], got.s)

WriteFd == \E f \in OpenFds, data \in Datas :
    Call([NoCall EXCEPT !.op = "write", !.name = FileOf(fs, f),
                        !.at = WriteAt(fs.fds[f]), !.data = data], Put(fs, f, data))

SeekFd == \E f \in OpenFds, offset \in Offsets :
    offset # fs.fds[f].fdoff /\ Plain("lseek", Seek(fs, f, offset))

CloseFd == \E f \in OpenFds : Plain("close", FdReturn(Fail(fs, "OK"), f))

RemoveName == \E n \in Names :
    Call([NoCall EXCEPT !.op = "remove", !.name = n], RemoveFile(fs, n))

RemoveFd == \E f \in OpenFds :
    /\ "fremove" \in Asides
    /\ Call([NoCall EXCEPT !.op = "remove", !.name = FileOf(fs, f)], FRemove(fs, f))

RenameName == \E n, m \in Names :
    /\ "rename" \in Asides
    /\ Call([NoCall EXCEPT !.op = "rename", !.name = n, !.new = m], Rename(fs, n, m))

(* SPIFFS_opendir and SPIFFS_readdir, and the opening of what it gave.       *)
OpenDir ==
    /\ "readdir" \in Asides /\ mounted /\ dir # NoDir
    /\ dir' = NoDir
    /\ UNCHANGED <<fs, files, mounted, ret, cut, calls, cuts>>

ReadDir ==
    /\ "readdir" \in Asides /\ mounted /\ calls < MaxCalls /\ cuts = 0
    /\ Listed(fs, dir.at) # {}
    /\ calls' = calls + 1
    /\ dir' = [at |-> LuIndex(NextListed(fs, dir.at)) + 1, pix |-> NextListed(fs, dir.at)]
    /\ UNCHANGED <<fs, files, mounted, ret, cut, cuts>>

NameAt(pix) == IF IsLookupPage(pix) THEN "" ELSE fs.dev.pg[pix].name

OpenDirent == \E m \in PageModes :
    /\ "readdir" \in Asides /\ dir.pix # 0
    /\ Call([NoCall EXCEPT !.op = "open", !.name = NameAt(dir.pix), !.flags = m],
            OpenByDirent(fs, dir.pix, m))

OpenPage == \E p \in PagesTried, m \in PageModes :
    /\ "openpage" \in Asides
    /\ Call([NoCall EXCEPT !.op = "open", !.name = NameAt(p), !.flags = m],
            OpenByPageIx(fs, p, m))

Collect ==
    "gc" \in Asides /\ Plain("gc", GcCheck(fs, DataPageSize))

CollectQuick ==
    "gcquick" \in Asides /\ Plain("gcquick", GcQuick(fs, 0))

CheckAll ==
    "check" \in Asides /\ OpenFds = {} /\ Plain("check", Check(fs))

UnmountAll ==
    /\ "mount" \in Asides /\ mounted
    /\ mounted' = FALSE
    /\ fs' = Unmount(fs)
    /\ dir' = NoDir
    /\ UNCHANGED <<files, ret, cut, calls, cuts>>

MountAgain ==
    /\ ~mounted
    /\ mounted' = TRUE
    /\ fs' = [Mount(fs.dev) EXCEPT !.garbled = fs.garbled, !.starved = fs.starved]
    /\ ret' = [NoCall EXCEPT !.op = "mount"]
    /\ UNCHANGED <<files, cut, dir, calls, cuts>>

(* A file system that was formatted and mounted, and what was saved in it: a *)
(* file is opened empty, written and closed, or removed if it has no data.   *)
PutAndClose(opened, data) ==
    IF Ok(opened) THEN FdReturn(Put(opened, opened.pix, data), opened.pix) ELSE opened

Save(s, saved) ==
    IF saved.data = <<>> THEN RemoveFile(s, saved.name)
    ELSE PutAndClose(Open(s, saved.name, {"WRONLY", "CREAT", "TRUNC"}), saved.data)

Init ==
    /\ \E h \in Histories :
           fs = [FoldLeft(Save, Mount(Format(Mount(BlankDev)).dev), h)
                     EXCEPT !.log = <<>>, !.err = "OK", !.pix = 0]
    /\ files = Files(fs)
    /\ mounted = TRUE /\ ret = NoCall /\ cut = NoCut /\ dir = NoDir /\ calls = 0 /\ cuts = 0

Next ==
    \/ OpenName \/ CreateName \/ OpenDirent \/ OpenPage
    \/ ReadFd \/ WriteFd \/ SeekFd \/ CloseFd
    \/ RemoveName \/ RemoveFd \/ RenameName
    \/ OpenDir \/ ReadDir \/ Collect \/ CollectQuick \/ CheckAll
    \/ UnmountAll \/ MountAgain

Spec == Init /\ [][Next]_vars

-----------------------------------------------------------------------------
FS == INSTANCE FileStore

\* spiffs.h:414-601: the calls do to the files of the flash what FileStore says,
\* and nothing to any other file, however full the flash is and whatever the
\* garbage collector, the handle table and the search cursors are doing.  A
\* call that runs out of pages behind its check for room is left out.
ImplementsStore ==
    FS!Init /\ [][FS!Next \/ fs'.starved]_<<files, ret>>

\* The statistics in RAM, on which every decision to collect garbage or to
\* refuse a call rests, are those of the flash, and spiffs.h:604-610: the used
\* space that SPIFFS_info reports exceeds the total only after a power loss.
StatsTrue ==
    /\ fs.pAlloc = LuScan(fs).pAlloc
    /\ fs.pDel = LuScan(fs).pDel
    /\ cuts = 0 => InfoUsed(fs) <= InfoTotal

\* No call programs a cell of the flash that holds something else: what it
\* meant to write is what is read back.
NoGarbledWrite == ~fs.garbled

\* The pages in use are accounted for: no two of them are the same page of the
\* same object, each belongs to an object that has a header, and none lies
\* behind the end of its file.
InLive(s) == {p \in Pages : IsObject(s.dev.lu[p])}
NoDoubles ==
    \A p, q \in InLive(fs) :
        p # q => <<fs.dev.lu[p], fs.dev.pg[p].span>> # <<fs.dev.lu[q], fs.dev.pg[q].span>>
NothingLeaks ==
    \A p \in InLive(fs) :
        LET header == IndexPages(fs, fs.dev.lu[p], 0)
            size == StatPix(fs, CHOOSE h \in header : TRUE).size
            spans == (size + DataPageSize - 1) \div DataPageSize
        IN  /\ header # {}
            /\ IF IsIx(fs.dev.lu[p])
               THEN fs.dev.pg[p].span <= (IF spans = 0 THEN 0 ELSE IxSpan(spans - 1))
               ELSE fs.dev.pg[p].span < spans
PagesAccounted == ~fs.starved => NoDoubles /\ NothingLeaks

\* An open handle is at the header of its object, knows its size, and its
\* cursor is at the index page it says, although calls through other handles
\* and the garbage collector move those pages: for handles opened by name.
Tracks(h) ==
    /\ IndexPages(fs, h.id, 0) = {h.hdr}
    /\ SizeOf(h) = StatPix(fs, h.hdr).size
    /\ h.cpix # 0 => IndexPages(fs, h.id, h.cspan) = {h.cpix}
    /\ h.fdoff <= SizeOf(h)
HandlesTrack ==
    ~fs.starved => \A f \in OpenFds : fs.fds[f].score # 0 => Tracks(fs.fds[f])

\* nucleus.c:1062 "update index caches in all file descriptors": for every open
\* handle, also one whose score is 0, of which nucleus.h:468 says "score == 0
\* indicates never used fd".
AllHandlesTrack == ~fs.starved => \A f \in OpenFds : Tracks(fs.fds[f])

\* SPIFFS_check of a file system that no power loss has touched writes nothing:
\* none of its three passes takes a page in use for a damaged one.
Checking == ret'.op = "check" /\ calls' # calls
CheckChangesNothing ==
    [][Checking /\ cuts = 0 /\ ~fs.starved => fs'.dev = fs.dev]_vars

-----------------------------------------------------------------------------
(* A power loss in the middle of a call, and the check behind it.            *)
Involved(call) == {call.name, call.new}

\* A power loss costs a file that the call was not about nothing: the file keeps
\* its name and, in live data pages of its object, every cell, although the
\* garbage collector may have been moving it, and reads as before behind the
\* check.  The check departs from that in two ways and no other.  A file of which
\* the collector was copying an index page, so that the cut left the page twice,
\* may be deleted: check.c:696 finds its data referenced from both.  And a check
\* that runs out of pages for its copies leaves the file as the cut did.
HasCell(s, id, i, cell) ==
    \E p \in Pages : /\ s.dev.lu[p] = id
                     /\ DataError(s.dev.pg[p], id, i \div DataPageSize) = "OK"
                     /\ s.dev.pg[p].body[i % DataPageSize] = cell
SparedByCut(n) ==
    IF files[n] = NoFile THEN files'[n] = NoFile
    ELSE \E h \in HeadersOf(fs', n) : \A i \in 1..Len(files[n]) :
             HasCell(fs', NoIx(fs'.dev.lu[h]), i - 1, files[n][i])
Mending == ret.res = "CUT" /\ Checking
IndexedTwice(n) ==
    \E h \in HeadersOf(fs, n), p \in Pages :
        Cardinality(IndexPages(fs, fs.dev.lu[h], fs.dev.pg[p].span)) > 1
SparedByCheck(n) ==
    \/ files'[n] = cut.files[n]
    \/ files'[n] = NoFile /\ IndexedTwice(n)
    \/ files'[n] = files[n] /\ ~fs.starved /\ fs'.starved
CutSparesOthers ==
    [][/\ cuts' # cuts => \A n \in Names \ Involved(ret') : SparedByCut(n)
       /\ Mending => \A n \in Names \ Involved(cut.call) : SparedByCheck(n)]_vars

\* check.c:699-701: "getting this means there must be multiple files with same
\* object id.  Only solution is to delete the object which is referring to this
\* page": a file that the call was not about is deleted by the check only if a
\* file of another name has its object id.
SharesId(n) ==
    \E m \in Names \ {n} : \E h \in HeadersOf(fs, n), k \in HeadersOf(fs, m) :
        fs.dev.lu[h] = fs.dev.lu[k]
DeletesSharedOnly ==
    [][Mending => \A n \in Names \ Involved(cut.call) :
         cut.files[n] # NoFile /\ files'[n] = NoFile => SharesId(n)]_vars

\* The check behind a power loss gives no file cells of another: each cell of a
\* file it leaves is the one before the call, the one the call was to write, or
\* one that a read reports as an error.
Intended(n) ==
    LET call == cut.call
    IN  CASE n = call.name /\ call.op = "write" ->
               FS!Overlay(cut.files[n], call.at, call.data)
          [] n = call.new -> cut.files[call.name]
          [] OTHER -> cut.files[n]
NeverWrong ==
    [][Mending =>
         \A n \in Names : files'[n] # NoFile =>
             \A i \in 1..Len(files'[n]) :
                 \/ files'[n][i] \in {Lost, Intended(n)[i]}
                 \/ cut.files[n] # NoFile /\ i <= Len(cut.files[n])
                    /\ files'[n][i] = cut.files[n][i]]_vars

\* The check comes to an end, although every mended page makes it start over
\* (check.c:855-857), and it meets none of the cases that SpiffsCheck leaves
\* out because one power loss does not produce them.
CheckEnds == ret.res # "NEVER_ENDS" /\ ~fs.astray
=============================================================================
