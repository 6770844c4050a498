--------------------------- MODULE RmFileConcurrent ---------------------------
(***************************************************************************)
(* insert_record(buf) and delete_record(rid) of                            *)
(* src/record/rm_file_handle.cpp run by several threads at once, one C++   *)
(* statement per step, over a buffer pool of NumFrames frames.             *)
(*                                                                         *)
(* RmFileHandle has no latch: file_hdr_ and the page header, bitmap and    *)
(* slots inside a frame are read and written by plain statements, and a   *)
(* ++ or -- is a read step and a write step.  The buffer pool methods      *)
(* (fetch_page, new_page, unpin_page) hold the pool latch and are one step *)
(* each, with the LRU replacer of LRUReplacer.  Every unpin passes         *)
(* is_dirty = true, so an evicted frame is always written back.            *)
(*                                                                         *)
(* A record's payload is the thread that inserted it.  Callers delete only *)
(* rids an insert returned to them, each rid by one thread at a time       *)
(* (spec.md 5: the same rid is serialized by the caller).                  *)
(***************************************************************************)
EXTENDS Integers, Sequences, FiniteSets

CONSTANTS
    Threads,       \* threads calling the record layer
    RecsPerPage,   \* file_hdr_.num_records_per_page
    NumFrames,     \* frames of the buffer pool
    MaxPages,      \* bound: the disk manager allocates page numbers below it
    MaxOps,        \* bound: calls each thread makes
    RM_NO_PAGE,    \* end of the free-page list (-1)
    NoFrame,       \* "not in page_table_"
    NoPage         \* Page::id_ of a frame that never held a page

RM_FIRST_RECORD_PAGE == 1
DataPages == RM_FIRST_RECORD_PAGE..(MaxPages - 1)
Slots == 0..(RecsPerPage - 1)
Frames == 1..NumFrames
EmptySlot == "empty"

\* The bytes of a record page: header, bitmap (its set bits), slots.
PageRec == [nrec : Int, next : {RM_NO_PAGE} \cup DataPages,
            bits : SUBSET Slots, slot : [Slots -> Threads \cup {EmptySlot}]]
NewPageRec == [nrec |-> 0, next |-> RM_NO_PAGE, bits |-> {},
               slot |-> [s \in Slots |-> EmptySlot]]

VARIABLES
    numPages,   \* file_hdr_.num_pages
    firstFree,  \* file_hdr_.first_free_page_no
    pageTable,  \* page_table_
    frameId,    \* pages_[f].id_
    pinCount,   \* pages_[f].pin_count_
    fdata,      \* pages_[f].data_ as a record page
    freeFrames, \* free_list_
    lru,        \* the replacer's list
    disk,       \* page images on disk
    numAlloc,   \* the disk manager's next page number
    th,         \* each thread's call in progress and its locals
    ops,        \* calls each thread has made
    returned,   \* <<rid, payload>> of inserts returned and not deleted
    crashed     \* a thread used the page of a null page handle

poolVars == <<pageTable, frameId, pinCount, fdata, freeFrames, lru, disk, numAlloc>>
vars == <<numPages, firstFree, poolVars, th, ops, returned, crashed>>

R == INSTANCE LRUReplacer WITH Frames <- Frames, MaxSize <- NumFrames

Idle == [pc |-> "idle", page |-> NoPage, frame |-> NoFrame, slot |-> -1,
         n |-> 0, rid |-> <<NoPage, -1>>]

\* Steps between a successful fetch_page/new_page and the unpin_page.
PinnedPcs == {"i_np_read", "i_np_write", "i_scan", "i_write", "i_inc_read",
              "i_inc_write", "i_unlink", "i_unpin",
              "d_reset", "d_dec_read", "d_dec_write", "d_unpin"}
\* Steps after the unpin that still dereference the page handle.
UnpinnedPcs == {"i_return", "d_check", "d_link_next", "d_link_head"}
Pcs == {"idle", "i_fetch"} \cup PinnedPcs \cup UnpinnedPcs

TypeOK ==
    /\ numPages \in 1..MaxPages
    /\ firstFree \in {RM_NO_PAGE} \cup DataPages
    /\ pageTable \in [DataPages -> Frames \cup {NoFrame}]
    /\ frameId \in [Frames -> DataPages \cup {NoPage}]
    /\ pinCount \in [Frames -> Nat]
    /\ fdata \in [Frames -> PageRec]
    /\ disk \in [DataPages -> PageRec]
    /\ numAlloc \in 1..MaxPages
    /\ \A t \in Threads : th[t].pc \in Pcs
    /\ ops \in [Threads -> 0..MaxOps]
    /\ crashed \in BOOLEAN

Init ==
    /\ numPages = 1
    /\ firstFree = RM_NO_PAGE
    /\ pageTable = [p \in DataPages |-> NoFrame]
    /\ frameId = [f \in Frames |-> NoPage]
    /\ pinCount = [f \in Frames |-> 0]
    /\ fdata = [f \in Frames |-> NewPageRec]
    /\ freeFrames = [i \in 1..NumFrames |-> i]
    /\ R!Init
    /\ disk = [p \in DataPages |-> NewPageRec]
    /\ numAlloc = 1
    /\ th = [t \in Threads |-> Idle]
    /\ ops = [t \in Threads |-> 0]
    /\ returned = {}
    /\ crashed = FALSE

-----------------------------------------------------------------------------
(***************************************************************************)
(* The buffer pool, one latched step per method.  Victim: free_list_       *)
(* first, else the replacer.  A miss writes the victim back, maps the page *)
(* to it and reads the page (update_page, read_page).  Each element of     *)
(* Fetch(p) is a frame fetch_page(p) pins, with free_list_ and the         *)
(* replacer after it; Fetch(p) is empty when fetch_page returns nullptr.   *)
(***************************************************************************)
FindVictim ==
    IF freeFrames # <<>>
    THEN {[frame |-> Head(freeFrames), free |-> Tail(freeFrames), lru |-> lru]}
    ELSE IF R!HasVictim(lru)
         THEN {[frame |-> R!VictimOf(lru), free |-> freeFrames,
                lru |-> R!AfterVictim(lru)]}
         ELSE {}

Fetch(p) ==
    IF pageTable[p] # NoFrame
    THEN {[frame |-> pageTable[p], free |-> freeFrames, lru |-> lru]}
    ELSE FindVictim

WriteBack(f) ==
    IF frameId[f] = NoPage THEN disk ELSE [disk EXCEPT ![frameId[f]] = fdata[f]]

\* update_page(f, p) followed by the bytes the frame then holds.
LoadFrame(f, p, rec) ==
    /\ disk' = WriteBack(f)
    /\ pageTable' = [q \in DataPages |-> IF q = p THEN f
                                         ELSE IF q = frameId[f] THEN NoFrame
                                         ELSE pageTable[q]]
    /\ frameId' = [frameId EXCEPT ![f] = p]
    /\ fdata' = [fdata EXCEPT ![f] = rec]

\* Mutant: fetch_page does not call replacer_->pin.
PinFrameSkipped(l, f) == l

\* replacer_->pin(frame_id) in fetch_page.
PinFrame(l, f) == R!PinList(l, f)

\* fetch_page(p) succeeds with v: hit, or miss with read_page from disk.
DoFetch(p, v) ==
    /\ freeFrames' = v.free
    /\ lru' = PinFrame(v.lru, v.frame)
    /\ pinCount' = [pinCount EXCEPT ![v.frame] = @ + 1]
    /\ IF pageTable[p] = v.frame
       THEN UNCHANGED <<pageTable, frameId, fdata, disk>>
       ELSE LoadFrame(v.frame, p, WriteBack(v.frame)[p])
    /\ UNCHANGED numAlloc

\* unpin_page(frameId[f], true): the page is looked up by the frame's id_.
DoUnpin(f) ==
    LET p == frameId[f] IN
    /\ IF p # NoPage /\ pageTable[p] = f /\ pinCount[f] > 0
       THEN /\ pinCount' = [pinCount EXCEPT ![f] = @ - 1]
            /\ lru' = IF pinCount'[f] = 0 THEN R!UnpinList(lru, f) ELSE lru
       ELSE UNCHANGED <<pinCount, lru>>
    /\ UNCHANGED <<pageTable, frameId, fdata, freeFrames, disk, numAlloc>>

\* Thread t's locals after a step, moving to pc.
Goto(t, pc) == [th[t] EXCEPT !.pc = pc]

FileOf(p) == IF pageTable[p] # NoFrame THEN fdata[pageTable[p]] ELSE disk[p]

-----------------------------------------------------------------------------
(***************************************************************************)
(* insert_record(buf).  create_page_handle tests first_free_page_no; when  *)
(* it is RM_NO_PAGE, create_new_page_handle calls new_page (victim, then   *)
(* allocate_page, update_page, pin), sets the new page's header and does   *)
(* num_pages++.  A null page handle is dereferenced by the bitmap scan.    *)
(***************************************************************************)
StartCall(t) ==
    /\ ~crashed
    /\ th[t].pc = "idle"
    /\ ops[t] < MaxOps
    /\ ops' = [ops EXCEPT ![t] = @ + 1]

\* The test of first_free_page_no (line 228) and create_new_page_handle's
\* new_page are one step: nothing between them reads or writes the file
\* header, so another thread's step in between changes nothing they see.
InsertNewPage(t) ==
    LET p == numAlloc IN
    /\ StartCall(t)
    /\ firstFree = RM_NO_PAGE
    /\ numAlloc < MaxPages
    /\ \E v \in FindVictim :
          /\ freeFrames' = v.free
          /\ lru' = R!PinList(v.lru, v.frame)
          /\ pinCount' = [pinCount EXCEPT ![v.frame] = 1]
          /\ LoadFrame(v.frame, p, NewPageRec)
          /\ th' = [th EXCEPT ![t] = [Idle EXCEPT !.pc = "i_np_read",
                                        !.page = p, !.frame = v.frame]]
    /\ numAlloc' = numAlloc + 1
    /\ UNCHANGED <<numPages, firstFree, returned, crashed>>

InsertNewPageFails(t) ==
    /\ StartCall(t)
    /\ firstFree = RM_NO_PAGE
    /\ FindVictim = {}
    /\ crashed' = TRUE
    /\ UNCHANGED <<numPages, firstFree, poolVars, th, returned>>

\* file_hdr_.num_pages++, read then write.
InsertNpRead(t) ==
    /\ ~crashed /\ th[t].pc = "i_np_read"
    /\ th' = [th EXCEPT ![t] = [Goto(t, "i_np_write") EXCEPT !.n = numPages]]
    /\ UNCHANGED <<numPages, firstFree, poolVars, ops, returned, crashed>>

NumPagesInc(n) == n + 1

InsertNpWrite(t) ==
    /\ ~crashed /\ th[t].pc = "i_np_write"
    /\ numPages' = NumPagesInc(th[t].n)
    /\ th' = [th EXCEPT ![t] = Goto(t, "i_scan")]
    /\ UNCHANGED <<firstFree, poolVars, ops, returned, crashed>>

\* create_page_handle's test, and its second read of first_free_page_no
\* for fetch_page_handle (page_no in [0, num_pages), then fetch_page).
InsertCheckFree(t) ==
    /\ StartCall(t)
    /\ firstFree # RM_NO_PAGE
    /\ th' = [th EXCEPT ![t] = [Idle EXCEPT !.pc = "i_fetch"]]
    /\ UNCHANGED <<numPages, firstFree, poolVars, returned, crashed>>

InsertFetch(t) ==
    LET p == firstFree IN
    /\ ~crashed /\ th[t].pc = "i_fetch"
    /\ p # RM_NO_PAGE /\ p < numPages
    /\ \E v \in Fetch(p) :
          /\ DoFetch(p, v)
          /\ th' = [th EXCEPT ![t] = [Goto(t, "i_scan") EXCEPT !.page = p,
                                                           !.frame = v.frame]]
    /\ UNCHANGED <<numPages, firstFree, ops, returned, crashed>>

InsertFetchFails(t) ==
    /\ ~crashed /\ th[t].pc = "i_fetch"
    /\ ~(firstFree # RM_NO_PAGE /\ firstFree < numPages /\ Fetch(firstFree) # {})
    /\ crashed' = TRUE
    /\ UNCHANGED <<numPages, firstFree, poolVars, th, ops, returned>>

\* The first unset bit, RecsPerPage if none.
FirstUnset(bm) ==
    IF Slots \subseteq bm THEN RecsPerPage
    ELSE CHOOSE s \in Slots \ bm : \A u \in Slots \ bm : s <= u

\* Frame of thread t's page handle.
F(t) == th[t].frame

\* Mutant: the slot_no == num_records_per_page return is dropped.
SlotFoundUnchecked(s) == TRUE

\* The scan stopped before slot_no == num_records_per_page.
SlotFound(s) == s < RecsPerPage

InsertScan(t) ==
    LET s == FirstUnset(fdata[F(t)].bits) IN
    /\ ~crashed /\ th[t].pc = "i_scan"
    /\ SlotFound(s)
    /\ th' = [th EXCEPT ![t] = [Goto(t, "i_write") EXCEPT !.slot = s]]
    /\ UNCHANGED <<numPages, firstFree, poolVars, ops, returned, crashed>>

\* No unset bit: return Rid{-1, -1}, the page left pinned.
InsertPageFull(t) ==
    /\ ~crashed /\ th[t].pc = "i_scan"
    /\ ~SlotFound(FirstUnset(fdata[F(t)].bits))
    /\ th' = [th EXCEPT ![t] = [Goto(t, "idle") EXCEPT !.rid = <<NoPage, -1>>]]
    /\ UNCHANGED <<numPages, firstFree, poolVars, ops, returned, crashed>>

\* Mutant: Bitmap::set is missing after the memcpy.
SetBitMissing(bits, s) == bits

\* Bitmap::set.
SetBit(bits, s) == bits \cup {s}

\* memcpy into the slot, then Bitmap::set.
InsertWrite(t) ==
    /\ ~crashed /\ th[t].pc = "i_write"
    /\ fdata' = [fdata EXCEPT ![F(t)].slot[th[t].slot] = t,
                              ![F(t)].bits = SetBit(@, th[t].slot)]
    /\ th' = [th EXCEPT ![t] = Goto(t, "i_inc_read")]
    /\ UNCHANGED <<numPages, firstFree, pageTable, frameId, pinCount,
                   freeFrames, lru, disk, numAlloc, ops, returned, crashed>>

\* page_hdr->num_records++, read then write.
InsertIncRead(t) ==
    /\ ~crashed /\ th[t].pc = "i_inc_read"
    /\ th' = [th EXCEPT ![t] = [Goto(t, "i_inc_write") EXCEPT
                                  !.n = fdata[F(t)].nrec]]
    /\ UNCHANGED <<numPages, firstFree, poolVars, ops, returned, crashed>>

InsertIncWrite(t) ==
    /\ ~crashed /\ th[t].pc = "i_inc_write"
    /\ fdata' = [fdata EXCEPT ![F(t)].nrec = th[t].n + 1]
    /\ th' = [th EXCEPT ![t] = Goto(t, "i_unlink")]
    /\ UNCHANGED <<numPages, firstFree, pageTable, frameId, pinCount,
                   freeFrames, lru, disk, numAlloc, ops, returned, crashed>>

\* Mutant: the full test uses num_records as it was before the ++.
PageNowFullBeforeInc(nrec) == nrec + 1 = RecsPerPage

PageNowFull(nrec) == nrec = RecsPerPage

\* A full page leaves the free list: first_free = next_free_page_no.
InsertUnlink(t) ==
    /\ ~crashed /\ th[t].pc = "i_unlink"
    /\ firstFree' = IF PageNowFull(fdata[F(t)].nrec) THEN fdata[F(t)].next
                    ELSE firstFree
    /\ th' = [th EXCEPT ![t] = Goto(t, "i_unpin")]
    /\ UNCHANGED <<numPages, poolVars, ops, returned, crashed>>

InsertUnpin(t) ==
    /\ ~crashed /\ th[t].pc = "i_unpin"
    /\ DoUnpin(F(t))
    /\ th' = [th EXCEPT ![t] = Goto(t, "i_return")]
    /\ UNCHANGED <<numPages, firstFree, ops, returned, crashed>>

\* return Rid{page->get_page_id().page_no, slot_no}, after the unpin.
InsertReturn(t) ==
    LET rid == <<frameId[F(t)], th[t].slot>> IN
    /\ ~crashed /\ th[t].pc = "i_return"
    /\ returned' = returned \cup {<<rid, t>>}
    /\ th' = [th EXCEPT ![t] = [Goto(t, "idle") EXCEPT !.rid = rid]]
    /\ UNCHANGED <<numPages, firstFree, poolVars, ops, crashed>>

-----------------------------------------------------------------------------
(***************************************************************************)
(* delete_record(rid) of a rid an insert returned.  fetch_page_handle; an  *)
(* invalid page or a failed fetch returns with no effect.  Then            *)
(* Bitmap::reset, num_records--, unpin_page, and after the unpin: read     *)
(* num_records through the handle and, at capacity - 1,                    *)
(* release_page_handle (next_free_page_no = first_free_page_no,            *)
(* first_free_page_no = page->get_page_id().page_no).                      *)
(***************************************************************************)
DeleteFetch(t) ==
    \E x \in returned :
       LET p == x[1][1] IN
       /\ StartCall(t)
       /\ returned' = returned \ {x}
       /\ p < numPages
       /\ \E v \in Fetch(p) :
             /\ DoFetch(p, v)
             /\ th' = [th EXCEPT ![t] = [Idle EXCEPT !.pc = "d_reset", !.page = p,
                                           !.frame = v.frame, !.slot = x[1][2]]]
       /\ UNCHANGED <<numPages, firstFree, crashed>>

DeleteNoPage(t) ==
    \E x \in returned :
       LET p == x[1][1] IN
       /\ StartCall(t)
       /\ returned' = returned \ {x}
       /\ p >= numPages \/ Fetch(p) = {}
       /\ UNCHANGED <<numPages, firstFree, poolVars, th, crashed>>

DeleteReset(t) ==
    /\ ~crashed /\ th[t].pc = "d_reset"
    /\ fdata' = [fdata EXCEPT ![F(t)].bits = @ \ {th[t].slot}]
    /\ th' = [th EXCEPT ![t] = Goto(t, "d_dec_read")]
    /\ UNCHANGED <<numPages, firstFree, pageTable, frameId, pinCount,
                   freeFrames, lru, disk, numAlloc, ops, returned, crashed>>

\* page_hdr->num_records--, read then write.
DeleteDecRead(t) ==
    /\ ~crashed /\ th[t].pc = "d_dec_read"
    /\ th' = [th EXCEPT ![t] = [Goto(t, "d_dec_write") EXCEPT
                                  !.n = fdata[F(t)].nrec]]
    /\ UNCHANGED <<numPages, firstFree, poolVars, ops, returned, crashed>>

DeleteDecWrite(t) ==
    /\ ~crashed /\ th[t].pc = "d_dec_write"
    /\ fdata' = [fdata EXCEPT ![F(t)].nrec = th[t].n - 1]
    /\ th' = [th EXCEPT ![t] = Goto(t, "d_unpin")]
    /\ UNCHANGED <<numPages, firstFree, pageTable, frameId, pinCount,
                   freeFrames, lru, disk, numAlloc, ops, returned, crashed>>

DeleteUnpin(t) ==
    /\ ~crashed /\ th[t].pc = "d_unpin"
    /\ DoUnpin(F(t))
    /\ th' = [th EXCEPT ![t] = Goto(t, "d_check")]
    /\ UNCHANGED <<numPages, firstFree, ops, returned, crashed>>

DeleteCheck(t) ==
    /\ ~crashed /\ th[t].pc = "d_check"
    /\ th' = [th EXCEPT ![t] = Goto(t, IF fdata[F(t)].nrec = RecsPerPage - 1
                                        THEN "d_link_next" ELSE "idle")]
    /\ UNCHANGED <<numPages, firstFree, poolVars, ops, returned, crashed>>

DeleteLinkNext(t) ==
    /\ ~crashed /\ th[t].pc = "d_link_next"
    /\ fdata' = [fdata EXCEPT ![F(t)].next = firstFree]
    /\ th' = [th EXCEPT ![t] = Goto(t, "d_link_head")]
    /\ UNCHANGED <<numPages, firstFree, pageTable, frameId, pinCount,
                   freeFrames, lru, disk, numAlloc, ops, returned, crashed>>

DeleteLinkHead(t) ==
    /\ ~crashed /\ th[t].pc = "d_link_head"
    /\ firstFree' = frameId[F(t)]
    /\ th' = [th EXCEPT ![t] = Goto(t, "idle")]
    /\ UNCHANGED <<numPages, poolVars, ops, returned, crashed>>

-----------------------------------------------------------------------------
Next ==
    \E t \in Threads :
       \/ InsertNewPage(t) \/ InsertNewPageFails(t)
       \/ InsertNpRead(t) \/ InsertNpWrite(t)
       \/ InsertCheckFree(t) \/ InsertFetch(t) \/ InsertFetchFails(t)
       \/ InsertScan(t) \/ InsertPageFull(t) \/ InsertWrite(t)
       \/ InsertIncRead(t) \/ InsertIncWrite(t) \/ InsertUnlink(t)
       \/ InsertUnpin(t) \/ InsertReturn(t)
       \/ DeleteFetch(t) \/ DeleteNoPage(t) \/ DeleteReset(t)
       \/ DeleteDecRead(t) \/ DeleteDecWrite(t) \/ DeleteUnpin(t)
       \/ DeleteCheck(t) \/ DeleteLinkNext(t) \/ DeleteLinkHead(t)

Spec == Init /\ [][Next]_vars

-----------------------------------------------------------------------------
AllIdle == \A t \in Threads : th[t].pc = "idle"

\* The free-page list from first_free_page_no, as page numbers.
RECURSIVE FreeChain(_, _)
FreeChain(p, seen) ==
    IF p = RM_NO_PAGE \/ p \in seen \/ p >= numPages THEN seen
    ELSE FreeChain(FileOf(p).next, seen \cup {p})

\* Round trip (spec.md 8): every rid insert_record returned, and no one has
\* deleted since, is a set slot of an existing page holding the payload
\* that insert wrote.
RoundTrip ==
    \A x \in returned :
        LET p == x[1][1]  s == x[1][2] IN
        /\ p \in DataPages /\ p < numPages
        /\ s \in FileOf(p).bits
        /\ FileOf(p).slot[s] = x[2]

\* When no call is in progress, a page is on the free-page list exactly
\* when num_records < records_per_page (spec.md 8, free-list invariant).
FreeListExact ==
    AllIdle =>
        \A p \in DataPages :
            p < numPages =>
                (p \in FreeChain(firstFree, {}) <=> FileOf(p).nrec < RecsPerPage)

\* Outside create_new_page_handle, num_pages counts every page new_page has
\* allocated: no page is appended to the file and then lost to it.
NumPagesCoversAllocated ==
    (\A t \in Threads : th[t].pc \notin {"i_np_read", "i_np_write"})
        => numPages = numAlloc

\* Concurrent inserts never pick the same slot, and never a slot holding
\* a record some insert returned (spec.md 1: free-space metadata stays
\* consistent across concurrent insert/delete).
SlotClaimedOnce ==
    \A t \in Threads :
        th[t].pc \in {"i_write", "i_inc_read", "i_inc_write", "i_unlink",
                      "i_unpin", "i_return"} =>
            /\ <<th[t].page, th[t].slot>> \notin {x[1] : x \in returned}
            /\ \A u \in Threads \ {t} :
                  th[u].pc \in {"i_write", "i_inc_read", "i_inc_write",
                                "i_unlink", "i_unpin", "i_return"} =>
                     <<th[u].page, th[u].slot>> # <<th[t].page, th[t].slot>>

\* While a thread holds its page pinned, the frame of its handle holds that
\* page: the pool never repurposes a pinned frame under a racing fetch or
\* new_page of another thread (spec.md 5: pin count is the sole signal).
PinnedHandleValid ==
    \A t \in Threads :
        th[t].pc \in PinnedPcs =>
            frameId[F(t)] = th[t].page /\ pinCount[F(t)] > 0

\* Every step that still reads or writes through a page handle after its
\* unpin_page sees the page the handle was made for: insert_record's
\* returned rid, and delete_record's re-link decision and
\* release_page_handle (spec.md 5: a handle is valid only until its
\* unpin; spec.md 9, delete-then-release).
UnpinnedHandleKeepsPage ==
    \A t \in Threads : th[t].pc \in UnpinnedPcs => frameId[F(t)] = th[t].page

\* No thread dereferences a null page handle: create_page_handle hands
\* insert_record a fetched page whenever first_free_page_no named one
\* (spec.md 4.3: failures come back as values).
NoNullPageDeref == ~crashed

====
