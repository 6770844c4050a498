----------------------------- MODULE BufferPool -----------------------------
(***************************************************************************)
(* The buffer pool manager of src/storage/buffer_pool_manager.cpp, with    *)
(* the LRU replacer of src/replacer/lru_replacer.cpp and the threads that  *)
(* call it.                                                                *)
(*                                                                         *)
(* Every public method takes the pool latch (std::scoped_lock latch_) for  *)
(* its whole body, disk I/O included, and calls the replacer inside it, so *)
(* each method is one atomic step here.  What a caller does with the Page* *)
(* it got back (write its bytes) happens outside the latch and is a step   *)
(* of its own.  A page's bytes are abstracted to a version number: a write *)
(* makes the next version, reset_memory() makes version 0.                 *)
(*                                                                         *)
(* The disk manager is outside src/: read_page/write_page are reads and    *)
(* writes of the function disk, and allocate_page hands out the next page  *)
(* number of the file (spec.md 6).                                         *)
(***************************************************************************)
EXTENDS Naturals, Sequences, SequencesExt, FiniteSets

CONSTANTS
    NumFrames,     \* pool_size: frames are 1..NumFrames
    Files,         \* file descriptors
    MaxPageNo,     \* bound: allocate_page hands out page numbers below it
    InitPages,     \* pages each file already has on disk at start
    Clients,       \* threads calling into the pool
    MaxHeld,       \* bound: pages one thread holds pinned at once
    MaxVersion,    \* bound: writes to one page
    NoPage,        \* Page::id_ of a frame that never held a page
    NoFrame,       \* "not in page_table_"
    AlwaysDirty,   \* TRUE: callers pass is_dirty = true on every unpin
    DeleteEnabled, \* TRUE: callers may call delete_page
    AllocCanFail   \* TRUE: allocate_page may return INVALID_PAGE_ID

ASSUME NumFrames \in Nat \ {0} /\ InitPages <= MaxPageNo

Frames == 1..NumFrames
PageIds == Files \X (0..MaxPageNo - 1)
Versions == 0..MaxVersion

VARIABLES
    pageTable,  \* page_table_, total: NoFrame for a page it does not map
    frameId,    \* pages_[f].id_
    pinCount,   \* pages_[f].pin_count_
    dirty,      \* pages_[f].is_dirty_
    data,       \* pages_[f].data_, as a version
    freeList,   \* free_list_
    lru,        \* the replacer's LRUlist_
    disk,       \* the page images on disk
    numAlloc,   \* the disk manager's next page number, per file
    held,       \* held[c]: <<page id, frame>> of every Page* thread c holds
    wrote,      \* wrote[c]: pages thread c wrote since it fetched them
    unpinnedBefore \* history: <<g, f>> when g last reached pin count 0
                   \* before f last did

vars == <<pageTable, frameId, pinCount, dirty, data, freeList, lru, disk,
          numAlloc, held, wrote, unpinnedBefore>>

R == INSTANCE LRUReplacer WITH Frames <- Frames, MaxSize <- NumFrames

Resident(p) == pageTable[p] # NoFrame
HeldPages(c) == {h[1] : h \in held[c]}

TypeOK ==
    /\ pageTable \in [PageIds -> Frames \cup {NoFrame}]
    /\ frameId \in [Frames -> PageIds \cup {NoPage}]
    /\ pinCount \in [Frames -> Nat]
    /\ dirty \in [Frames -> BOOLEAN]
    /\ data \in [Frames -> Versions]
    /\ freeList \in Seq(Frames)
    /\ lru \in Seq(Frames)
    /\ disk \in [PageIds -> Versions]
    /\ numAlloc \in [Files -> 0..MaxPageNo]
    /\ held \in [Clients -> SUBSET (PageIds \X Frames)]
    /\ wrote \in [Clients -> SUBSET PageIds]
    /\ unpinnedBefore \subseteq Frames \X Frames

Init ==
    /\ pageTable = [p \in PageIds |-> NoFrame]
    /\ frameId = [f \in Frames |-> NoPage]
    /\ pinCount = [f \in Frames |-> 0]
    /\ dirty = [f \in Frames |-> FALSE]
    /\ data = [f \in Frames |-> 0]
    /\ freeList = [i \in 1..NumFrames |-> i]
    /\ R!Init
    /\ disk = [p \in PageIds |-> 0]
    /\ numAlloc = [fd \in Files |-> InitPages]
    /\ held = [c \in Clients |-> {}]
    /\ wrote = [c \in Clients |-> {}]
    /\ unpinnedBefore = {}

(***************************************************************************)
(* find_victim_page: the head of free_list_ if there is one, else the      *)
(* replacer's victim.  Each element says which frame, and what free_list_  *)
(* and the replacer's list are after taking it; the set is empty when the  *)
(* method returns false.                                                   *)
(***************************************************************************)
FindVictim ==
    IF freeList # <<>>
    THEN {[frame |-> Head(freeList), free |-> Tail(freeList), lru |-> lru]}
    ELSE IF R!HasVictim(lru)
         THEN {[frame |-> R!VictimOf(lru), free |-> freeList,
                lru |-> R!AfterVictim(lru)]}
         ELSE {}

\* page_table_.erase(id): no effect when id is not a key.
Erase(pt, id) == [q \in DOMAIN pt |-> IF q = id THEN NoFrame ELSE pt[q]]

WriteBack(f) ==
    IF dirty[f] THEN [disk EXCEPT ![frameId[f]] = data[f]] ELSE disk

\* Mutant: update_page does not erase the victim's old mapping.
RemapNoErase(pt, old, p, f) == [pt EXCEPT ![p] = f]

\* page_table_.erase(old id_), then page_table_[new id] = f.
Remap(pt, old, p, f) == [Erase(pt, old) EXCEPT ![p] = f]

UpdatePage(f, p, content) ==
    /\ disk' = WriteBack(f)
    /\ dirty' = [dirty EXCEPT ![f] = FALSE]
    /\ pageTable' = Remap(pageTable, frameId[f], p, f)
    /\ frameId' = [frameId EXCEPT ![f] = p]
    /\ data' = [data EXCEPT ![f] = content]

\* A thread can only call fetch/new while it holds fewer than MaxHeld pages.
CanTake(c) == Cardinality(held[c]) < MaxHeld

(***************************************************************************)
(* fetch_page(p), p in page_table_: pin_count_++, replacer pin.            *)
(***************************************************************************)
\* Mutant: a hit does not increment pin_count_.
HitPinCountMissing(pc, f) == pc

\* target_page->pin_count_++ on a hit.
HitPinCount(pc, f) == [pc EXCEPT ![f] = @ + 1]

\* Mutant: a hit does not remove the frame from the replacer.
HitReplacerPinSkipped(l, f) == l

\* replacer_->pin(frame_id) on a hit.
HitReplacerPin(l, f) == R!PinList(l, f)

FetchHit(c, p) ==
    LET f == pageTable[p] IN
    /\ CanTake(c) /\ p \notin HeldPages(c)
    /\ Resident(p)
    /\ pinCount' = HitPinCount(pinCount, f)
    /\ lru' = HitReplacerPin(lru, f)
    /\ held' = [held EXCEPT ![c] = @ \cup {<<p, f>>}]
    /\ UNCHANGED <<pageTable, frameId, dirty, data, freeList, disk,
                   numAlloc, wrote>>

(***************************************************************************)
(* fetch_page(p), p not in page_table_: find a victim (fail if none),      *)
(* update_page, read_page into the frame, replacer pin, pin_count_++.      *)
(* Only pages the file has on disk are fetched.                            *)
(***************************************************************************)
FetchMiss(c, p) ==
    /\ CanTake(c) /\ p \notin HeldPages(c)
    /\ ~Resident(p)
    /\ p[2] < numAlloc[p[1]]
    /\ \E v \in FindVictim :
          LET f == v.frame IN
          /\ UpdatePage(f, p, WriteBack(f)[p])
          /\ freeList' = v.free
          /\ lru' = R!PinList(v.lru, f)
          /\ pinCount' = [pinCount EXCEPT ![f] = @ + 1]
          /\ held' = [held EXCEPT ![c] = @ \cup {<<p, f>>}]
    /\ UNCHANGED <<numAlloc, wrote>>

(***************************************************************************)
(* The thread writes the bytes of a Page* it holds (outside the latch).    *)
(***************************************************************************)
WriteData(c, h) ==
    LET f == h[2] IN
    /\ h \in held[c]
    /\ data[f] < MaxVersion
    /\ data' = [data EXCEPT ![f] = @ + 1]
    /\ wrote' = [wrote EXCEPT ![c] = @ \cup {h[1]}]
    /\ UNCHANGED <<pageTable, frameId, pinCount, dirty, freeList, lru, disk,
                   numAlloc, held>>

(***************************************************************************)
(* unpin_page(p, is_dirty) by a thread giving up a Page* it holds.  The    *)
(* thread passes is_dirty = whether it wrote the page (or always true).    *)
(* The method looks p up in page_table_; it returns false if p is absent   *)
(* or its pin count is 0; else pin_count_--, replacer unpin at 0, and      *)
(* is_dirty_ = is_dirty (an assignment, not an OR).  Either way the thread *)
(* no longer holds the pointer.                                            *)
(***************************************************************************)
IsDirtyArg(c, p) == AlwaysDirty \/ p \in wrote[c]

\* Mutant: unpin_page without the pin_count_ <= 0 early return.
PinnedUnchecked(pc, f) == TRUE

\* The pin_count_ <= 0 test of unpin_page.
Pinned(pc, f) == pc[f] > 0

\* Mutant: unpin_page forgets replacer_->unpin when the count reaches 0.
UnpinLruSkipped(l, f, cnt) == l

\* replacer_->unpin(frame_id) when pin_count_ has reached 0.
UnpinLru(l, f, cnt) == IF cnt = 0 THEN R!UnpinList(l, f) ELSE l

UnpinPage(c, h) ==
    LET p == h[1]
        f == pageTable[p]
    IN
    /\ h \in held[c]
    /\ held' = [held EXCEPT ![c] = @ \ {h}]
    /\ wrote' = [wrote EXCEPT ![c] = @ \ {p}]
    /\ Resident(p) /\ Pinned(pinCount, f)
    /\ pinCount' = [pinCount EXCEPT ![f] = @ - 1]
    /\ lru' = UnpinLru(lru, f, pinCount'[f])
    /\ dirty' = [dirty EXCEPT ![f] = IsDirtyArg(c, p)]
    /\ UNCHANGED <<pageTable, frameId, data, freeList, disk, numAlloc>>

UnpinPageFails(c, h) ==
    LET p == h[1] IN
    /\ h \in held[c]
    /\ held' = [held EXCEPT ![c] = @ \ {h}]
    /\ wrote' = [wrote EXCEPT ![c] = @ \ {p}]
    /\ ~(Resident(p) /\ Pinned(pinCount, pageTable[p]))
    /\ UNCHANGED <<pageTable, frameId, pinCount, dirty, data, freeList, lru,
                   disk, numAlloc>>

(***************************************************************************)
(* flush_page(p), p in page_table_: write the frame to disk, whatever its  *)
(* pin count, and clear is_dirty_.                                         *)
(***************************************************************************)
FlushPage(p) ==
    LET f == pageTable[p] IN
    /\ Resident(p)
    /\ disk' = [disk EXCEPT ![p] = data[f]]
    /\ dirty' = [dirty EXCEPT ![f] = FALSE]
    /\ UNCHANGED <<pageTable, frameId, pinCount, data, freeList, lru,
                   numAlloc, held, wrote>>

(***************************************************************************)
(* flush_all_pages(fd): the same for every page_table_ entry of file fd.   *)
(***************************************************************************)
FlushAllPages(fd) ==
    LET mine == {q \in PageIds : q[1] = fd /\ Resident(q)} IN
    /\ disk' = [q \in PageIds |-> IF q \in mine THEN data[pageTable[q]]
                                                ELSE disk[q]]
    /\ dirty' = [f \in Frames |-> IF \E q \in mine : pageTable[q] = f
                                  THEN FALSE ELSE dirty[f]]
    /\ UNCHANGED <<pageTable, frameId, pinCount, data, freeList, lru,
                   numAlloc, held, wrote>>

(***************************************************************************)
(* new_page(&page_id) for file fd: find a victim (fail if none), then      *)
(* allocate_page.  On success: update_page with the new id (the frame is   *)
(* reset, nothing is read), replacer pin, pin_count_ = 1.                  *)
(***************************************************************************)
NewPage(c, fd) ==
    LET p == <<fd, numAlloc[fd]>> IN
    /\ CanTake(c)
    /\ numAlloc[fd] < MaxPageNo
    /\ \E v \in FindVictim :
          LET f == v.frame IN
          /\ UpdatePage(f, p, 0)
          /\ freeList' = v.free
          /\ lru' = R!PinList(v.lru, f)
          /\ pinCount' = [pinCount EXCEPT ![f] = 1]
          /\ held' = [held EXCEPT ![c] = @ \cup {<<p, f>>}]
    /\ numAlloc' = [numAlloc EXCEPT ![fd] = @ + 1]
    /\ UNCHANGED wrote

(***************************************************************************)
(* new_page when allocate_page returns INVALID_PAGE_ID: the method returns *)
(* nullptr after find_victim_page has already taken the frame off          *)
(* free_list_ or out of the replacer, and does not give it back.           *)
(***************************************************************************)
NewPageAllocFails(c, fd) ==
    /\ AllocCanFail
    /\ CanTake(c)
    /\ \E v \in FindVictim :
          /\ freeList' = v.free
          /\ lru' = v.lru
    /\ UNCHANGED <<pageTable, frameId, pinCount, dirty, data, disk,
                   numAlloc, held, wrote>>

(***************************************************************************)
(* delete_page(p), p in page_table_ with pin count 0: write the frame to   *)
(* disk, erase p from page_table_, reset_memory(), push the frame on       *)
(* free_list_.  is_dirty_ and id_ are left as they were, and the frame is  *)
(* not removed from the replacer.  Absent p: returns true, no effect.      *)
(* Pinned p: returns false, no effect.                                     *)
(***************************************************************************)
DeletePage(p) ==
    LET f == pageTable[p] IN
    /\ DeleteEnabled
    /\ Resident(p)
    /\ pinCount[f] = 0
    /\ disk' = [disk EXCEPT ![p] = data[f]]
    /\ pageTable' = [pageTable EXCEPT ![p] = NoFrame]
    /\ data' = [data EXCEPT ![f] = 0]
    /\ freeList' = Append(freeList, f)
    /\ UNCHANGED <<frameId, pinCount, dirty, lru, numAlloc, held, wrote>>

PoolStep ==
    \/ \E c \in Clients, p \in PageIds : FetchHit(c, p) \/ FetchMiss(c, p)
    \/ \E c \in Clients, h \in PageIds \X Frames :
          WriteData(c, h) \/ UnpinPage(c, h) \/ UnpinPageFails(c, h)
    \/ \E c \in Clients, fd \in Files : NewPage(c, fd) \/ NewPageAllocFails(c, fd)
    \/ \E p \in PageIds : FlushPage(p) \/ DeletePage(p)
    \/ \E fd \in Files : FlushAllPages(fd)

(***************************************************************************)
(* The recency history, the reference an LRU policy is judged by: a frame  *)
(* whose pin count drops to 0 in a step becomes the most recently unpinned *)
(* frame.  It is a history variable: no pool step reads it.                *)
(***************************************************************************)
RecordUnpins ==
    LET released == {f \in Frames : pinCount[f] > 0 /\ pinCount'[f] = 0} IN
    unpinnedBefore' =
        {pr \in unpinnedBefore : pr[1] \notin released /\ pr[2] \notin released}
        \cup {<<g, f>> : f \in released, g \in Frames \ released}

Next == PoolStep /\ RecordUnpins

Spec == Init /\ [][Next]_vars

-----------------------------------------------------------------------------
(***************************************************************************)
(* The content a reader of page p gets: the frame's bytes if page_table_   *)
(* maps p, else the disk image.  Under this mapping the pool must be a     *)
(* PageStore: no pool step changes the content of any page; only a        *)
(* holder's write does.                                                    *)
(***************************************************************************)
Mem == [p \in PageIds |-> IF Resident(p) THEN data[pageTable[p]] ELSE disk[p]]

Store == INSTANCE PageStore WITH mem <- Mem,
                                 holds <- [c \in Clients |-> HeldPages(c)]

\* Caching is invisible: fetch, unpin, eviction with write-back, flush and
\* delete never change what a later fetch_page of a page returns; only the
\* writes of a thread holding the page do (spec.md 4.1, 8: "eviction of a
\* dirty frame is always preceded by a write-back").
ImplementsPageStore == Store!Spec

\* Every frame can be used again: it is on free_list_, or page_table_ maps
\* a page to it and it is either pinned or tracked by the replacer.  A frame
\* that is none of these is lost to the pool for good (spec.md 3, 7: no
\* operation partially mutates shared state on failure).
FramesReusable ==
    \A f \in Frames :
        \/ f \in ToSet(freeList)
        \/ /\ \E p \in PageIds : pageTable[p] = f
           /\ pinCount[f] > 0 \/ f \in ToSet(lru)

\* A frame's pin count is the number of threads holding a Page* to it:
\* fetches minus unpins, never lost and never negative (spec.md 8).
PinCountMatchesHolders ==
    \A f \in Frames :
        pinCount[f] = Cardinality({c \in Clients : \E h \in held[c] : h[2] = f})

\* page_table_ and the frames' id_ agree: a page maps to a frame that
\* holds it, so no two pages share a frame and a frame is reused only
\* after its old mapping is gone (spec.md 3, page table invariant).
PageTableMatchesFrames ==
    \A p \in PageIds : Resident(p) => frameId[pageTable[p]] = p

\* A step never changes the page held by a frame that is pinned: a
\* frame with pin_count_ > 0 is never chosen as a victim (spec.md 5).
PinnedFrameKeepsPage ==
    [][\A f \in Frames : pinCount[f] > 0 => frameId'[f] = frameId[f]]_vars

\* The replacer is least-recently-used (spec.md 2): when find_victim_page
\* takes a frame out of LRUlist_ and update_page gives it a new page, that
\* frame reached pin count 0 before every other frame the replacer tracks.
EvictsLeastRecentlyUnpinned ==
    [][\A f \in ToSet(lru) :
          frameId'[f] # frameId[f] =>
              \A g \in ToSet(lru) \ {f} : <<f, g>> \in unpinnedBefore]_vars

=============================================================================
