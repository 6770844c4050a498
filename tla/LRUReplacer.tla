---------------------------- MODULE LRUReplacer ----------------------------
(***************************************************************************)
(* The LRU replacement policy of src/replacer/lru_replacer.cpp.            *)
(*                                                                         *)
(* LRUlist_ is the sequence lru: lru[1] is the list's front, where unpin   *)
(* pushes the most recently unpinned frame, and Last(lru) is its back,     *)
(* which victim() takes.  LRUhash_ always holds exactly the elements of    *)
(* LRUlist_, so it is not a separate variable: lookups in it are           *)
(* membership in the list.  The pool calls the replacer while holding its  *)
(* own latch, so every replacer call is one atomic step of the pool; the   *)
(* pool therefore uses the value operators (PinList, UnpinList, ...) and   *)
(* the actions below describe the replacer on its own.                     *)
(***************************************************************************)
LOCAL INSTANCE Naturals
LOCAL INSTANCE Sequences
LOCAL INSTANCE SequencesExt

CONSTANTS
    Frames,     \* frame ids handed to the replacer
    MaxSize     \* max_size_, the pool size given to the constructor

VARIABLE lru

\* victim(): the list is non-empty; the frame at its back is evicted.
HasVictim(l) == l # <<>>
\* Mutant: the search starts at the front of the list (begin(), not rbegin()).
VictimOfFront(l) == Head(l)

VictimOf(l) == Last(l)

\* LRUhash_.erase(*it); LRUlist_.remove(*it): every node of that frame.
AfterVictim(l) == Remove(l, VictimOf(l))

\* pin(): remove the frame if it is tracked, otherwise nothing.
PinList(l, f) == Remove(l, f)

\* unpin(): push the frame at the front if it is not tracked and the list
\* is below capacity, otherwise nothing.
UnpinList(l, f) ==
    IF f \notin ToSet(l) /\ Len(l) < MaxSize THEN <<f>> \o l ELSE l

Init == lru = <<>>

Victim == HasVictim(lru) /\ lru' = AfterVictim(lru)

Pin(f) == lru' = PinList(lru, f)

Unpin(f) == lru' = UnpinList(lru, f)

Next == Victim \/ \E f \in Frames : Pin(f) \/ Unpin(f)

Spec == Init /\ [][Next]_lru
=============================================================================
