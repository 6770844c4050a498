----------------------------- MODULE PageStore -----------------------------
(***************************************************************************)
(* What the buffer pool promises its callers (spec.md 3, 4.1): a store of  *)
(* pages in which a page's content changes only when a caller that holds  *)
(* the page (between a successful fetch_page/new_page and its unpin_page)  *)
(* writes it.  Caching, eviction, write-back, flushing and deleting pages  *)
(* from the pool are invisible: they are stuttering steps of this module.  *)
(* A content is a version number: a write produces the next version.       *)
(***************************************************************************)
EXTENDS Naturals

CONSTANTS
    Clients,     \* threads calling into the pool
    PageIds,     \* (fd, page_no) pairs
    MaxVersion   \* bound on the number of writes to one page

VARIABLES
    mem,         \* mem[p]: the content a reader of page p must see
    holds        \* holds[c]: the pages client c currently has pinned

vars == <<mem, holds>>

Versions == 0..MaxVersion

TypeOK ==
    /\ mem \in [PageIds -> Versions]
    /\ holds \in [Clients -> SUBSET PageIds]

Init ==
    /\ mem = [p \in PageIds |-> 0]
    /\ holds = [c \in Clients |-> {}]

Acquire(c, p) ==
    /\ p \notin holds[c]
    /\ holds' = [holds EXCEPT ![c] = @ \cup {p}]
    /\ UNCHANGED mem

Release(c, p) ==
    /\ p \in holds[c]
    /\ holds' = [holds EXCEPT ![c] = @ \ {p}]
    /\ UNCHANGED mem

Write(c, p) ==
    /\ p \in holds[c]
    /\ mem[p] < MaxVersion
    /\ mem' = [mem EXCEPT ![p] = @ + 1]
    /\ UNCHANGED holds

Next == \E c \in Clients, p \in PageIds :
            Acquire(c, p) \/ Release(c, p) \/ Write(c, p)

Spec == Init /\ [][Next]_vars
=============================================================================
