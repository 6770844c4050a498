---------------------------- MODULE MCBufferPool ----------------------------
(***************************************************************************)
(* Model-checking instance of BufferPool: two frames, one file of up to    *)
(* three pages (two on disk at start, one more new_page can allocate), two *)
(* threads that each hold up to two pages, so a single thread can pin the  *)
(* whole pool and two threads can share a frame.                           *)
(***************************************************************************)
EXTENDS BufferPool, TLC

CONSTANTS c1, c2, fa

MCClients == {c1, c2}
MCFiles == {fa}

\* Threads are interchangeable; frames are not (free_list_ is ordered).
MCSymmetry == Permutations(MCClients)
=============================================================================
