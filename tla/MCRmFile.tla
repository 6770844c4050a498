------------------------------ MODULE MCRmFile ------------------------------
(***************************************************************************)
(* Model-checking instance of RmFile: two slots per page, so a page can be *)
(* full, half full and empty; up to three record pages, so the free-page   *)
(* list can hold two pages and a scan crosses pages.                       *)
(***************************************************************************)
EXTENDS RmFile, TLC

\* RM_NO_PAGE of rm_defs.h.
MCNoPage == -1
=============================================================================
