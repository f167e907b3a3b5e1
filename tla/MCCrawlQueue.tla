---------------------------- MODULE MCCrawlQueue ----------------------------
(***************************************************************************)
(* Two pages that link to each other.  The queue has room for the root and *)
(* for every link once, so that it never fills up without a crash and      *)
(* without a page from another gossiper.                                   *)
(***************************************************************************)
EXTENDS CrawlQueue

CONSTANTS r, x

Web == [u \in Url |-> Url \ {u}]
=============================================================================
