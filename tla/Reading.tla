------------------------------- MODULE Reading -------------------------------
(***************************************************************************)
(* The two ways in which an agent reads the listings of a tenant: it pages *)
(* through a catalog tool itself (Listing), or calls a composite that      *)
(* walks the pages for it (PageWalk).  A behaviour is one or the other.    *)
(***************************************************************************)
EXTENDS Listing, PageWalk

readingVars == <<vars, walkVars>>

(* No catalog tool is called. *)
NoListing ==
  /\ rows = <<>> /\ other = <<>>
  /\ answer = Uncapped(EmptyPage)
  /\ start = 0 /\ end = 0
  /\ limit = {} /\ seen = {}
  /\ status = "done"

ReadingInit ==
  \/ Init /\ NoWalk
  \/ NoListing /\ WalkInit

ReadingNext ==
  \/ Next /\ UNCHANGED walkVars
  \/ WalkNext /\ UNCHANGED vars

(* The agent may stop paging at any time; a composite runs on its own: each of  *)
(* its requests ends (Transport: Terminates), with a page unless it fails.  It  *)
(* can fail twice at most, and a page that is no object ends the walk, so that  *)
(* a walk which goes on is given one page after another.                        *)
ReadingSpec ==
  /\ ReadingInit /\ [][ReadingNext]_readingVars
  /\ WF_readingVars((DetectionsPage \/ SearchPage) /\ UNCHANGED vars)
=============================================================================
