------------------------------ MODULE MCListing ------------------------------
(* Listing for TLC. *)
EXTENDS Listing

AllListings == BoundedSeq({1, 9}, 8)

SecondLists == {<<>>, <<1, 9>>, <<9, 9, 9>>}
=============================================================================
