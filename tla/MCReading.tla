------------------------------ MODULE MCReading ------------------------------
(* Reading for TLC. *)
EXTENDS Reading

AllListings == BoundedSeq({1, 9}, 8)

SecondLists == {<<>>, <<1, 9>>, <<9, 9, 9>>}

-----------------------------------------------------------------------------
(* Rows 1 to 5 are of the first endpoint, 6 and 7 of the second; 5 and 7 are    *)
(* not listed at first.  3 and 4 are of one time, 2 is not wanted.              *)
Times == <<1, 4, 3, 3, 2, 2, 1>>

Wanted == {1, 3, 4, 5, 6, 7}

Orders == { <<>>, <<4>>, <<1, 3>>, <<2, 1, 3>>, <<3, 2, 1, 4>>, <<1, 2, 3, 4>>, <<4, 2, 3, 1>> }

Listed == { <<first, second>> : first \in Orders, second \in {<<>>, <<6>>} }
=============================================================================
