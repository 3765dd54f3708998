-------------------------- MODULE MCDiscInfoDatabase --------------------------
(***************************************************************************)
(* DiscInfoDatabase for TLC: a disc with one track and one with two which  *)
(* begins like it; their CDDB ids collide.  One entry has that id and more *)
(* titles but one offset, another looks alike and has one title.           *)
(***************************************************************************)
EXTENDS DiscInfoDatabase

MCStarts  == 0..2
MCTracks  == [d \in {"single", "album"} |-> IF d = "single" THEN <<0>> ELSE <<0, 1>>]
MCLeadout == [d \in {"single", "album"} |-> IF d = "single" THEN 1 ELSE 2]
MCDiscId  == [d \in {"single", "album"} |-> "id1"]
MCEntryId == [e \in {"e1", "e2"} |-> IF e = "e1" THEN "id1" ELSE "id2"]
MCOffsets == [e \in {"e1", "e2"} |-> IF e = "e1" THEN <<2>> ELSE << >>]
MCTitles  == [e \in {"e1", "e2"} |-> IF e = "e1" THEN 2 ELSE 1]
=============================================================================
