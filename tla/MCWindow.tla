------------------------------- MODULE MCWindow -------------------------------
(***************************************************************************)
(* A small instance of Window for TLC: two devices, one disc.              *)
(***************************************************************************)
EXTENDS Window

MCData   == {"A", "zeros"}
MCCrc    == [d \in MCData |-> d]
MCSizes  == [d \in {"A"} |-> 2]
MCTracks == [t \in {"A", "untagged"} |-> IF t = "A" THEN 2 ELSE 0]
=============================================================================
