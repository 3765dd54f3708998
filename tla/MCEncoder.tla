------------------------------ MODULE MCEncoder ------------------------------
(***************************************************************************)
(* Encoder for TLC: every db of 1 to 25 sectors, chunks of 4.              *)
(***************************************************************************)
EXTENDS Encoder

MCSizes == 1..25
=============================================================================
