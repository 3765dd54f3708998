---------------------------- MODULE MCCddaWorker ----------------------------
(***************************************************************************)
(* Small instances of CddaWorker for TLC.  Contents are their own CRC.     *)
(***************************************************************************)
EXTENDS CddaWorker

MCData  == {"A", "B", "zeros"}
MCCrc   == [d \in MCData |-> d]
BothDiscs   == [d \in {"A", "B"} |-> IF d = "A" THEN 3 ELSE 1]
=============================================================================
