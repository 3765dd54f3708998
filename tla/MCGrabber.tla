------------------------------ MODULE MCGrabber ------------------------------
(***************************************************************************)
(* Small instances of Grabber for TLC: two discs without a name, of two    *)
(* sectors and of one.                                                     *)
(***************************************************************************)
EXTENDS Grabber

MCData  == {"zeros", "music"}
MCCrc   == [d \in MCData |-> IF d = "zeros" THEN 0 ELSE 1]
MCDiscs == {"disc", "single"}
MCSizes == [r \in MCDiscs |-> IF r = "disc" THEN 2 ELSE 1]
=============================================================================
