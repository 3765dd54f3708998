------------------------------- MODULE MCImages -------------------------------
(***************************************************************************)
(* The two programs that copy audio from one image to another, for TLC:    *)
(* Encoder with every db of 1 to 25 sectors in chunks of 4, and nrg2dts    *)
(* with images of one or two sessions of up to three tracks.  One process  *)
(* is one of them: the other stays in its initial state.                   *)
(***************************************************************************)
EXTENDS Encoder, Nrg

VARIABLE program

MCSizes   == 1..25
MCLayouts == LET Session == UNION {[1..n -> 1..2] : n \in 1..3}
             IN  {<<s>> : s \in Session} \cup {<<s, t>> : s, t \in {x \in Session : Len(x) < 3}}

MCInit ==
  /\ program \in {"encoder", "nrg2dts"}
  /\ Init /\ NrgInit
  /\ program = "encoder" => disc = Burnt([version |-> "none", layout |-> << <<1>> >>, packs |-> 0])
  /\ program = "nrg2dts" => lbasize = 1

MCNext ==
  \/ program = "encoder" /\ Next /\ UNCHANGED <<program, nrgVars>>
  \/ program = "nrg2dts" /\ NrgNext /\ UNCHANGED <<program, vars>>

MCSpec == MCInit /\ [][MCNext]_<<program, vars, nrgVars>>
=============================================================================
