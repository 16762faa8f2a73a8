---------------------------- MODULE MCFlatBuild ----------------------------
(* A model-checking instance of FlatBuild. *)
EXTENDS FlatBuild, TLC

MCIds == 0..4
MCScores == 0..2
MCNumber == "0" :> 0 @@ "2" :> 2
MCExpected == {{}, {1}}
=============================================================================
