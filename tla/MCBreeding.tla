------------------------------ MODULE MCBreeding ------------------------------
(* Five texts: 1 and 2 mean the same, 3 and 4 materialise one artifact, 5     *)
(* is like none of them; 2 is too far from the objective to count for the     *)
(* target of the seeding.                                                     *)
EXTENDS Breeding

MCMeaning == <<1, 1, 3, 4, 5>>
MCArtifact == <<0, 0, 1, 1, 0>>
MCSeedAnswers == {<<>>, <<2>>, <<1, 3>>}
MCRestarting == {{}, {1}}
=============================================================================
