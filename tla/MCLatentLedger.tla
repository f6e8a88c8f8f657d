----------------------------- MODULE MCLatentLedger -----------------------------
(* An instance of LatentLedger: two reports of one verifier run, and a critique whose text *)
(* holds a line separator.                                                                 *)
EXTENDS LatentLedger, TLC

CONSTANTS report, rerun, critique

Items == {report, rerun, critique}
RefOf == [e \in Items |-> IF e = critique THEN "critique" ELSE "verifier"]

CritiqueRows ==
    {[sequence |-> n, entry |-> Entry("added", critique, NoTime)] : n \in 1 .. MaxLedger}

Reruns == Permutations({report, rerun})
=================================================================================
