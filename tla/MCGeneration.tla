------------------------------ MODULE MCGeneration ------------------------------
EXTENDS Generation

MCNiches == [c \in Cands |-> CASE c = 1 -> {"m"} [] c = 2 -> {"n"} [] OTHER -> {"m", "n"}]
MCCell == [c \in Cands |-> IF c = 2 THEN "p" ELSE "q"]
MCBin == [c \in Cands |-> "b"]
MCGroup == [c \in Cands |-> "g"]
MCFinal == [c \in Cands |-> IF c = 3 THEN 0 ELSE 1]
MCQuality == [c \in Cands |-> IF c = 1 THEN 2 ELSE 1]
MCScore == [c \in Cands |-> IF c = 3 THEN 2 ELSE 1]
MCUncertainty == [c \in Cands |-> c % 2]
MCValue == [c \in Cands |-> 1]
MCConfidence == [c \in Cands |-> IF c = 2 THEN 1 ELSE 0]
MCAxes == [c \in Cands |-> IF c = 3 THEN {} ELSE {"axis"}]
MCRoot == [c \in Cands |-> c % 2]
=============================================================================
