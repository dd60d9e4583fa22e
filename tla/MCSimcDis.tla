------------------------------ MODULE MCSimcDis ------------------------------
(* Model-checking instance of SimcDis: every dat file of up to MaxLines      *)
(* lines and every ngen from -MaxGen to MaxGen.                              *)
EXTENDS SimcDis
==============================================================================
