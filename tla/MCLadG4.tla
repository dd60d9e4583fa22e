------------------------------- MODULE MCLadG4 -------------------------------
(* One worker as lad_g4.csh runs it, and two.                                *)
EXTENDS LadG4
CONSTANTS w1, w2
MCOneWorker == {w1}
MCTwoWorkers == {w1, w2}
==============================================================================
