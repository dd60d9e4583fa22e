---------------------------- MODULE MCDisWorkflow ----------------------------
(* Runs of the script as model values, interchangeable among each other.     *)
EXTENDS DisWorkflow, TLC
CONSTANTS r1, r2
MCOneRun == {r1}
MCTwoRuns == {r1, r2}
==============================================================================
