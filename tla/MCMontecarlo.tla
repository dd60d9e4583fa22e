---------------------------- MODULE MCMontecarlo ----------------------------
(* Both assignments of the spectrometers to the arms, and every spect_mode,  *)
(* for every dat file and ngen within the bounds.                            *)
EXTENDS Montecarlo
==============================================================================
