----------------------------- MODULE Montecarlo -----------------------------
(***************************************************************************)
(* SimcDis with the verdict on an event spelled out: between generate_dis  *)
(* and the n-tuple, subroutine montecarlo takes the recoil (P) arm and     *)
(* then the electron (E) arm through their spectrometers, HMS and SHMS,    *)
(* each a cascade of apertures and detectors that count the particles they *)
(* stop, and results_ntu_write sorts what was reconstructed into the       *)
(* columns of the two spectrometers.  TransportSpec implements the Spec of *)
(* SimcDis: its variables are kept, and what happens within montecarlo     *)
(* leaves them alone.                                                      *)
(*                                                                         *)
(* Optics and apertures are real arithmetic: whether a plane stops the     *)
(* particle is left open, everything else follows the code.  A quantity    *)
(* is abstracted to the line of the dat file it was computed from, 0 for   *)
(* one never computed: recon, main and the counters are common to all the  *)
(* events of a run.  The pion collimators, the sieves, the target field    *)
(* and raster are off in DIS mode, and so is skip_hb.                      *)
(***************************************************************************)
EXTENDS SimcDis

VARIABLES
    spect_mode,     \* 0: both arms are transported, the codes -2, -1, 1 switch arms off
    electron_arm,   \* the spectrometer of the electron; the recoil has the other
    stage,          \* of the event being simulated: main -> arm (p, e),
                    \* spectrometer within -> complete -> main
    side,           \* the arm montecarlo is at, "p" or "e"
    success,        \* the logical of that name
    plane,          \* place in the cascade of the particle under way
    STOP,           \* hSTOP_... and shmsSTOP_..., a record of counters per spectrometer
    recon,          \* per arm, the line whose delta, yptar and xptar recon (and
                    \* main%RECON) holds
    ytar,           \* per arm, the line whose z they hold, the column ytar
    FP,             \* per arm, the line whose track main%FP holds
    columns         \* the columns of the rows written that results_ntu_write sorts

modes == <<spect_mode, electron_arm>>
tracks == <<recon, ytar, FP>>
transport == <<spect_mode, electron_arm, stage, side, success, plane, STOP, recon, ytar, FP, columns>>

Side == {"p", "e"}
Arm == {"HMS", "SHMS"}

------------------------------------------------------------------------------
(* The planes of a cascade, in the order a particle meets them, named for    *)
(* the counter of the particles they stop.  Some share a counter.            *)
HMSSlits == <<"slit_hor", "slit_vert", "slit_oct", "slit_hor", "slit_vert", "slit_oct">>
HMSQuads == <<"Q1_in", "Q1_mid", "Q1_out", "Q2_in", "Q2_mid", "Q2_out",
              "Q3_in", "Q3_mid", "Q3_out">>
HMSDipole == <<"D1_in", "D1_out", "D1_out", "D1_out", "D1_out", "D1_out">>
HMSChambers == <<"dc1", "dc2">>
HMSScintillators == <<"scin">>

SHMSBender == <<"HB_in", "HB_men", "HB_mex", "HB_out">>
SHMSSlits == <<"slit_hor", "slit_vert", "slit_oct", "slit_hor", "slit_vert", "slit_oct">>
SHMSQ1 == <<"Q1_in", "Q1_men", "Q1_mid", "Q1_mex", "Q1_out">>
SHMSQ2 == <<"Q2_in", "Q2_men", "Q2_mid", "Q2_mex", "Q2_out">>
SHMSQ3 == <<"Q3_in", "Q3_men", "Q3_mid", "Q3_mex", "Q3_out">>
SHMSDipoleFront == <<"D1_in", "D1_flr", "D1_men", "D1_mid1", "D1_mid2", "D1_mid3">>
SHMSDipoleBack == <<"D1_mid4", "D1_mid5", "D1_mid6", "D1_mid7", "D1_mex", "D1_out">>
SHMSChambers == <<"dc1", "dc2">>
SHMSScintillators == <<"s1", "s1", "s3", "s2">>
SHMSCalorimeter == <<"cal", "cal">>     \* the end of the particle, that of its fitted track

(* The magnets come before the detector hut, whose "plane" stops nothing: it *)
(* counts the arrivals.                                                      *)
Magnets(arm) ==
    IF arm = "HMS" THEN HMSSlits \o HMSQuads \o HMSDipole
    ELSE SHMSBender \o SHMSSlits \o SHMSQ1 \o SHMSQ2 \o SHMSQ3
            \o SHMSDipoleFront \o SHMSDipoleBack
Detectors(arm) ==
    IF arm = "HMS" THEN HMSChambers \o HMSScintillators
    ELSE SHMSChambers \o SHMSScintillators \o SHMSCalorimeter
Cascade == [arm \in Arm |-> Magnets(arm) \o <<"hut">> \o Detectors(arm)]

NamesOf(s) == {s[i] : i \in DOMAIN s}
Counter == [arm \in Arm |-> NamesOf(Cascade[arm]) \cup {"trials", "successes"}]

------------------------------------------------------------------------------
HadronArm == IF electron_arm = "HMS" THEN "SHMS" ELSE "HMS"
ArmOf(s) == IF s = "e" THEN electron_arm ELSE HadronArm

(* using_E_arm_montecarlo and using_P_arm_montecarlo.                        *)
Transported(s) == IF s = "e" THEN spect_mode \notin {"1", "-1"}
                  ELSE spect_mode \notin {"1", "-2"}

Count(arm, name) == STOP' = [STOP EXCEPT ![arm][name] = @ + 1]

TransportInit ==
    /\ Init
    /\ spect_mode \in {"0", "1", "-1", "-2"}
    /\ electron_arm \in Arm
    /\ stage = "main" /\ side = "p"
    /\ success = FALSE
    /\ plane = 0
    /\ STOP = [arm \in Arm |-> [name \in Counter[arm] |-> 0]]
    /\ recon = [s \in Side |-> 0] /\ ytar = [s \in Side |-> 0] /\ FP = [s \in Side |-> 0]
    /\ columns = <<>>

(* generate_dis returns with success set, and montecarlo clears it at once.  *)
EntrySuccess_AsGenerated == TRUE
EntrySuccess == FALSE

CallMontecarlo ==
    /\ pc = "simulate" /\ stage = "main"
    /\ success' = EntrySuccess
    /\ side' = "p"
    /\ stage' = "arm"
    /\ UNCHANGED <<vars, modes, plane, STOP, tracks, columns>>

(* The arm is done: its track goes to recon; after the E arm, "made it".     *)
LeaveArm ==
    /\ recon' = [recon EXCEPT ![side] = vertex[side]]
    /\ side' = "e"
    /\ IF side = "p" THEN stage' = "arm" /\ UNCHANGED success
       ELSE stage' = "complete" /\ success' = TRUE

(* CASE 2 of an arm: delta, yptar and xptar are copied from the generated    *)
(* track, z and the focal plane are not set.                                 *)
CopyThrough ==
    /\ stage = "arm"
    /\ ~Transported(side)
    /\ LeaveArm
    /\ UNCHANGED <<vars, modes, plane, STOP, ytar, FP, columns>>

(* CASE 1: mc_hms or mc_shms is called with the particle of this arm.        *)
EnterSpectrometer ==
    /\ stage = "arm"
    /\ Transported(side)
    /\ Count(ArmOf(side), "trials")
    /\ plane' = 1
    /\ stage' = "spectrometer"
    /\ UNCHANGED <<vars, modes, side, success, tracks, columns>>

AtPlane == stage = "spectrometer" /\ plane \in DOMAIN Cascade[ArmOf(side)]
ThisPlane == Cascade[ArmOf(side)][plane]

PassPlane ==
    /\ AtPlane
    /\ IF ThisPlane = "hut" THEN Count(ArmOf(side), "hut") ELSE UNCHANGED STOP
    /\ plane' = plane + 1
    /\ UNCHANGED <<vars, modes, stage, side, success, tracks, columns>>

(* A particle that hits a plane is counted there and goes no further, the    *)
(* detectors of the SHMS included while use_det_cut is set.                  *)
StopsHere_NoDetectorCut(arm, at) == arm = "SHMS" => at <= Len(Magnets(arm))
StopsHere(arm, at) == TRUE

StopAtPlane ==
    /\ AtPlane
    /\ ThisPlane # "hut"
    /\ Count(ArmOf(side), ThisPlane)
    /\ IF StopsHere(ArmOf(side), plane) THEN stage' = "complete" /\ UNCHANGED plane
       ELSE plane' = plane + 1 /\ UNCHANGED stage
    /\ UNCHANGED <<vars, modes, side, success, tracks, columns>>

(* Past the last plane: the target quantities are reconstructed.             *)
LeaveSpectrometer ==
    /\ stage = "spectrometer"
    /\ plane = Len(Cascade[ArmOf(side)]) + 1
    /\ Count(ArmOf(side), "successes")
    /\ ytar' = [ytar EXCEPT ![side] = vertex[side]]
    /\ FP' = [FP EXCEPT ![side] = vertex[side]]
    /\ LeaveArm
    /\ plane' = 0
    /\ UNCHANGED <<vars, modes, columns>>

(* The first twelve columns are those of the spectrometer on the right of    *)
(* the beam, the HMS, whatever it detects, the next twelve those of the SHMS.*)
SideOfColumns_ElectronFirst(arm) == IF arm = "HMS" THEN "e" ELSE "p"
SideOfColumns(arm) == IF arm = electron_arm THEN "e" ELSE "p"

NtuColumns ==
    [arm \in Arm |-> LET s == SideOfColumns(arm)
                     IN [of |-> ArmOf(s), recon |-> recon[s], ytar |-> ytar[s], fp |-> FP[s]]]

(* complete_recon_ev, complete_main and the hard cuts may still refuse an    *)
(* event that made it; nothing accepts one that did not.                     *)
Complete(refused, pass_cuts) ==
    /\ stage = "complete"
    /\ Simulate(success /\ ~refused, pass_cuts)
    /\ success' = (success /\ ~refused /\ (hard_cuts = 1 => pass_cuts))
    /\ columns' = IF success' THEN Append(columns, NtuColumns) ELSE columns
    /\ stage' = "main"
    /\ plane' = 0
    /\ UNCHANGED <<modes, side, STOP, tracks>>

(* The rest of the event loop, which calls none of this.                     *)
LoopStep ==
    /\ BeginAttempt \/ ReadLine \/ EndOfFile \/ Finish \/ Terminated
    /\ UNCHANGED transport

TransportNext ==
    \/ LoopStep
    \/ CallMontecarlo
    \/ CopyThrough
    \/ EnterSpectrometer
    \/ PassPlane
    \/ StopAtPlane
    \/ LeaveSpectrometer
    \/ \E refused, pass_cuts \in BOOLEAN : Complete(refused, pass_cuts)

TransportSpec == TransportInit /\ [][TransportNext]_<<vars, transport>>

------------------------------------------------------------------------------
Columns == [of : Arm, recon : Nat, ytar : Nat, fp : Nat]

(* The state is well formed, and a track comes from a line read already.     *)
TransportTypeOK ==
    /\ spect_mode \in {"0", "1", "-1", "-2"} /\ electron_arm \in Arm
    /\ stage \in {"main", "arm", "spectrometer", "complete"}
    /\ side \in Side
    /\ success \in BOOLEAN
    /\ plane \in Nat
    /\ DOMAIN STOP = Arm /\ \A arm \in Arm : STOP[arm] \in [Counter[arm] -> Nat]
    /\ recon \in [Side -> 0 .. lineno] /\ FP \in [Side -> 0 .. lineno]
    /\ ytar \in [Side -> 0 .. lineno]
    /\ columns \in Seq([Arm -> Columns])

(* The sum of some counters, as the number of the particles they counted: the*)
(* n-th that counter name counted is <<name, n>>.                            *)
Counted(stops, names) == UNION {{name} \X (1 .. stops[name]) : name \in names}
Total(arm, names) == Cardinality(Counted(STOP[arm], names))

EndsPastHut(arm) == NamesOf(Detectors(arm)) \cup {"successes"}
InSpectrometer(arm) == stage = "spectrometer" /\ ArmOf(side) = arm
PastHut(arm) == InSpectrometer(arm) /\ plane > Len(Magnets(arm)) + 1

(* The counters of a spectrometer account for every particle sent into it:   *)
(* one is stopped at a single plane, succeeds, or is under way; and those    *)
(* that reached the hut were stopped in it, succeeded, or are in it now.     *)
StopsAccountForTrials ==
    \A arm \in Arm :
        /\ STOP[arm]["trials"] =
               Total(arm, EndsPastHut(arm) \cup NamesOf(Magnets(arm)))
               + (IF InSpectrometer(arm) THEN 1 ELSE 0)
        /\ STOP[arm]["hut"] =
               Total(arm, EndsPastHut(arm)) + (IF PastHut(arm) THEN 1 ELSE 0)

(* Although recon and main outlive an event, and an event that fails in the  *)
(* E arm leaves its recoil in them, a row holds, in the columns of each      *)
(* spectrometer, the track through it of the very line of the dat file whose *)
(* id it has.  Of an arm that is not transported that is delta, yptar and    *)
(* xptar only: ytar and the focal plane were never filled, and no row shows  *)
(* those of another event in their place.                                    *)
RowsReconstructOwnEvent ==
    /\ Len(columns) = Len(ntuple)
    /\ \A i \in DOMAIN ntuple :
          \A arm \in Arm :
              LET s == IF arm = electron_arm THEN "e" ELSE "p"
                  id == ntuple[i].event_id
                  through == IF Transported(s) THEN id ELSE 0
              IN  columns[i][arm] = [of |-> arm, recon |-> id, ytar |-> through, fp |-> through]
==============================================================================
