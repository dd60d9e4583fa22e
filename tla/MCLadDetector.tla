----------------------------- MODULE MCLadDetector -----------------------------
(***************************************************************************)
(* The LAD application reads LAD.ini and builds its detector, or shoots    *)
(* with one of the generators of module Generators.                        *)
(***************************************************************************)
EXTENDS LadDetector

CONSTANTS LundFiles, RunLengths, MaxRuns  \* of the generators, see Generators

\* LAD.ini as it is shipped, an empty one, and one with lines the reader does not
\* know, refuses, or replaces.

Line(k, v) == [key |-> k, value |-> v]
HodoAlign(w, l, at) == [key |-> "HodoAlign", wall |-> w, layer |-> l, shift |-> at]

Angles ==
    <<Line("centralWallAngle", 127), Line("leftWallAngle", 23), Line("rightWallAngle", 23)>>
Distances ==
    <<Line("centralWallDistance", 523), Line("leftWallDistance", 92),
      Line("rightWallDistance", 92)>>
Alignment ==
    <<HodoAlign(0, 1, <<137, -72, -1389>>), HodoAlign(2, 0, <<-93, 201, -114>>),
      HodoAlign(1, 0, <<955, 214, -1478>>), HodoAlign(0, 0, <<-358, 1, -2081>>),
      HodoAlign(1, 1, <<378, 513, -1385>>)>>

MCIniFiles ==
    {<<>>, Angles \o Distances \o Alignment,
     <<Line("GeneratorCase", 3), Line("centralWallDistance", 0), HodoAlign(3, 0, <<9, 9, 9>>)>>
        \o Distances}
MCSine == 150 :> 2500 @@ 127 :> 3993 @@ 104 :> 4851
MCCosine == 150 :> -4330 @@ 127 :> -3009 @@ 104 :> -1210
MCProbed == {0, 5, 10}

------------------------------------------------------------------------------
(* LUND files that are whole, cut, missing, and with a header that           *)
(* miscounts; runs that end within a bar, beyond a wall and beyond both.     *)
Particle(name, known) == [name |-> name, known |-> known]
Record(ps) == [says |-> Len(ps), particles |-> ps]

Sample ==
    <<Record(<<Particle("e", TRUE), Particle("p", TRUE)>>), Record(<<Particle("x", FALSE), Particle("n", TRUE)>>),
      Record(<<>>), Record(<<Particle("e", TRUE), Particle("n", TRUE), Particle("p", TRUE)>>)>>
Miscounted ==
    <<Record(<<Particle("e", TRUE)>>), [says |-> 1, particles |-> <<Particle("e", TRUE), Particle("p", TRUE)>>],
      Record(<<Particle("n", TRUE)>>)>>

File(records, cut, newline) ==
    [exists |-> TRUE, records |-> records, cut |-> cut, newline |-> newline]
MCLundFiles ==
    {File(Sample, cut, newline) : cut \in 0 .. 4, newline \in BOOLEAN}
      \cup {File(SubSeq(Sample, 1, 3), 0, newline) : newline \in BOOLEAN}
      \cup {File(Miscounted, 0, TRUE), [File(<<>>, 0, TRUE) EXCEPT !.exists = FALSE]}
MCRunLengths == {3, 25, 460}

VARIABLES
    which, GeneratorCase, lund, runs, run_length, EventID, StepEventTheta,
    RadStepCounter, cur_file, held, gun, vertices, ended

g_vars == <<GeneratorCase, lund, runs, run_length, EventID, StepEventTheta,
            RadStepCounter, cur_file, held, gun, vertices, ended>>

G == INSTANCE Generators WITH beam_on <- run_length

ASSUME InputsAssumption == G!GeneratorsAssumption

MCInit ==
    \/ /\ which = "detector" /\ DetectorInit
       /\ GeneratorCase = G!OtherCase /\ lund = (CHOOSE f \in LundFiles : TRUE)
       /\ G!Init
    \/ /\ which = "generators" /\ DetectorInit /\ ini = <<>>
       /\ G!Init

MCNext ==
    \/ which = "detector" /\ DetectorNext /\ UNCHANGED <<which, g_vars>>
    \/ which = "generators" /\ G!Next /\ UNCHANGED <<which, detector_vars>>

MCSpec == MCInit /\ [][MCNext]_<<detector_vars, which, g_vars>>

------------------------------------------------------------------------------
(* An event of the scan meets the bar it is the turn of, in both layers of   *)
(* its wall, or, late in the turn of a bar, passes above it.                 *)
ScanMeetsEveryBar == G!ScanMeetsEveryBar

(* The vertices of a LUND event are the known particles of the record whose  *)
(* turn it is, and the program stops where the records end.                  *)
LundEventsAreTheirRecords == G!LundEventsAreTheirRecords
==============================================================================
