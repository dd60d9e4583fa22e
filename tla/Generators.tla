------------------------------- MODULE Generators -------------------------------
(***************************************************************************)
(* The other event generators of the LAD application                       *)
(* (LADPrimaryGeneratorAction): the scan of the hodoscope, the raster and  *)
(* the reader of LUND files (LADLUNDReader), for one worker, the MultiTh   *)
(* of LAD.ini.  One step is one event of a run, with its clean-up.         *)
(*                                                                         *)
(* A LUND file is a sequence of records, a header that says how many       *)
(* particles follow and the particles, of which the last `cut' lines may   *)
(* be missing, and the end of the last line.  A direction of the scan      *)
(* is the wall it is taken around, its distance from the middle of the     *)
(* wall in steps of ThetaStep and its height in twentieths of PhiMax.  An  *)
(* operator X_Mistake is X with a plausible mistake.                       *)
(***************************************************************************)
EXTENDS Integers, Sequences, SequencesExt

CONSTANTS
    LundFiles,      \* the files to try: [exists, records, cut, newline]
    RunLengths,     \* events of a run (/run/beamOn)
    MaxRuns         \* bound on the runs of the program

Particle == [name : STRING, known : BOOLEAN]
GeneratorsAssumption ==
    /\ LundFiles \subseteq [exists : BOOLEAN, cut : Nat, newline : BOOLEAN,
                            records : Seq([says : Nat, particles : Seq(Particle)])]
    /\ RunLengths \subseteq Nat /\ MaxRuns \in Nat

VARIABLES
    GeneratorCase,  \* of LAD.ini
    lund,           \* the LUND file in the directory
    runs,           \* runs begun
    beam_on,        \* events of the current run
    EventID,        \* current event of the run, -1 before the first
    StepEventTheta, RadStepCounter,
    cur_file,       \* the stream of the reader: [ahead, eof, fail, line]
    held,           \* particles in the reader's vectors
    gun,            \* what fParticleGun aims at
    vertices,       \* primary vertices of the current event
    ended           \* "no", or how the program ended

vars == <<GeneratorCase, lund, runs, beam_on, EventID, StepEventTheta, RadStepCounter,
          cur_file, held, gun, vertices, ended>>

ScanCase == 0
RasterCase == 1
LundCase == 2
OtherCase == 4

------------------------------------------------------------------------------
(* The scan: 20 directions upwards per bar, 11 bars per wall, two walls; it  *)
(* starts five steps to one side of the middle of the wall.                  *)
WhichWall(e) == (e \div 220) % 2

NextTheta_OneLate(e, s) == IF e % 20 = 0 /\ e > 0 THEN s + 1 ELSE s
NextTheta(e, s) == IF e % 20 = 19 THEN s + 1 ELSE s

ScanLAD(e) ==
    LET step == IF e % 220 = 0 THEN 0 ELSE StepEventTheta
    IN  /\ gun' = [wall |-> WhichWall(e), theta |-> step - 5, phi |-> e % 20]
        /\ vertices' = <<gun'>>
        /\ StepEventTheta' = NextTheta(e, step)
        /\ UNCHANGED <<RadStepCounter, cur_file, held, ended>>

(* The raster: 36 points per circle, circles from 24 mm inwards.  It shoots  *)
(* nothing.                                                                  *)
Raster(e) ==
    /\ RadStepCounter' = IF e % 36 # 0 THEN RadStepCounter ELSE (RadStepCounter + 1) % 25
    /\ gun' = [radius |-> 25 - RadStepCounter', angle |-> 10 * (e % 36)]
    /\ vertices' = <<>>
    /\ UNCHANGED <<StepEventTheta, cur_file, held, ended>>

(* The default case aims too, and shoots nothing; (150 - 123) / 10 is 2.     *)
DefaultCase(e) ==
    /\ gun' = [angle |-> 123 + ((150 - 123) \div 10) * (e % 10)]
    /\ vertices' = <<>>
    /\ UNCHANGED <<StepEventTheta, RadStepCounter, cur_file, held, ended>>

------------------------------------------------------------------------------
(* LADLUNDReader.  One getline(): a stream that is not good leaves the       *)
(* string as it was.                                                         *)
Header(n) == [first |-> n, columns |-> 10, particle |-> "none"]
Lines(r) ==
    <<Header(r.says)>>
      \o [k \in 1 .. Len(r.particles) |->
              [first |-> k, columns |-> 14, particle |-> r.particles[k]]]
LinesOf(f) ==
    LET all == FlattenSeq([k \in 1 .. Len(f.records) |-> Lines(f.records[k])])
    IN  SubSeq(all, 1, Len(all) - f.cut)

Blank == [first |-> -1, columns |-> 0, particle |-> "none"]
GetLine(s) ==
    IF s.eof \/ s.fail THEN [s EXCEPT !.fail = TRUE]
    ELSE IF s.ahead = <<>> THEN [s EXCEPT !.eof = TRUE, !.fail = TRUE, !.line = Blank]
    ELSE [s EXCEPT !.line = Head(s.ahead), !.ahead = Tail(@),
                   !.eof = Len(s.ahead) = 1 /\ ~lund.newline]

(* OpenFile does not look whether the file is there.                         *)
OpenFile ==
    [ahead |-> IF lund.exists THEN LinesOf(lund) ELSE <<>>, eof |-> FALSE,
     fail |-> ~lund.exists, line |-> Blank]

Clear_Forgotten(v) == v
Clear(v) == <<>>

(* As many lines as the header announces, each split into its columns; the   *)
(* string is reused.                                                         *)
ReadParticles(stream, n) ==
    LET read[k \in 0 .. n] ==
            IF k = 0 THEN [s |-> stream, got |-> Clear(held)]
            ELSE LET next == GetLine(read[k - 1].s)
                 IN  [s |-> next, got |-> Append(read[k - 1].got, next.line)]
    IN  read[n]

Known(p) == p.known

(* ReadFile and LUND: a vertex for every particle of the next record that    *)
(* Geant4 knows.  The program exits at the end of the file, and dies of a    *)
(* header that is no number (stoi) or a line that is too short (at).         *)
LUND ==
    LET header == GetLine([cur_file EXCEPT !.line = Blank])
        isRecord == ~header.eof /\ header.line.first # -1
        r == ReadParticles([header EXCEPT !.line = Blank], header.line.first)
        tooShort == \E k \in 1 .. Len(r.got) : r.got[k].columns < 14
    IN  /\ ended' = IF header.eof THEN "exit"
                    ELSE IF ~isRecord THEN "invalid_argument"
                    ELSE IF tooShort THEN "out_of_range" ELSE "no"
        /\ vertices' = IF ended' # "no" THEN <<>>
                       ELSE SelectSeq([k \in 1 .. Len(r.got) |-> r.got[k].particle], Known)
        /\ held' = IF isRecord THEN Clear(r.got) ELSE Clear(held)
        /\ cur_file' = IF isRecord THEN r.s ELSE header
        /\ UNCHANGED <<gun, StepEventTheta, RadStepCounter>>

------------------------------------------------------------------------------
Init ==
    /\ GeneratorCase \in {ScanCase, RasterCase, LundCase, OtherCase}
    /\ lund \in LundFiles
    /\ runs = 0 /\ beam_on = 0 /\ EventID = -1
    /\ StepEventTheta = 0 /\ RadStepCounter = 0
    /\ cur_file = [ahead |-> <<>>, eof |-> FALSE, fail |-> TRUE, line |-> Blank]
    /\ held = <<>> /\ vertices = <<>> /\ gun = <<>>
    /\ ended = "no"

(* BeginOfRunAction, once the run before it is over: the reader opens its    *)
(* file (anew), the counters of the generators stay.                         *)
BeginOfRunAction ==
    /\ ended = "no" /\ EventID + 1 >= beam_on
    /\ runs < MaxRuns
    /\ runs' = runs + 1
    /\ beam_on' \in RunLengths
    /\ EventID' = -1
    /\ vertices' = <<>> /\ gun' = <<>>
    /\ cur_file' = IF GeneratorCase = LundCase THEN OpenFile ELSE cur_file
    /\ UNCHANGED <<GeneratorCase, lund, StepEventTheta, RadStepCounter, held, ended>>

GeneratePrimaries ==
    /\ ended = "no" /\ EventID + 1 < beam_on
    /\ EventID' = EventID + 1
    /\ \/ GeneratorCase = ScanCase /\ ScanLAD(EventID + 1)
       \/ GeneratorCase = RasterCase /\ Raster(EventID + 1)
       \/ GeneratorCase = LundCase /\ LUND
       \/ GeneratorCase = OtherCase /\ DefaultCase(EventID + 1)
    /\ UNCHANGED <<GeneratorCase, lund, runs, beam_on>>

Next == BeginOfRunAction \/ GeneratePrimaries

Spec == Init /\ [][Next]_vars

------------------------------------------------------------------------------
(* Where a direction of the scan meets the layers of its wall, in tenths of  *)
(* a millimetre from the middle of the wall.                                 *)
WallDist(w) == IF w = 0 THEN 52300 ELSE 52300 + 9200
WallSeparation == 4060
BarWidth == 2200
Pitch == 2206

TanScale == 30000
Tangent(w, steps) ==
    LET t == (BarWidth * TanScale) \div WallDist(w)
        tan[k \in 0 .. 6] ==
            IF k = 0 THEN 0
            ELSE ((tan[k - 1] + t) * TanScale)
                     \div (TanScale - (tan[k - 1] * t) \div TanScale)
    IN  IF steps < 0 THEN 0 - tan[0 - steps] ELSE tan[steps]

DistanceTo(w, layer) == WallDist(w) + layer * WallSeparation
Across(w, layer, steps) == (DistanceTo(w, layer) * Tangent(w, steps)) \div TanScale
BarAt(pp) == (5 - pp) * Pitch + 5

(* The tangents of 0, 1, ..., 19 twentieths of PhiMax, the angle of the end  *)
(* of the longest bar straight ahead in the second layer of the nearest      *)
(* wall, and how far up it takes a ray on its way to a layer; both rounded   *)
(* upwards: sqrt(d^2 + a^2) <= d + a^2 / 2d.                                 *)
PhiTangent == <<0, 565, 1129, 1695, 2261, 2829, 3400, 3972, 4548, 5127, 5709, 6296,
                6887, 7484, 8086, 8694, 9309, 9931, 10561, 11199>>
Reach(w, layer, steps) ==
    LET d == DistanceTo(w, layer)  a == Across(w, layer, steps)
    IN  d + (a * a) \div (2 * d) + 1
Up(w, layer, direction) ==
    (Reach(w, layer, direction.theta) * PhiTangent[direction.phi + 1]) \div TanScale + 1

Barlength == <<3875, 3933, 3990, 4048, 4105, 4163, 4220, 4278, 4336, 4393, 4451>>
HalfLength(pp) == 5 * Barlength[pp + 1]

(* Event e of a scan, in whichever run, meets the bar it is the turn of in   *)
(* both layers of its wall: 20 events per bar, the bars from 10 down to 0,   *)
(* 220 events per wall.  The directions are equal steps of an angle, the     *)
(* bars equal steps of a length, and the steps count on from event to event. *)
(* One PhiMax serves the bars of all lengths and distances: the last 2 of    *)
(* the 20 events may pass over the end of a bar of the near wall, the last 4 *)
(* over that of one of the far wall, and are only claimed to be above it.    *)
OntoTheBar(w) == IF w = 0 THEN 18 ELSE 16
ScanMeetsEveryBar ==
    GeneratorCase = ScanCase /\ EventID >= 0 =>
        LET pp == 10 - (EventID % 220) \div 20
        IN  \A layer \in 0 .. 1 :
               LET off == Across(gun.wall, layer, gun.theta) - BarAt(pp)
               IN  /\ off \in 0 - BarWidth \div 2 .. BarWidth \div 2
                   /\ EventID % 20 < OntoTheBar(gun.wall) =>
                          Up(gun.wall, layer, gun) <= HalfLength(pp)

(* The vertices of a LUND event are the known particles of the record whose  *)
(* turn it is, all of them and no others, and the program stops where the    *)
(* records end: as long as the headers tell the truth, and a file that was   *)
(* cut short was cut after the end of a line.                                *)
LundEventsAreTheirRecords ==
    LET r == lund.records
        whole == lund.cut = 0
        trusted == /\ \A k \in DOMAIN r : r[k].says = Len(r[k].particles)
                   /\ whole \/ lund.newline
    IN  GeneratorCase = LundCase /\ EventID >= 0 /\ trusted =>
            /\ ended = "no" =>
                   /\ EventID + 1 \in DOMAIN r
                   /\ vertices = SelectSeq(r[EventID + 1].particles, Known)
            /\ ended = "exit" /\ whole =>
                   EventID = Len(r) \/ (r[Len(r)].particles = <<>> /\ ~lund.newline)
================================================================================
