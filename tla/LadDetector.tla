------------------------------ MODULE LadDetector ------------------------------
(***************************************************************************)
(* The detector of the LAD application: LAD.ini is read (LADVariables),    *)
(* the hodoscope with its steel and the GEM chambers are built             *)
(* (LADDetectorConstructionHodoCreator, ...GEMCreator), and tracks that    *)
(* cross a wall or the chambers leave hits (HodoAnalysis::StepAnalysis,    *)
(* LADGEMSD::ProcessHits).                                                 *)
(*                                                                         *)
(* The hall is measured in mils, as in Solids; the inside of a wall in     *)
(* tenths of a mil, the layers of a chamber in half micrometres, both in   *)
(* the frame of the box they lie in.  Angles are in degrees; their sines   *)
(* and cosines, scaled by Unit, are parameters.  The corrections of the    *)
(* angles (dangle) take the way of those of the positions (dxyz) and are   *)
(* left out.  `fresh' and `entered' only serve the properties.  An         *)
(* operator X_Mistake is X with a plausible mistake.                       *)
(***************************************************************************)
EXTENDS HodoFrames, SequencesExt

CONSTANTS
    IniFiles,       \* the LAD.ini to try: sequences of lines
    Sine, Cosine,   \* of the angles of the walls, scaled by Unit
    Probed          \* the bars that tracks aim at

ASSUME DetectorAssumption ==
    /\ \A f \in IniFiles, k \in 1 .. Max({Len(g) : g \in IniFiles}) :
           k \in DOMAIN f => "key" \in DOMAIN f[k]
    /\ DOMAIN Sine = DOMAIN Cosine
    /\ Probed \subseteq 0 .. 10

VARIABLES
    ini,            \* lines of LAD.ini still to be read
    Variables,      \* the LADVariables
    phase,          \* "read", "hodo", "gem", "sd" or "beam"
    ww, ws,         \* loop variables: the wall and its layer, the GEM plane in ww
    placed, fresh,  \* parts in the hall; those of the latest step
    log_sd,         \* sensitive GEM layers, as <<plane, layer>>
    chambers,       \* the sensitive detector of each of these layers
    track,          \* cells the track is in and has ahead of it
    vPadNum,        \* copy numbers of the steps in bars
    paddles,        \* vPaddle: copy numbers of the hodoposition entries
    EnergyAbsBar,   \* steps in each bar, for its deposited energy
    gemHits,        \* LADGEMHit, with the detector that made it
    entered         \* bars the track has entered

build == <<ini, Variables, phase, ww, ws, placed, fresh, log_sd, chambers>>
detector_hits == <<vPadNum, paddles, EnergyAbsBar, gemHits, entered>>
detector_vars == <<build, track, detector_hits>>

------------------------------------------------------------------------------
(* LADVariables: the defaults, and one line of LoadFromFile.                 *)
NoShift == [w \in 0 .. 2 |-> [l \in 0 .. 1 |-> <<0, 0, 0>>]]
Defaults ==
    [centralWallAngle |-> 127, leftWallAngle |-> 23, rightWallAngle |-> 23,
     centralWallDistance |-> 523, leftWallDistance |-> 92, rightWallDistance |-> 92,
     hodoShift |-> NoShift]

LoadLine(v, line) ==
    IF line.key = "HodoAlign"
    THEN IF line.wall \in 0 .. 2 /\ line.layer \in 0 .. 1
         THEN [v EXCEPT !.hodoShift[line.wall][line.layer] = line.shift]
         ELSE v
    ELSE IF line.key \in DOMAIN v \ {"hodoShift"} THEN [v EXCEPT ![line.key] = line.value]
    ELSE v

ReadLine ==
    /\ phase = "read"
    /\ ini # <<>>
    /\ Variables' = LoadLine(Variables, Head(ini))
    /\ ini' = Tail(ini)
    /\ UNCHANGED <<phase, ww, ws, placed, fresh, log_sd, chambers, track, detector_hits>>

EndOfFile ==
    /\ phase = "read"
    /\ ini = <<>>
    /\ phase' = "hodo"
    /\ UNCHANGED <<ini, Variables, ww, ws, placed, fresh, log_sd, chambers, track, detector_hits>>

------------------------------------------------------------------------------
(* LADConstants, in tenths of a mil.                                         *)
NoOfBars == 11
NoOfWalls == 3
BarThick == 20000
BarWidth == 86614
KaptonThick == 94
AluminumThick == 10
LeadThick == 50
WallSeparation == 15984     \* mils
Barlength ==                \* tenths of a centimetre
    <<3875, 3933, 3990, 4048, 4105, 4163, 4220, 4278, 4336, 4393, 4451>>
HalfLength(pp) == (Barlength[pp + 1] * 100000) \div 508
Centimetre == 3937

WallWidth == NoOfBars * (4 * AluminumThick + 2 * KaptonThick + BarWidth) + Centimetre
WallThick == BarThick + Centimetre
WallLength == 2 * HalfLength(NoOfBars - 1) + Centimetre

(* Angle and distance of a wall.                                             *)
angleW(w) ==
    CASE w = 0 -> Variables.centralWallAngle + Variables.leftWallAngle
      [] w = 1 -> Variables.centralWallAngle
      [] w = 2 -> Variables.centralWallAngle - Variables.rightWallAngle
distanceW(w) ==
    CASE w = 0 -> Variables.centralWallDistance + Variables.leftWallDistance
      [] w = 1 -> Variables.centralWallDistance
      [] w = 2 -> Variables.centralWallDistance + Variables.rightWallDistance

(* The point at this many mils from the origin, in the direction of a wall.  *)
Along(w, d) ==
    <<(d * Sine[angleW(w)]) \div Unit, 0, (d * Cosine[angleW(w)]) \div Unit>>
vSeparation(w) == Along(w, (distanceW(w) * Centimetre) \div 10)
vSpace(w) == Along(w, WallSeparation)
rmW(w) == RotateY(Sine[angleW(w)], Cosine[angleW(w)])

SubWalls(w) == IF w > 1 THEN 1 ELSE 2
panelIndex == ww + ws + ww

(* The common correction of the layers of a wall is computed, then set back  *)
(* to zero "while checking stand clearances".                                *)
wallAlignmentShift_Applied(w) ==
    LET shift == Variables.hodoShift[w]
    IN  IF SubWalls(w) = 2 THEN [i \in Coords |-> (shift[0][i] + shift[1][i]) \div 2]
        ELSE shift[0]
wallAlignmentShift(w) == <<0, 0, 0>>

SciWall(at) ==
    Part(<<panelIndex, "SciWall">>, at,
         <<WallWidth \div 20, WallLength \div 20, WallThick \div 20>>, rmW(ww), {})

Steel(assembly, index, base, at, turn) ==
    PlacePanel3LocalAssembly(assembly, index, base, at, rmW(ww), turn, WallThick \div 10)

(* BuildHodo, one panel: its wall, its frame and, with the last layer of a   *)
(* wall, the stand of the wall.                                              *)
Panel ==
    LET wallPosition ==
            Plus(Plus(vSeparation(ww), IF ws = 1 THEN vSpace(ww) ELSE <<0, 0, 0>>),
                 wallAlignmentShift(ww))
        doubleWallCenter ==
            Plus(Plus(vSeparation(ww), Along(ww, WallSeparation \div 2)),
                 wallAlignmentShift(ww))
    IN  {SciWall(wallPosition)}
          \cup Steel(BuildPanel3Frame, panelIndex, 160000, wallPosition, Identity)
          \cup (IF SubWalls(ww) = 2 /\ ws = SubWalls(ww) - 1
                THEN Steel(BuildDoubleStand, ww, 180000, doubleWallCenter, HalfTurn)
                ELSE {})
          \cup (IF ww = NoOfWalls - 1
                THEN Steel(BuildSingleStand, panelIndex, 170000, wallPosition, HalfTurn)
                ELSE {})

BuildPanel ==
    /\ phase = "hodo"
    /\ fresh' = Panel
    /\ placed' = placed \cup fresh'
    /\ IF ws < SubWalls(ww) - 1 THEN ws' = ws + 1 /\ UNCHANGED <<ww, phase>>
       ELSE /\ ws' = 0
            /\ ww' = IF ww < NoOfWalls - 1 THEN ww + 1 ELSE 0
            /\ phase' = IF ww < NoOfWalls - 1 THEN "hodo" ELSE "gem"
    /\ UNCHANGED <<ini, Variables, log_sd, chambers, track, detector_hits>>

------------------------------------------------------------------------------
(* The volumes of bar pp of layer l of wall w: [name, copy number, bar,      *)
(* mother, centre and half lengths in the frame of the wall].                *)
CopyNumber_PanelAndBar(w, l, pp) == (w + l) * 100 + pp
CopyNumber(w, l, pp) == w * 10000 + l * 100 + pp

Pitch_OfBareBars == BarWidth
Pitch == (2 * AluminumThick + KaptonThick + BarWidth \div 2) * 2

BarVolumes(w, l, pp) ==
    LET x == WallWidth \div 2 - 2 * AluminumThick + KaptonThick - BarWidth \div 2
                 - Centimetre \div 2 - Pitch * pp
        halfBox == (2 * KaptonThick + 4 * AluminumThick + LeadThick + BarThick) \div 2
        volume(name, mother, z, halfX, halfZ) ==
            [name |-> name, copy |-> CopyNumber(w, l, pp), bar |-> <<w, l, pp>>,
             mother |-> mother, at |-> <<x, 0, z>>, half |-> <<halfX, HalfLength(pp), halfZ>>]
    IN  {volume("KaptonPhy", "SciWall", 0,
                2 * AluminumThick + KaptonThick + BarWidth \div 2, halfBox),
         volume("LeadPlatePhy", "KaptonPhy", KaptonThick + LeadThick \div 2 - halfBox,
                BarWidth \div 2, LeadThick \div 2),
         volume("AlumSheetsPhy", "KaptonPhy", LeadThick \div 2,
                BarWidth \div 2 + AluminumThick, (BarThick + 4 * AluminumThick) \div 2),
         volume("Bar_phy", "AlumSheetsPhy", LeadThick \div 2, BarWidth \div 2, BarThick \div 2)}

WallVolumes(w, l) ==
    {[name |-> "SciWall", copy |-> w + l + w, bar |-> <<w, l, -1>>, mother |-> "World",
      at |-> <<0, 0, 0>>, half |-> <<WallWidth \div 2, WallLength \div 2, WallThick \div 2>>]}
      \cup UNION {BarVolumes(w, l, pp) : pp \in 0 .. NoOfBars - 1}

World == [name |-> "World", copy |-> 0]

------------------------------------------------------------------------------
(* BuildGEM: the layers of a chamber, from the cover to the honeycomb.       *)
nplanes == 2
driftLayer == 5
gempz ==                    \* micrometres
    <<120, 3000, 120, 5, 50, 3000, 5, 50, 5, 2000, 5, 50, 5, 2000, 5, 50, 5, 2000,
      10, 50, 180, 120, 3000, 120>>
Layers == 0 .. Len(gempz) - 1
Foils == {6, 7, 8, 10, 11, 12, 14, 15, 16}
Readout == 18 .. 20

(* The first k layers together.                                              *)
Thickness[k \in 0 .. Len(gempz)] == IF k = 0 THEN 0 ELSE Thickness[k - 1] + gempz[k]
gempzsum == Thickness[Len(gempz)]

sign_NotFlipped == 1
sign == -1                  \* GEMflip is TRUE

(* Centres of the layers, from the middle of the chamber: ztemp - gempzsum/2 *)
LayerAt(k) ==
    sign * (2 * Thickness[k] + gempz[k + 1] - gempzsum)

(* The chambers stand at 1 m and 1.2 m, at the angle of the central wall by  *)
(* default, turned by -53 degrees about y.                                   *)
GemRotation == RotateY(-3993, 3009)
GemAt(g) ==
    LET d == 39370 + 7874 * g IN <<(d * 3993) \div Unit, 0, 0 - (d * 3009) \div Unit>>

BuildGEM ==
    /\ phase = "gem"
    /\ fresh' = {Part(<<ww + 1, "Gem">>, GemAt(ww), <<23622, 10827, gempzsum \div 51>>,
                      GemRotation, {})}
    /\ placed' = placed \cup fresh'
    /\ log_sd' = Append(log_sd, <<ww, driftLayer>>)
    /\ IF ww < nplanes - 1 THEN ww' = ww + 1 /\ UNCHANGED phase
       ELSE ww' = 0 /\ phase' = "sd"
    /\ UNCHANGED <<ini, Variables, ws, chambers, track, detector_hits>>

ConstructSDandField ==
    /\ phase = "sd"
    /\ phase' = "beam"
    /\ chambers' = [sd \in {log_sd[1], log_sd[2]} |->
                        IF sd = log_sd[1] THEN "/chamber1" ELSE "/chamber2"]
    /\ fresh' = {}
    /\ UNCHANGED <<ini, Variables, ww, ws, placed, log_sd, track, detector_hits>>

------------------------------------------------------------------------------
InOrder(S) ==
    [k \in 1 .. Cardinality(S) |-> CHOOSE a \in S : Cardinality({b \in S : b < a}) = k - 1]

(* The cells along the line through c in direction i of the wall: between    *)
(* two neighbouring faces, the innermost volume.                             *)
CellsAlong(volumes, i, c) ==
    LET met == {v \in volumes : \A j \in Coords \ {i} : Abs(c[j] - v.at[j]) < v.half[j]}
        faces == InOrder({v.at[i] - v.half[i] : v \in met}
                             \cup {v.at[i] + v.half[i] : v \in met})
        covering(k) == {v \in met : /\ v.at[i] - v.half[i] <= faces[k]
                                   /\ faces[k + 1] <= v.at[i] + v.half[i]}
        innermost(vs) == CHOOSE v \in vs : \A u \in vs : u.mother # v.name
    IN  [k \in 1 .. Len(faces) - 1 |-> innermost(covering(k))]

BarCentre(w, l, pp) == (CHOOSE v \in BarVolumes(w, l, pp) : v.name = "Bar_phy").at

(* The layers of chamber g in the order a track from the target meets them.  *)
GemCells(g) ==
    LET front == Dot(GemRotation[3], GemAt(g)) < 0  \* local z points at the target
        depth(k) == IF front THEN 0 - LayerAt(k) ELSE LayerAt(k)
        order == InOrder({depth(k) : k \in Layers})
    IN  [n \in 1 .. Len(gempz) |->
            [name |-> "GemLayer", copy |-> 0, plane |-> g,
             layer |-> CHOOSE k \in Layers : depth(k) = order[n]]]

WallTracks ==
    {<<World>> \o CellsAlong(WallVolumes(w, l), i, BarCentre(w, l, pp)) \o <<World>> :
        w \in 0 .. 1, l \in 0 .. 1, pp \in Probed, i \in Coords}
      \cup {<<World>> \o CellsAlong(WallVolumes(2, 0), i, BarCentre(2, 0, pp)) \o <<World>> :
                pp \in Probed, i \in Coords}
GemTrack == <<World>> \o GemCells(0) \o <<World>> \o GemCells(1) \o <<World>>

NoTrack == [cells |-> <<>>, charged |-> FALSE, outward |-> TRUE]
Bars == (0 .. 2) \X (0 .. 1) \X (0 .. 10)
NoEnergy == [b \in Bars |-> 0]

(* A straight track in a new event, either way along such a line.            *)
BeginOfEventAction ==
    /\ phase = "beam"
    /\ track.cells = <<>>
    /\ \E line \in WallTracks \cup {GemTrack}, charged, outward \in BOOLEAN :
           track' = [cells |-> IF outward THEN line ELSE Reverse(line),
                     charged |-> charged, outward |-> outward]
    /\ vPadNum' = <<>> /\ paddles' = <<>>
    /\ EnergyAbsBar' = NoEnergy
    /\ gemHits' = <<>>
    /\ entered' = <<>>
    /\ UNCHANGED build

paddle(copynumber) ==
    <<copynumber \div 10000, (copynumber % 10000) \div 100, copynumber % 100>>

Exit(pre, next, name) == pre.name = name /\ next.name # name
Entry(pre, next, name) == pre.name # name /\ next.name = name

BarEntrance_AnyDaughter(pre, next) == Exit(pre, next, "SciWall")
BarEntrance(pre, next) == Exit(pre, next, "SciWall") /\ Entry(pre, next, "Bar_phy")

(* HodoAnalysis::StepAnalysis of the step through the cell pre into next.    *)
StepAnalysis(pre, next) ==
    /\ IF pre.name = "Bar_phy"
       THEN /\ vPadNum' = Append(vPadNum, pre.copy)
            /\ EnergyAbsBar' = [EnergyAbsBar EXCEPT ![paddle(pre.copy)] = @ + 1]
       ELSE UNCHANGED <<vPadNum, EnergyAbsBar>>
    /\ paddles' = IF BarEntrance(pre, next) THEN Append(paddles, next.copy) ELSE paddles
    /\ entered' = IF Entry(pre, next, "Bar_phy") THEN Append(entered, next.bar) ELSE entered

(* LADGEMSD::ProcessHits: a charged track in a sensitive layer makes a hit   *)
(* with the copy number of the chamber, gidx + 1.                            *)
HitNumber_OfTheLayer(cell) == cell.copy
HitNumber(cell) == cell.plane + 1
ProcessHits(cell) ==
    gemHits' = IF /\ cell.name = "GemLayer" /\ track.charged
                  /\ <<cell.plane, cell.layer>> \in DOMAIN chambers
               THEN Append(gemHits, [det |-> chambers[<<cell.plane, cell.layer>>],
                                     copy |-> HitNumber(cell)])
               ELSE gemHits

(* A step to the next boundary.                                              *)
UserSteppingAction ==
    /\ Len(track.cells) > 1
    /\ StepAnalysis(track.cells[1], track.cells[2])
    /\ ProcessHits(track.cells[1])
    /\ track' = [track EXCEPT !.cells = Tail(@)]
    /\ UNCHANGED build

(* The step out of the world: the current volume is not a bar, and there is  *)
(* no next one.                                                              *)
LeaveTheWorld ==
    /\ Len(track.cells) = 1
    /\ track' = [track EXCEPT !.cells = <<>>]
    /\ UNCHANGED <<build, detector_hits>>

------------------------------------------------------------------------------
DetectorInit ==
    /\ ini \in IniFiles
    /\ Variables = Defaults
    /\ phase = "read"
    /\ ww = 0 /\ ws = 0
    /\ placed = {} /\ fresh = {}
    /\ log_sd = <<>> /\ chambers = <<>>
    /\ track = NoTrack
    /\ vPadNum = <<>> /\ paddles = <<>> /\ EnergyAbsBar = NoEnergy
    /\ gemHits = <<>> /\ entered = <<>>

DetectorNext ==
    \/ ReadLine \/ EndOfFile
    \/ BuildPanel \/ BuildGEM \/ ConstructSDandField
    \/ BeginOfEventAction \/ UserSteppingAction \/ LeaveTheWorld

DetectorSpec == DetectorInit /\ [][DetectorNext]_detector_vars

------------------------------------------------------------------------------
(* No two pieces of the walls, their frames, the stands and the chambers are *)
(* in the same place.  fCheckOverlaps is off: Geant4 never looks, and tracks *)
(* would be followed through one of the two only.                            *)
PiecesDoNotOverlap ==
    \A p \in fresh, q \in placed : p # q => Clear(p, q)

(* Nor do the volumes inside a wall or a chamber: each lies within its       *)
(* mother and beside its sisters.                                            *)
VolumesNest ==
    phase = "sd" =>
        /\ \A wl \in ((0 .. 1) \X (0 .. 1)) \cup {<<2, 0>>} :
               LET inWall == WallVolumes(wl[1], wl[2])
               IN  \A v \in inWall :
                      /\ v.mother # "World" =>
                             \E m \in inWall :
                                 /\ m.name = v.mother
                                 /\ m.name = "SciWall" \/ m.bar = v.bar
                                 /\ \A i \in Coords :
                                        Abs(v.at[i] - m.at[i]) + v.half[i] <= m.half[i]
                      /\ \A u \in inWall \ {v} :
                             u.mother = v.mother =>
                                 \E i \in Coords :
                                     Abs(v.at[i] - u.at[i]) >= v.half[i] + u.half[i]
        /\ \A k \in Layers : Abs(LayerAt(k)) + gempz[k + 1] <= gempzsum
        /\ \A j, k \in Layers :
               j # k => Abs(LayerAt(j) - LayerAt(k)) >= gempz[j + 1] + gempz[k + 1]

(* The parts that hang together with one of them.                            *)
HangingTogether(parts) ==
    LET reached[k \in 0 .. Cardinality(parts)] ==
            IF k = 0 THEN {CHOOSE p \in parts : p.name[2] = "BasePlate"}
            ELSE LET r == reached[k - 1]
                     n == r \cup {q \in parts : \E p \in r : Touch(p, q)}
                 IN  n
    IN  reached[12]

SteelOf(w) ==
    {p \in placed : p.name[1] \in {160000 + (2 * w + l) * 100 : l \in 0 .. SubWalls(w) - 1}
                                \cup {180000 + w * 100, 170000 + 2 * w * 100}}

(* The steel of a wall is one piece from the floor up, and all walls stand   *)
(* on the same floor.                                                        *)
StandsHoldTogether ==
    phase = "sd" =>
        \A w \in 0 .. NoOfWalls - 1 :
            /\ HangingTogether(SteelOf(w)) = SteelOf(w)
            /\ Abs(Min({p.at[2] - Reach(p, <<0, Unit, 0>>) : p \in SteelOf(w)}) + 156000)
                   <= Tolerance

(* A step in a bar is booked under that bar: copy numbers decode to wall,    *)
(* layer and bar, and no two bars share one.  A hodoposition entry names a   *)
(* bar the track has entered.                                                *)
HitsNameTheirBar ==
    LET named == [k \in 1 .. Len(vPadNum) |-> paddle(vPadNum[k])]
    IN  /\ Len(entered) - Len(named) \in 0 .. 1
        /\ named = SubSeq(entered, 1, Len(named))
        /\ \A b \in Bars :
               EnergyAbsBar[b] = Cardinality({k \in DOMAIN named : named[k] = b})
        /\ \A k \in 1 .. Len(paddles) : paddle(paddles[k]) \in ToSet(entered)

(* "This cross check when enter into the bar" (HodoAnalysis.cc:308): every   *)
(* entrance into a bar has its entry in hodoposition.  It has not: only an   *)
(* entrance straight from the wall counts, and a bar is wrapped.             *)
EveryEntranceHasAPosition ==
    [k \in 1 .. Len(paddles) |-> paddle(paddles[k])] = entered

(* A GEM hit carries the number of its chamber, whose detector made it.      *)
GemHitsNameTheirPlane ==
    \A k \in 1 .. Len(gemHits) :
        /\ gemHits[k].copy \in 1 .. nplanes
        /\ gemHits[k].det = <<"/chamber1", "/chamber2">>[gemHits[k].copy]
        /\ track.outward /\ k > 1 => gemHits[k - 1].copy < gemHits[k].copy

(* A track from the target meets the drift gap of a chamber before its foils *)
(* and its readout: the chambers are built back to front (GEMflip).          *)
DriftGapFacesTheTarget ==
    LET c == track.cells
    IN  c # <<>> /\ track.outward /\ c[1].name = "GemLayer" /\ c[1].layer = driftLayer =>
            \A f \in Foils \cup Readout : \E k \in 2 .. Len(c) :
                c[k].name = "GemLayer" /\ c[k].plane = c[1].plane /\ c[k].layer = f
================================================================================
