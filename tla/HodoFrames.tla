------------------------------ MODULE HodoFrames ------------------------------
(***************************************************************************)
(* The steel around the hodoscope walls                                    *)
(* (LADDetectorConstructionFramesCreator.cc): the Panel 3 frame of every   *)
(* panel, the stand of a double wall and the stand of the single wall.     *)
(* One operator per function of the source, giving the parts it adds to    *)
(* the assembly, in mils and in the frame of the drawing: x to the right,  *)
(* y up, the origin in the middle of the panel.  Tubes, rings and channels *)
(* count as filled, and a ring or a U-shaped frame is the set of its       *)
(* members; the Boolean cutters that trim a tube where it meets its        *)
(* neighbours are kept.  An operator X_Mistake is X with a plausible       *)
(* mistake.                                                                *)
(***************************************************************************)
EXTENDS Solids

Sides == {-1, 1}
Upright(name, at, half) == Part(name, at, half, Identity, {})

(* A part on the left and the same on the right, x mils from the middle.     *)
Pair(name, x, y, half) == {Upright(name, <<s * x, y, 0>>, half) : s \in Sides}

(* The same part turned by 90 degrees about z.                               *)
OnItsSide(parts) == {[p EXCEPT !.axes = RotateZ(Unit, 0)] : p \in parts}

Slant(s) == RotateZ(s * 640, 4959)          \* by 7.35 degrees
Diagonal(s) == RotateZ(s * 3536, 3536)      \* by 45 degrees

------------------------------------------------------------------------------
(* The Panel 3 frame.                                                        *)
BuildMountingPads ==
    LET pad == <<6000, 375, 6000>>
    IN  UNION {Pair("Pad", 49250, s * 108375, pad)
                   \cup OnItsSide(Pair("SidePad", 51625, s * 74830, pad)) : s \in Sides}

BuildVerticalLegs == Pair("Leg", 49250, 0, <<2000, 108000, 3000>>)

(* The upper and the lower tube, cut by the outside envelopes of the legs.   *)
BuildDetectorMountTubes ==
    LET legEnvelopeCutters ==
            {Box(<<s * 49250, 0, 0>>, <<2004, 108004, 3004>>, Identity) : s \in Sides}
    IN  {Part("MountTube", <<384, s * 84009, 0>>, <<48418, 3000, 3000>>, Slant(s),
              legEnvelopeCutters) : s \in Sides}

(* A gusset at <<x, y>>, on side sx and in the half sy of the frame, is cut  *)
(* by a leg, by the mount tube it meets and by one more such tube further    *)
(* out.                                                                      *)
GussetCuts(sx, sy) ==
    {Box(<<sx * 50250, 0, 0>>, <<3004, 108004, 3004>>, Identity)}
      \cup {Box(<<384, sy * y, 0>>, <<48422, 3004, 3004>>, Slant(sy)) :
                y \in {84009, 84009 + 6050}}

BuildGussets ==
    {Part("Gusset", <<sx * 35229, sy * (IF sx < 0 THEN 66483 ELSE 71326), 0>>,
          <<20000, 3000, 2000>>, Diagonal((0 - sx) * sy), GussetCuts(sx, sy)) :
        sx \in Sides, sy \in Sides}

BuildChannels ==
    {Part("Channel", <<-125, s * 82938, -3812>>, <<47000, 812, 812>>, Slant(s), {}) :
        s \in Sides}

BuildPanel3Frame ==
    BuildMountingPads \cup BuildVerticalLegs \cup BuildDetectorMountTubes
      \cup BuildGussets \cup BuildChannels

------------------------------------------------------------------------------
(* A rectangular tube in the plane of the stand, on side s at <<x, y>>,      *)
(* whose ends are trimmed by oversized end plates: one at <<vx, vy>> on a    *)
(* vertical face, one at <<hx, hy>> below a horizontal face.                 *)
TrimmedTube(name, s, x, y, halfLength, vx, vy, hx, hy) ==
    Part(name, <<s * x, y, 0>>, <<2000, 1000, halfLength>>,
         <<<<-3536, (0 - s) * 3536, 0>>, <<0, 0, Unit>>, <<(0 - s) * 3536, 3536, 0>>>>,
         {Box(<<s * (vx + 5004), vy, 0>>, <<5004, 3254, 3004>>, Identity),
          Box(<<s * hx, hy + 5004, 0>>, <<5004, 3254, 3004>>, RotateZ(Unit, 0))})

(* The stand of a double wall.                                               *)
BuildDoubleStandItem11DetectorAttachmentPlates ==
    Pair("Item11", 49250, -109125, <<6000, 375, 14000>>)

(* The closed ring: two long members and the two ends between them.          *)
BuildDoubleStandLongTube ==
    {Upright("Item5", <<0, -112500, s * 8000>>, <<52250, 3000, 3000>>) : s \in Sides}
      \cup Pair("Item5", 49250, -112500, <<3000, 3000, 5000>>)

BuildDoubleStandItem6MidTubes ==
    Pair("Item6", 22750, -112500, <<3000, 3000, 5000>>)
      \cup Pair("Item6", 49250, -139000, <<3000, 3000, 5000>>)

BuildDoubleStandItem13GussetMountingPlates ==
    Pair("Item13", 45750, -139000, <<500, 3000, 3000>>)

BuildDoubleStandHorizontalItem12Plates ==
    Pair("Item12", 22750, -116000, <<3000, 500, 3000>>)

BuildDoubleStandItem14GussetAttachmentPlates ==
    Pair("Item14", 45000, -139000, <<250, 3250, 3000>>)
      \cup OnItsSide(Pair("Item14", 22750, -116750, <<250, 3250, 3000>>))

BuildDoubleStandItem9GussetTubes ==
    {TrimmedTube("Item9", s, 33789, -127961, 17500, 44750, -139000, 22750, -117000) :
        s \in Sides}

BuildDoubleStandItem10AttachmentPlates ==
    UNION {Pair("Item10", 49250, y, <<6000, 375, 14000>>) : y \in {-115875, -116625}}

(* The U-shaped frames: a member at the top and two legs down from it.       *)
BuildDoubleStandItem7And8VerticalFrames ==
    Pair("Item7", 49250, -120000, <<3000, 3000, 11000>>)
      \cup {Upright("Item8", <<sx * 49250, -139000, sz * 8000>>, <<3000, 16000, 3000>>) :
                sx \in Sides, sz \in Sides}

BuildDoubleStandItem12LowerBasePlates ==
    Pair("BasePlate", 49250, -155500, <<6000, 500, 14000>>)

BuildDoubleStand ==
    BuildDoubleStandItem11DetectorAttachmentPlates
      \cup BuildDoubleStandLongTube
      \cup BuildDoubleStandItem6MidTubes
      \cup BuildDoubleStandItem13GussetMountingPlates
      \cup BuildDoubleStandHorizontalItem12Plates
      \cup BuildDoubleStandItem14GussetAttachmentPlates
      \cup BuildDoubleStandItem9GussetTubes
      \cup BuildDoubleStandItem10AttachmentPlates
      \cup BuildDoubleStandItem7And8VerticalFrames
      \cup BuildDoubleStandItem12LowerBasePlates

------------------------------------------------------------------------------
(* The stand of the single wall: 47.25 inches from the pads to the floor.    *)
BuildSingleStandTopPlates == Pair("TopPlate", 49250, -109250, <<6000, 500, 6000>>)
BuildSingleStandVerticalTubes ==
    Pair("VerticalTube", 49250, -132375, <<3000, 22625, 3000>>)
BuildSingleStandBottomPlates_BelowTheFloor ==
    Pair("BasePlate", 49250, -156500, <<6000, 500, 11000>>)
BuildSingleStandBottomPlates == Pair("BasePlate", 49250, -155500, <<6000, 500, 11000>>)

(* Two braces per leg, leaning 15 degrees in front of it and behind it, cut  *)
(* by the vertical tube and by the bottom plate.                             *)
BuildSingleStandBraceTubes ==
    {Part("Brace", <<sx * 49250, -143254, sz * 4800>>, <<1500, 1500, 12562>>,
          <<<<Unit, 0, 0>>, <<0, (0 - sz) * 1294, -4830>>, <<0, 4830, (0 - sz) * 1294>>>>,
          {Box(<<sx * 49250, -132375, 0>>, <<3004, 22629, 3004>>, Identity),
           Box(<<sx * 49250, -155500, 0>>, <<6004, 504, 11004>>, Identity)}) :
        sx \in Sides, sz \in Sides}

BuildSingleStandHorizontalMountingPlates ==
    Pair("Item10", 45750, -122875, <<500, 5000, 3000>>)
BuildSingleStandGussetMountingPlates ==
    Pair("Item12", 45750, -143000, <<500, 3250, 3000>>)

BuildSingleStandHorizontalTube ==
    {Upright("Item5", <<0, -122875, 0>>, <<44500, 3000, 3000>>)}
BuildSingleStandHorizontalEndPlates == Pair("Item9", 44875, -122875, <<375, 5000, 3000>>)
BuildSingleStandHorizontalGussetMountingPlates ==
    Pair("Item12", 29125, -126375, <<3250, 500, 3000>>)
BuildSingleStandHorizontalWeldment ==
    BuildSingleStandHorizontalTube \cup BuildSingleStandHorizontalEndPlates
      \cup BuildSingleStandHorizontalGussetMountingPlates

BuildSingleStandGussetEndPlates ==
    Pair("Item11", 45000, -143000, <<250, 3250, 3000>>)
      \cup OnItsSide(Pair("Item11", 29125, -127125, <<250, 3250, 3000>>))
BuildSingleStandGussetTubes ==
    {TrimmedTube("Item8", s, 36977, -135148, 13000, 44750, -143000, 29125, -127375) :
        s \in Sides}
BuildSingleStandGussetWeldments ==
    BuildSingleStandGussetEndPlates \cup BuildSingleStandGussetTubes

BuildSingleStand ==
    BuildSingleStandTopPlates \cup BuildSingleStandVerticalTubes
      \cup BuildSingleStandBottomPlates \cup BuildSingleStandBraceTubes
      \cup BuildSingleStandHorizontalMountingPlates
      \cup BuildSingleStandGussetMountingPlates
      \cup BuildSingleStandHorizontalWeldment \cup BuildSingleStandGussetWeldments

------------------------------------------------------------------------------
(* The assembly in the hall.  The drawings are turned by 180 degrees about z *)
(* against the wall, the stands by as much once more, and the middle of the  *)
(* frame lies 10.5 inches behind the front face of the wall.                 *)
HalfTurn == RotateZ(0, 0 - Unit)

PlacePanel3LocalAssembly(assembly, panelIndex, copyNumberBase, at, wall, turn, wallThick) ==
    Imprint(copyNumberBase + panelIndex * 100, assembly,
            Plus(at, Turned(wall, <<0, 0, 10500 - wallThick \div 2>>)),
            After(wall, After(HalfTurn, turn)))
================================================================================
