-------------------------------- MODULE Solids --------------------------------
(***************************************************************************)
(* Boxes, their placements and their Boolean subtractions, as LAD uses     *)
(* them of Geant4 (G4Box, G4SubtractionSolid, G4RotationMatrix,            *)
(* G4AssemblyVolume).                                                      *)
(*                                                                         *)
(* Lengths are integers, in mils (1/1000 inch) for the geometry in the     *)
(* hall.  A point is <<x, y, z>>.  A box has a centre `at', half lengths   *)
(* `half' and three axes: axes[i] is where its i-th axis points, a unit    *)
(* vector scaled by Unit.  A part is a box with a name and the boxes that  *)
(* were subtracted from it (`cuts'); tubes count as filled.                *)
(***************************************************************************)
EXTENDS Integers, Sequences, FiniteSetsExt

Unit == 5000
Tolerance == 20     \* mils by which rounded touching boxes may seem to overlap

Coords == 1 .. 3
Abs(a) == IF a < 0 THEN 0 - a ELSE a
Plus(u, v) == [i \in Coords |-> u[i] + v[i]]
Minus(u, v) == [i \in Coords |-> u[i] - v[i]]
Dot(u, v) == u[1] * v[1] + u[2] * v[2] + u[3] * v[3]

Identity == <<<<Unit, 0, 0>>, <<0, Unit, 0>>, <<0, 0, Unit>>>>

(* Rotations about z and y by the angle with this (scaled) sine and cosine. *)
RotateZ(s, c) == <<<<c, s, 0>>, <<0 - s, c, 0>>, <<0, 0, Unit>>>>
RotateY(s, c) == <<<<c, 0, 0 - s>>, <<0, Unit, 0>>, <<s, 0, c>>>>

(* Where the rotation r takes v, and the rotation q followed by r.           *)
Turned(r, v) ==
    [i \in Coords |-> (v[1] * r[1][i] + v[2] * r[2][i] + v[3] * r[3][i]) \div Unit]
After(r, q) == [i \in Coords |-> Turned(r, q[i])]

Box(at, half, axes) == [at |-> at, half |-> half, axes |-> axes]
Part(name, at, half, axes, cuts) ==
    [name |-> name, at |-> at, half |-> half, axes |-> axes, cuts |-> cuts]

(* An assembly (a set of parts) put into its mother by MakeImprint, which    *)
(* numbers the copies from `copy' on.                                        *)
Moved(b, at, r) == [b EXCEPT !.at = Plus(at, Turned(r, @)), !.axes = After(r, @)]
Imprint(copy, assembly, at, r) ==
    {[Moved(p, at, r) EXCEPT !.name = <<copy, @>>,
                             !.cuts = {Moved(c, at, r) : c \in @}] : p \in assembly}

(* How far the box reaches from its centre in the direction n.               *)
Reach(b, n) ==
    (b.half[1] * (Abs(Dot(b.axes[1], n)) \div Unit)
       + b.half[2] * (Abs(Dot(b.axes[2], n)) \div Unit)
       + b.half[3] * (Abs(Dot(b.axes[3], n)) \div Unit)) \div Unit

(* The gap between two boxes along n, negative where they overlap on it; the *)
(* boxes are apart when a face normal of one of them shows a gap.            *)
Gap(a, b, n) == Abs(Dot(Minus(a.at, b.at), n)) \div Unit - Reach(a, n) - Reach(b, n)
Normals(a, b) == {a.axes[i] : i \in Coords} \cup {b.axes[i] : i \in Coords}
Apart(a, b) == \E n \in Normals(a, b) : Gap(a, b, n) >= -Tolerance
Touch(a, b) == \A n \in Normals(a, b) : Gap(a, b, n) <= Tolerance

(* Box a lies within box c.                                                  *)
Within(a, c) ==
    \A i \in Coords :
        Abs(Dot(Minus(a.at, c.at), c.axes[i])) \div Unit + Reach(a, c.axes[i])
            <= c.half[i] + Tolerance

(* The part of the box b that a's extent along b's own axes leaves: it holds *)
(* all that the two have in common.                                          *)
Common(b, a) ==
    LET off(i) == Dot(Minus(a.at, b.at), b.axes[i]) \div Unit
        lo(i)  == Max({off(i) - Reach(a, b.axes[i]), 0 - b.half[i]})
        hi(i)  == Min({off(i) + Reach(a, b.axes[i]), b.half[i]})
        mid    == [i \in Coords |-> (lo(i) + hi(i)) \div 2]
    IN  [b EXCEPT !.at = Plus(@, Turned(b.axes, mid)),
                  !.half = [i \in Coords |-> (hi(i) - lo(i) + 1) \div 2]]

(* What the boxes of a pair may have in common, narrowed down by cutting     *)
(* either to the extent of the other again and again.                        *)
Narrower(pairs) == {<<Common(x[2], x[1]), x[1]>> : x \in pairs}
FourTimesNarrower(pairs) == Narrower(Narrower(Narrower(Narrower(pairs))))
Narrowed(p, q) == FourTimesNarrower(FourTimesNarrower(FourTimesNarrower({<<p, q>>})))

(* No material of the two parts in the same place: they are apart, or one of *)
(* them was cut where the other is.                                          *)
Clear(p, q) ==
    \/ Apart(p, q)
    \/ LET cuts == p.cuts \cup q.cuts
       IN  cuts # {} /\ \E x \in Narrowed(p, q), c \in cuts :
                           Within(x[1], c) \/ Within(x[2], c)
================================================================================
