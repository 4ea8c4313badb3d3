-------------------------------- MODULE Geometry --------------------------------
(***************************************************************************)
(* The closest points of Math.hpp: on a line, a segment, a plane, a        *)
(* triangle and a tetrahedron, whose corners are given one after the       *)
(* other.  A quotient is a record of what is divided and by what.          *)
(***************************************************************************)
EXTENDS SIMD

CONSTANTS
  Corners,  \* points that may be corners
  Points    \* points whose closest point is asked for

VARIABLES
  corners,  \* the corners given so far
  point     \* the point

vars == <<corners, point>>

Over(a, x) == [of |-> a, by |-> x]
LengthSquared(a) == DotProduct(a, a)

\* Point of a line through a: a + m * x / y.
Along(a, m, x, y) == Over(Plus(Times(a, y), Times(m, x)), y)

ClosestPointOnLineToPoint(a, b, p) ==
  LET m == Minus(b, a) IN Along(a, m, DotProduct(m, Minus(p, a)), DotProduct(m, m))

\* The overloads for two numbers give the ends themselves, that for three clamps.
ClosestPointOnLineSegmentToPoint(a, b, p) ==
  LET AB == Minus(b, a)
      t == DotProduct(Minus(p, a), AB)
  IN  IF t < 0 THEN Over(a, 1)
      ELSE IF t > LengthSquared(AB) THEN Over(b, 1)
      ELSE Along(a, AB, t, LengthSquared(AB))

IsOnLine(a, b, p) == LET t == DotProduct(Minus(p, a), Minus(b, a)) IN 0 <= t /\ t <= LengthSquared(Minus(b, a))

SquaredDistancePointToSegment(a, b, c) ==
  LET AB == Minus(b, a)  AC == Minus(c, a)  BC == Minus(c, b)
      E == DotProduct(AC, AB)
      f == DotProduct(AB, AB)
  IN  IF E <= 0 THEN Over(DotProduct(AC, AC), 1)
      ELSE IF E >= f THEN Over(DotProduct(BC, BC), 1)
      ELSE Over(DotProduct(AC, AC) * f - E * E, f)

\* DotProduct of ranges: blocks of eight go lane by lane, as long as the first of a block
\* is within an eighth of the range, and the rest one by one.
Lanes == 8

DotProducts(us, vs) ==
  LET n == Len(us)
      Lane(xs, i, k) == [j \in 1..Lanes |-> xs[i + j][k]]
      block[i \in 0..n, k \in 0..Len(us[1])] ==
        IF k = 0 THEN [j \in 1..Lanes |-> 0] ELSE Plus(block[i, k - 1], Mul(Lane(us, i, k), Lane(vs, i, k)))
      from[i \in 0..n] ==
        IF i < n \div Lanes THEN block[i, Len(us[1])] \o from[i + Lanes]
        ELSE IF i < n THEN <<DotProduct(us[i + 1], vs[i + 1])>> \o from[i + 1]
        ELSE <<>>
  IN  from[0]

\* +0 if p is to the right of the line, -0 if to the left.
TestPointToLineSide(a, b, p) == (a[1] - b[1]) * (p[2] - b[2]) - (a[2] - b[2]) * (p[1] - b[1])

\* The coordinates of p: those of b, c and a.
Barycentric(a, b, c, p) ==
  LET v0 == Minus(b, a)  v1 == Minus(c, a)  v2 == Minus(p, a)
      den == v0[1] * v1[2] - v1[1] * v0[2]
      s == v2[1] * v1[2] - v1[1] * v2[2]
      t == v0[1] * v2[2] - v2[1] * v0[2]
  IN  Over(<<s, t, den - s - t>>, den)

\* A plane through three points, whose normal is not scaled to length 1 here: the
\* functions divide by its length.
Plane(a, b, c) ==
  LET normal == Cross(Minus(b, a), Minus(c, a)) IN [Normal |-> normal, D |-> DotProduct(normal, a)]

DistanceFromPointToPlane(p, plane) ==
  Over(DotProduct(plane.Normal, p) - plane.D, DotProduct(plane.Normal, plane.Normal))

ClosestPointOnPlane(p, plane) ==
  LET T == DistanceFromPointToPlane(p, plane) IN Along(p, Negated(plane.Normal), T.of, T.by)

\* The regions of the three corners and the three edges, then the face.
ClosestPointOnTriangleToPoint(a, p1, p2, p3) ==
  LET AP == Minus(a, p1)  AB == Minus(p2, p1)  AC == Minus(p3, p1)
      D1 == DotProduct(AB, AP)
      D2 == DotProduct(AC, AP)
      BP == Minus(a, p2)
      D3 == DotProduct(AB, BP)
      D4 == DotProduct(AC, BP)
      VC == D1 * D4 - D3 * D2
      CP == Minus(a, p3)
      D5 == DotProduct(AB, CP)
      D6 == DotProduct(AC, CP)
      VB == D5 * D2 - D1 * D6
      VA == D3 * D6 - D5 * D4
      Denom == VA + VB + VC
  IN  IF D1 <= 0 /\ D2 <= 0 THEN Over(p1, 1)
      ELSE IF D3 >= 0 /\ D4 <= D3 THEN Over(p2, 1)
      ELSE IF VC <= 0 /\ D1 >= 0 /\ D3 <= 0 THEN Along(p1, AB, D1, D1 - D3)
      ELSE IF D6 >= 0 /\ D5 <= D6 THEN Over(p3, 1)
      ELSE IF VB <= 0 /\ D2 >= 0 /\ D6 <= 0 THEN Along(p1, AC, D2, D2 - D6)
      ELSE IF VA <= 0 /\ D4 - D3 >= 0 /\ D5 - D6 >= 0
           THEN Along(p2, Minus(p3, p2), D4 - D3, (D4 - D3) + (D5 - D6))
      ELSE Over(Plus(Plus(Times(p1, Denom), Times(AB, VB)), Times(AC, VC)), Denom)

PointOutsideOfPlane(p, a, b, c) == DotProduct(Minus(p, a), Cross(Minus(b, a), Minus(c, a))) >= 0

\* The overload with a fourth corner: on the side where d is not.
BeyondPlaneFrom(p, a, b, c, d) ==
  LET normal == Cross(Minus(b, a), Minus(c, a))
  IN  DotProduct(Minus(p, a), normal) * DotProduct(Minus(d, a), normal) < 0

SquaredDistance(q, p) == Over(LengthSquared(Minus(q.of, Times(p, q.by))), q.by * q.by)

\* Mutant: the best distance is never written down.
NearerThanAny(p, q, best) == TRUE

Nearer(p, q, best) ==
  best = {} \/ \A r \in best :
    SquaredDistance(q, p).of * SquaredDistance(r, p).by < SquaredDistance(r, p).of * SquaredDistance(q, p).by

\* Each face that the point is beyond is asked, the first of the nearest wins; within all
\* of them the point itself is the closest.
ClosestPtPointTetrahedron(p, a, b, c, d) ==
  LET faces == <<<<a, b, c>>, <<a, c, d>>, <<a, d, b>>, <<b, d, c>>>>
      best[k \in 0..4] ==
        IF k = 0 THEN {}
        ELSE LET sofar == best[k - 1]
                 f == faces[k]
                 q == ClosestPointOnTriangleToPoint(p, f[1], f[2], f[3])
             IN  IF PointOutsideOfPlane(p, f[1], f[2], f[3]) /\ Nearer(p, q, sofar) THEN {q} ELSE sofar
  IN  IF best[4] = {} THEN Over(p, 1) ELSE CHOOSE q \in best[4] : TRUE

-----------------------------------------------------------------------------
Init ==
  /\ corners = <<>>
  /\ point \in Points

Volume(a, b, c, d) == DotProduct(Minus(d, a), Cross(Minus(b, a), Minus(c, a)))

\* A corner is added to the others: they span a segment, a triangle, a tetrahedron,
\* whose faces as the code lists them look outwards.
AddCorner(v) ==
  /\ Len(corners) < 4
  /\ Len(corners) = 1 => v # corners[1]
  /\ Len(corners) = 2 => Plane(corners[1], corners[2], v).Normal # <<0, 0, 0>>
  /\ Len(corners) = 3 => Volume(corners[1], corners[2], corners[3], v) < 0
  /\ corners' = Append(corners, v)
  /\ UNCHANGED point

Next == \E v \in Corners : AddCorner(v)

Spec == Init /\ [][Next]_vars

-----------------------------------------------------------------------------
Flat(v) == SubSeq(v, 1, 2)

\* No corner is nearer than a closest point, nor is anything between a corner and it.
NoneIsNearer(q, p, vs) ==
  \A i \in DOMAIN vs : DotProduct(Minus(Times(p, q.by), q.of), Minus(Times(vs[i], q.by), q.of)) <= 0

\* Inside of the sides of a triangle that face the other corner, and on its plane.
InTriangle(q, a, b, c) ==
  LET normal == Plane(a, b, c).Normal
      within(u, v) == DotProduct(Cross(Minus(v, u), Minus(q.of, Times(u, q.by))), normal) >= 0
  IN  within(a, b) /\ within(b, c) /\ within(c, a) /\ DotProduct(Minus(q.of, Times(a, q.by)), normal) = 0

InSegment(q, a, b) ==
  LET along == Minus(q.of, Times(a, q.by))
      AB == Minus(b, a)
  IN  /\ LengthSquared(along) * LengthSquared(AB) = DotProduct(along, AB) * DotProduct(along, AB)
      /\ 0 <= DotProduct(along, AB) /\ DotProduct(along, AB) <= q.by * LengthSquared(AB)

SegmentIsRight(a, b, p) ==
  LET q == ClosestPointOnLineSegmentToPoint(a, b, p)
      squared == SquaredDistancePointToSegment(a, b, p)
      line == ClosestPointOnLineToPoint(a, b, p)
  IN  /\ NoneIsNearer(q, p, <<a, b>>) /\ InSegment(q, a, b)
      /\ SquaredDistance(q, p).of * squared.by = squared.of * SquaredDistance(q, p).by
      /\ DotProduct(Minus(Times(p, line.by), line.of), Minus(b, a)) = 0
      /\ IsOnLine(a, b, p) <=> InSegment(line, a, b)

TriangleIsRight(a, b, c, p) ==
  LET q == ClosestPointOnTriangleToPoint(p, a, b, c)
      plane == Plane(a, b, c)
      foot == ClosestPointOnPlane(p, plane)
  IN  /\ NoneIsNearer(q, p, <<a, b, c>>) /\ InTriangle(q, a, b, c)
      /\ DotProduct(plane.Normal, foot.of) = plane.D * foot.by
      /\ Cross(Minus(Times(p, foot.by), foot.of), plane.Normal) = <<0, 0, 0>>
      /\ InTriangle(foot, a, b, c) => Times(q.of, foot.by) = Times(foot.of, q.by)

\* Many points are compared with a plane at once.
RangesAreRight(a, b, c) ==
  LET plane == Plane(a, b, c)
  IN  \A n \in {1, 7, 8, 17} :
        DotProducts([i \in 1..n |-> <<a, b, c>>[(i % 3) + 1]], [i \in 1..n |-> plane.Normal]) =
          [i \in 1..n |-> plane.D]

FlatIsRight(a, b, c, p) ==
  LET k == Barycentric(a, b, c, p)
      det == TestPointToLineSide(a, b, c)
  IN  k.by # 0 =>
        /\ Plus(Plus(Times(b, k.of[1]), Times(c, k.of[2])), Times(a, k.of[3])) = Times(p, k.by)
        /\ TestPointToLineSide(a, b, p) * k.by = k.of[2] * det

TetrahedronIsRight(a, b, c, d, p) ==
  LET q == ClosestPtPointTetrahedron(p, a, b, c, d)
      within(u, v, w, x) == LET n == Plane(u, v, w).Normal IN
        DotProduct(Minus(q.of, Times(u, q.by)), n) * DotProduct(Minus(x, u), n) >= 0
  IN  /\ NoneIsNearer(q, p, <<a, b, c, d>>)
      /\ within(a, b, c, d) /\ within(a, c, d, b) /\ within(a, d, b, c) /\ within(b, d, c, a)
      /\ q.of = Times(p, q.by) <=> \A f \in {<<a, b, c, d>>, <<a, c, d, b>>, <<a, d, b, c>>, <<b, d, c, a>>} :
                                      ~BeyondPlaneFrom(p, f[1], f[2], f[3], f[4])

\* The closest point of a segment, a triangle or a tetrahedron belongs to it, and no
\* point of it is nearer: no corner lies on the side of the closest point where the point
\* is.  Distance, plane, side and barycentric coordinates agree with it.
ClosestIsClosest ==
  /\ Len(corners) = 2 =>
       /\ SegmentIsRight(corners[1], corners[2], point)
       /\ Flat(corners[1]) # Flat(corners[2]) => SegmentIsRight(Flat(corners[1]), Flat(corners[2]), Flat(point))
  /\ Len(corners) = 3 =>
       /\ TriangleIsRight(corners[1], corners[2], corners[3], point)
       /\ RangesAreRight(corners[1], corners[2], corners[3])
       /\ FlatIsRight(Flat(corners[1]), Flat(corners[2]), Flat(corners[3]), Flat(point))
  /\ Len(corners) = 4 => TetrahedronIsRight(corners[1], corners[2], corners[3], corners[4], point)
=============================================================================
