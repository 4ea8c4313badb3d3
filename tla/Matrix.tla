--------------------------------- MODULE Matrix ---------------------------------
(***************************************************************************)
(* Matrix4, Matrix3x4 and Quaternion (Matrix.hpp, Quaternion.h, Math.hpp): *)
(* a matrix that collects transformations, its two inverses, and a 3x4     *)
(* matrix that collects the same ones.  Quaternions are given in halves,   *)
(* so that the rotations by thirds of a circle, too, are whole.            *)
(***************************************************************************)
EXTENDS SIMD, FiniteSets

CONSTANTS
  Quaternions,  \* rotations: four halves of length 1
  AxisAngles,   \* rotations: an axis of length 1 and quarters of a circle
  Rotators,     \* rotations: quarters of a circle about x, y and z
  Offsets,      \* translations
  Factors,      \* scales
  Matrices,     \* other matrices
  Probes,       \* what is transformed: vectors of four
  Unit,         \* what matrices are divided by before they are inverted by cofactors
  MaxMoves      \* transformations: bounds the runs

VARIABLES
  matrix,       \* a Matrix4: four rows
  affine,       \* a Matrix3x4: three rows
  moves,        \* history: the transformations, the one applied first at the end
  straight      \* history: which of the two were used as their operations are made for

vars == <<matrix, affine, moves, straight>>

Identity(a) == <<<<a, 0, 0, 0>>, <<0, a, 0, 0>>, <<0, 0, a, 0>>, <<0, 0, 0, a>>>>
Rows3(m) == SubSeq(m, 1, 3)

Transpose(m) == [i \in 1..4 |-> [j \in 1..4 |-> m[j][i]]]

\* operator*(float), operator*=(float).
Scaled(m, x) == [i \in DOMAIN m |-> Mul(m[i], Broadcast(x))]

\* operator+= and operator-= of matrices; those of a number subtract it, both.
Added(m, n) == [i \in 1..4 |-> Plus(m[i], n[i])]
Subtracted(m, n) == [i \in 1..4 |-> Minus(m[i], n[i])]
Lowered(m, x) == [i \in 1..4 |-> Minus(m[i], Broadcast(x))]

\* A row of the product: the rows of the other matrix, each times a number of this row.
RowTimes(row, rows) ==
  Plus(Plus(Plus(Mul(Broadcast(row[1]), rows[1]), Mul(Broadcast(row[2]), rows[2])),
            Mul(Broadcast(row[3]), rows[3])), Mul(Broadcast(row[4]), rows[4]))

\* Mutant: the factors the other way round.
ProductSwapped(m, n) == [i \in 1..4 |-> RowTimes(n[i], m)]

Product(m, n) == [i \in 1..4 |-> RowTimes(m[i], n)]

\* Matrix3x4 supplies the row that it lacks: ones.
Product3x4(m, n) == [i \in 1..3 |-> RowTimes(m[i], Append(n, Broadcast(1)))]

\* operator*(Vector4) adds columns, operator*(Vector3) takes 1 for the fourth number.
Apply(m, v) ==
  LET columns == [k \in 1..4 |-> [i \in 1..4 |-> m[i][k]]]
  IN  Plus(Plus(Plus(Times(columns[1], v[1]), Times(columns[2], v[2])), Times(columns[3], v[3])),
           Times(columns[4], v[4]))
ApplyPoint(m, p) == [i \in 1..3 |-> m[i][1] * p[1] + m[i][2] * p[2] + m[i][3] * p[3] + m[i][4] * 1]

-----------------------------------------------------------------------------
\* Quaternions in halves: a product of two has quarters.
QuaternionProduct(p, q) ==
  LET x == p[1] * q[4] + p[2] * q[3] - p[3] * q[2] + p[4] * q[1]
      y == -p[1] * q[3] + p[2] * q[4] + p[3] * q[1] + p[4] * q[2]
      z == p[1] * q[2] - p[2] * q[1] + p[3] * q[4] + p[4] * q[3]
      w == -p[1] * q[1] - p[2] * q[2] - p[3] * q[3] + p[4] * q[4]
  IN  <<x \div 2, y \div 2, z \div 2, w \div 2>>

\* Matrix4(Quaternion), Matrix3x4(Quaternion).
Rotation(q) ==
  LET xx == q[1] * q[1]  xy == q[1] * q[2]  xz == q[1] * q[3]  xw == q[1] * q[4]
      yy == q[2] * q[2]  yz == q[2] * q[3]  yw == q[2] * q[4]
      zz == q[3] * q[3]  zw == q[3] * q[4]
      quarters == <<<<4 - 2 * (yy + zz), 2 * (xy - zw), 2 * (xz + yw), 0>>,
                    <<2 * (xy + zw), 4 - 2 * (xx + zz), 2 * (yz - xw), 0>>,
                    <<2 * (xz - yw), 2 * (yz + xw), 4 - 2 * (xx + yy), 0>>,
                    <<0, 0, 0, 4>>>>
  IN  [i \in 1..4 |-> [j \in 1..4 |-> quarters[i][j] \div 4]]

\* Quaternion * Vector3, Vector3 *= Quaternion.
Rotated(q, v) ==
  LET u == SubSeq(q, 1, 3)
      s == q[4]
      quarters == Plus(Plus(Times(u, 2 * DotProduct(u, v)), Times(v, s * s - DotProduct(u, u))),
                       Times(Cross(u, v), 2 * s))
  IN  [i \in 1..3 |-> quarters[i] \div 4]

\* Cosine and Sine of quarters of a circle, and of half of them, where they are 0, 1 or
\* the root of a half, which is written as 1.
Cosine(quarters) == <<1, 0, -1, 0>>[quarters + 1]
Sine(quarters) == <<0, 1, 0, -1>>[quarters + 1]
CosineOfHalf(quarters) == <<1, 1, 0, -1>>[quarters + 1]
SineOfHalf(quarters) == <<0, 1, 1, 1>>[quarters + 1]

\* Matrix4(AxisAngle).  About y it turns the other way than a quaternion does.
AxisRotation(a) ==
  LET x == a.axis[1]  y == a.axis[2]  z == a.axis[3]
      c == Cosine(a.quarters)  s == Sine(a.quarters)  t == 1 - c
  IN  <<<<c + x * x * t, x * y * t - z * s, x * z * t + (-y * s), 0>>,
        <<x * y * t + z * s, c + y * y * t, y * z * t - x * s, 0>>,
        <<x * z * t - (-y * s), y * z * t + x * s, c + z * z * t, 0>>,
        <<0, 0, 0, 1>>>>

\* Matrix4(Rotator): about x, then z, then y.
RotatorRotation(r) ==
  LET ch == Cosine(r[2])  sh == Sine(r[2])
      ca == Cosine(r[3])  sa == Sine(r[3])
      cb == Cosine(r[1])  sb == Sine(r[1])
  IN  <<<<ch * ca, sh * sb - ch * sa * cb, ch * sa * sb + sh * cb, 0>>,
        <<sa, ca * cb, -ca * sb, 0>>,
        <<-sh * ca, sh * sa * cb + ch * sb, -sh * sa * sb + ch * cb, 0>>,
        <<0, 0, 0, 1>>>>

\* Quaternion(Rotator), of rotators in which the root of a half occurs not at all or
\* twice: about z, then x, then y.
Halved(r) == {i \in 1..3 : r[i] % 2 = 1}
IsWhole(r) == Halved(r) = {} \/ \E i, j \in 1..3 : i # j /\ Halved(r) = {i, j}

QuaternionOf(r) ==
  LET cy == CosineOfHalf(r[2])  sy == SineOfHalf(r[2])
      cp == CosineOfHalf(r[1])  sp == SineOfHalf(r[1])
      cr == CosineOfHalf(r[3])  sr == SineOfHalf(r[3])
  IN  Times(<<sy * cp * sr + cy * sp * cr, sy * cp * cr - cy * sp * sr,
              cy * cp * sr - sy * sp * cr, cy * cp * cr + sy * sp * sr>>,
            IF Halved(r) = {} THEN 2 ELSE 1)

\* Translate, SetTranslation: the last column, of either matrix.
Translate(m, v) == [i \in DOMAIN m |-> IF i = 4 THEN m[i] ELSE [m[i] EXCEPT ![4] = @ + v[i]]]
SetTranslation(m, v) == [i \in DOMAIN m |-> IF i = 4 THEN m[i] ELSE [m[i] EXCEPT ![4] = v[i]]]

SetScale(m, v) == [i \in DOMAIN m |-> IF i = 4 THEN m[i] ELSE [m[i] EXCEPT ![i] = v[i]]]
Scaling(v) == SetScale(Identity(1), v)

\* Scale(Matrix4, const Vector3) multiplies the rows; that of a reference multiplies
\* by a matrix from the right.
ScaleRows(m, v) == [i \in DOMAIN m |-> IF i = 4 THEN m[i] ELSE Times(m[i], v[i])]
Scale(m, v) == Product(m, Scaling(v))

\* AddRotation multiplies; SetRotation writes the nine numbers of Matrix4.
AddRotation(m, q) == Product(m, Rotation(q))
SetRotation(m, q) == [i \in 1..4 |-> [j \in 1..4 |-> IF i < 4 /\ j < 4 THEN Rotation(q)[i][j] ELSE m[i][j]]]

-----------------------------------------------------------------------------
\* The projections, for a tangent of half the view's angle, with the denominators
\* multiplied out: Perspective times h * ratio * (far - near), ...
Perspective(h, ratio, near, far) ==
  <<<<far - near, 0, 0, 0>>, <<0, ratio * (far - near), 0, 0>>,
    <<0, 0, far * h * ratio, -near * far * h * ratio>>, <<0, 0, h * ratio * (far - near), 0>>>>

\* ... and InvertedPerspective times near * far.
InvertedPerspective(h, ratio, near, far) ==
  <<<<h * ratio * near * far, 0, 0, 0>>, <<0, h * near * far, 0, 0>>,
    <<0, 0, 0, near * far>>, <<0, 0, near - far, far>>>>

\* MakeOrthoMatrix times (right - left) * (top - bottom) * (far - near): its translation
\* is in the last row, it is made for vectors that stand before the matrix.
Ortho(right, left, top, bottom, near, far) ==
  LET w == right - left  h == top - bottom  d == far - near
  IN  <<<<2 * h * d, 0, 0, 0>>, <<0, 2 * w * d, 0, 0>>, <<0, 0, w * h, 0>>,
        <<-(right + left) * h * d, -(top + bottom) * w * d, -near * w * h, w * h * d>>>>

-----------------------------------------------------------------------------
\* Inverse by blocks of 2x2: the numbers, and what all of them are divided by.
Mat2Mul(a, b) == Plus(Mul(a, Permute(<<0, 3, 0, 3>>, b)), Mul(Permute(<<1, 0, 3, 2>>, a), Permute(<<2, 1, 2, 1>>, b)))
Mat2AdjMul(a, b) == Minus(Mul(Permute(<<3, 3, 0, 0>>, a), b), Mul(Permute(<<1, 1, 2, 2>>, a), Permute(<<2, 3, 0, 1>>, b)))
Mat2MulAdj(a, b) == Minus(Mul(a, Permute(<<3, 0, 3, 0>>, b)), Mul(Permute(<<1, 0, 3, 2>>, a), Permute(<<2, 1, 2, 1>>, b)))

Inverse(m) ==
  LET A == Shuffle(<<0, 1, 0, 1>>, m[1], m[2])
      B == Shuffle(<<2, 3, 2, 3>>, m[2], m[1])
      C == Shuffle(<<0, 1, 0, 1>>, m[3], m[4])
      D == Shuffle(<<2, 3, 2, 3>>, m[4], m[3])
      detSub == Minus(Mul(Shuffle(<<0, 2, 0, 2>>, m[1], m[3]), Shuffle(<<1, 3, 1, 3>>, m[2], m[4])),
                      Mul(Shuffle(<<1, 3, 1, 3>>, m[1], m[3]), Shuffle(<<0, 2, 0, 2>>, m[2], m[4])))
      detA == detSub[1]  detB == detSub[2]  detC == detSub[3]  detD == detSub[4]
      D_C == Mat2AdjMul(D, C)
      A_B == Mat2AdjMul(A, B)
      signs == <<1, -1, -1, 1>>
      X == Mul(signs, Minus(Times(A, detD), Mat2Mul(B, D_C)))
      W == Mul(signs, Minus(Times(D, detA), Mat2Mul(C, A_B)))
      Y == Mul(signs, Minus(Times(C, detB), Mat2MulAdj(D, A_B)))
      Z == Mul(signs, Minus(Times(B, detC), Mat2MulAdj(A, D_C)))
      pairs == LET t == Mul(A_B, Permute(<<0, 2, 1, 3>>, D_C)) IN HorizontalAdd(t, t)
      trace == HorizontalAdd(pairs, pairs)[1]
  IN  [of |-> <<Shuffle(<<3, 1, 3, 1>>, X, Y), Shuffle(<<2, 0, 2, 0>>, X, Y),
                Shuffle(<<3, 1, 3, 1>>, Z, W), Shuffle(<<2, 0, 2, 0>>, Z, W)>>,
       by |-> detA * detD + detB * detC - trace]

\* Inverse by cofactors: the rows but one and the columns but one, ...
GetCofactor(m, p, q, n) ==
  [i \in 1..(n - 1) |-> [j \in 1..(n - 1) |-> m[IF i < p THEN i ELSE i + 1][IF j < q THEN j ELSE j + 1]]]

Sign(i, j) == IF (i + j) % 2 = 0 THEN 1 ELSE -1

\* ... developed along the first row that is left, each time without it and one of the
\* columns that are left, ...
Determinant(m, n) ==
  LET of[columns \in SUBSET (1..n)] ==
        LET row == n + 1 - Cardinality(columns)
            sum[f \in 0..n] ==
              IF f = 0 THEN 0
              ELSE IF f \notin columns THEN sum[f - 1]
              ELSE sum[f - 1] + Sign(1, Cardinality(columns \cap 1..f)) * m[row][f] * of[columns \ {f}]
        IN  IF columns = {} THEN 1 ELSE sum[n]
  IN  of[1..n]

Adjoint(m) == [j \in 1..4 |-> [i \in 1..4 |-> Sign(i, j) * Determinant(GetCofactor(m, i, j, 4), 3)]]

\* ... and divided by the determinant, which is cut to an integer before; it says no
\* when nothing is left of it.  What is inverted is m / Unit, so that the numbers of
\* `of' over `by' are those of the result over Unit, and of the inverse of m.
Whole(det) == IF det < 0 THEN -((-det) \div Unit^4) ELSE det \div Unit^4

InverseByCofactors(m) ==
  LET det == Whole(Determinant(m, 4))
  IN  [ok |-> det # 0, of |-> Adjoint(m), by |-> det * Unit^4]

-----------------------------------------------------------------------------
\* Both start as identities.
Init ==
  /\ matrix = Identity(1)
  /\ affine = Rows3(Identity(1))
  /\ moves = <<>>
  /\ straight = {"matrix", "affine"}

Move(kind, by) == [kind |-> kind, by |-> by]
Column(m) == [i \in 1..3 |-> m[i][4]]
Linear(m) == [i \in 1..3 |-> SubSeq(m[i], 1, 3)]

\* History: a transformation joins the others, as the last or as the first that a vector
\* meets, and which of the two matrices are still what they collected.
Last(move) == moves' = <<move>> \o moves
First(move) == moves' = Append(moves, move)
Keeps(matrices) == straight' = straight \cap matrices

\* Only a matrix that leaves the fourth number alone can be moved by its last column.
Movable == IF matrix[4] = <<0, 0, 0, 1>> THEN {"matrix", "affine"} ELSE {"affine"}

\* The row of ones that Matrix3x4 has in a product does no harm where it meets zeros.
Turnable == IF Column(affine) = <<0, 0, 0>> THEN {"matrix", "affine"} ELSE {"matrix"}

MoveBy(v) ==
  /\ matrix' = Translate(matrix, v)
  /\ affine' = Translate(affine, v)
  /\ Last(Move("offset", v)) /\ Keeps(Movable)

MoveTo(v) ==
  /\ Column(matrix) = Column(affine)
  /\ matrix' = SetTranslation(matrix, v)
  /\ affine' = SetTranslation(affine, v)
  /\ Last(Move("offset", Minus(v, Column(matrix)))) /\ Keeps(Movable)

\* AddRotation; Rotate of a Matrix4 is the same.
Rotate(q) ==
  /\ matrix' = AddRotation(matrix, q)
  /\ affine' = Product3x4(affine, Rows3(Rotation(q)))
  /\ First(Move("rotation", q)) /\ Keeps(Turnable)

\* AddRotation and SetRotation of an AxisAngle or a Rotator, which both multiply.
RotateAbout(a) ==
  /\ matrix' = Product(matrix, AxisRotation(a))
  /\ UNCHANGED affine
  /\ First(Move("axis", a)) /\ Keeps(IF a.axis[2] * Sine(a.quarters) = 0 THEN {"matrix"} ELSE {})

RotateAsRotator(r) ==
  /\ matrix' = Product(matrix, RotatorRotation(r))
  /\ UNCHANGED affine
  /\ First(Move("rotator", r)) /\ Keeps({"matrix"})

\* SetRotation writes over the rotation of a Matrix4, and multiplies a Matrix3x4: they
\* agree only where none was.
RotateTo(q) ==
  /\ Linear(matrix) = Linear(Identity(1))
  /\ matrix' = SetRotation(matrix, q)
  /\ affine' = Product3x4(affine, Rows3(Rotation(q)))
  /\ First(Move("rotation", q))
  /\ Keeps(IF matrix[4] = <<0, 0, 0, 1>> /\ Linear(affine) = Linear(Identity(1)) THEN Turnable
           ELSE Turnable \cap {"affine"})

ScaleBy(v) ==
  /\ matrix' = Scale(matrix, v)
  /\ affine' = Product3x4(affine, Rows3(Scaling(v)))
  /\ First(Move("factor", v)) /\ Keeps(Turnable)

\* Matrix3x4(Matrix4).
FromMatrix == affine' = Rows3(matrix')

\* The other Scale, and SetScale where the numbers next to the diagonal are zero.
ScaleRowsBy(v) ==
  /\ matrix' = ScaleRows(matrix, v)
  /\ FromMatrix
  /\ Last(Move("factor", v))
  /\ straight' = IF "matrix" \notin straight THEN {}
                 ELSE IF matrix[4] = <<0, 0, 0, 1>> THEN {"matrix", "affine"} ELSE {"matrix"}

ScaleTo(v) ==
  /\ Linear(matrix) = Linear(Identity(1)) /\ matrix[4] = <<0, 0, 0, 1>>
  /\ matrix' = SetScale(matrix, v)
  /\ FromMatrix
  /\ First(Move("factor", v))
  /\ straight' = IF "matrix" \in straight THEN {"matrix", "affine"} ELSE {}

Enlarge(x) ==
  /\ matrix' = Scaled(matrix, x)
  /\ UNCHANGED affine
  /\ First(Move("matrix", Identity(x))) /\ Keeps({"matrix"})

MultiplyBy(n) ==
  /\ matrix' = Product(matrix, n)
  /\ UNCHANGED affine
  /\ First(Move("matrix", n)) /\ Keeps({"matrix"})

Next ==
  /\ Len(moves) < MaxMoves
  /\ \/ \E v \in Offsets : MoveBy(v) \/ MoveTo(v)
     \/ \E q \in Quaternions : Rotate(q) \/ RotateTo(q)
     \/ \E v \in Factors : ScaleBy(v) \/ ScaleRowsBy(v) \/ ScaleTo(v)
     \/ \E a \in AxisAngles : RotateAbout(a)
     \/ \E r \in Rotators : RotateAsRotator(r)
     \/ \E n \in Matrices : MultiplyBy(n)
     \/ \E v \in Factors : Enlarge(v[1])

Spec == Init /\ [][Next]_vars

-----------------------------------------------------------------------------
\* What turning about an axis does to a point.
Turned(v, axis, quarters) ==
  LET c == Cosine(quarters)
  IN  Plus(Plus(Times(v, c), Times(Cross(axis, v), Sine(quarters))),
           Times(axis, DotProduct(axis, v) * (1 - c)))

TurnedInOrder(v, r, order) ==
  LET axes == <<<<1, 0, 0>>, <<0, 1, 0>>, <<0, 0, 1>>>>
      turned[k \in 0..3] ==
        IF k = 0 THEN v ELSE LET u == turned[k - 1] IN Turned(u, axes[order[k]], r[order[k]])
  IN  turned[3]

\* What a transformation does to a vector of four: a rotation is applied as the
\* quaternion, not as its matrix.
Moved(v, move) ==
  LET p == SubSeq(v, 1, 3)
      by == move.by
  IN  CASE move.kind = "offset" -> Append(Plus(p, Times(by, v[4])), v[4])
        [] move.kind = "factor" -> Append(Mul(p, by), v[4])
        [] move.kind = "rotation" -> Append(Rotated(by, p), v[4])
        [] move.kind = "axis" -> Append(Turned(p, by.axis, by.quarters), v[4])
        [] move.kind = "rotator" -> Append(TurnedInOrder(p, by, <<1, 3, 2>>), v[4])
        [] move.kind = "matrix" -> [i \in 1..4 |-> DotProduct(by[i], v)]

MovedByAll(v) ==
  LET moved[k \in 0..Len(moves)] ==
        IF k = 0 THEN v ELSE LET u == moved[k - 1] IN Moved(u, moves[Len(moves) + 1 - k])
  IN  moved[Len(moves)]

\* A matrix that collected transformations does to a vector what they do one after the
\* other, the added ones first and the moves of the last column last; the rotation of a
\* product of quaternions is that of one after the other, and that of a rotator's
\* quaternion turns about z, x and y in this order.  A sum of matrices does what both do,
\* and the orthographic projection takes opposite corners of its box to those of the view.
TransformsCompose ==
  \A v \in Probes :
     LET moved == MovedByAll(v) IN
     /\ "matrix" \in straight =>
          /\ Apply(matrix, v) = moved
          /\ v[4] = 1 => ApplyPoint(matrix, v) = SubSeq(moved, 1, 3)
     /\ "affine" \in straight /\ v[4] = 1 => ApplyPoint(affine, v) = SubSeq(moved, 1, 3)
     /\ \A n \in Matrices :
          /\ Apply(Added(matrix, n), v) = Plus(Apply(matrix, v), Apply(n, v))
          /\ Apply(Subtracted(matrix, n), v) = Minus(Apply(matrix, v), Apply(n, v))
     /\ Apply(Lowered(matrix, 3), v) =
          Minus(Apply(matrix, v), Broadcast(3 * (v[1] + v[2] + v[3] + v[4])))
     /\ moves = <<>> => \A l, b, n \in {-1, 0, 2}, w, h, d \in 1..2 :
          LET m == Transpose(Ortho(l + w, l, b + h, b, n, n + d))
              one == w * h * d
          IN  /\ Apply(m, <<l, b, n, 1>>) = <<-one, -one, 0, one>>
              /\ Apply(m, <<l + w, b + h, n + d, 1>>) = Broadcast(one)
     /\ moves = <<>> => LET u == SubSeq(v, 1, 3) IN
          /\ \A p, q \in Quaternions : Rotated(QuaternionProduct(p, q), u) = Rotated(p, Rotated(q, u))
          /\ \A r \in Rotators : IsWhole(r) => Rotated(QuaternionOf(r), u) = TurnedInOrder(u, r, <<3, 1, 2>>)

\* Both inverses are inverses, from both sides: that by blocks divides by the
\* determinant, and that by cofactors refuses a matrix without an inverse, and is exact
\* where it refuses nothing and the determinant is whole.  The inverted projection
\* undoes the projection.
InversesAgree ==
  LET det == Determinant(matrix, 4)
      byBlocks == Inverse(matrix)
      byCofactors == InverseByCofactors(matrix)
  IN  /\ byBlocks.by = det
      /\ Product(matrix, byBlocks.of) = Identity(det) /\ Product(byBlocks.of, matrix) = Identity(det)
      /\ det = 0 => ~byCofactors.ok
      /\ byCofactors.ok /\ det % Unit^4 = 0 => byCofactors = [ok |-> TRUE, of |-> byBlocks.of, by |-> byBlocks.by]
      /\ Determinant(Transpose(matrix), 4) = det
      /\ moves = <<>> => \A h, ratio, near \in 1..2, depth \in 1..2 :
           Product(Perspective(h, ratio, near, near + depth), InvertedPerspective(h, ratio, near, near + depth)) =
             Identity(h * ratio * depth * near * (near + depth))

\* Inverse "returns false if matrix is singular": a matrix that collected transformations
\* and was divided by Unit, if it is refused, has no inverse.
RefusesTheSingular ==
  moves # <<>> => InverseByCofactors(matrix).ok \/ Determinant(matrix, 4) = 0
=============================================================================
