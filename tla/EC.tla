--------------------------------- MODULE EC ---------------------------------
(***************************************************************************)
(* The group law of a curve y^2 = x^3 + B over any field: what ecfp.c and  *)
(* ecfp2.c both do, each with the operations of its own field.  A point is *)
(* a record with the flag infinity; a routine leaves in res what it does   *)
(* not write, so res is an argument where an early return can show it.     *)
(***************************************************************************)
EXTENDS Integers, Sequences

CONSTANTS Plus(_, _), Minus(_, _), Times(_, _), Inverse(_),  \* of the field
          Zero, One, B,
          LooksZero(_)  \* how add_proj tests the difference of the ordinates

Twice(a) == Plus(a, a)
Thrice(a) == Plus(Twice(a), a)
Square(a) == Times(a, a)
Cube(a) == Times(Square(a), a)
Negated(a) == Minus(Zero, a)
Affine(x, y) == [infinity |-> FALSE, x |-> x, y |-> y]
Projective(x, y, z) == [infinity |-> FALSE, x |-> x, y |-> y, z |-> z]

(* With the slope s through a and a point with abscissa bx.                *)
Third(a, bx, s) ==
  LET x == Minus(Minus(Square(s), a.x), bx) IN
  [x |-> x, y |-> Minus(Times(Minus(a.x, x), s), a.y)]

(* The flag of res is not cleared.                                         *)
dbl_affine(res, a) ==
  IF a.infinity THEN [res EXCEPT !.infinity = TRUE]
  ELSE LET r == Third(a, a.x, Times(Inverse(Twice(a.y)), Thrice(Square(a.x)))) IN
       [res EXCEPT !.x = r.x, !.y = r.y]

add_affine(res, a, b) ==
  IF a.infinity /\ b.infinity THEN [res EXCEPT !.infinity = TRUE]
  ELSE IF a.infinity THEN b
  ELSE IF b.infinity THEN a
  ELSE IF a.x = b.x
  THEN IF a.y = b.y THEN dbl_affine(res, a) ELSE [res EXCEPT !.infinity = TRUE]
  ELSE LET r == Third(a, b.x, Times(Minus(b.y, a.y), Inverse(Minus(b.x, a.x)))) IN
       Affine(r.x, r.y)

neg_affine(a) == [a EXCEPT !.y = Negated(@)]
neg_proj(a) == [a EXCEPT !.y = Negated(@)]

get_projective(a) ==
  IF a.infinity THEN [infinity |-> TRUE] ELSE Projective(a.x, a.y, One)

(* Homogeneous coordinates, with a random z.                               *)
get_homogeneous_projective(a, z) ==
  IF a.infinity THEN [infinity |-> TRUE]
  ELSE Projective(Times(a.x, z), Times(a.y, z), z)

(* Jacobian coordinates, with a random z.                                  *)
get_jacobian_projective(a, z) ==
  IF a.infinity THEN [infinity |-> TRUE]
  ELSE Projective(Times(a.x, Square(z)), Times(Times(a.y, z), Square(z)), z)

get_affine_from_jacobian(res, a) ==
  IF a.infinity THEN [res EXCEPT !.infinity = TRUE]
  ELSE LET t == Inverse(a.z) IN Affine(Times(Square(t), a.x), Times(Cube(t), a.y))

dbl_proj(a) ==
  IF a.infinity THEN a
  ELSE LET s == Thrice(Square(a.x))
           yy == Square(Twice(a.y))
           xyy == Times(yy, a.x)
           x == Minus(Square(s), Twice(xyy))
       IN Projective(x,
            Minus(Times(s, Minus(xyy, x)), Twice(Twice(Twice(Square(Square(a.y)))))),
            Times(Twice(a.y), a.z))

(* b is affine.  A point plus infinity keeps its x and y but not its z.    *)
add_proj(a, b) ==
  IF a.infinity THEN IF b.infinity THEN a ELSE Projective(b.x, b.y, One)
  ELSE IF b.infinity THEN [a EXCEPT !.z = One]
  ELSE LET bx == Times(Square(a.z), b.x)
           dx == Minus(bx, a.x)
           dy == Minus(Times(Cube(a.z), b.y), a.y)
       IN IF dx = Zero
          THEN IF LooksZero(dy) THEN dbl_proj(a) ELSE [infinity |-> TRUE]
          ELSE LET x == Minus(Square(dy), Times(Plus(bx, a.x), Square(dx)))
                   ax == Times(Square(dx), a.x)
               IN Projective(x, Minus(Times(Minus(ax, x), dy), Times(Cube(dx), a.y)),
                             Times(dx, a.z))

(* The same sums by way of Jacobian coordinates.                           *)
add_affine_proj(res, a, b, z) ==
  get_affine_from_jacobian(res, add_proj(get_jacobian_projective(a, z), b))
dbl_affine_proj(res, a, z) ==
  get_affine_from_jacobian(res, dbl_proj(get_jacobian_projective(a, z)))

(* Whether two triples differ; not whether they are different points.      *)
compare(a, b) ==
  \/ a.infinity # b.infinity
  \/ a.x # b.x \/ a.y # b.y \/ a.z # b.z

(* Double and add from the highest of the bits.                            *)
mul_l2rb(res, a, bits) ==
  LET r[i \in 0..Len(bits)] ==
        IF i = 0 THEN [infinity |-> TRUE]
        ELSE LET d == dbl_proj(r[i-1]) IN IF bits[i] = 1 THEN add_proj(d, a) ELSE d
  IN get_affine_from_jacobian(res, r[Len(bits)])

-----------------------------------------------------------------------------
(* The ladder on abscissas only, which share their z.                      *)

verify_coordinates(x, y) == Square(y) = Plus(Cube(x), B)
verify_homogeneous(x, y, z) ==
  Times(Square(y), z) = Plus(Cube(x), Times(B, Cube(z)))

(* Of points p and q whose difference has the abscissa xd: the first       *)
(* becomes p + q, the second q + q.                                        *)
add_dbl_coz(x1, x2, z, xd) ==
  LET bz == Times(Twice(Twice(B)), Cube(z))
      square == Square(Minus(x1, x2))
      num == Minus(Plus(Square(x2), Square(x1)), square)
      den == Times(z, square)
      double == Plus(Twice(Twice(Cube(x2))), bz)
  IN [x1 |-> Times(double, Minus(Plus(Times(Plus(x1, x2), num), bz), Times(xd, den))),
      x2 |-> Times(square, Minus(Square(Square(x2)), Times(Twice(x2), bz))),
      z |-> Times(den, double)]

(* From the abscissas of p and p + d the homogeneous coordinates of p.     *)
recover_full_coord_coz(x1, x2, z, xd, yd) ==
  LET dz == Times(xd, z)
      r == Minus(Times(Times(dz, x1), Plus(x1, dz)), Times(Square(Minus(x1, dz)), x2))
      y4 == Twice(Twice(yd))
      zzz == Cube(z)
  IN [x |-> Times(Times(y4, x1), Square(z)),
      y |-> Plus(Times(Twice(Twice(B)), zzz), Twice(r)),
      z |-> Times(zzz, y4)]

(* res is not written when a check fails.  The flag of a is not looked at. *)
mul_montyladder(res, a, bits, z) ==
  LET first == add_dbl_coz(Zero, Times(a.x, z), z, a.x)
      ladder[i \in 1..Len(bits)] ==
        IF i = 1 THEN [first EXCEPT !.x1 = Times(a.x, first.z)]
        ELSE LET s == ladder[i-1] IN
             IF bits[i] = 1 THEN add_dbl_coz(s.x1, s.x2, s.z, a.x)
             ELSE LET t == add_dbl_coz(s.x2, s.x1, s.z, a.x) IN
                  [t EXCEPT !.x1 = t.x2, !.x2 = t.x1]
      last == ladder[Len(bits)]
      r == recover_full_coord_coz(last.x1, last.x2, last.z, a.x, a.y)
      t == Inverse(r.z)
      drawn == get_homogeneous_projective([a EXCEPT !.infinity = FALSE], z)
  IN IF /\ verify_coordinates(a.x, a.y)
        /\ verify_homogeneous(drawn.x, drawn.y, drawn.z)
        /\ verify_homogeneous(r.x, r.y, r.z)
     THEN Affine(Times(r.x, t), Times(r.y, t))
     ELSE res
=============================================================================
