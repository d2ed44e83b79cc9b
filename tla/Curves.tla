------------------------------- MODULE Curves -------------------------------
(***************************************************************************)
(* The two groups of the signatures: the curve of ecfp.c over Fp and its   *)
(* twist of ecfp2.c over Fp2, hashing to them, and the short form of a     *)
(* point (bls.c).  In memory a number a of Fp is a * MONT_R; only what     *)
(* looks at the words of a number sees the difference.                     *)
(***************************************************************************)
EXTENDS Fields

CONSTANTS EC_PARAM_B,        \* 2 in the code
          EC_PARAM_X,        \* |u|; u is negative
          MONT_R,
          NUMBER_BITS,           \* of a number; 254 in the code
          ECFP_GENERATOR, ECFP2_GENERATOR,
          (* What the headers bind.                                        *)
          ecfp_mul(_, _, _), ecfp2_mul(_, _, _)

EC_PARAM_N ==
  LET u == -EC_PARAM_X IN 36*u^4 + 36*u^3 + 18*u^2 + 6*u + 1

InMemory(a) == fp_mul(a, MONT_R)
FromMemory(words) == fp_mul(words, fp_inv(MONT_R))

BitsOf(k) == [i \in 1..Msb(k) + 1 |-> IF TestBit(k, Msb(k) + 1 - i) THEN 1 ELSE 0]

fp2_b == fp2_div_qnr(<<EC_PARAM_B, 0>>)

(* The test of the ordinates in ecfp2_add_proj looks at one half twice.    *)
ecfp == INSTANCE EC WITH
  Plus <- LAMBDA a, b : Mod(a + b), Minus <- LAMBDA a, b : Mod(a - b),
  Times <- fp_mul, Inverse <- fp_inv, Zero <- 0, One <- 1, B <- EC_PARAM_B,
  LooksZero <- LAMBDA d : d = 0
ecfp2 == INSTANCE EC WITH
  Plus <- LAMBDA a, b : a \oplus b, Minus <- LAMBDA a, b : a \ominus b,
  Times <- LAMBDA a, b : a \otimes b, Inverse <- fp2_inv,
  Zero <- fp2_zero, One <- fp2_one, B <- fp2_b,
  LooksZero <- LAMBDA d : d[2] = 0

(* A variable for a result: what is in it before.                          *)
Res == [infinity |-> FALSE, x |-> 0, y |-> 0]
Res2 == [infinity |-> FALSE, x |-> fp2_zero, y |-> fp2_zero]

(* Multiplication draws a new z.                                           *)
ecfp_mul_montyladder_std(a, k, z) ==
  LET bits == BitsOf(k) IN ecfp!mul_montyladder(Res, a, bits, z)
ecfp2_mul_montyladder_std(a, k, z) ==
  LET bits == BitsOf(k) IN ecfp2!mul_montyladder(Res2, a, bits, z)

(* The routines of ecfp2.c.                                                *)
ecfp2_add_affine(res, a, b) == ecfp2!add_affine(res, a, b)
ecfp2_dbl_affine(res, a) == ecfp2!dbl_affine(res, a)
ecfp2_dbl_affine_std(res, a, z) == ecfp2!dbl_affine_proj(res, a, z)
ecfp2_add_affine_std(res, a, b, z) == ecfp2!add_affine_proj(res, a, b, z)
ecfp2_neg_affine(a) == ecfp2!neg_affine(a)
ecfp2_neg_proj(a) == ecfp2!neg_proj(a)
ecfp2_add_proj(a, b) == ecfp2!add_proj(a, b)
ecfp2_dbl_proj(a) == ecfp2!dbl_proj(a)
ecfp2_mul_l2rb(res, a, k) == ecfp2!mul_l2rb(res, a, BitsOf(k))
ecfp2_add_dbl_coz(x1, x2, z, xd) == ecfp2!add_dbl_coz(x1, x2, z, xd)
ecfp2_recover_full_coord_coz(x1, x2, z, xd, yd) ==
  ecfp2!recover_full_coord_coz(x1, x2, z, xd, yd)
ecfp2_verify_coordinates(x, y) == ecfp2!verify_coordinates(x, y)
ecfp2_verify_homogeneous(x, y, z) == ecfp2!verify_homogeneous(x, y, z)
ecfp2_get_affine_from_jacobian(res, a) == ecfp2!get_affine_from_jacobian(res, a)
ecfp2_get_projective(a) == ecfp2!get_projective(a)
ecfp2_get_jacobian_projective(a, z) == ecfp2!get_jacobian_projective(a, z)
ecfp2_get_homogeneous_projective(a, z) == ecfp2!get_homogeneous_projective(a, z)
ecfp2_compare(a, b) == ecfp2!compare(a, b)

(* The p-th power of the coordinates on the curve the twist belongs to.    *)
ecfp2_frobenius_map(a, i) ==
  LET s[j \in 0..i] ==
        IF j = 0 THEN a
        ELSE LET r == s[j-1] IN
             [r EXCEPT !.x = fp2_frobenius(@, 1) \otimes RootResidue[2],
                       !.y = fp2_frobenius(@, 1) \otimes RootResidue[3]]
  IN s[i]

(* The same from the exponent, without the table.                          *)
ecfp2_frobenius_map_std(a, i) ==
  LET q == fp2_exp(fp2_mul_qnr(fp2_one), ((PRIME_P - 1) \div 3) \div 2)
      q2 == fp2_sqr(q)
      q3 == q \otimes q2
      s[j \in 0..i] ==
        IF j = 0 THEN a
        ELSE LET r == s[j-1] IN
             [r EXCEPT !.x = fp2_frobenius(@, 1) \otimes q2,
                       !.y = fp2_frobenius(@, 1) \otimes q3]
  IN s[i]

(* Deviation: a negative remainder loses its sign.                         *)
FirstSquareAbsolute(alpha, beta) == ((1 - alpha) * beta) % 3

(* As (alpha - 1) * beta % 3 in C, made positive.                          *)
FirstSquare(alpha, beta) == ((alpha - 1) * beta) % 3

(* One of three abscissas of t belongs to a point (Fouque and Tibouchi).   *)
ecfp_hash_to_point(t) ==
  LET t0 == fp_sqrt(PRIME_P - 3)
      w == fp_mul(fp_mul(fp_inv(Mod(t * t + 1 + EC_PARAM_B)), t0), t)
      x0 == Mod(fp_hlv(Mod(t0 - 1)) - fp_mul(w, t))
      x1 == Mod(-1 - x0)
      x2 == Mod(fp_inv(fp_mul(w, w)) + 1)
      Curve(x) == Mod(fp_mul(fp_mul(x, x), x) + EC_PARAM_B)
      x == <<x0, x1, x2>>[FirstSquare(fp_legendre(Curve(x0)), fp_legendre(Curve(x1))) + 1]
      y == fp_sqrt(Curve(x))
  IN ecfp!Affine(x, IF fp_legendre(t) = -1 THEN Mod(-y) ELSE y)

(* The same on the twist, before the cofactor.                             *)
ecfp2_hash_to_twist(t) ==
  LET t0 == fp_sqrt(PRIME_P - 3)
      w == fp2_mulfp(fp2_mulfp(fp2_inv(<<Mod(t * t + 1), 0>> \oplus fp2_b), t0), t)
      x0 == fp2_hlv(<<Mod(t0 - 1), 0>>) \ominus fp2_mulfp(w, t)
      x1 == <<PRIME_P - 1, 0>> \ominus x0
      x2 == fp2_inv(fp2_sqr(w)) \oplus fp2_one
      Curve(x) == (fp2_sqr(x) \otimes x) \oplus fp2_b
      x == <<x0, x1, x2>>[FirstSquare(fp2_legendre(Curve(x0)), fp2_legendre(Curve(x1))) + 1]
      y == fp2_sqrt(Curve(x))
  IN ecfp2!Affine(x, IF fp_legendre(t) = -1 THEN fp2_neg(y) ELSE y)

(* Into the group of order n: u, 3u, u and 1 times the powers 0 to 3 of    *)
(* the Frobenius map.                                                      *)
ClearCofactor(q, z) ==
  LET px == ecfp2_neg_affine(ecfp2_mul(q, EC_PARAM_X, z))
      px3 == ecfp2_add_affine(Res2, ecfp2_dbl_affine(Res2, px), px)
      start == ecfp2_get_jacobian_projective(ecfp2_frobenius_map(q, 3), z)
      tp == ecfp2_add_proj(ecfp2_add_proj(ecfp2_add_proj(start, px),
                             ecfp2_frobenius_map(px, 2)), ecfp2_frobenius_map(px3, 1))
  IN ecfp2_get_affine_from_jacobian(Res2, tp)

ecfp2_hash_to_point(t, z) == ClearCofactor(ecfp2_hash_to_twist(t), z)

-----------------------------------------------------------------------------
(* The short form: the words of the abscissa and a flag for the ordinate.  *)

Upper(y) == InMemory(y) > PRIME_P \div 2

bls_compress(p) == [x |-> InMemory(p.x), sign |-> Upper(p.y)]

(* The result is 0 for what is not a point, and for the abscissa 0.        *)
bls_uncompress(t) ==
  LET x == FromMemory((t.x % 2^NUMBER_BITS) % PRIME_P)
      yy == Mod(fp_mul(fp_mul(x, x), x) + EC_PARAM_B)
      y == fp_sqrt(yy)
  IN [ret |-> IF fp_mul(y, y) # yy \/ x = 0 THEN 0 ELSE 1,
      p |-> ecfp!Affine(x, IF Upper(y) # t.sign THEN Mod(-y) ELSE y)]
=============================================================================
