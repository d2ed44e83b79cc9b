------------------------------- MODULE Pairing -------------------------------
(***************************************************************************)
(* The optimal ate pairing of pbc_bn.c and the blind signatures of bls.c   *)
(* that rest on it.  A line is what fp12_mul_sparse takes: b0 of Fp4, b10  *)
(* of Fp2.                                                                 *)
(***************************************************************************)
EXTENDS Curves

CONSTANTS (* What the headers bind.                                        *)
          pbc_map_opt_ate(_, _, _), pbc_map_opt_ate_mul(_, _, _, _, _),
          pbc_map_opt_ate_div(_, _, _, _, _)

(* |6u + 2|, for negative u.                                               *)
OPTATE_LOOP_CONST == 6 * EC_PARAM_X - 2

Double(a) == a \oplus a
Triple(a) == Double(a) \oplus a

(* The tangent in q at p, and 2q; homogeneous coordinates.                 *)
pbc_point_dbl_line(q, p) ==
  LET xx == fp2_sqr(q.x)
      yy == fp2_sqr(q.y)
      zz == fp2_sqr(q.z)
      xy2 == (fp2_sqr(q.x \oplus q.y) \ominus xx) \ominus yy
      yz2 == (fp2_sqr(q.y \oplus q.z) \ominus yy) \ominus zz
      c == fp2_div_qnr(fp2_mulfp(Triple(zz), EC_PARAM_B))
      cc4 == Double(Double(fp2_sqr(c)))
  IN [b0 |-> <<fp2_neg(fp2_mulfp(yz2, p.y)), c \ominus yy>>,
      b10 |-> fp2_mulfp(Triple(xx), p.x),
      t |-> ecfp2!Projective((yy \ominus Triple(c)) \otimes xy2,
              (fp2_sqr(yy \oplus Triple(c)) \ominus cc4) \ominus Double(cc4),
              Double(Double(yy)) \otimes yz2)]

(* The line through r and q at p, and r + q.                               *)
pbc_point_add_line(r, q, p) ==
  LET a == r.y \ominus (q.y \otimes r.z)
      b == r.x \ominus (q.x \otimes r.z)
      bbb == b \otimes fp2_sqr(b)
      e == fp2_sqr(b) \otimes r.x
      f == ((fp2_sqr(a) \otimes r.z) \oplus bbb) \ominus Double(e)
  IN [b0 |-> <<fp2_mulfp(b, p.y), (a \otimes q.x) \ominus (b \otimes q.y)>>,
      b10 |-> fp2_mulfp(fp2_neg(a), p.x),
      t |-> ecfp2!Projective(b \otimes f, (a \otimes (e \ominus f)) \ominus (bbb \otimes r.y),
                             bbb \otimes r.z)]

(* The same lines from the first formulas: Jacobian coordinates, one line  *)
(* for a tangent alone, one for a chord alone, one with the double.        *)
pbc_eval_tangent_function(a, p) ==
  LET zzz == fp2_sqr(a.z) \otimes a.z
      n == Triple(fp2_sqr(a.x))
      d == Double(a.y) \otimes a.z
  IN [b0 |-> <<fp2_mulfp(d, Mod(-p.y)) \otimes zzz,
               (d \otimes a.y) \ominus ((a.x \otimes n) \otimes a.z)>>,
      b10 |-> fp2_mulfp(n, p.x) \otimes zzz]

pbc_eval_line_function(a, b, p) ==
  LET zzz == fp2_sqr(a.z) \otimes a.z
      d == (b.x \otimes zzz) \ominus (a.x \otimes a.z)
      n == (b.y \otimes zzz) \ominus a.y
  IN [b0 |-> <<fp2_mulfp(d, Mod(-p.y)) \otimes zzz,
               (d \otimes a.y) \ominus ((a.x \otimes n) \otimes a.z)>>,
      b10 |-> fp2_mulfp(n, p.x) \otimes zzz]

pbc_point_dbl_line_jacobian(q, p) ==
  LET xx == fp2_sqr(q.x)
      s == Triple(xx)
      zz == fp2_sqr(q.z)
      t == ecfp2_dbl_proj(q)
  IN [b0 |-> <<fp2_mulfp(Double(zz \otimes t.z), p.y),
               ((fp2_sqr(q.x \oplus s) \ominus fp2_sqr(s)) \ominus xx)
                  \ominus fp2_sqr(Double(q.y))>>,
      b10 |-> fp2_mulfp(fp2_neg(Double(zz \otimes s)), p.x),
      t |-> t]

(* The loop begins with the word 1, which is not the number 1; the final   *)
(* exponent does away with it.                                             *)
RawOne == << <<<<FromMemory(1), 0>>, fp2_zero>>, fp4_zero, fp4_zero >>

(* A value is multiplied by lines: by what is not zero of them, or by all. *)
TimesSparse(f, lines) ==
  LET done[k \in 0..Len(lines)] ==
        IF k = 0 THEN f ELSE fp12_mul_sparse(done[k-1], lines[k].b0, lines[k].b10)
  IN done[Len(lines)]
TimesFull(f, lines) ==
  LET done[k \in 0..Len(lines)] ==
        IF k = 0 THEN f
        ELSE fp12_mul(done[k-1], <<lines[k].b0, <<lines[k].b10, fp2_zero>>, fp4_zero>>)
  IN done[Len(lines)]

(* The point of the last chord.                                            *)
LastPoint(q) == ecfp2_neg_affine(ecfp2_frobenius_map(q, 2))

(* The Miller loop of one pair of points, or of several with common        *)
(* squares.  Points are finite, as all are that come from bls_uncompress   *)
(* and from a multiplication.                                              *)
MillerLoop(ps, qs, z) ==
  LET bits == BitsOf(OPTATE_LOOP_CONST)
      Points(lines) == [k \in DOMAIN lines |-> lines[k].t]
      Tangents(ts) == [k \in DOMAIN ps |-> pbc_point_dbl_line(ts[k], ps[k])]
      Chords(ts, cs) == [k \in DOMAIN ps |-> pbc_point_add_line(ts[k], cs[k], ps[k])]
      loop[i \in 1..Len(bits)] ==
        IF i = 1
        THEN [res |-> RawOne,
              t |-> [k \in DOMAIN qs |-> ecfp2_get_homogeneous_projective(qs[k], z)]]
        ELSE LET s == loop[i-1]
                 tangents == Tangents(s.t)
                 res == TimesSparse(fp12_sqr(s.res), tangents)
                 chords == Chords(Points(tangents), qs)
             IN IF bits[i] = 1 THEN [res |-> TimesSparse(res, chords), t |-> Points(chords)]
                ELSE [res |-> res, t |-> Points(tangents)]
      last == loop[Len(bits)]
      (* u is negative.                                                    *)
      turned == [k \in DOMAIN qs |-> ecfp2_neg_proj(last.t[k])]
      first == Chords(turned, [k \in DOMAIN qs |-> ecfp2_frobenius_map(qs[k], 1)])
      second == Chords(Points(first),
                          [k \in DOMAIN qs |-> LastPoint(qs[k])])
  IN TimesFull(TimesFull(fp12_conjugate(last.res), first), second)

(* f^((p^6 - 1)(p^2 + 1)).                                                 *)
final_exp_easy[f \in Fp12] ==
  LET r == fp12_mul(fp12_conjugate(f), fp12_inv(f)) IN
  fp12_mul(r, fp12_frobenius_map(r, 2))

(* A fixed multiple of the rest; a power with u is a power with |u|,       *)
(* conjugated.                                                             *)
final_exp_fuentes[f \in Fp12] ==
  LET ToU(x) == fp12_conjugate(fp12_final_exp(x, EC_PARAM_X))
      f2u == fp12_sqr_cyclotomic(ToU(f))
      f6u == fp12_mul(fp12_sqr_cyclotomic(f2u), f2u)
      f6uu == ToU(f6u)
      r == fp12_mul(fp12_mul(f, fp12_frobenius_map(f, 1)), f6uu)
      a == fp12_final_mulexp(fp12_mul(f6u, f6uu),
             fp12_conjugate(fp12_sqr_cyclotomic(f6uu)), EC_PARAM_X)
      b == fp12_mul(fp12_conjugate(fp12_mul(f2u, f)), a)
      Next1(x, y) == fp12_mul(fp12_frobenius_map(x, 1), y)
  IN fp12_mul(Next1(Next1(Next1(b, a), b), r), a)

(* The rest itself, by the addition chain of Scott.                        *)
final_exp_scott(f) ==
  LET a == fp12_final_exp(fp12_conjugate(f), EC_PARAM_X)
      b == fp12_final_exp(fp12_conjugate(a), EC_PARAM_X)
      c == fp12_final_exp(fp12_conjugate(b), EC_PARAM_X)
      ToP(x) == fp12_frobenius_map(x, 1)
      y6 == fp12_conjugate(fp12_mul(ToP(c), c))
      y4 == fp12_conjugate(fp12_mul(ToP(b), a))
      y5 == fp12_conjugate(b)
      t0 == fp12_mul(fp12_mul(fp12_sqr_cyclotomic(y6), y4), y5)
      t1 == fp12_mul(fp12_mul(fp12_conjugate(ToP(a)), y5), t0)
      u0 == fp12_mul(t0, fp12_frobenius_map(b, 2))
      u1 == fp12_sqr_cyclotomic(fp12_mul(fp12_sqr_cyclotomic(t1), u0))
      y0 == fp12_mul(fp12_mul(ToP(f), fp12_frobenius_map(f, 2)), fp12_frobenius_map(f, 3))
  IN fp12_mul(fp12_mul(u1, y0), fp12_sqr_cyclotomic(fp12_mul(u1, fp12_conjugate(f))))

pbc_map_opt_ate_optimized_final_exp_std(f) == final_exp_scott(final_exp_easy[f])

FinalExp(f) == final_exp_fuentes[final_exp_easy[f]]

pbc_map_opt_ate_optimized_miller_std(p, q, z) == MillerLoop(<<p>>, <<q>>, z)
pbc_map_opt_ate_optimized_std(p, q, z) ==
  LET f == pbc_map_opt_ate_optimized_miller_std(p, q, z) IN FinalExp(f)
pbc_map_opt_ate_mul_std(p1, q1, p2, q2, z) ==
  LET f == MillerLoop(<<p1, p2>>, <<q1, q2>>, z) IN FinalExp(f)
pbc_map_opt_ate_div_std(p1, q1, p2, q2, z) ==
  LET f1 == MillerLoop(<<p1>>, <<q1>>, z)
      f2 == MillerLoop(<<p2>>, <<q2>>, z)
  IN FinalExp(fp12_mul(f1, fp12_inv(f2)))

-----------------------------------------------------------------------------
(* bls.c.  A number of 256 bits loses its two highest bits and is reduced; *)
(* the result 0 is refused by every caller.                                *)

bls_reduce(x) == (x % 2^NUMBER_BITS) % EC_PARAM_N

Refused == [ret |-> 0]

(* Each routine reduces its random number itself and gives it back         *)
(* reduced; z and z2 are what the multiplications draw.                    *)
bls_key(x, z, z2) ==
  LET c == bls_reduce(x) IN
  IF c = 0 THEN Refused
  ELSE [ret |-> 1, x |-> c,
        XX |-> ecfp2_mul(ECFP2_GENERATOR, c, z2), X |-> ecfp_mul(ECFP_GENERATOR, c, z)]
bls_mult(X, x, z) ==
  LET c == bls_reduce(x) IN
  IF c = 0 THEN Refused ELSE [ret |-> 1, x |-> c, S |-> ecfp_mul(X, c, z)]
bls_hash(m) ==
  LET c == bls_reduce(m) IN
  IF c = 0 THEN Refused ELSE [ret |-> 1, m |-> c, h |-> ecfp_hash_to_point(FromMemory(c))]
bls_blind(h, r, z) ==
  LET c == bls_reduce(r) IN
  IF c = 0 THEN Refused
  ELSE [ret |-> 1, r |-> c, b |-> ecfp!add_affine(Res, h, ecfp_mul(ECFP_GENERATOR, c, z))]
bls_sign(h, x, z) == ecfp_mul(h, x, z)

(* Deviation: the blinding is not taken away but added once more.          *)
UnblindPositive(s, X, r, z) == ecfp!add_affine(Res, s, ecfp_mul(X, r, z))

bls_unblind(s, X, r, z) == ecfp!add_affine(Res, s, ecfp!neg_affine(ecfp_mul(X, r, z)))

(* The words that are compared are the first coefficient only.             *)
bls_verify(h, s, XX, z2) ==
  pbc_map_opt_ate(s, ECFP2_GENERATOR, z2)[1][1][1] = pbc_map_opt_ate(h, XX, z2)[1][1][1]
=============================================================================
