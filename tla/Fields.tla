------------------------------- MODULE Fields -------------------------------
(***************************************************************************)
(* The fields of the pairing: fp.c above its words, fp2.c, fp4.c, fp12.c.  *)
(* An element of Fp is a number below PRIME_P (its Montgomery form is the  *)
(* matter of module Words), of Fp2 = Fp(i) a pair, i^2 = -1, of            *)
(* Fp4 = Fp2(v) a pair, v^2 = 1 + i, of Fp12 = Fp4(w) a triple, w^3 = v.   *)
(* What code writes as a sequence of assignments is one expression here.   *)
(***************************************************************************)
EXTENDS Integers, Sequences

CONSTANTS PRIME_P,  \* p = 36u^4 + 36u^3 + 24u^2 + 6u + 1 in the code
          (* What the headers bind to one of several implementations.      *)
          fp_inv(_), fp2_mul(_, _), fp2_inv(_), fp2_exp(_, _),
          fp4_mul(_, _), fp4_sqr(_), fp4_inv(_),
          fp12_mul(_, _), fp12_sqr(_), fp12_inv(_), fp12_sqr_cyclotomic(_),
          fp12_frobenius_map(_, _), fp12_final_exp(_, _)

ASSUME PrimeAssumption == PRIME_P \in Nat /\ PRIME_P > 3 /\ PRIME_P % 4 = 3

Fp == 0..PRIME_P - 1

(* The bits of an exponent, as bi_get_msb and bi_test_bit see them.        *)
Bits == 0..29
TestBit(b, i) == (b \div 2^i) % 2 = 1
Msb(b) == IF b = 0 THEN -1 ELSE CHOOSE i \in Bits : 2^i <= b /\ b \div 2 < 2^i

(* Square and multiply from the highest bit, beginning with one.           *)
SquareMultiply(one, Sqr(_), MulA(_), b) ==
  LET r[i \in 0..Msb(b) + 1] ==
        IF i = Msb(b) + 1 THEN one
        ELSE LET s == Sqr(r[i+1]) IN IF TestBit(b, i) THEN MulA(s) ELSE s
  IN r[0]

(* Montgomery's ladder: the pair is always <<a^k, a^(k+1)>>.               *)
MontyLadder(one, a, Sqr(_), Mul(_, _), b) ==
  LET r[i \in 0..Msb(b) + 1] ==
        IF i = Msb(b) + 1 THEN <<one, a>>
        ELSE LET s == r[i+1] IN
             IF TestBit(b, i) THEN <<Mul(s[1], s[2]), Sqr(s[2])>>
             ELSE <<Sqr(s[1]), Mul(s[2], s[1])>>
  IN r[0][1]

-----------------------------------------------------------------------------
(* Fp                                                                      *)

Mod(a) == a % PRIME_P
fp_mul(a, b) == (a * b) % PRIME_P
fp_hlv(a) == IF a % 2 = 0 THEN a \div 2 ELSE (a + PRIME_P) \div 2

fp_exp(a, b) == SquareMultiply(1, LAMBDA r : fp_mul(r, r), LAMBDA r : fp_mul(r, a), b)

(* The exponent p - 2; the loop begins with a, below the highest bit.      *)
fp_inv_exp_std(a) ==
  LET e == PRIME_P - 2
      r[i \in 0..Msb(e)] ==
        IF i = Msb(e) THEN a
        ELSE LET s == r[i+1] IN
             IF TestBit(e, i) THEN fp_mul(fp_mul(s, s), a) ELSE fp_mul(s, s)
  IN r[0]

(* A root if there is one, for p = 3 mod 4.                                *)
fp_sqrt(a) == fp_exp(a, (PRIME_P + 1) \div 4)

fp_legendre(a) ==
  IF a = 0 THEN 0 ELSE IF fp_exp(a, (PRIME_P - 1) \div 2) = 1 THEN 1 ELSE -1

-----------------------------------------------------------------------------
(* Fp2                                                                     *)

fp2_add(a, b) == <<Mod(a[1] + b[1]), Mod(a[2] + b[2])>>
fp2_sub(a, b) == <<Mod(a[1] - b[1]), Mod(a[2] - b[2])>>
fp2_neg(a) == <<Mod(-a[1]), Mod(-a[2])>>
fp2_hlv(a) == <<fp_hlv(a[1]), fp_hlv(a[2])>>
fp2_mulfp(a, b) == <<fp_mul(a[1], b), fp_mul(a[2], b)>>
fp2_one == <<1, 0>>
fp2_zero == <<0, 0>>

(* Karatsuba, three products.                                              *)
fp2_mul_std(a, b) ==
  LET y == fp_mul(Mod(a[2] + a[1]), Mod(b[2] + b[1]))
      z == fp_mul(a[1], b[1])
      x == fp_mul(a[2], b[2])
  IN <<Mod(z - x), Mod(y - z - x)>>

a \oplus b == fp2_add(a, b)
a \ominus b == fp2_sub(a, b)
a \otimes b == fp2_mul(a, b)

fp2_sqr(a) ==
  LET v == fp_mul(a[1], a[2])
  IN <<fp_mul(Mod(a[1] + a[2]), Mod(a[1] - a[2])), Mod(2 * v)>>

fp2_frobenius(a, i) == IF i % 2 = 1 THEN <<a[1], Mod(-a[2])>> ELSE a

fp2_inv_std(a) ==
  LET t == fp_inv(Mod(fp_mul(a[1], a[1]) + fp_mul(a[2], a[2])))
  IN <<fp_mul(a[1], t), Mod(-fp_mul(a[2], t))>>

fp2_exp_std(a, b) == SquareMultiply(fp2_one, fp2_sqr, LAMBDA r : r \otimes a, b)

fp2_sqrt(a) ==
  LET a1 == fp2_exp(a, (PRIME_P - 3) \div 4)
      alpha == fp2_sqr(a1) \otimes a
      x == a1 \otimes a
  IN IF alpha = <<PRIME_P - 1, 0>> THEN <<x[2], Mod(-x[1])>>
     ELSE x \otimes fp2_exp(alpha \oplus fp2_one, (PRIME_P - 1) \div 2)

(* Deviation: the second power is left out; the first is rarely in Fp.     *)
fp2_legendre_half(a) ==
  IF a = fp2_zero THEN 0
  ELSE IF fp2_exp(a, (PRIME_P - 1) \div 2) = fp2_one THEN 1 ELSE -1

fp2_legendre(a) ==
  IF a = fp2_zero THEN 0
  ELSE IF fp2_exp(fp2_exp(a, (PRIME_P - 1) \div 2), PRIME_P + 1) = fp2_one THEN 1 ELSE -1

(* By 1 + i, and back.                                                     *)
fp2_mul_qnr(a) == <<Mod(a[1] - a[2]), Mod(a[1] + a[2])>>
fp2_div_qnr(a) == <<fp_hlv(Mod(a[1] + a[2])), fp_hlv(Mod(a[2] - a[1]))>>

-----------------------------------------------------------------------------
(* Fp4                                                                     *)

fp4_add(a, b) == <<a[1] \oplus b[1], a[2] \oplus b[2]>>
fp4_sub(a, b) == <<a[1] \ominus b[1], a[2] \ominus b[2]>>
fp4_neg(a) == <<fp2_neg(a[1]), fp2_neg(a[2])>>
fp4_hlv(a) == <<fp2_hlv(a[1]), fp2_hlv(a[2])>>
fp4_mulfp2(a, b) == <<a[1] \otimes b, a[2] \otimes b>>
fp4_one == <<fp2_one, fp2_zero>>
fp4_zero == <<fp2_zero, fp2_zero>>

fp4_mul_std(a, b) ==
  LET y == (a[2] \oplus a[1]) \otimes (b[2] \oplus b[1])
      z == a[1] \otimes b[1]
      x == a[2] \otimes b[2]
  IN <<z \oplus fp2_mul_qnr(x), (y \ominus z) \ominus x>>

a ++ b == fp4_add(a, b)
a -- b == fp4_sub(a, b)
a ** b == fp4_mul(a, b)

fp4_sqr_std(a) ==
  LET v == a[1] \otimes a[2]
      s == (a[1] \oplus a[2]) \otimes (a[1] \oplus fp2_mul_qnr(a[2]))
  IN <<(s \ominus v) \ominus fp2_mul_qnr(v), v \oplus v>>

fp4_exp(a, b) == SquareMultiply(fp4_one, fp4_sqr, LAMBDA r : r ** a, b)

fp4_inv_std(a) ==
  LET t == fp2_inv(fp2_sqr(a[1]) \ominus fp2_mul_qnr(fp2_sqr(a[2])))
  IN <<a[1] \otimes t, fp2_neg(a[2] \otimes t)>>

(* By v.                                                                   *)
fp4_mul_adj_root(a) == <<fp2_mul_qnr(a[2]), a[1]>>

(* ROOT_RESIDUE_FP4: the powers 1 to 5 of (1 + i)^((p-1)/6).               *)
RootResidue ==
  LET q == fp2_exp(<<1, 1>>, (PRIME_P - 1) \div 6)
      power[k \in 1..5] == IF k = 1 THEN q ELSE power[k-1] \otimes q
  IN [k \in 1..5 |-> power[k]]

(* The p-th power, i times, i > 0.                                         *)
fp4_frobenius(a, i) ==
  LET hi[j \in 0..i] ==
        IF j = 0 THEN a[2] ELSE fp2_frobenius(hi[j-1], 1) \otimes RootResidue[3]
  IN <<fp2_frobenius(a[1], i), hi[i]>>

-----------------------------------------------------------------------------
(* Fp12                                                                    *)

fp12_add(a, b) == <<a[1] ++ b[1], a[2] ++ b[2], a[3] ++ b[3]>>
fp12_sub(a, b) == <<a[1] -- b[1], a[2] -- b[2], a[3] -- b[3]>>
fp12_neg(a) == <<fp4_neg(a[1]), fp4_neg(a[2]), fp4_neg(a[3])>>
fp12_hlv(a) == <<fp4_hlv(a[1]), fp4_hlv(a[2]), fp4_hlv(a[3])>>
fp12_one == <<fp4_one, fp4_zero, fp4_zero>>

Fp4 == (Fp \X Fp) \X (Fp \X Fp)
Fp12 == Fp4 \X Fp4 \X Fp4

(* Karatsuba with six products; mul_std and mul_distinct_b differ only in  *)
(* where they keep them.  Of a function TLC computes the arguments first.  *)
fp12_mul_distinct_b_std(a, b) ==
  LET Product[f \in Fp12 \X Fp12] ==
        LET x == f[1]
            y == f[2]
            d0 == x[1] ** y[1]
            d1 == x[2] ** y[2]
            d2 == x[3] ** y[3]
            d12 == (((y[2] ++ y[3]) ** (x[2] ++ x[3])) -- d1) -- d2
            d01 == (((x[1] ++ x[2]) ** (y[1] ++ y[2])) -- d1) -- d0
            d02 == (((x[1] ++ x[3]) ** (y[1] ++ y[3])) -- d2) -- d0
        IN <<d0 ++ fp4_mul_adj_root(d12), d01 ++ fp4_mul_adj_root(d2), d02 ++ d1>>
  IN Product[<<a, b>>]

(* The second factor is b0 + b10 w.                                        *)
fp12_mul_sparse(a, b0, b10) ==
  LET d0 == a[1] ** b0
      d1 == fp4_mulfp2(a[2], b10)
      v == fp4_mulfp2(a[2] ++ a[3], b10) -- d1
      t == <<b0[1] \oplus b10, b0[2]>>
  IN <<d0 ++ fp4_mul_adj_root(v),
       (((a[1] ++ a[2]) ** t) -- d1) -- d0,
       (((a[1] ++ a[3]) ** b0) -- d0) ++ d1>>

(* Toom and Cook: six times the product.                                   *)
fp12_mul_tk3(a, b) ==
  LET Twice(x) == x ++ x
      Thrice(x) == Twice(x) ++ x
      At1(x) == (x[1] ++ x[3]) ++ x[2]
      AtMinus1(x) == (x[1] ++ x[3]) -- x[2]
      At2(x) == ((At1(x) ++ x[2]) ++ Twice(x[3])) ++ x[3]
      v2 == AtMinus1(a) ** AtMinus1(b)
      v3 == At2(a) ** At2(b)
      d == Thrice(a[1] ** b[1])
      e == Thrice(At1(a) ** At1(b))
      c == Twice(Thrice(a[3] ** b[3]))
  IN <<Twice(d) ++ fp4_mul_adj_root((((d -- e) -- v2) ++ v3) -- Twice(c)),
       (((fp4_mul_adj_root(c) ++ Twice(c)) -- v3) -- Twice(v2)) ++ (Twice(e) -- d),
       (((e -- c) -- Twice(d)) ++ v2) ++ Twice(v2)>>

(* Chung and Hasan: four squares and a product.                            *)
fp12_sqr_std(a) ==
  LET s0 == fp4_sqr(a[1])
      s1 == fp4_sqr((a[1] ++ a[3]) ++ a[2])
      p12 == a[2] ** a[3]
      r == p12 ++ p12
      t == fp4_hlv(s1 ++ fp4_sqr((a[1] ++ a[3]) -- a[2]))
      s4 == fp4_sqr(a[3])
  IN <<fp4_mul_adj_root(r) ++ s0,
       ((fp4_mul_adj_root(s4) ++ s1) -- r) -- t,
       (t -- s0) -- s4>>

(* The squares of Granger and Scott, for elements of the cyclotomic group. *)
fp12_sqr_cyclotomic_std(a) ==
  LET x == fp4_sqr(a[1])
      y == fp4_sqr(a[2])
      z == fp4_sqr(a[3])
      Thrice(s) == (s \oplus s) \oplus s
      Minus(s, r) == Thrice(s) \oplus fp2_neg(r \oplus r)
      Plus(s, r) == Thrice(s) \oplus (r \oplus r)
  IN << <<Minus(x[1], a[1][1]), Plus(x[2], a[1][2])>>,
        <<Plus(fp2_mul_qnr(z[2]), a[2][1]), Minus(z[1], a[2][2])>>,
        <<Minus(y[1], a[3][1]), Plus(y[2], a[3][2])>> >>

(* Karabina's compressed square leaves out a[1]; the decompression         *)
(* computes it from the rest.  It chooses the formula by the real part of  *)
(* a[2][1] only; a[1][2] in its text is a[2][0], a[3][1] here; and it adds *)
(* FP_ONE as if it were an element of Fp2: beyond is what follows it.      *)
fp12_sqr_compressed(a) ==
  LET Thrice(s) == (s \oplus s) \oplus s
      b45 == a[3][1] \otimes a[3][2]
      b23 == a[2][1] \otimes a[2][2]
      Rest(x, b) == (((x[1] \oplus x[2]) \otimes (fp2_mul_qnr(x[2]) \oplus x[1]))
                       \ominus b) \ominus fp2_mul_qnr(b)
      Twice(s) == s \oplus s
  IN << a[1],
        <<Twice(a[2][1] \oplus Thrice(fp2_mul_qnr(b45))),
          Thrice(Rest(a[3], b45)) \ominus Twice(a[2][2])>>,
        <<Thrice(Rest(a[2], b23)) \ominus Twice(a[3][1]),
          Twice(a[3][2] \oplus Thrice(b23))>> >>

fp12_decompress(a, beyond) ==
  LET Thrice(s) == (s \oplus s) \oplus s
      Twice(s) == s \oplus s
      a45 == a[2][2] \otimes a[3][1]
      hi0 == Twice(a[3][1] \otimes a[3][2]) \otimes fp2_inv(a[3][1])
      lo0 == Twice(fp2_sqr(hi0)) \ominus Thrice(a45)
      hi1 == ((fp2_mul_qnr(fp2_sqr(a[3][2])) \oplus Thrice(fp2_sqr(a[3][1])))
                \ominus Twice(a[2][2])) \otimes fp2_inv(Twice(Twice(a[2][1])))
      lo1 == (Twice(fp2_sqr(hi1)) \oplus (a[2][1] \otimes a[3][2])) \ominus Thrice(a45)
      With(lo, hi) == << <<fp2_mul_qnr(lo) \oplus <<1, beyond>>, hi>>, a[2], a[3] >>
  IN IF a[2][1][1] = 0 THEN With(lo0, hi0) ELSE With(lo1, hi1)

fp12_exp(a, b) == MontyLadder(fp12_one, a, fp12_sqr, fp12_mul, b)
fp12_exp_cyclotomic(a, b) == MontyLadder(fp12_one, a, fp12_sqr_cyclotomic, fp12_mul, b)
fp12_final_exp_std(a, b) ==
  SquareMultiply(fp12_one, fp12_sqr_cyclotomic, LAMBDA r : fp12_mul(r, a), b)

(* res times a^b, from the lowest bit.                                     *)
fp12_final_mulexp(res, a, b) ==
  LET s[i \in 0..Msb(b) + 1] ==
        IF i = 0 THEN [res |-> res, a |-> a]
        ELSE LET t == s[i-1] IN
             [res |-> IF TestBit(b, i - 1) THEN fp12_mul(t.res, t.a) ELSE t.res,
              a |-> fp12_sqr_cyclotomic(t.a)]
  IN s[Msb(b) + 1].res

fp12_inv_std(a) ==
  LET t1 == fp4_sqr(a[1]) -- fp4_mul_adj_root(a[2] ** a[3])
      t2 == fp4_mul_adj_root(fp4_sqr(a[3])) -- (a[1] ** a[2])
      t3 == fp4_sqr(a[2]) -- (a[1] ** a[3])
      delta == ((a[1] ** t1) ++ fp4_mul_adj_root(a[2] ** t3))
                 ++ fp4_mul_adj_root(a[3] ** t2)
      t == fp4_inv(delta)
  IN <<t1 ** t, t2 ** t, t3 ** t>>

(* The p-th power, i times.                                                *)
fp12_frobenius_map_precomp_std(a, i) ==
  LET Times(x, k) == fp2_frobenius(x, 1) \otimes RootResidue[k]
      s[j \in 0..i] ==
        IF j = 0 THEN a
        ELSE LET r == s[j-1] IN
             << <<a[1][1], Times(r[1][2], 3)>>,
                <<Times(r[2][1], 1), Times(r[2][2], 4)>>,
                <<Times(r[3][1], 2), Times(r[3][2], 5)>> >>
      r == s[i]
  IN << <<fp2_frobenius(a[1][1], i), r[1][2]>>, r[2], r[3] >>

(* The p^6-th power: the odd powers of w change sign.                      *)
fp12_conjugate(a) ==
  << <<a[1][1], fp2_neg(a[1][2])>>,
     <<fp2_neg(a[2][1]), a[2][2]>>,
     <<a[3][1], fp2_neg(a[3][2])>> >>
=============================================================================
