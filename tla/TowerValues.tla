---------------------------- MODULE TowerValues ----------------------------
(***************************************************************************)
(* What an element of the tower of Fields stands for, and the product that *)
(* its multiplications promise.                                            *)
(***************************************************************************)
EXTENDS Fields

(* The same element as a polynomial in w over Fp2, w^6 = 1 + i; the        *)
(* schoolbook product of two.                                              *)
Polynomial(a) == [e \in 0..5 |-> a[(e % 3) + 1][(e \div 3) + 1]]
Product2(a, b) == <<Mod(a[1] * b[1] - a[2] * b[2]), Mod(a[1] * b[2] + a[2] * b[1])>>
Product12(a, b) ==
  LET x == Polynomial(a)
      y == Polynomial(b)
      Term(e, i) == IF i <= e THEN Product2(x[i], y[e-i])
                    ELSE Product2(<<1, 1>>, Product2(x[i], y[e+6-i]))
      Sum(e) == LET s[i \in 0..5] == Term(e, i) \oplus IF i = 0 THEN fp2_zero ELSE s[i-1]
                IN s[5]
  IN [e \in 0..5 |-> Sum(e)]
=============================================================================
