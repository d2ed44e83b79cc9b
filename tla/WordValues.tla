----------------------------- MODULE WordValues ----------------------------
(***************************************************************************)
(* What the words of Words stand for, and what their routines promise: the *)
(* sums, products and powers of integers, and residues of a modulus.       *)
(***************************************************************************)
EXTENDS Words

CONSTANT Moduli  \* the odd moduli that are tried, with the highest word used

R == PowerOf(Base, BI_WORDS)

(* The number that the words of a stand for, from the highest one down.    *)
Value(a) ==
  LET v[i \in 0..Len(a)] == IF i = 0 THEN 0 ELSE a[Len(a) + 1 - i] + Base * v[i-1]
  IN v[Len(a)]
Big(v, length) == [i \in 1..length |-> (v \div PowerOf(Base, i - 1)) % Base]

-----------------------------------------------------------------------------
(* The routines of bi.c.                                                   *)

BytesAgree(a, index, value) ==
  LET c == bi_set_byte_var(a, index, value) IN
  \A i \in 0..BytesPerWord * BI_WORDS - 1 :
    bi_get_byte_var(c, i) = IF i = index THEN value ELSE bi_get_byte_var(a, i)

BigsAgree(va, vb) ==
  LET a == Big(va, BI_WORDS)
      b == Big(vb, BI_WORDS)
      sum == bi_add_var(a, b)
      difference == bi_subtract_var(a, b)
  IN
  /\ Value(sum.res) + R * sum.carry = va + vb
  /\ Value(difference.res) - R * difference.carry = va - vb
  /\ bi_compare_var(a, b) = IF va = vb THEN 0 ELSE IF va > vb THEN 1 ELSE -1
  /\ Value(bi_multiply_var(a, b)) = va * vb
  /\ vb <= BITS_PER_WORD * BI_WORDS => Value(bi_shift_right_var(a, vb)) = va \div PowerOf(2, vb)
  /\ Value(bi_shift_left_one_var(a)) = (2 * va) % R
  /\ va % 3 = 0 => Value(bi_div3_var(a)) = va \div 3
  /\ vb < Base =>
       LET s == bi_add_word_var(a, vb)
           d == bi_subtract_word_var(a, vb)
       IN /\ Value(s.res) + R * s.carry = va + vb
          /\ vb <= a[1] => Value(d.res) = va - vb /\ d.carry = 0
  /\ va > 0 => LET m == bi_get_msb_var(a) IN PowerOf(2, m) <= va /\ va < PowerOf(2, m + 1)
  /\ \A c \in 0..1 : LET s == bi_add_carry_var(a, b, c) IN
                     Value(s.res) + R * s.carry = va + vb + c
  /\ vb < Base => /\ LET d == bi_subtract_vl(a, <<vb>>) IN
                     Value(d.res) - R * d.carry = va - vb
                  /\ bi_compare_vl(a, <<vb>>) = bi_compare_var(a, b)
                  /\ Value(bi_multiply_word_var(a, vb)) = va * vb
  /\ BytesAgree(a, vb % (BytesPerWord * BI_WORDS), vb % PowerOf(2, BITS_PER_BYTE))
  /\ vb < BITS_PER_WORD * BI_WORDS => bi_test_bit_var(bi_set_bit_var(a, vb), vb)

-----------------------------------------------------------------------------
(* The routines of fp.c and fp2.c.                                         *)

(* The lazy variants, for any words.                                       *)
LazyAgree(va, vb, p) ==
  LET a == Big(va, BI_WORDS)
      b == Big(vb, BI_WORDS)
      mod == Big(p, BI_WORDS)
      most == Big(R - 1 - ((R - 1) % p), BI_WORDS)
      n0 == CHOOSE n \in Word : (n * p + 1) % Base = 0
  IN
  /\ (Value(fp_add_lazy(a, b, mod, most)) - (va + vb)) % p = 0
  /\ (Value(fp_sub_lazy(a, b, mod, most)) - (va - vb)) % p = 0
  /\ (Value(fp_neg_lazy(a, mod, most)) + va) % p = 0
  /\ (R * Value(fp_mul_monty_twostep_lazy(a, b, mod, n0, most)) - va * vb) % p = 0
  /\ Value(fp_rdc_std(a, mod)) = va % p

Coprime(a, p) == \E i \in 0..p - 1 : (a * i) % p = 1

ResiduesAgree(va, vb, p) ==
  LET a == Big(va, BI_WORDS)
      b == Big(vb, BI_WORDS)
      mod == Big(p, BI_WORDS)
      n0 == CHOOSE n \in Word : (n * p + 1) % Base = 0
      mu == Big((R * R) \div p, BI_WORDS + 1)
      all == Big(CHOOSE n \in 0..R - 1 : (n * p + 1) % R = 0, BI_WORDS)
      r2 == Big((R * R) % p, BI_WORDS)
      Power(k) == LET w[i \in 0..k] == IF i = 0 THEN 1 ELSE (va * w[i-1]) % p IN w[k]
      Is(big, v) == Value(big) = v % p
      IsMontgomery(big, v) == Value(big) < p /\ (R * Value(big) - v) % p = 0
  IN
  /\ Is(fp_add_std(a, b, mod), va + vb)
  /\ Is(fp_sub_std(a, b, mod), va - vb)
  /\ Is(fp_neg_std(a, mod), -va)
  /\ Is(fp_dbl_std(a, mod), 2 * va)
  /\ Is(fp_mul_std(a, b, mod, mu), va * vb)
  /\ (2 * Value(fp_hlv_std(a, mod))) % p = va /\ Value(fp_hlv_std(a, mod)) < p
  /\ IsMontgomery(fp_mul_monty_twostep_std(a, b, mod, n0), va * vb)
  /\ IsMontgomery(fp_mul_monty_fips(a, b, mod, n0), va * vb)
  /\ IsMontgomery(fp_mul_monty_std(a, b, mod, all), va * vb)
  /\ fp_from_montgomery(fp_to_montgomery(a, mod, n0, r2), mod, n0) = a
  /\ vb < 8 => Is(fp_exp_monty(a, b, mod, n0, r2), Power(vb))
  /\ vb = 0 /\ Coprime(va, p) =>
       /\ (va * Value(fp_inv_binary(fp_to_montgomery(a, mod, n0, r2), mod, n0, r2)) - R) % p = 0
       /\ Is(fp_inv_exp_var(a, mod, mu), Power(p - 2))
  /\ \A c, d \in {0, p - 1, p \div 2} :
       LET m == fp2_mul_lazy(<<a, Big(c, BI_WORDS)>>, <<b, Big(d, BI_WORDS)>>, mod, n0) IN
       IsMontgomery(m[1], va * vb - c * d) /\ IsMontgomery(m[2], va * d + c * vb)

WordsAgree(va, vb) ==
  /\ BigsAgree(va, vb)
  /\ \A p \in Moduli : /\ LazyAgree(va, vb, p)
                       /\ va < p /\ vb < p => ResiduesAgree(va, vb, p)
=============================================================================
