------------------------------- MODULE Words -------------------------------
(***************************************************************************)
(* The multi-word arithmetic below all signatures: bi.c and the word level *)
(* of fp.c, and the lazily reduced product of fp2.c.  A big integer is a   *)
(* sequence of words, the lowest first, as word_t[] in the code.  A routine*)
(* that returns a carry and leaves a result is a record of both.           *)
(***************************************************************************)
EXTENDS Integers, Sequences

CONSTANTS BITS_PER_WORD,  \* 32 in the code; even, as bi_div3 needs it
          BITS_PER_BYTE,  \* 8 in the code
          BI_WORDS,       \* 8 in the code
          (* What the headers bind to one of several implementations.      *)
          bi_add_var(_, _), bi_subtract_var(_, _), bi_compare_var(_, _),
          bi_multiply_var(_, _), fp_mul_monty_var(_, _, _, _)

ASSUME WordsAssumption ==
  /\ BITS_PER_WORD \in Nat \ {0} /\ BITS_PER_WORD % 2 = 0
  /\ BITS_PER_BYTE \in Nat \ {0} /\ BITS_PER_WORD % BITS_PER_BYTE = 0
  /\ BI_WORDS \in Nat \ {0, 1}

PowerOf(b, n) == LET p[i \in 0..n] == IF i = 0 THEN 1 ELSE b * p[i-1] IN p[n]
Base == PowerOf(2, BITS_PER_WORD)
Word == 0..Base - 1
Bigs(length) == [1..length -> Word]

Bit(b) == IF b THEN 1 ELSE 0
Zeros(length) == [i \in 1..length |-> 0]
bi_one == [i \in 1..BI_WORDS |-> Bit(i = 1)]

(* A loop over the words from the lowest: a word of the result and a carry *)
(* to the next word, both from the carry that comes in.                    *)
CarryLoop(cin, length, out, carry) ==
  LET done[i \in 0..length] ==
        IF i = 0 THEN [res |-> <<>>, carry |-> cin]
        ELSE LET before == done[i-1] IN
             [res |-> Append(before.res, out[i][before.carry]),
              carry |-> carry[i][before.carry]]
  IN done[length]
WordLoopFrom(cin, length, Out(_, _), Carry(_, _)) ==
  CarryLoop(cin, length, [i \in 1..length |-> [c \in Word |-> Out(i, c)]],
                         [i \in 1..length |-> [c \in Word |-> Carry(i, c)]])
WordLoop(length, Out(_, _), Carry(_, _)) == WordLoopFrom(0, length, Out, Carry)

(* Deviation: the carry that comes in is forgotten when it overflows.      *)
OneCarry(sum, r, a) == Bit(r < a)

(* A sum overflows when it is less than a summand; there are two sums, of  *)
(* the words and of the carry that comes in.                               *)
CarryOut(sum, r, a) == Bit(sum < r \/ r < a)

bi_add_carry_var(a, b, cin) ==
  LET r(i) == (a[i] + b[i]) % Base IN
  WordLoopFrom(cin, Len(a), LAMBDA i, c : (r(i) + c) % Base,
                            LAMBDA i, c : CarryOut((r(i) + c) % Base, r(i), a[i]))
bi_add_var_std(a, b) ==
  LET sum == bi_add_carry_var(a, b, 0) IN sum

(* A word is added; above the lowest word only its carry goes on.          *)
bi_add_word_var(a, b) ==
  LET r(i, c) == (a[i] + IF i = 1 THEN b ELSE c) % Base IN
  WordLoop(Len(a), r, LAMBDA i, c : Bit(r(i, c) < a[i]))

bi_subtract_var_std(a, b) ==
  LET r(i) == (a[i] - b[i]) % Base IN
  WordLoop(Len(a), LAMBDA i, c : (r(i) - c) % Base,
                   LAMBDA i, c : Bit(a[i] < b[i] \/ (r(i) = 0 /\ c = 1)))

(* b may be shorter.  The borrow of a word of b is taken from *b + i, the   *)
(* lowest word plus its index, and not from *(b + i).                      *)
bi_subtract_vl(a, b) ==
  LET r(i) == (a[i] - IF i <= Len(b) THEN b[i] ELSE 0) % Base IN
  WordLoop(Len(a), LAMBDA i, c : (r(i) - c) % Base,
           LAMBDA i, c : IF i <= Len(b) THEN Bit(a[i] < b[1] + i - 1 \/ (r(i) = 0 /\ c = 1))
                         ELSE Bit(a[i] = 0 /\ c = 1))

(* Above the lowest word the borrow goes on where the difference, not the  *)
(* minuend, is zero: this is a subtraction only if the lowest word borrows *)
(* nothing.                                                                *)
bi_subtract_word_var(a, b) ==
  LET r(i, c) == (a[i] - IF i = 1 THEN b ELSE c) % Base IN
  WordLoop(Len(a), r,
           LAMBDA i, c : IF i = 1 THEN Bit(a[i] < b) ELSE Bit(r(i, c) = 0 /\ c = 1))

(* -1, 0 or 1, from the highest word in which a and b differ.              *)
bi_compare_var_std(a, b) ==
  LET different == {i \in 1..Len(a) : a[i] # b[i]} IN
  IF different = {} THEN 0
  ELSE LET i == CHOOSE i \in different : \A j \in different : j <= i IN
       IF a[i] > b[i] THEN 1 ELSE -1

(* Operands of different lengths; a is not the shorter one.                *)
bi_compare_vl(a, b) ==
  IF \E i \in Len(b) + 1..Len(a) : a[i] # 0 THEN 1
  ELSE bi_compare_var(SubSeq(a, 1, Len(b)), b)

(* One row of a product: b times a word is added from place i on; the last *)
(* carry is the word above.                                                *)
MultiplyRow(r, i, word, b) ==
  LET Sum(j, c) == r[i + j - 1] + word * b[j] + c
      row == WordLoop(Len(b), LAMBDA j, c : Sum(j, c) % Base,
                              LAMBDA j, c : Sum(j, c) \div Base)
  IN SubSeq(r, 1, i - 1) \o row.res \o <<row.carry>> \o SubSeq(r, i + Len(b) + 1, Len(r))

bi_multiply_var_std(a, b) ==
  LET rows[i \in 0..Len(a)] ==
        IF i = 0 THEN Zeros(Len(a) + Len(b)) ELSE MultiplyRow(rows[i-1], i, a[i], b)
  IN rows[Len(a)]

bi_multiply_word_var(a, b) == bi_multiply_var(a, <<b>>)

bi_shift_right_var(a, right) ==
  LET wordNum == right \div BITS_PER_WORD
      bitNum == right % BITS_PER_WORD
      At(i) == IF i + wordNum <= Len(a) THEN a[i + wordNum] ELSE 0
  IN [i \in 1..Len(a) |->
        (At(i) \div PowerOf(2, bitNum))
          + ((At(i + 1) * PowerOf(2, BITS_PER_WORD - bitNum)) % Base)]

bi_shift_right_one_var(a) == bi_shift_right_var(a, 1)

bi_shift_left_one_var(a) ==
  [i \in 1..Len(a) |->
     ((2 * a[i]) % Base) + IF i = 1 THEN 0 ELSE a[i-1] \div (Base \div 2)]

(* Multiplication by the inverse of 3: the words 1010..1010, the lowest    *)
(* 1010..1011.                                                             *)
bi_div3_var(a) ==
  LET t == [i \in 1..Len(a) |-> ((2 * (Base - 1)) \div 3) + Bit(i = 1)] IN
  SubSeq(bi_multiply_var(a, t), 1, Len(a))

bi_test_bit_var(a, bit) ==
  /\ bit < Len(a) * BITS_PER_WORD
  /\ (a[(bit \div BITS_PER_WORD) + 1] \div PowerOf(2, bit % BITS_PER_WORD)) % 2 = 1

bi_set_bit_var(a, bit) ==
  IF bit < Len(a) * BITS_PER_WORD /\ ~ bi_test_bit_var(a, bit)
  THEN [a EXCEPT ![(bit \div BITS_PER_WORD) + 1] = @ + PowerOf(2, bit % BITS_PER_WORD)]
  ELSE a

(* The number of the highest bit set, -1 for zero.                         *)
bi_get_msb_var(a) ==
  LET bits == {k \in 0..Len(a) * BITS_PER_WORD - 1 : bi_test_bit_var(a, k)} IN
  IF bits = {} THEN -1 ELSE CHOOSE k \in bits : \A j \in bits : j <= k

(* Bytes.  Every word holds BytesPerWord of them, the lowest first.        *)
BytesPerWord == BITS_PER_WORD \div BITS_PER_BYTE
ByteAt(index) == PowerOf(2, (index % BytesPerWord) * BITS_PER_BYTE)

bi_get_byte_var(a, index) ==
  (a[(index \div BytesPerWord) + 1] \div ByteAt(index)) % PowerOf(2, BITS_PER_BYTE)

bi_set_byte_var(a, index, value) ==
  [a EXCEPT ![(index \div BytesPerWord) + 1] =
     @ + (value - bi_get_byte_var(a, index)) * ByteAt(index)]

-----------------------------------------------------------------------------
(* The prime field on words.                                               *)

fp_add_std(a, b, mod) ==
  LET s == bi_add_var(a, b) IN
  IF s.carry = 1 \/ bi_compare_var(s.res, mod) >= 0
  THEN bi_subtract_var(s.res, mod).res ELSE s.res

(* The comparison is strict: a doubled element is never the odd modulus.   *)
fp_dbl_std(a, mod) ==
  LET r == bi_shift_left_one_var(a) IN
  IF bi_compare_var(r, mod) > 0 \/ a[BI_WORDS] >= Base \div 2
  THEN bi_subtract_var(r, mod).res ELSE r

fp_sub_std(a, b, mod) ==
  LET d == bi_subtract_var(a, b) IN
  IF d.carry = 1 THEN bi_add_var(d.res, mod).res ELSE d.res

fp_neg_std(a, mod) ==
  IF bi_compare_var(a, Zeros(BI_WORDS)) # 0 THEN bi_subtract_var(mod, a).res ELSE a

(* The lazy variants take and give any words; multipleMod is the highest   *)
(* multiple of the modulus that fits.                                      *)
fp_add_lazy(a, b, mod, multipleMod) ==
  LET s == bi_add_var(a, b)
      d == bi_subtract_var(s.res, multipleMod)
  IN IF s.carry = 0 THEN s.res
     ELSE IF d.carry = 1 THEN d.res ELSE bi_subtract_var(d.res, mod).res

fp_sub_lazy(a, b, mod, multipleMod) ==
  LET d == bi_subtract_var(a, b)
      s == bi_add_var(d.res, multipleMod)
  IN IF d.carry = 0 THEN d.res
     ELSE IF s.carry = 1 THEN s.res ELSE bi_add_var(s.res, mod).res

fp_neg_lazy(a, mod, multipleMod) ==
  LET d == bi_subtract_var(multipleMod, a) IN
  IF bi_compare_var(a, Zeros(BI_WORDS)) = 0 THEN a
  ELSE IF d.carry = 1 THEN bi_add_var(d.res, mod).res ELSE d.res

(* An odd element is made even first; the carry becomes the highest bit.   *)
fp_hlv_std(a, mod) ==
  IF a[1] % 2 = 0 THEN bi_shift_right_one_var(a)
  ELSE LET s == bi_add_var(a, mod)
           h == bi_shift_right_one_var(s.res)
       IN [i \in 1..BI_WORDS |-> h[i] + IF i = BI_WORDS THEN s.carry * (Base \div 2) ELSE 0]

(* One row per word makes the lowest words of t zero; over counts what the *)
(* rows carry out of the highest word.                                     *)
MontyRows(t, mod, n0) ==
  LET Row(s, i) ==
        LET mp == bi_multiply_var(mod, <<(s.res[i] * n0) % Base>>)
            sum == bi_add_var(s.res, Zeros(i - 1) \o mp \o Zeros(BI_WORDS - i))
        IN [res |-> sum.res, over |-> s.over + sum.carry]
      rows[i \in 0..BI_WORDS] == IF i = 0 THEN [res |-> t, over |-> 0] ELSE Row(rows[i-1], i)
      last == rows[BI_WORDS]
  IN [hi |-> SubSeq(last.res, BI_WORDS + 1, 2 * BI_WORDS), over |-> last.over]

fp_rdc_monty_lazy(t, mod, n0, multipleMod) ==
  LET r == MontyRows(t, mod, n0) IN
  IF r.over > 0 THEN bi_subtract_var(r.hi, multipleMod).res ELSE r.hi

(* What remains may be negative after a lazy subtraction: then adding the  *)
(* modulus overflows, and the sum is the result.                           *)
fp_rdc_monty_std(t, mod, n0) ==
  LET hi == MontyRows(t, mod, n0).hi
      minus == bi_subtract_var(hi, mod)
      plus == bi_add_var(hi, mod)
  IN IF minus.carry = 1 THEN hi
     ELSE IF plus.carry = 1 THEN plus.res ELSE minus.res

fp_mul_monty_twostep_std(a, b, mod, n0) ==
  LET t == bi_multiply_var(a, b) IN fp_rdc_monty_std(t, mod, n0)

fp_mul_monty_twostep_lazy(a, b, mod, n0, multipleMod) ==
  fp_rdc_monty_lazy(bi_multiply_var(a, b), mod, n0, multipleMod)

(* Column by column, with three words for the sum of a column.             *)
fp_mul_monty_fips(a, b, n, n0) ==
  LET Products(m, i, first, last) ==
        LET sum[j \in first-1..last] ==
              IF j = first - 1 THEN 0
              ELSE sum[j-1] + a[j+1] * b[i-j+1] + m[j+1] * n[i-j+1]
        IN sum[last]
      Low(s, i) ==
        LET t == s.t + Products(s.m, i, 0, i - 1) + a[i+1] * b[1]
            m == (t * n0) % Base
        IN [t |-> ((t + m * n[1]) % PowerOf(Base, 3)) \div Base, m |-> Append(s.m, m)]
      High(s, i) ==
        LET t == (s.t + Products(s.m, i, i - BI_WORDS + 1, BI_WORDS - 1)) % PowerOf(Base, 3) IN
        [t |-> t \div Base, m |-> [s.m EXCEPT ![i - BI_WORDS + 1] = t % Base]]
      column[i \in 0..2 * BI_WORDS] ==
        IF i = 0 THEN [t |-> 0, m |-> <<>>]
        ELSE IF i <= BI_WORDS THEN Low(column[i-1], i - 1) ELSE High(column[i-1], i - 1)
      last == column[2 * BI_WORDS]
  IN IF bi_compare_var(last.m, n) >= 0 \/ last.t # 0
     THEN bi_subtract_var(last.m, n).res ELSE last.m

(* With one multiple of the modulus for all words; n0 has BI_WORDS of them.*)
fp_mul_monty_std(a, b, mod, n0) ==
  LET t == bi_multiply_var(a, b)
      m == SubSeq(bi_multiply_var(t, n0), 1, BI_WORDS)
      s == bi_add_var(t, bi_multiply_var(m, mod))
      hi == SubSeq(s.res, BI_WORDS + 1, 2 * BI_WORDS)
      once == IF s.carry = 1 THEN bi_subtract_var(hi, mod).res ELSE hi
  IN IF bi_compare_var(once, mod) >= 0 THEN bi_subtract_var(once, mod).res ELSE once

(* Into Montgomery's domain and back; r2 is R^2.                           *)
fp_to_montgomery(a, mod, n0, r2) == fp_mul_monty_var(a, r2, mod, n0)
fp_from_montgomery(a, mod, n0) == fp_mul_monty_var(a, bi_one, mod, n0)

fp_rdc_std(a, mod) ==
  LET r[i \in 0..Base] ==
        IF i = 0 THEN a
        ELSE LET s == r[i-1] IN
             IF bi_compare_var(s, mod) >= 0 THEN bi_subtract_var(s, mod).res ELSE s
  IN r[Base]

(* A power by square and multiply, in the domain.  Of a function TLC       *)
(* computes the arguments first.                                           *)
fp_exp_monty(a, b, mod, n0, r2) ==
  LET Times[t \in Bigs(BI_WORDS) \X Bigs(BI_WORDS)] == fp_mul_monty_var(t[1], t[2], mod, n0)
      base == Times[<<a, r2>>]
      r[i \in 0..BITS_PER_WORD * BI_WORDS] ==
        IF i > bi_get_msb_var(b) THEN Times[<<bi_one, r2>>]
        ELSE LET s == r[i+1]
                 square == Times[<<s, s>>]
             IN IF bi_test_bit_var(b, i) THEN Times[<<base, square>>] ELSE square
      res == Times[<<r[0], bi_one>>]
  IN IF bi_compare_var(res, mod) >= 0 THEN bi_subtract_var(res, mod).res ELSE res

(* The almost inverse a^-1 2^k by halving, then the right power of two by  *)
(* Montgomery's product.                                                   *)
fp_inv_binary(a, mod, n0, r2) ==
  LET Half(x) == bi_shift_right_one_var(x)
      Twice(x) == fp_dbl_std(x, mod)
      Minus(x, y) == bi_subtract_var(x, y).res
      Even(x) == x[1] % 2 = 0
      Step(s) ==
        IF Even(s.v) THEN [s EXCEPT !.v = Half(@), !.x1 = Twice(@), !.k = @ + 1]
        ELSE IF Even(s.u) THEN [s EXCEPT !.u = Half(@), !.x2 = Twice(@), !.k = @ + 1]
        ELSE IF bi_compare_var(s.v, s.u) >= 0
        THEN [s EXCEPT !.v = Half(Minus(s.v, s.u)), !.x1 = Twice(@),
                       !.x2 = fp_add_std(s.x2, s.x1, mod), !.k = @ + 1]
        ELSE [s EXCEPT !.u = Half(Minus(s.u, s.v)), !.x2 = Twice(@),
                       !.x1 = fp_add_std(s.x2, s.x1, mod), !.k = @ + 1]
      bits == BITS_PER_WORD * BI_WORDS
      loop[i \in 0..2 * bits] ==
        IF i = 0 THEN [u |-> a, v |-> mod, x1 |-> bi_one, x2 |-> Zeros(BI_WORDS), k |-> 0]
        ELSE LET s == loop[i-1] IN
             IF s.v = Zeros(BI_WORDS) THEN s ELSE Step(s)
      end == loop[2 * bits]
      x == IF bi_compare_var(end.x1, mod) > 0 THEN Minus(end.x1, mod) ELSE end.x1
      Times[t \in Bigs(BI_WORDS) \X Bigs(BI_WORDS)] == fp_mul_monty_var(t[1], t[2], mod, n0)
      x1 == IF end.k < bits THEN Times[<<x, r2>>] ELSE x
      k == IF end.k < bits THEN end.k + bits ELSE end.k
  IN IF k > bits THEN Times[<<Times[<<x1, r2>>], bi_set_bit_var(Zeros(BI_WORDS), 2 * bits - k)>>]
     ELSE Times[<<x1, r2>>]

(* Barrett's reduction of a double-length number: an estimated quotient,   *)
(* then at most two subtractions.                                          *)
fp_rdc_2l_std(a, mod, mu) ==
  LET n == BI_WORDS + 1
      q == bi_multiply_var(SubSeq(a, BI_WORDS, 2 * BI_WORDS), mu)
      qp == bi_multiply_var(SubSeq(q, n + 1, 2 * n), mod)
      a0 == bi_subtract_var(SubSeq(a, 1, n), SubSeq(qp, 1, n)).res
      m == Append(mod, 0)
      a1 == bi_subtract_var(a0, m)
      a2 == bi_subtract_var(a1.res, m)
      chosen == IF a2.carry = 1 THEN a1.res
                ELSE IF a1.carry = 0 THEN a2.res ELSE a0
  IN SubSeq(chosen, 1, BI_WORDS)

fp_mul_std(a, b, mod, mu) == fp_rdc_2l_std(bi_multiply_var(a, b), mod, mu)

(* The exponent mod - 2, from below its highest bit.                       *)
fp_inv_exp_var(a, mod, mu) ==
  LET e == bi_subtract_var(mod, bi_set_bit_var(Zeros(BI_WORDS), 1)).res
      Times[t \in Bigs(BI_WORDS) \X Bigs(BI_WORDS)] == fp_mul_std(t[1], t[2], mod, mu)
      r[i \in 0..BITS_PER_WORD * BI_WORDS] ==
        IF i >= bi_get_msb_var(e) THEN a
        ELSE LET s == r[i+1]
                 square == Times[<<s, s>>]
             IN IF bi_test_bit_var(e, i) THEN Times[<<square, a>>] ELSE square
  IN r[0]

(* Product in the quadratic extension: three double-length products of     *)
(* unreduced sums, two reductions at the end.                              *)
fp2_mul_lazy(a, b, mod, n0) ==
  LET d2 == bi_multiply_var(a[2], b[2])
      d1 == bi_multiply_var(bi_add_var(a[1], a[2]).res, bi_add_var(b[1], b[2]).res)
      d0 == bi_multiply_var(a[1], b[1])
      Minus(x, y) == bi_subtract_var(x, y).res
  IN <<fp_rdc_monty_std(Minus(d0, d2), mod, n0),
       fp_rdc_monty_std(Minus(Minus(d1, d0), d2), mod, n0)>>
=============================================================================
