------------------------- MODULE ArithmeticProofs -------------------------
(***************************************************************************)
(* The longer routines of fp.c do exact arithmetic for every size of a     *)
(* word, every number of words and every modulus: powers, both inversions, *)
(* the product by columns, and so all that the run over Arithmetic tries   *)
(* with three words of two bits.  They rest on what WordProofs says of the *)
(* routines they are made of.                                              *)
(***************************************************************************)
EXTENDS WordProofs

-----------------------------------------------------------------------------
(* An odd number has an inverse modulo a power of two, by one bit at a     *)
(* time.                                                                   *)
HasInverse(p, k) == \E m \in 0..PowerOf(2, k) - 1 : \E y \in Nat : m * p + 1 = PowerOf(2, k) * y

(* An odd number has minus an inverse modulo any power of two.             *)
LEMMA OddInverse ==
  ASSUME NEW p \in Nat, p % 2 = 1, NEW k \in Nat
  PROVE  HasInverse(p, k)
<1> DEFINE T == {j \in 0..k : HasInverse(p, j)}
<1>1. PICK h \in Nat : p = 2 * h + 1
  OBVIOUS
<1>2. 0 \in T
  <2>1. PowerOf(2, 0) = 1
    BY PowerLaws
  <2>2. PICK y \in Nat : 0 * p + 1 = 1 * y
    <3>1. 0 * p + 1 = 1 * 1
      OBVIOUS
    <3> QED BY <3>1
  <2> QED BY <2>1, <2>2 DEF HasInverse
<1>3. ASSUME NEW j \in 1..k, j - 1 \in T PROVE j \in T
  <2>1. j - 1 \in Nat /\ (j - 1) + 1 = j
    OBVIOUS
  <2>2. PICK P \in Nat : P = PowerOf(2, j - 1) /\ P > 0 /\ PowerOf(2, j) = 2 * P
    <3>1. PowerOf(2, j - 1) \in Nat /\ PowerOf(2, j - 1) > 0 /\ PowerOf(2, (j - 1) + 1) = 2 * PowerOf(2, j - 1)
      BY <2>1, TwoPower
    <3> QED BY <2>1, <3>1
  <2>3. PICK m \in 0..P-1, y \in Nat : m * p + 1 = P * y
    BY <1>3, <2>2 DEF HasInverse
  <2>4. PICK z \in Nat : y = 2 * z \/ y = 2 * z + 1
    <3>1. y = 2 * (y \div 2) + (y % 2) /\ y \div 2 \in Nat /\ y % 2 \in {0, 1}
      OBVIOUS
    <3> QED BY <3>1
  <2>5. CASE y = 2 * z
    <3>1. m * p + 1 = (2 * P) * z
      BY <2>3, <2>5
    <3>2. m \in 0..2 * P - 1
      BY <2>2
    <3> QED BY <2>2, <3>1, <3>2 DEF HasInverse
  <2>6. CASE y = 2 * z + 1
    <3>1. (m + P) * p + 1 = (2 * P) * (z + h + 1)
      <4>1. (m + P) * p = m * p + P * p
        OBVIOUS
      <4>2. P * p = 2 * (P * h) + P
        BY <1>1
      <4>3. P * y = 2 * (P * z) + P
        BY <2>6
      <4>4. (2 * P) * (z + h + 1) = 2 * (P * z) + 2 * (P * h) + 2 * P
        OBVIOUS
      <4>5. PICK u \in Int, v \in Int, w \in Int : u = P * z /\ v = P * h /\ w = m * p
        OBVIOUS
      <4>6. PICK e \in Int, f \in Int : e = P * p /\ f = P * y
        OBVIOUS
      <4> QED BY <2>3, <4>1, <4>2, <4>3, <4>4, <4>5, <4>6
    <3>2. m + P \in 0..2 * P - 1 /\ z + h + 1 \in Nat
      BY <2>2
    <3>3. PICK e \in 0..2 * P - 1, f \in Nat : e = m + P /\ f = z + h + 1 /\ e * p + 1 = (2 * P) * f
      BY <3>1, <3>2
    <3>4. PICK D \in Nat : D = PowerOf(2, j) /\ D = 2 * P /\ e \in 0..D-1 /\ e * p + 1 = D * f
      BY <2>2, <3>3
    <3> QED BY <3>4 DEF HasInverse
  <2>7. HasInverse(p, j)
    BY <2>4, <2>5, <2>6
  <2> QED BY <2>7
<1>4. \A j \in 0..k : j \in T
  <2> HIDE DEF T
  <2> QED BY <1>2, <1>3, UpTo
<1> QED BY <1>4

(* What n0 and its longer form are chosen to be.                           *)
IsMinusInverse(n, p, B) == n \in 0..B-1 /\ (n * p + 1) % B = 0

(* The word n0 that the routines of Montgomery are given exists for an odd *)
(* modulus.                                                                *)
LEMMA WordInverse ==
  ASSUME NEW p \in Nat, p % 2 = 1
  PROVE  IsMinusInverse(CHOOSE n \in Word : (n * p + 1) % Base = 0, p, Base)
<1>1. BITS_PER_WORD \in Nat
  BY WordsAssumption
<1>2. PICK B \in Nat : B = Base /\ B > 0 /\ B = PowerOf(2, BITS_PER_WORD)
  BY BaseFacts DEF Base
<1>3. PICK m \in 0..B-1, y \in Nat : m * p + 1 = B * y
  <2>1. HasInverse(p, BITS_PER_WORD)
    BY <1>1, OddInverse
  <2> QED BY <1>1, <1>2, <2>1 DEF HasInverse
<1>4. (m * p + 1) % B = 0
  <2>1. PICK x \in Nat : x = m * p + 1 /\ x = B * y
    BY <1>3
  <2>2. PICK r \in 0..B-1 : r = 0 /\ x = B * y + r
    BY <1>2, <2>1
  <2>3. x % B = r
    BY <1>2, <2>1, <2>2, QuotientIs
  <2> QED BY <2>1, <2>2, <2>3
<1>5. \E n \in Word : (n * p + 1) % Base = 0
  BY <1>2, <1>4 DEF Word
<1> QED BY <1>5 DEF IsMinusInverse, Word

(* So does its form of BI_WORDS words.                                     *)
LEMMA WholeInverse ==
  ASSUME NEW p \in Nat, p % 2 = 1
  PROVE  IsMinusInverse(CHOOSE n \in 0..R - 1 : (n * p + 1) % R = 0, p, R)
<1>1. PICK k \in Nat : R = PowerOf(2, k)
  <2>1. BI_WORDS \in Nat
    BY WordsAssumption
  <2> QED BY <2>1, BasePower DEF R
<1>2. PICK B \in Nat : B = R /\ B > 0
  BY BigFacts
<1>3. PICK m \in 0..B-1, y \in Nat : m * p + 1 = B * y
  <2>1. HasInverse(p, k)
    BY <1>1, OddInverse
  <2> QED BY <1>1, <1>2, <2>1 DEF HasInverse
<1>4. (m * p + 1) % B = 0
  <2>1. PICK x \in Nat : x = m * p + 1 /\ x = B * y
    BY <1>3
  <2>2. PICK r \in 0..B-1 : r = 0 /\ x = B * y + r
    BY <1>2, <2>1
  <2>4. B > 0 /\ y \in Int
    BY <1>2
  <2>3. x % B = r
    BY <2>2, <2>4, QuotientIs
  <2> QED BY <2>1, <2>2, <2>3
<1>5. \E n \in 0..R - 1 : (n * p + 1) % R = 0
  BY <1>2, <1>4
<1> QED BY <1>5 DEF IsMinusInverse

(* A congruence as the remainder of a difference.                          *)
LEMMA RestOfDifference ==
  ASSUME NEW p \in Nat, p > 0, NEW x \in Int, NEW y \in Int, Congruent(x, y, p)
  PROVE  (x - y) % p = 0
<1>1. PICK m \in Int : x = y + p * m
  BY DEF Congruent
<1>2. PICK u \in Int, d \in Int : u = p * m /\ d = x - y
  OBVIOUS
<1>3. d = p * m + 0 /\ 0 \in 0..p-1
  BY <1>1, <1>2
<1>4. d % p = 0
  BY <1>3, QuotientIs
<1> QED BY <1>2, <1>4

(* The moduli that are meant: odd, of the length of an element, and with   *)
(* room for two more.                                                      *)
GoodModulus(p) ==
  p \in Nat /\ p % 2 = 1 /\ 1 < p /\ PowerOf(Base, BI_WORDS - 1) <= p /\ 3 * p <= R

(* The words of such a modulus, and of the highest multiple of it that     *)
(* fits.                                                                   *)
LEMMA ModulusWords ==
  ASSUME NEW p, GoodModulus(p)
  PROVE  /\ Big(p, BI_WORDS) \in Elements /\ Value(Big(p, BI_WORDS)) = p
         /\ HighestMultiple(Big(R - 1 - ((R - 1) % p), BI_WORDS), Big(p, BI_WORDS))
<1>1. BI_WORDS \in Nat /\ R \in Nat /\ R > 0 /\ R = PowerOf(Base, BI_WORDS)
  BY BigFacts DEF R
<1>2. p \in Nat /\ p < R /\ p > 0
  BY <1>1 DEF GoodModulus
<1>3. Big(p, BI_WORDS) \in Elements /\ Value(Big(p, BI_WORDS)) = p
  BY <1>1, <1>2, BigValue DEF Elements
<1>4. PICK q \in Int, r \in 0..p-1 : r = (R - 1) % p /\ R - 1 = p * q + r
  <2>1. R - 1 \in Int
    BY <1>1
  <2>2. (R - 1) \div p \in Int /\ (R - 1) % p \in 0..p-1 /\ R - 1 = p * ((R - 1) \div p) + ((R - 1) % p)
    BY <1>2, <2>1, Divided
  <2> QED BY <2>2
<1>5. PICK x \in Int : x = R - 1 - ((R - 1) % p) /\ x = p * q /\ x = R - 1 - r
  <2>1. PICK u \in Int : u = p * q
    BY <1>2
  <2> QED BY <1>1, <1>4, <2>1
<1>6. x >= 0
  <2>1. SUFFICES ASSUME x < 0 PROVE FALSE
    OBVIOUS
  <2>2. q < 0
    <3>1. q >= 0 => p * q >= 0
      BY <1>2
    <3> QED BY <1>5, <2>1, <3>1
  <2>3. p * (0 - q) >= p /\ p * (0 - q) = 0 - p * q
    BY <1>2, <2>2, AtLeastItself
  <2>4. x <= 0 - p
    BY <1>2, <1>5, <2>3
  <2> QED BY <1>1, <1>2, <1>4, <1>5, <2>4
<1>7. x \in Nat /\ x < R /\ x + p >= R
  BY <1>1, <1>2, <1>5, <1>6
<1>8. Big(x, BI_WORDS) \in Elements /\ Value(Big(x, BI_WORDS)) = x
  BY <1>1, <1>7, BigValue DEF Elements
<1>9. HighestMultiple(Big(x, BI_WORDS), Big(p, BI_WORDS))
  BY <1>3, <1>5, <1>7, <1>8 DEF HighestMultiple
<1> QED BY <1>3, <1>5, <1>9

(* The lazy routines, and the reduction by subtracting, for any numbers of *)
(* BI_WORDS words and any modulus of that length.                          *)
THEOREM LazyFieldsAreIntegers ==
  ASSUME ExactWords, ExactProducts, NEW va \in 0..R-1, NEW vb \in 0..R-1, NEW p, GoodModulus(p)
  PROVE  LazyAgree(va, vb, p)
<1> DEFINE a == Big(va, BI_WORDS)
           b == Big(vb, BI_WORDS)
           mod == Big(p, BI_WORDS)
           most == Big(R - 1 - ((R - 1) % p), BI_WORDS)
           n0 == CHOOSE n \in Word : (n * p + 1) % Base = 0
<1>1. BI_WORDS \in Nat /\ R \in Nat /\ R > 0 /\ R = PowerOf(Base, BI_WORDS) /\ va \in Nat /\ vb \in Nat
      /\ va < PowerOf(Base, BI_WORDS) /\ vb < PowerOf(Base, BI_WORDS)
  <2>1. BI_WORDS \in Nat /\ R \in Nat /\ R > 0 /\ R = PowerOf(Base, BI_WORDS)
    BY BigFacts DEF R
  <2> QED BY <2>1
<1>2. a \in Elements /\ Value(a) = va /\ b \in Elements /\ Value(b) = vb
  BY <1>1, BigValue DEF Elements
<1>3. p \in Nat /\ p > 0 /\ p % 2 = 1 /\ mod \in Elements /\ Value(mod) = p /\ p >= PowerOf(Base, BI_WORDS - 1)
      /\ HighestMultiple(most, mod)
  BY ModulusWords DEF GoodModulus
<1>4. n0 \in Nat /\ (n0 * Value(mod) + 1) % Base = 0
  <2>1. IsMinusInverse(n0, p, Base)
    BY <1>3, WordInverse
  <2> HIDE DEF n0, mod
  <2> QED BY <1>3, <2>1, BaseFacts DEF IsMinusInverse
<1> HIDE DEF a, b, mod, most, n0
<1>5. PICK sum, difference, negative :
         /\ sum = fp_add_lazy(a, b, mod, most) /\ difference = fp_sub_lazy(a, b, mod, most)
         /\ negative = fp_neg_lazy(a, mod, most)
         /\ sum \in Elements /\ Congruent(Value(sum), va + vb, p)
         /\ difference \in Elements /\ Congruent(Value(difference), va - vb, p)
         /\ negative \in Elements /\ Congruent(Value(negative), -va, p)
  BY <1>2, <1>3, LazyFieldIsExact
<1>6. Value(sum) \in Int /\ Value(difference) \in Int /\ Value(negative) \in Int
      /\ va + vb \in Int /\ va - vb \in Int /\ -va \in Int
  BY <1>1, <1>5, BigFacts
<1>7. (Value(sum) - (va + vb)) % p = 0
  BY <1>3, <1>5, <1>6, RestOfDifference
<1>8. (Value(difference) - (va - vb)) % p = 0
  BY <1>3, <1>5, <1>6, RestOfDifference
<1>9. (Value(negative) + va) % p = 0
  <2>1. (Value(negative) - (-va)) % p = 0
    BY <1>3, <1>5, <1>6, RestOfDifference
  <2>2. PICK x \in Int : x = Value(negative)
    BY <1>6
  <2>3. x - (-va) = x + va
    BY <1>1
  <2> QED BY <2>1, <2>2, <2>3
<1>10. PICK r : /\ r = fp_mul_monty_twostep_lazy(a, b, mod, n0, most) /\ r \in Elements
                /\ Congruent(R * Value(r), va * vb, p)
  BY <1>2, <1>3, <1>4, LazyProductIsExact
<1>11. (R * Value(r) - va * vb) % p = 0
  <2>1. R * Value(r) \in Int /\ va * vb \in Int
    <3>1. PICK x \in Nat : x = Value(r)
      BY <1>10, BigFacts
    <3> QED BY <1>1, <3>1
  <2> QED BY <1>3, <1>10, <2>1, RestOfDifference
<1>12. Value(fp_rdc_std(a, mod)) = va % p
  BY <1>2, <1>3, RepeatedSubtractionIsExact
<1> QED BY <1>5, <1>7, <1>8, <1>9, <1>10, <1>11, <1>12, Zenon DEF LazyAgree, a, b, mod, most, n0

-----------------------------------------------------------------------------
(* Congruences add, multiply and cancel.                                   *)
LEMMA CongruentChain ==
  ASSUME NEW p \in Nat, NEW x \in Int, NEW y \in Int, NEW z \in Int,
         Congruent(x, y, p), Congruent(y, z, p)
  PROVE  Congruent(x, z, p)
<1>1. PICK m \in Int, n \in Int : x = y + p * m /\ y = z + p * n
  BY DEF Congruent
<1>2. p * (m + n) = p * m + p * n
  OBVIOUS
<1>3. PICK u \in Int, v \in Int, e \in Int : u = p * m /\ v = p * n /\ e = m + n
  OBVIOUS
<1>4. x = z + p * e
  BY <1>1, <1>2, <1>3
<1> QED BY <1>4 DEF Congruent

(* Congruence is symmetric.                                                *)
LEMMA CongruentBack ==
  ASSUME NEW p \in Nat, NEW x \in Int, NEW y \in Int, Congruent(x, y, p)
  PROVE  Congruent(y, x, p)
<1>1. PICK m \in Int : x = y + p * m
  BY DEF Congruent
<1>2. PICK u \in Int, e \in Int : u = p * m /\ e = 0 - m /\ p * e = 0 - u
  <2>1. p * (0 - m) = 0 - p * m
    OBVIOUS
  <2> QED BY <2>1
<1>3. y = x + p * e
  BY <1>1, <1>2
<1> QED BY <1>3 DEF Congruent

(* Sums of congruent numbers are congruent.                                *)
LEMMA CongruentSum ==
  ASSUME NEW p \in Nat, NEW x \in Int, NEW y \in Int, NEW z \in Int, NEW w \in Int,
         Congruent(x, y, p), Congruent(z, w, p)
  PROVE  Congruent(x + z, y + w, p)
<1>1. PICK m \in Int, n \in Int : x = y + p * m /\ z = w + p * n
  BY DEF Congruent
<1>2. p * (m + n) = p * m + p * n
  OBVIOUS
<1>3. PICK u \in Int, v \in Int, e \in Int : u = p * m /\ v = p * n /\ e = m + n
  OBVIOUS
<1>4. x + z = y + w + p * e
  BY <1>1, <1>2, <1>3
<1> QED BY <1>4 DEF Congruent

(* Products of congruent numbers are congruent.                            *)
LEMMA CongruentProduct ==
  ASSUME NEW p \in Nat, NEW x \in Int, NEW y \in Int, NEW z \in Int, NEW w \in Int,
         Congruent(x, y, p), Congruent(z, w, p)
  PROVE  Congruent(x * z, y * w, p)
<1>1. PICK m \in Int, n \in Int : x = y + p * m /\ z = w + p * n
  BY DEF Congruent
<1>2. (y + p * m) * (w + p * n) = y * w + p * (y * n + m * w + m * (p * n))
  <2>1. PICK a \in Int, b \in Int : a = p * m /\ b = p * n
    OBVIOUS
  <2>2. (y + a) * (w + b) = y * w + y * b + a * w + a * b
    OBVIOUS
  <2>3. y * (p * n) = p * (y * n) /\ (p * m) * w = p * (m * w) /\ (p * m) * b = p * (m * b)
    OBVIOUS
  <2>4. PICK c \in Int, d \in Int, e \in Int : c = y * n /\ d = m * w /\ e = m * (p * n)
    OBVIOUS
  <2>5. p * (c + d + e) = p * c + p * d + p * e
    OBVIOUS
  <2>6. m * b = e
    BY <2>1, <2>4
  <2>7. y * b = p * c /\ a * w = p * d /\ a * b = p * e
    BY <2>1, <2>3, <2>4, <2>6
  <2>8. PICK f \in Int, g \in Int, h \in Int, i \in Int : f = y * w /\ g = p * c /\ h = p * d /\ i = p * e
    OBVIOUS
  <2>9. (y + a) * (w + b) = f + g + h + i
    BY <2>2, <2>7, <2>8
  <2>10. y * w + p * (c + d + e) = f + (g + h + i)
    BY <2>5, <2>8
  <2>11. f + g + h + i = f + (g + h + i)
    OBVIOUS
  <2> QED BY <2>1, <2>4, <2>9, <2>10, <2>11
<1>3. PICK e \in Int : e = y * n + m * w + m * (p * n)
  OBVIOUS
<1>4. x * z = y * w + p * e
  BY <1>1, <1>2, <1>3
<1> QED BY <1>4 DEF Congruent

(* A number is congruent to itself.                                        *)
LEMMA CongruentSelf ==
  ASSUME NEW p \in Nat, NEW x \in Int
  PROVE  Congruent(x, x, p)
<1>1. p * 0 = 0
  OBVIOUS
<1>2. x = x + p * 0 /\ 0 \in Int
  BY <1>1
<1> QED BY <1>2 DEF Congruent

(* R has an inverse modulo an odd number, so it cancels.                   *)
LEMMA RCancels ==
  ASSUME NEW p \in Nat, NEW n0 \in Nat, (n0 * p + 1) % Base = 0,
         NEW x \in Int, NEW y \in Int, Congruent(R * x, R * y, p)
  PROVE  Congruent(x, y, p)
<1>1. PICK B \in Nat, n \in Nat : B = R /\ B = PowerOf(Base, n)
  BY BigFacts DEF R
<1>2. PICK k \in Int : B * x = B * y + p * k
  BY <1>1 DEF Congruent
<1>3. PICK d \in Int : d = x - y /\ B * d = p * k
  <2>1. B * (x - y) = B * x - B * y
    OBVIOUS
  <2>2. PICK u \in Int, v \in Int, w \in Int : u = B * x /\ v = B * y /\ w = p * k
    OBVIOUS
  <2>3. u - v = w
    BY <1>2, <2>2
  <2> QED BY <2>1, <2>2, <2>3
<1>4. IsMultiple(d, p)
  BY <1>1, <1>3, PowerCancels
<1>5. PICK m \in Int : d = p * m
  BY <1>4 DEF IsMultiple
<1>6. PICK u \in Int : u = p * m
  OBVIOUS
<1>7. x = y + u
  BY <1>3, <1>5, <1>6
<1> QED BY <1>6, <1>7 DEF Congruent

(* What the routines of Montgomery's domain need of the modulus and its    *)
(* constants, and what stands for v there.                                 *)
Domain(mod, n0, r2) ==
  /\ mod \in Elements /\ n0 \in Nat /\ (n0 * Value(mod) + 1) % Base = 0
  /\ 1 < Value(mod) /\ 3 * Value(mod) <= R
  /\ r2 \in Elements /\ Value(r2) < Value(mod) /\ Congruent(Value(r2), R * R, Value(mod))
Stands(x, v, p) == x \in Elements /\ Value(x) < p /\ Congruent(Value(x), R * v, p)

(* Any element times a reduced one.                                        *)
LEMMA TimesReduced ==
  ASSUME ExactWords, ExactProducts, StandardProduct, NEW mod, NEW n0, NEW r2, Domain(mod, n0, r2),
         NEW a \in Elements, NEW b \in Elements, Value(a) < Value(mod)
  PROVE  LET r == fp_mul_monty_var(a, b, mod, n0) IN
         /\ r \in Elements /\ Value(r) < Value(mod)
         /\ Congruent(R * Value(r), Value(a) * Value(b), Value(mod))
<1>1. BI_WORDS \in Nat /\ R \in Nat /\ R > 0
  BY BigFacts
<1>2. mod \in Elements /\ n0 \in Nat /\ (n0 * Value(mod) + 1) % Base = 0 /\ 3 * Value(mod) <= R
  BY DEF Domain
<1>3. PICK t : t = bi_multiply_var(a, b) /\ t \in Bigs(2 * BI_WORDS) /\ Value(t) = Value(a) * Value(b)
  <2>1. IsProduct(bi_multiply_var(a, b), a, b, BI_WORDS, BI_WORDS)
    BY <1>1 DEF ExactProducts, Elements
  <2>2. BI_WORDS + BI_WORDS = 2 * BI_WORDS
    BY <1>1
  <2> QED BY <2>1, <2>2 DEF IsProduct
<1>4. Value(t) < Value(mod) * R
  <2>1. Value(a) \in Nat /\ Value(b) \in Nat /\ Value(mod) \in Nat /\ Value(b) < R
    BY <1>2, BigFacts
  <2> QED BY <1>1, <1>3, <2>1, ProductBelow
<1>5. Reducible(t, Value(mod)) /\ Signed(t, Value(mod)) = Value(a) * Value(b)
  BY <1>3, <1>4 DEF Reducible, Signed
<1>6. fp_mul_monty_var(a, b, mod, n0) = fp_rdc_monty_std(t, mod, n0)
  BY <1>3, Zenon DEF StandardProduct, fp_mul_monty_twostep_std
<1>7. LET r == fp_rdc_monty_std(t, mod, n0) IN
      /\ r \in Elements /\ Value(r) < Value(mod)
      /\ Congruent(R * Value(r), Signed(t, Value(mod)), Value(mod))
  BY <1>2, <1>3, <1>5, MontyReductionIsExact
<1> QED BY <1>5, <1>6, <1>7, Zenon

(* Inside, a product stands for the product.                               *)
LEMMA InsideTimes ==
  ASSUME ExactWords, ExactProducts, StandardProduct, NEW mod, NEW n0, NEW r2, Domain(mod, n0, r2),
         NEW a, NEW b, NEW u \in Int, NEW v \in Int, Stands(a, u, Value(mod)), Stands(b, v, Value(mod))
  PROVE  Stands(fp_mul_monty_var(a, b, mod, n0), u * v, Value(mod))
<1>1. PICK r : /\ r = fp_mul_monty_var(a, b, mod, n0) /\ r \in Elements /\ Value(r) < Value(mod)
               /\ Congruent(R * Value(r), Value(a) * Value(b), Value(mod))
  BY TimesReduced DEF Stands
<1>2. PICK p \in Nat, B \in Nat, x \in Nat, y \in Nat, z \in Nat :
        p = Value(mod) /\ B = R /\ x = Value(a) /\ y = Value(b) /\ z = Value(r) /\ (n0 * p + 1) % Base = 0 /\ n0 \in Nat
  BY <1>1, BigFacts DEF Stands, Domain
<1>3. Congruent(x * y, (B * u) * (B * v), p)
  <2>1. Congruent(x, B * u, p) /\ Congruent(y, B * v, p) /\ B * u \in Int /\ B * v \in Int
    BY <1>2 DEF Stands
  <2> QED BY <2>1, CongruentProduct
<1>4. PICK w \in Int : w = B * (u * v) /\ (B * u) * (B * v) = B * w
  <2>1. (B * u) * (B * v) = B * (B * (u * v))
    OBVIOUS
  <2> QED BY <2>1
<1>5. Congruent(B * z, B * w, p)
  <2>1. B * z \in Int /\ x * y \in Int /\ B * w \in Int
    OBVIOUS
  <2>2. Congruent(B * z, x * y, p) /\ Congruent(x * y, B * w, p)
    BY <1>1, <1>2, <1>3, <1>4
  <2> QED BY <2>1, <2>2, CongruentChain
<1>6. Congruent(z, w, p)
  <2>1. Congruent(R * z, R * w, p) /\ (n0 * p + 1) % Base = 0 /\ n0 \in Nat
    BY <1>2, <1>5
  <2>2. z \in Int /\ w \in Int /\ p \in Nat
    OBVIOUS
  <2> QED BY <2>1, <2>2, RCancels, Zenon
<1> QED BY <1>1, <1>2, <1>4, <1>6 DEF Stands

(* An element taken into the domain stands for its value.                  *)
LEMMA StandsForElement ==
  ASSUME ExactWords, ExactProducts, StandardProduct, NEW mod, NEW n0, NEW r2, Domain(mod, n0, r2),
         NEW a \in Elements, Value(a) < Value(mod)
  PROVE  Stands(fp_mul_monty_var(a, r2, mod, n0), Value(a), Value(mod))
<1>1. PICK r : /\ r = fp_mul_monty_var(a, r2, mod, n0) /\ r \in Elements /\ Value(r) < Value(mod)
               /\ Congruent(R * Value(r), Value(a) * Value(r2), Value(mod))
  BY TimesReduced DEF Domain
<1>2. PICK p \in Nat, B \in Nat, x \in Nat, y \in Nat, z \in Nat :
        p = Value(mod) /\ B = R /\ x = Value(a) /\ y = Value(r2) /\ z = Value(r) /\ (n0 * p + 1) % Base = 0 /\ n0 \in Nat
  BY <1>1, BigFacts DEF Domain
<1>3. Congruent(x * y, x * (B * B), p)
  <2>1. Congruent(y, B * B, p) /\ B * B \in Int
    BY <1>2 DEF Domain
  <2>2. Congruent(x, x, p)
    BY CongruentSelf
  <2> QED BY <2>1, <2>2, CongruentProduct
<1>4. PICK w \in Int : w = B * x /\ x * (B * B) = B * w
  <2>1. x * (B * B) = B * (B * x)
    OBVIOUS
  <2> QED BY <2>1
<1>5. Congruent(B * z, B * w, p)
  <2>1. B * z \in Int /\ x * y \in Int /\ B * w \in Int
    OBVIOUS
  <2>2. Congruent(B * z, x * y, p) /\ Congruent(x * y, B * w, p)
    BY <1>1, <1>2, <1>3, <1>4
  <2> QED BY <2>1, <2>2, CongruentChain
<1>6. Congruent(z, w, p)
  <2>1. Congruent(R * z, R * w, p) /\ (n0 * p + 1) % Base = 0 /\ n0 \in Nat
    BY <1>2, <1>5
  <2>2. z \in Int /\ w \in Int /\ p \in Nat
    OBVIOUS
  <2> QED BY <2>1, <2>2, RCancels, Zenon
<1> QED BY <1>1, <1>2, <1>4, <1>6 DEF Stands

(* One.                                                                    *)
LEMMA BiOne == bi_one \in Elements /\ Value(bi_one) = 1
<1>1. BI_WORDS \in Nat /\ BI_WORDS > 0
  BY WordsAssumption
<1>2. LET r == [i \in 1..BI_WORDS |-> Bit(i = 1)] IN r \in Bigs(BI_WORDS) /\ Value(r) = 1
  BY <1>1, OneValue
<1> QED BY <1>2 DEF bi_one, Elements

(* The way out of the domain.                                              *)
LEMMA Outside1 ==
  ASSUME ExactWords, ExactProducts, StandardProduct, NEW mod, NEW n0, NEW r2, Domain(mod, n0, r2),
         NEW a, NEW v \in Int, Stands(a, v, Value(mod))
  PROVE  LET r == fp_mul_monty_var(a, bi_one, mod, n0) IN
         r \in Elements /\ Value(r) < Value(mod) /\ Congruent(Value(r), v, Value(mod))
<1>1. PICK r : /\ r = fp_mul_monty_var(a, bi_one, mod, n0) /\ r \in Elements /\ Value(r) < Value(mod)
               /\ Congruent(R * Value(r), Value(a) * Value(bi_one), Value(mod))
  BY TimesReduced, BiOne DEF Stands
<1>2. PICK p \in Nat, B \in Nat, x \in Nat, z \in Nat :
        p = Value(mod) /\ B = R /\ x = Value(a) /\ z = Value(r) /\ (n0 * p + 1) % Base = 0 /\ n0 \in Nat
  BY <1>1, BigFacts DEF Stands, Domain
<1>3. Congruent(B * z, x, p) /\ Congruent(x, B * v, p)
  <2>1. x * 1 = x
    OBVIOUS
  <2> QED BY <1>1, <1>2, <2>1, BiOne DEF Stands
<1>4. Congruent(B * z, B * v, p)
  <2>1. B * z \in Int /\ B * v \in Int /\ x \in Int
    OBVIOUS
  <2> QED BY <1>3, <2>1, CongruentChain
<1>5. Congruent(z, v, p)
  <2>1. Congruent(R * z, R * v, p) /\ (n0 * p + 1) % Base = 0 /\ n0 \in Nat
    BY <1>2, <1>4
  <2>2. z \in Int /\ v \in Int /\ p \in Nat
    OBVIOUS
  <2> QED BY <2>1, <2>2, RCancels, Zenon
<1> QED BY <1>1, <1>2, <1>5

(* Loops that count down.                                                  *)
DownFrom(f, n, x0, op, inv) ==
  /\ f[n] = x0 /\ (\A i \in 0..n : f[i] \in inv[i])
  /\ \A i \in 0..n-1 : f[i] = op[<<i, f[i+1]>>]

(* A loop from n down to 0 that keeps its invariant has a run.             *)
LEMMA DownLoopExists ==
  ASSUME NEW n \in Nat, NEW X, NEW inv \in [0..n -> SUBSET X], NEW x0, x0 \in inv[n], NEW op,
         \A i \in 0..n-1 : \A x \in inv[i+1] : op[<<i, x>>] \in inv[i]
  PROVE  \E f : f \in [0..n -> X] /\ DownFrom(f, n, x0, op, inv)
<1> DEFINE back == [j \in 0..n |-> inv[n-j]]
           turn == [t \in (0..n) \X X |-> op[<<n - t[1], t[2]>>]]
<1>1. back \in [0..n -> SUBSET X]
  <2>1. \A j \in 0..n : n - j \in 0..n
    OBVIOUS
  <2> QED BY <2>1
<1>2. x0 \in back[0]
  <2>1. n - 0 = n /\ 0 \in 0..n
    OBVIOUS
  <2> QED BY <2>1
<1>3. ASSUME NEW j \in 1..n, NEW x \in back[j-1]
      PROVE turn[<<j, x>>] \in back[j] /\ turn[<<j, x>>] = op[<<n - j, x>>]
  <2>1. n - j \in 0..n-1 /\ n - (j - 1) = (n - j) + 1 /\ j \in 0..n /\ j - 1 \in 0..n /\ n - (j - 1) \in 0..n
    OBVIOUS
  <2>2. x \in inv[(n - j) + 1] /\ x \in X
    BY <1>3, <2>1
  <2>3. op[<<n - j, x>>] \in inv[n - j]
    BY <2>1, <2>2
  <2>4. turn[<<j, x>>] = op[<<n - j, x>>]
    <3>1. <<j, x>> \in (0..n) \X X /\ <<j, x>>[1] = j /\ <<j, x>>[2] = x
      BY <2>1, <2>2
    <3> QED BY <3>1
  <2> QED BY <2>1, <2>3, <2>4
<1> HIDE DEF back, turn
<1>4. PICK g : g \in [0..n -> X] /\ LoopFrom(g, n, x0, turn, back)
  <2>1. \A j \in 1..n : \A x \in back[j-1] : turn[<<j, x>>] \in back[j]
    BY <1>3
  <2> QED BY <1>1, <1>2, <2>1, LoopExists
<1>5. g[0] = x0 /\ (\A j \in 0..n : g[j] \in back[j]) /\ \A j \in 1..n : g[j] = turn[<<j, g[j-1]>>]
  BY <1>4 DEF LoopFrom
<1>6. PICK f \in [0..n -> X] : f = [i \in 0..n |-> g[n-i]]
  <2>1. \A i \in 0..n : n - i \in 0..n
    OBVIOUS
  <2>2. [i \in 0..n |-> g[n-i]] \in [0..n -> X]
    BY <1>4, <2>1
  <2> QED BY <2>2
<1>7. f[n] = x0
  <2>1. n \in 0..n /\ n - n = 0
    OBVIOUS
  <2> QED BY <1>5, <1>6, <2>1
<1>8. ASSUME NEW i \in 0..n PROVE f[i] \in inv[i]
  <2>1. n - i \in 0..n /\ n - (n - i) = i
    OBVIOUS
  <2>2. g[n - i] \in back[n - i] /\ back[n - i] = inv[n - (n - i)]
    BY <1>5, <2>1 DEF back
  <2> QED BY <1>6, <2>1, <2>2
<1>9. ASSUME NEW i \in 0..n-1 PROVE f[i] = op[<<i, f[i+1]>>]
  <2>1. n - i \in 1..n /\ (n - i) - 1 = n - (i + 1) /\ n - (n - i) = i /\ i \in 0..n /\ i + 1 \in 0..n
        /\ (n - i) - 1 \in 0..n
    OBVIOUS
  <2>2. f[i] = g[n - i] /\ f[i+1] = g[(n - i) - 1]
    BY <1>6, <2>1
  <2>3. g[n - i] = turn[<<n - i, g[(n - i) - 1]>>] /\ g[(n - i) - 1] \in back[(n - i) - 1]
    BY <1>5, <2>1
  <2>4. turn[<<n - i, g[(n - i) - 1]>>] = op[<<n - (n - i), g[(n - i) - 1]>>]
    BY <1>3, <2>1, <2>3
  <2> QED BY <2>1, <2>2, <2>3, <2>4
<1> QED BY <1>6, <1>7, <1>8, <1>9 DEF DownFrom

(* What holds above and is kept by each turn holds at every turn of such a *)
(* loop.                                                                   *)
LEMMA DownLoopStays ==
  ASSUME NEW n \in Nat, NEW w, NEW inv, w[n] \in inv[n],
         \A i \in 0..n-1 : w[i+1] \in inv[i+1] => w[i] \in inv[i]
  PROVE  \A i \in 0..n : w[i] \in inv[i]
<1> DEFINE T == {j \in 0..n : w[n-j] \in inv[n-j]}
<1>1. 0 \in T
  <2>1. n - 0 = n /\ 0 \in 0..n
    OBVIOUS
  <2> QED BY <2>1
<1>2. ASSUME NEW j \in 1..n, j - 1 \in T PROVE j \in T
  <2>1. n - j \in 0..n-1 /\ n - (j - 1) = (n - j) + 1 /\ j \in 0..n
    OBVIOUS
  <2> QED BY <1>2, <2>1
<1>3. \A j \in 0..n : j \in T
  <2> HIDE DEF T
  <2> QED BY <1>1, <1>2, UpTo
<1> TAKE i \in 0..n
<1>4. n - i \in 0..n /\ n - (n - i) = i
  OBVIOUS
<1> QED BY <1>3, <1>4

(* x to the bits of e from place i on.                                     *)
PowerAt(x, e, i) == PowerOf(x, e \div PowerOf(2, i))

(* One bit more of the exponent: square, and multiply if the bit is set.   *)
LEMMA PowerStep ==
  ASSUME NEW x \in Nat, NEW e \in Nat, NEW i \in Nat
  PROVE  /\ PowerAt(x, e, i) \in Nat /\ PowerAt(x, e, i + 1) \in Nat
         /\ PowerAt(x, e, i) = IF (e \div PowerOf(2, i)) % 2 = 1
                               THEN x * (PowerAt(x, e, i + 1) * PowerAt(x, e, i + 1))
                               ELSE PowerAt(x, e, i + 1) * PowerAt(x, e, i + 1)
<1>1. PICK P \in Nat : P = PowerOf(2, i) /\ P > 0 /\ PowerOf(2, i + 1) = P * 2
  BY TwoPower
<1>2. PICK c \in Nat, h \in Nat : c = e \div P /\ h = e \div (P * 2) /\ c \div 2 = h
  BY <1>1, DivTwice
<1>3. c = 2 * h + (c % 2) /\ c % 2 \in {0, 1}
  <2>1. c = 2 * (c \div 2) + (c % 2) /\ c % 2 \in {0, 1}
    OBVIOUS
  <2>2. c \div 2 = h
    BY <1>2
  <2> QED BY <2>1, <2>2
<1>4. PICK y \in Nat : y = PowerOf(x, h) /\ PowerAt(x, e, i + 1) = y
  <2>1. PowerOf(x, h) \in Nat
    BY PowerLaws
  <2>2. PowerAt(x, e, i + 1) = PowerOf(x, h)
    BY <1>1, <1>2, Zenon DEF PowerAt
  <2> QED BY <2>1, <2>2
<1>5. PowerOf(x, h + h) = y * y
  BY <1>4, PowerAdd
<1>6. PowerAt(x, e, i) = PowerOf(x, c)
  BY <1>1, <1>2 DEF PowerAt
<1>7. CASE c % 2 = 1
  <2>1. c = (h + h) + 1 /\ h + h \in Nat
    BY <1>3, <1>7
  <2>2. PowerOf(x, (h + h) + 1) = x * PowerOf(x, h + h)
    BY <2>1, PowerLaws
  <2>3. PowerAt(x, e, i) = x * (y * y) /\ y * y \in Nat /\ x * (y * y) \in Nat
    BY <1>5, <1>6, <2>1, <2>2
  <2> QED BY <1>1, <1>2, <1>4, <1>7, <2>3
<1>8. CASE c % 2 # 1
  <2>1. c = h + h
    BY <1>3, <1>8
  <2>2. PowerAt(x, e, i) = y * y /\ y * y \in Nat
    BY <1>5, <1>6, <2>1
  <2> QED BY <1>1, <1>2, <1>4, <1>8, <2>2
<1> QED BY <1>7, <1>8

(* The same by multiplying with x, as Power of ResiduesAgree.              *)
RestPower(x, p, k) == LET w[i \in 0..k] == IF i = 0 THEN 1 ELSE (x * w[i-1]) % p IN w[k]

(* The power by repeated multiplication is congruent to the power.         *)
LEMMA RestPowerIs ==
  ASSUME NEW x \in Nat, NEW p \in Nat, p > 0, NEW k \in Nat
  PROVE  RestPower(x, p, k) \in Nat /\ Congruent(RestPower(x, p, k), PowerOf(x, k), p)
<1> DEFINE Is(f) == f = [i \in 0..k |-> IF i = 0 THEN 1 ELSE (x * f[i-1]) % p]
           inv == [i \in 0..k |-> {y \in Nat : Congruent(y, PowerOf(x, i), p)}]
           op == [t \in (0..k) \X Nat |-> (x * t[2]) % p]
           w == CHOOSE f : Is(f)
<1>1. RestPower(x, p, k) = w[k]
  BY Zenon DEF RestPower
<1>2. inv \in [0..k -> SUBSET Nat] /\ 1 \in inv[0]
  <2>1. PowerOf(x, 0) = 1
    BY PowerLaws
  <2>2. Congruent(1, PowerOf(x, 0), p)
    BY <2>1, CongruentSelf
  <2> QED BY <2>2
<1>3. ASSUME NEW i \in 1..k, NEW y \in Nat, Congruent(y, PowerOf(x, i - 1), p)
      PROVE  (x * y) % p \in Nat /\ Congruent((x * y) % p, PowerOf(x, i), p)
  <2>1. PICK q \in Nat : q = PowerOf(x, i - 1) /\ PowerOf(x, i) = x * q
    <3>1. i - 1 \in Nat /\ (i - 1) + 1 = i
      OBVIOUS
    <3>2. PowerOf(x, i - 1) \in Nat /\ PowerOf(x, (i - 1) + 1) = x * PowerOf(x, i - 1)
      BY <3>1, PowerLaws
    <3> QED BY <3>1, <3>2
  <2>2. PICK z \in Int, v \in Int : z = x * y /\ v = x * q
    OBVIOUS
  <2>3. Congruent(z, v, p)
    <3>1. Congruent(x, x, p) /\ Congruent(y, q, p)
      BY <1>3, <2>1, CongruentSelf
    <3> QED BY <2>2, <3>1, CongruentProduct
  <2>4. z \div p \in Int /\ z % p \in 0..p-1 /\ z = p * (z \div p) + (z % p)
    BY Divided
  <2>5. Congruent(z, z % p, p)
    <3>1. PICK d \in Int, r \in Nat : d = z \div p /\ r = z % p /\ z = p * d + r
      BY <2>4
    <3>2. PICK u \in Int : u = p * d
      OBVIOUS
    <3>3. z = r + u
      BY <3>1, <3>2
    <3> QED BY <3>1, <3>2, <3>3 DEF Congruent
  <2>6. z % p \in Int /\ z % p \in Nat
    BY <2>4
  <2>7. Congruent(z % p, z, p)
    BY <2>5, <2>6, CongruentBack
  <2>8. Congruent(z % p, v, p)
    BY <2>3, <2>6, <2>7, CongruentChain
  <2> QED BY <2>1, <2>2, <2>6, <2>8
<1>4. ASSUME NEW i \in 1..k, NEW y \in inv[i-1] PROVE op[<<i, y>>] \in inv[i] /\ op[<<i, y>>] = (x * y) % p
  <2>1. i \in 0..k /\ i - 1 \in 0..k
    OBVIOUS
  <2>2. y \in Nat /\ Congruent(y, PowerOf(x, i - 1), p)
    BY <1>4, <2>1
  <2>3. op[<<i, y>>] = (x * y) % p
    <3>1. <<i, y>> \in (0..k) \X Nat /\ <<i, y>>[2] = y
      BY <2>1, <2>2
    <3> QED BY <3>1
  <2>4. (x * y) % p \in Nat /\ Congruent((x * y) % p, PowerOf(x, i), p)
    BY <1>3, <2>2
  <2> HIDE DEF op
  <2> QED BY <2>1, <2>3, <2>4
<1>5. PICK f : f \in [0..k -> Nat] /\ LoopFrom(f, k, 1, op, inv)
  <2> HIDE DEF inv, op
  <2>1. \A i \in 1..k : \A y \in inv[i-1] : op[<<i, y>>] \in inv[i]
    BY <1>4
  <2> QED BY <1>2, <2>1, LoopExists
<1>6. Is(f)
  <2>1. f[0] = 1 /\ (\A i \in 0..k : f[i] \in inv[i]) /\ \A i \in 1..k : f[i] = op[<<i, f[i-1]>>]
    BY <1>5 DEF LoopFrom
  <2> HIDE DEF inv, op
  <2>2. ASSUME NEW i \in 0..k PROVE f[i] = IF i = 0 THEN 1 ELSE (x * f[i-1]) % p
    <3>1. CASE i = 0
      BY <2>1, <3>1
    <3>2. CASE i # 0
      <4>1. i \in 1..k /\ i - 1 \in 0..k
        BY <3>2
      <4>2. f[i] = op[<<i, f[i-1]>>] /\ f[i-1] \in inv[i-1]
        BY <2>1, <4>1
      <4>3. op[<<i, f[i-1]>>] = (x * f[i-1]) % p
        BY <1>4, <4>1, <4>2
      <4> QED BY <3>2, <4>2, <4>3
    <3> QED BY <3>1, <3>2
  <2>3. DOMAIN f = 0..k
    BY <1>5
  <2>4. f = [i \in 0..k |-> f[i]]
    BY <1>5
  <2> QED BY <2>2, <2>4
<1>7. Is(w)
  <2> HIDE DEF Is
  <2> QED BY <1>6
<1>8. w[k] \in inv[k]
  <2>1. \A i \in 0..k : w[i] = IF i = 0 THEN 1 ELSE (x * w[i-1]) % p
    <3> HIDE DEF w
    <3> QED BY <1>7
  <2> HIDE DEF w, Is
  <2>2. w[0] \in inv[0]
    <3>1. 0 \in 0..k
      OBVIOUS
    <3>2. w[0] = 1
      BY <2>1, <3>1
    <3> QED BY <1>2, <3>2
  <2>3. \A i \in 1..k : w[i-1] \in inv[i-1] => w[i] \in inv[i]
    <3> TAKE i \in 1..k
    <3> HAVE w[i-1] \in inv[i-1]
    <3>1. i \in 0..k /\ i # 0
      OBVIOUS
    <3>2. w[i] = (x * w[i-1]) % p
      BY <2>1, <3>1
    <3>3. op[<<i, w[i-1]>>] \in inv[i] /\ op[<<i, w[i-1]>>] = (x * w[i-1]) % p
      BY <1>4
    <3> QED BY <3>2, <3>3
  <2> HIDE DEF inv
  <2>4. \A i \in 0..k : w[i] \in inv[i]
    BY <2>2, <2>3, LoopStays
  <2> QED BY <2>4
<1>9. w[k] \in Nat /\ Congruent(w[k], PowerOf(x, k), p)
  <2>1. k \in 0..k
    OBVIOUS
  <2> HIDE DEF w
  <2> QED BY <1>8, <2>1
<1> QED BY <1>1, <1>9, Zenon

(* fp_exp is a power, by squaring from the highest bit of the exponent     *)
(* down.                                                                   *)
LEMMA NoBits ==
  ASSUME NEW n \in Nat, NEW b \in Bigs(n), NEW i \in Nat, i > bi_get_msb_var(b)
  PROVE  Value(b) \div PowerOf(2, i) = 0
<1>1. PICK e \in Nat : e = Value(b)
  BY ValueIsNat
<1>2. CASE e = 0
  <2>1. PICK P \in Nat : P = PowerOf(2, i) /\ P > 0
    BY TwoPower
  <2>2. 0 \div P = 0
    BY <2>1
  <2> QED BY <1>1, <1>2, <2>1, <2>2
<1>3. CASE e # 0
  <2>1. PICK m \in Nat : m = bi_get_msb_var(b) /\ PowerOf(2, m) <= e /\ e < PowerOf(2, m + 1)
    <3>1. PICK k \in Nat : k = n * BITS_PER_WORD
      BY WordsAssumption
    <3>2. bi_get_msb_var(b) \in 0..n * BITS_PER_WORD - 1
          /\ PowerOf(2, bi_get_msb_var(b)) <= Value(b) /\ Value(b) < PowerOf(2, bi_get_msb_var(b) + 1)
      BY <1>1, <1>3, HighestBitIsFound
    <3> QED BY <1>1, <3>1, <3>2
  <2> QED BY <1>1, <2>1, BitsAbove
<1> QED BY <1>2, <1>3

(* fp_exp_monty, which squares and multiplies in Montgomery's domain from  *)
(* the highest bit of the exponent down, returns the residue of the power  *)
(* for any exponent, 0 too.                                                *)
THEOREM PowersAreExact ==
  ASSUME ExactWords, ExactProducts, StandardProduct, NEW mod, NEW n0, NEW r2, Domain(mod, n0, r2),
         NEW a \in Elements, Value(a) < Value(mod), NEW b \in Elements
  PROVE  LET r == fp_exp_monty(a, b, mod, n0, r2) IN
         r \in Elements /\ Value(r) = RestPower(Value(a), Value(mod), Value(b)) % Value(mod)
<1>1. PICK p \in Nat, x \in Nat, e \in Nat : p = Value(mod) /\ x = Value(a) /\ e = Value(b) /\ x < p /\ p > 1
  BY BigFacts DEF Domain
<1> DEFINE n == BITS_PER_WORD * BI_WORDS
<1>2. n \in Nat /\ n = BITS_PER_WORD * BI_WORDS /\ n > 0
  <2>1. BITS_PER_WORD \in Nat /\ BITS_PER_WORD >= 1 /\ BI_WORDS \in Nat
    BY WordsAssumption
  <2>2. PICK c \in Nat, d \in Nat : c = BITS_PER_WORD /\ d = BI_WORDS /\ c >= 1 /\ d >= 1
    BY <2>1, WordsAssumption
  <2>3. c * d >= c
    BY <2>2, AtLeastItself
  <2> QED BY <2>2, <2>3
<1> DEFINE T(y, z) == fp_mul_monty_var(y, z, mod, n0)
           Times == [t \in Bigs(BI_WORDS) \X Bigs(BI_WORDS) |-> T(t[1], t[2])]
           base == Times[<<a, r2>>]
           one == Times[<<bi_one, r2>>]
           Turn(i, s) == LET square == Times[<<s, s>>]
                         IN IF bi_test_bit_var(b, i) THEN Times[<<base, square>>] ELSE square
           Is(f) == f = [i \in 0..n |-> IF i > bi_get_msb_var(b) THEN one ELSE Turn(i, f[i+1])]
           inv == [i \in 0..n |-> {y \in Elements : Stands(y, PowerAt(x, e, i), p)}]
           op == [t \in (0..n) \X Elements |-> IF t[1] > bi_get_msb_var(b) THEN one ELSE Turn(t[1], t[2])]
           w == CHOOSE f : Is(f)
           res == Times[<<w[0], bi_one>>]
<1>3. fp_exp_monty(a, b, mod, n0, r2)
        = IF bi_compare_var(res, mod) >= 0 THEN bi_subtract_var(res, mod).res ELSE res
  BY Zenon DEF fp_exp_monty
<1>21. n \in Nat /\ n > 0
  BY <1>2
<1> HIDE DEF n
<1> USE <1>21
<1>4. ASSUME NEW y \in Elements, NEW z \in Elements PROVE Times[<<y, z>>] = T(y, z)
  <2>1. <<y, z>> \in Bigs(BI_WORDS) \X Bigs(BI_WORDS) /\ <<y, z>>[1] = y /\ <<y, z>>[2] = z
    BY DEF Elements
  <2> QED BY <2>1
<1> HIDE DEF Times
<1>5. /\ r2 \in Elements /\ mod \in Elements /\ n0 \in Nat
      /\ bi_one \in Elements /\ Value(bi_one) = 1 /\ Value(bi_one) < Value(mod)
  BY <1>1, BiOne DEF Domain
<1>6. Stands(one, 1, p)
  <2>1. Stands(T(bi_one, r2), Value(bi_one), Value(mod))
    BY <1>5, StandsForElement
  <2> QED BY <1>1, <1>4, <1>5, <2>1
<1>7. Stands(base, x, p)
  <2>1. Stands(T(a, r2), Value(a), Value(mod))
    BY <1>5, StandsForElement
  <2> QED BY <1>1, <1>4, <1>5, <2>1
<1> HIDE DEF one, base
<1>8. ASSUME NEW y \in Elements, NEW z \in Elements, NEW u \in Int, NEW v \in Int, Stands(y, u, p), Stands(z, v, p)
      PROVE  Stands(Times[<<y, z>>], u * v, p)
  <2>1. Stands(T(y, z), u * v, Value(mod))
    BY <1>1, <1>8, InsideTimes
  <2> QED BY <1>1, <1>4, <2>1
<1>9. ASSUME NEW i \in 0..n, i > bi_get_msb_var(b) PROVE Stands(one, PowerAt(x, e, i), p)
  <2>1. Value(b) \div PowerOf(2, i) = 0
    <3>1. BI_WORDS \in Nat /\ b \in Bigs(BI_WORDS) /\ i \in Nat
      BY BigFacts DEF Elements
    <3> QED BY <1>9, <3>1, NoBits
  <2>2. PowerOf(x, 0) = 1
    BY PowerLaws
  <2>3. PowerAt(x, e, i) = 1
    BY <1>1, <2>1, <2>2 DEF PowerAt
  <2> QED BY <1>6, <2>3
<1>10. ASSUME NEW i \in 0..n-1, NEW s \in Elements, Stands(s, PowerAt(x, e, i + 1), p)
       PROVE  Stands(Turn(i, s), PowerAt(x, e, i), p)
  <2>1. PICK q \in Nat, g \in Nat : q = PowerAt(x, e, i + 1) /\ g = q * q
    <3>1. i \in Nat
      OBVIOUS
    <3>2. PowerAt(x, e, i + 1) \in Nat
      BY <3>1, PowerStep
    <3> QED BY <3>2
  <2>2. PICK square : square = Times[<<s, s>>] /\ Stands(square, g, p) /\ square \in Elements
    <3>1. Stands(Times[<<s, s>>], q * q, p)
      BY <1>8, <1>10, <2>1
    <3> QED BY <2>1, <3>1 DEF Stands
  <2>3. PowerAt(x, e, i) = IF bi_test_bit_var(b, i) THEN x * g ELSE g
    <3>1. i \in Nat
      OBVIOUS
    <3>2. bi_test_bit_var(b, i) <=> (e \div PowerOf(2, i)) % 2 = 1
      <4>1. BI_WORDS \in Nat /\ b \in Bigs(BI_WORDS)
        BY BigFacts DEF Elements
      <4>2. i < BI_WORDS * BITS_PER_WORD
        <5>1. PICK c \in Nat, d \in Nat : c = BITS_PER_WORD /\ d = BI_WORDS
          BY WordsAssumption
        <5>2. c * d = d * c
          OBVIOUS
        <5> QED BY <1>2, <5>1, <5>2
      <4>3. bi_test_bit_var(b, i) <=> i < BI_WORDS * BITS_PER_WORD /\ (Value(b) \div PowerOf(2, i)) % 2 = 1
        BY <3>1, <4>1, BitOfValue
      <4> QED BY <1>1, <4>2, <4>3
    <3>3. PowerAt(x, e, i) = IF (e \div PowerOf(2, i)) % 2 = 1
                             THEN x * (PowerAt(x, e, i + 1) * PowerAt(x, e, i + 1))
                             ELSE PowerAt(x, e, i + 1) * PowerAt(x, e, i + 1)
      BY <3>1, PowerStep
    <3> QED BY <2>1, <3>2, <3>3, Zenon
  <2>4. Stands(Times[<<base, square>>], x * g, p)
    <3>1. base \in Elements
      BY <1>7 DEF Stands
    <3> QED BY <1>7, <1>8, <2>2, <3>1
  <2> QED BY <2>2, <2>3, <2>4
<1> HIDE DEF Turn
<1>11. inv \in [0..n -> SUBSET Elements] /\ one \in inv[n]
  <2>1. n > bi_get_msb_var(b)
    <3>1. BI_WORDS \in Nat /\ b \in Bigs(BI_WORDS)
      BY BigFacts DEF Elements
    <3>2. BI_WORDS * BITS_PER_WORD = n
      <4>1. PICK c \in Nat, d \in Nat : c = BITS_PER_WORD /\ d = BI_WORDS
        BY WordsAssumption
      <4>2. c * d = d * c
        OBVIOUS
      <4> QED BY <1>2, <4>1, <4>2
    <3>3. bi_get_msb_var(b) = -1 \/ bi_get_msb_var(b) \in 0..BI_WORDS * BITS_PER_WORD - 1
      BY <3>1, HighestBitIsFound
    <3> QED BY <1>2, <3>2, <3>3
  <2>2. Stands(one, PowerAt(x, e, n), p)
    BY <1>9, <2>1
  <2> QED BY <2>2 DEF Stands
<1>12. ASSUME NEW i \in 0..n-1, NEW s \in inv[i+1]
       PROVE  /\ op[<<i, s>>] \in inv[i]
              /\ op[<<i, s>>] = IF i > bi_get_msb_var(b) THEN one ELSE Turn(i, s)
  <2>1. i \in 0..n /\ i + 1 \in 0..n
    OBVIOUS
  <2>2. s \in Elements /\ Stands(s, PowerAt(x, e, i + 1), p)
    BY <1>12, <2>1
  <2>3. op[<<i, s>>] = IF i > bi_get_msb_var(b) THEN one ELSE Turn(i, s)
    <3>1. <<i, s>> \in (0..n) \X Elements /\ <<i, s>>[1] = i /\ <<i, s>>[2] = s
      BY <2>1, <2>2
    <3> QED BY <3>1
  <2>4. Stands(op[<<i, s>>], PowerAt(x, e, i), p)
    <3> HIDE DEF op
    <3> QED BY <1>9, <1>10, <2>1, <2>2, <2>3
  <2> HIDE DEF op
  <2> QED BY <2>1, <2>3, <2>4 DEF Stands
<1>13. PICK f : f \in [0..n -> Elements] /\ DownFrom(f, n, one, op, inv)
  <2> HIDE DEF inv, op
  <2>1. \A i \in 0..n-1 : \A s \in inv[i+1] : op[<<i, s>>] \in inv[i]
    BY <1>12
  <2> QED BY <1>11, <2>1, DownLoopExists
<1>14. Is(f)
  <2>1. f[n] = one /\ (\A i \in 0..n : f[i] \in inv[i]) /\ \A i \in 0..n-1 : f[i] = op[<<i, f[i+1]>>]
    BY <1>13 DEF DownFrom
  <2> HIDE DEF inv, op
  <2>2. ASSUME NEW i \in 0..n PROVE f[i] = IF i > bi_get_msb_var(b) THEN one ELSE Turn(i, f[i+1])
    <3>1. CASE i = n
      <4>1. n > bi_get_msb_var(b)
        <5>1. PICK c \in Nat, d \in Nat : c = BITS_PER_WORD /\ d = BI_WORDS
          BY WordsAssumption
        <5>2. c * d = d * c
          OBVIOUS
        <5>3. BI_WORDS \in Nat /\ b \in Bigs(BI_WORDS) /\ BI_WORDS * BITS_PER_WORD = n
          BY <1>2, <5>1, <5>2 DEF Elements
        <5>4. bi_get_msb_var(b) = -1 \/ bi_get_msb_var(b) \in 0..BI_WORDS * BITS_PER_WORD - 1
          BY <5>3, HighestBitIsFound
        <5> QED BY <1>2, <5>3, <5>4
      <4> QED BY <2>1, <3>1, <4>1
    <3>2. CASE i # n
      <4>1. i \in 0..n-1 /\ i + 1 \in 0..n
        BY <3>2
      <4>2. f[i] = op[<<i, f[i+1]>>] /\ f[i+1] \in inv[i+1]
        BY <2>1, <4>1
      <4> QED BY <1>12, <4>1, <4>2
    <3> QED BY <3>1, <3>2
  <2>3. f = [i \in 0..n |-> f[i]]
    BY <1>13
  <2> QED BY <2>2, <2>3
<1>15. Is(w)
  <2> HIDE DEF Is
  <2> QED BY <1>14
<1>16. w[0] \in inv[0]
  <2>1. \A i \in 0..n : w[i] = IF i > bi_get_msb_var(b) THEN one ELSE Turn(i, w[i+1])
    <3> HIDE DEF w
    <3> QED BY <1>15
  <2> HIDE DEF w, Is
  <2>2. w[n] \in inv[n]
    <3>1. f[n] = one /\ \A i \in 0..n : f[i] = IF i > bi_get_msb_var(b) THEN one ELSE Turn(i, f[i+1])
      BY <1>13, <1>14 DEF DownFrom, Is
    <3>2. w[n] = one
      <4>1. PICK c \in Nat, d \in Nat : c = BITS_PER_WORD /\ d = BI_WORDS
        BY WordsAssumption
      <4>2. c * d = d * c
        OBVIOUS
      <4>3. BI_WORDS \in Nat /\ b \in Bigs(BI_WORDS) /\ BI_WORDS * BITS_PER_WORD = n
        BY <1>2, <4>1, <4>2 DEF Elements
      <4>4. bi_get_msb_var(b) = -1 \/ bi_get_msb_var(b) \in 0..BI_WORDS * BITS_PER_WORD - 1
        BY <4>3, HighestBitIsFound
      <4>5. n > bi_get_msb_var(b) /\ n \in 0..n
        BY <1>2, <4>3, <4>4
      <4> QED BY <2>1, <4>5
    <3> QED BY <1>11, <3>2
  <2>3. \A i \in 0..n-1 : w[i+1] \in inv[i+1] => w[i] \in inv[i]
    <3> TAKE i \in 0..n-1
    <3> HAVE w[i+1] \in inv[i+1]
    <3>1. i \in 0..n
      OBVIOUS
    <3>2. w[i] = IF i > bi_get_msb_var(b) THEN one ELSE Turn(i, w[i+1])
      BY <2>1, <3>1
    <3>3. op[<<i, w[i+1]>>] \in inv[i] /\ op[<<i, w[i+1]>>] = IF i > bi_get_msb_var(b) THEN one ELSE Turn(i, w[i+1])
      BY <1>12
    <3> QED BY <3>2, <3>3, Zenon
  <2> HIDE DEF inv
  <2>4. \A i \in 0..n : w[i] \in inv[i]
    BY <2>2, <2>3, DownLoopStays
  <2>5. 0 \in 0..n
    OBVIOUS
  <2> QED BY <2>4, <2>5
<1> HIDE DEF w
<1>17. w[0] \in Elements /\ Stands(w[0], PowerOf(x, e), p)
  <2>1. w[0] \in Elements /\ Stands(w[0], PowerAt(x, e, 0), p)
    <3>1. 0 \in 0..n
      OBVIOUS
    <3> QED BY <1>16, <3>1
  <2>2. PowerOf(2, 0) = 1 /\ e \div 1 = e
    BY PowerLaws
  <2> QED BY <2>1, <2>2 DEF PowerAt
<1>18. res \in Elements /\ Value(res) < p /\ Congruent(Value(res), PowerOf(x, e), p)
  <2>1. res = T(w[0], bi_one)
    BY <1>4, <1>5, <1>17
  <2>2. PowerOf(x, e) \in Int
    BY PowerLaws
  <2>3. LET r == T(w[0], bi_one) IN
        r \in Elements /\ Value(r) < Value(mod) /\ Congruent(Value(r), PowerOf(x, e), Value(mod))
    BY <1>1, <1>17, <2>2, Outside1
  <2> QED BY <1>1, <2>1, <2>3, Zenon
<1> HIDE DEF res
<1>19. fp_exp_monty(a, b, mod, n0, r2) = res
  <2>1. ~ (bi_compare_var(res, mod) >= 0)
    <3>1. bi_compare_var(res, mod) >= 0 <=> Value(res) >= Value(mod)
      BY <1>5, <1>18, CompareCases
    <3>2. Value(res) \in Nat
      BY <1>18, BigFacts
    <3> QED BY <1>1, <1>18, <3>1, <3>2
  <2> QED BY <1>3, <2>1
<1>20. Value(res) = RestPower(x, p, e) % p
  <2>1. PICK y \in Nat, z \in Nat, q \in Nat :
          y = Value(res) /\ z = RestPower(x, p, e) /\ q = PowerOf(x, e) /\ y < p /\ Congruent(y, q, p) /\ Congruent(z, q, p)
    <3>1. Value(res) \in Nat
      BY <1>18, BigFacts
    <3>2. RestPower(x, p, e) \in Nat /\ Congruent(RestPower(x, p, e), PowerOf(x, e), p)
      BY <1>1, RestPowerIs
    <3>3. PowerOf(x, e) \in Nat
      BY PowerLaws
    <3> QED BY <1>18, <3>1, <3>2, <3>3
  <2>2. Congruent(y, z, p)
    <3>1. Congruent(q, z, p)
      BY <2>1, CongruentBack
    <3> QED BY <2>1, <3>1, CongruentChain
  <2>3. y % p = z % p
    BY <1>1, <2>2, SameRest
  <2>4. y % p = y
    BY <1>1, <2>1
  <2> QED BY <2>1, <2>3, <2>4
<1> QED BY <1>1, <1>18, <1>19, <1>20, Zenon

-----------------------------------------------------------------------------
(* fp_inv_exp is the power mod - 2, from below the highest bit down.       *)
ReducedTo(y, v, p) == y \in Elements /\ Value(y) < p /\ Congruent(Value(y), v, p)
Barrett(mod, mu) ==
  /\ mod \in Elements /\ Value(mod) >= PowerOf(Base, BI_WORDS - 1) /\ Value(mod) > 2
  /\ mu \in Bigs(BI_WORDS + 1) /\ Value(mu) = (R * R) \div Value(mod)

(* Barrett's product of two residues is the residue of the product.        *)
LEMMA BarrettTimes ==
  ASSUME ExactWords, ExactProducts, NEW mod, NEW mu, Barrett(mod, mu),
         NEW y, NEW z, NEW u \in Int, NEW v \in Int, ReducedTo(y, u, Value(mod)), ReducedTo(z, v, Value(mod))
  PROVE  ReducedTo(fp_mul_std(y, z, mod, mu), u * v, Value(mod))
<1>1. PICK r : r = fp_mul_std(y, z, mod, mu) /\ r \in Elements /\ Value(r) = (Value(y) * Value(z)) % Value(mod)
  BY BarrettIsExact DEF Barrett, ReducedTo
<1>2. PICK p \in Nat, c \in Nat, d \in Nat, e \in Nat :
        p = Value(mod) /\ c = Value(y) /\ d = Value(z) /\ e = c * d /\ p > 0
        /\ Congruent(c, u, p) /\ Congruent(d, v, p)
  <2>1. Value(mod) \in Nat /\ Value(y) \in Nat /\ Value(z) \in Nat /\ Value(mod) > 2
    BY BigFacts DEF Barrett, ReducedTo
  <2> QED BY <2>1 DEF ReducedTo
<1>3. Congruent(e, u * v, p)
  <2>1. c \in Int /\ d \in Int /\ p \in Int
    BY <1>2
  <2>2. Congruent(c * d, u * v, p)
    BY <1>2, <2>1, CongruentProduct
  <2> QED BY <1>2, <2>2, Zenon
<1>4. e \div p \in Int /\ e % p \in 0..p-1 /\ e = p * (e \div p) + (e % p)
  <2>1. p \in Nat /\ p > 0 /\ e \in Int
    BY <1>2
  <2> QED BY <2>1, Divided, Zenon
<1>5. PICK k \in Int, s \in 0..p-1 : k = e \div p /\ s = e % p /\ e = p * k + s
  BY <1>4
<1>6. Congruent(e, s, p)
  <2>1. PICK g \in Int : g = p * k
    OBVIOUS
  <2>2. e = s + g
    BY <1>5, <2>1
  <2> QED BY <2>1, <2>2 DEF Congruent
<1>7. Congruent(s, e, p)
  BY <1>6, CongruentBack
<1>8. Congruent(s, u * v, p)
  <2>1. u * v \in Int
    OBVIOUS
  <2> QED BY <1>3, <1>7, <2>1, CongruentChain
<1> QED BY <1>1, <1>2, <1>5, <1>8 DEF ReducedTo

(* The exponent of fp_inv_exp is the modulus less two.                     *)
LEMMA MinusTwo ==
  ASSUME ExactWords, NEW mod \in Elements, Value(mod) > 2
  PROVE  LET e == bi_subtract_var(mod, bi_set_bit_var(Zeros(BI_WORDS), 1)).res IN
         e \in Elements /\ Value(e) = Value(mod) - 2
<1>1. 1 \in 0..BI_WORDS * BITS_PER_WORD - 1
  <2>1. PICK c \in Nat, d \in Nat : c = BITS_PER_WORD /\ d = BI_WORDS /\ c >= 1 /\ d >= 2
    BY WordsAssumption
  <2>2. d * c >= d
    BY <2>1, AtLeastItself
  <2>3. PICK g \in Nat : g = d * c
    BY <2>1
  <2> QED BY <2>1, <2>2, <2>3
<1>2. PICK t : t = bi_set_bit_var(Zeros(BI_WORDS), 1) /\ t \in Elements /\ Value(t) = PowerOf(2, 1)
  BY <1>1, BigFacts, SetBitsAreSet DEF Elements
<1>3. PowerOf(2, 1) = 2
  <2>1. PowerOf(2, 0) = 1 /\ PowerOf(2, 0 + 1) = 2 * PowerOf(2, 0)
    BY PowerLaws
  <2>2. 0 + 1 = 1
    OBVIOUS
  <2> QED BY <2>1, <2>2
<1>4. PICK d : /\ d = bi_subtract_var(mod, t) /\ d.res \in Elements /\ Value(d.res) \in 0..R-1
               /\ \/ d.carry = 0 /\ Value(d.res) = Value(mod) - Value(t)
                  \/ d.carry = 1 /\ Value(d.res) = Value(mod) - Value(t) + R
  BY <1>2, DifferenceCases
<1>5. PICK p \in Nat, B \in Nat, v \in 0..R-1 : p = Value(mod) /\ B = R /\ v = Value(d.res) /\ p < B
  BY <1>4, BigFacts
<1>6. v = p - 2
  BY <1>2, <1>3, <1>4, <1>5
<1> QED BY <1>2, <1>4, <1>5, <1>6

(* fp_inv_exp_var returns the residue of the power with the exponent p - 2,*)
(* which is the inverse if p is a prime.                                   *)
THEOREM InversePowersAreExact ==
  ASSUME ExactWords, ExactProducts, NEW mod, NEW mu, Barrett(mod, mu),
         NEW a \in Elements, Value(a) < Value(mod)
  PROVE  LET r == fp_inv_exp_var(a, mod, mu) IN
         r \in Elements /\ Value(r) = RestPower(Value(a), Value(mod), Value(mod) - 2) % Value(mod)
<1>1. PICK p \in Nat, x \in Nat : p = Value(mod) /\ x = Value(a) /\ x < p /\ p > 2 /\ mod \in Elements
  BY BigFacts DEF Barrett
<1> DEFINE n == BITS_PER_WORD * BI_WORDS
           b == bi_subtract_var(mod, bi_set_bit_var(Zeros(BI_WORDS), 1)).res
           Times == [t \in Bigs(BI_WORDS) \X Bigs(BI_WORDS) |-> fp_mul_std(t[1], t[2], mod, mu)]
           Turn(i, s) == LET square == Times[<<s, s>>]
                         IN IF bi_test_bit_var(b, i) THEN Times[<<square, a>>] ELSE square
           Is(f) == f = [i \in 0..n |-> IF i >= bi_get_msb_var(b) THEN a ELSE Turn(i, f[i+1])]
           w == CHOOSE f : Is(f)
<1>2. fp_inv_exp_var(a, mod, mu) = w[0]
  BY Zenon DEF fp_inv_exp_var
<1>3. PICK e \in Nat : e = p - 2 /\ e = Value(b) /\ b \in Elements /\ e > 0
  BY <1>1, MinusTwo
<1>4. ASSUME NEW y \in Elements, NEW z \in Elements PROVE Times[<<y, z>>] = fp_mul_std(y, z, mod, mu)
  <2>1. <<y, z>> \in Bigs(BI_WORDS) \X Bigs(BI_WORDS) /\ <<y, z>>[1] = y /\ <<y, z>>[2] = z
    BY DEF Elements
  <2> QED BY <2>1
<1> HIDE DEF Times, b
<1>5. PICK m \in Nat : /\ m = bi_get_msb_var(b) /\ m < n /\ PowerOf(2, m) <= e /\ e < PowerOf(2, m + 1)
                       /\ BI_WORDS * BITS_PER_WORD = n /\ n \in Nat
  <2>1. PICK c \in Nat, d \in Nat, g \in Nat : c = BITS_PER_WORD /\ d = BI_WORDS /\ g = d * c /\ c * d = g
    <3>1. BITS_PER_WORD \in Nat /\ BI_WORDS \in Nat
      BY WordsAssumption
    <3>2. BI_WORDS * BITS_PER_WORD = BITS_PER_WORD * BI_WORDS
      BY <3>1
    <3> QED BY <3>1, <3>2
  <2>2. bi_get_msb_var(b) \in 0..d * c - 1 /\ PowerOf(2, bi_get_msb_var(b)) <= e /\ e < PowerOf(2, bi_get_msb_var(b) + 1)
    BY <1>3, <2>1, HighestBitIsFound DEF Elements
  <2> QED BY <2>1, <2>2
<1> DEFINE inv == [i \in 0..n |-> {y \in Elements : Value(y) < p /\ (i <= m => ReducedTo(y, PowerAt(x, e, i), p))}]
           op == [t \in (0..n) \X Elements |-> IF t[1] >= bi_get_msb_var(b) THEN a ELSE Turn(t[1], t[2])]
<1>21. n \in Nat
  BY <1>5
<1> HIDE DEF n
<1> USE <1>21
<1>6. ReducedTo(a, x, p)
  BY <1>1, CongruentSelf DEF ReducedTo
<1>7. ASSUME NEW y, NEW z, NEW u \in Int, NEW v \in Int, ReducedTo(y, u, p), ReducedTo(z, v, p)
      PROVE  ReducedTo(Times[<<y, z>>], u * v, p)
  <2>1. ReducedTo(fp_mul_std(y, z, mod, mu), u * v, Value(mod))
    BY <1>1, <1>7, BarrettTimes
  <2>2. y \in Elements /\ z \in Elements
    BY <1>7 DEF ReducedTo
  <2> QED BY <1>1, <1>4, <2>1, <2>2
<1>8. ReducedTo(a, PowerAt(x, e, m), p)
  <2>1. e \div PowerOf(2, m) = 1
    BY <1>5, BitsAbove
  <2>2. PowerOf(x, 1) = x
    <3>1. PowerOf(x, 0) = 1 /\ PowerOf(x, 0 + 1) = x * PowerOf(x, 0)
      BY PowerLaws
    <3>2. 0 + 1 = 1 /\ x * 1 = x
      OBVIOUS
    <3> QED BY <3>1, <3>2
  <2>3. PowerAt(x, e, m) = x
    BY <2>1, <2>2 DEF PowerAt
  <2> QED BY <1>6, <2>3
<1>9. \A i \in 0..n : i >= m => a \in inv[i]
  <2> TAKE i \in 0..n
  <2> HAVE i >= m
  <2>1. i <= m => i = m
    BY <1>5
  <2> QED BY <1>1, <1>8, <2>1
<1>10. ASSUME NEW i \in 0..n-1, i < m, NEW s \in Elements, ReducedTo(s, PowerAt(x, e, i + 1), p)
       PROVE  ReducedTo(Turn(i, s), PowerAt(x, e, i), p)
  <2>1. PICK q \in Nat, g \in Nat : q = PowerAt(x, e, i + 1) /\ g = q * q
    <3>1. i \in Nat
      OBVIOUS
    <3>2. PowerAt(x, e, i + 1) \in Nat
      BY <3>1, PowerStep
    <3> QED BY <3>2
  <2>2. PICK square : square = Times[<<s, s>>] /\ ReducedTo(square, g, p)
    <3>1. ReducedTo(Times[<<s, s>>], q * q, p)
      BY <1>7, <1>10, <2>1
    <3> QED BY <2>1, <3>1
  <2>3. PowerAt(x, e, i) = IF bi_test_bit_var(b, i) THEN x * g ELSE g
    <3>1. i \in Nat
      OBVIOUS
    <3>2. bi_test_bit_var(b, i) <=> (e \div PowerOf(2, i)) % 2 = 1
      <4>1. BI_WORDS \in Nat /\ b \in Bigs(BI_WORDS)
        BY <1>3, BigFacts DEF Elements
      <4>2. i < BI_WORDS * BITS_PER_WORD
        BY <1>5
      <4>3. bi_test_bit_var(b, i) <=> i < BI_WORDS * BITS_PER_WORD /\ (Value(b) \div PowerOf(2, i)) % 2 = 1
        BY <3>1, <4>1, BitOfValue
      <4> QED BY <1>3, <4>2, <4>3
    <3>3. PowerAt(x, e, i) = IF (e \div PowerOf(2, i)) % 2 = 1
                             THEN x * (PowerAt(x, e, i + 1) * PowerAt(x, e, i + 1))
                             ELSE PowerAt(x, e, i + 1) * PowerAt(x, e, i + 1)
      BY <3>1, PowerStep
    <3> QED BY <2>1, <3>2, <3>3, Zenon
  <2>4. ReducedTo(Times[<<square, a>>], x * g, p)
    <3>1. ReducedTo(Times[<<square, a>>], g * x, p)
      BY <1>6, <1>7, <2>2
    <3>2. g * x = x * g
      OBVIOUS
    <3> QED BY <3>1, <3>2
  <2> QED BY <2>2, <2>3, <2>4
<1> HIDE DEF Turn
<1>11. inv \in [0..n -> SUBSET Elements] /\ a \in inv[n]
  <2>1. n \in 0..n /\ n >= m
    BY <1>5
  <2>2. a \in inv[n]
    BY <1>9, <2>1
  <2> QED BY <2>2
<1>12. ASSUME NEW i \in 0..n-1, NEW s \in inv[i+1]
       PROVE  /\ op[<<i, s>>] \in inv[i]
              /\ op[<<i, s>>] = IF i >= bi_get_msb_var(b) THEN a ELSE Turn(i, s)
  <2>1. i \in 0..n /\ i + 1 \in 0..n
    OBVIOUS
  <2>2. s \in Elements /\ (i + 1 <= m => ReducedTo(s, PowerAt(x, e, i + 1), p))
    BY <1>12, <2>1
  <2>3. op[<<i, s>>] = IF i >= bi_get_msb_var(b) THEN a ELSE Turn(i, s)
    <3>1. <<i, s>> \in (0..n) \X Elements /\ <<i, s>>[1] = i /\ <<i, s>>[2] = s
      BY <2>1, <2>2
    <3> QED BY <3>1
  <2>4. op[<<i, s>>] \in inv[i]
    <3> HIDE DEF op
    <3>1. CASE i >= m
      <4>1. op[<<i, s>>] = a
        BY <1>5, <2>3, <3>1
      <4> QED BY <1>9, <2>1, <3>1, <4>1
    <3>2. CASE ~ (i >= m)
      <4>1. op[<<i, s>>] = Turn(i, s)
        BY <1>5, <2>3, <3>2
      <4>2. i < m /\ i + 1 <= m
        BY <3>2
      <4>3. ReducedTo(op[<<i, s>>], PowerAt(x, e, i), p)
        BY <1>10, <2>2, <4>1, <4>2
      <4> QED BY <2>1, <4>3 DEF ReducedTo
    <3> QED BY <3>1, <3>2
  <2> QED BY <2>3, <2>4
<1>13. PICK f : f \in [0..n -> Elements] /\ DownFrom(f, n, a, op, inv)
  <2> HIDE DEF inv, op
  <2>1. \A i \in 0..n-1 : \A s \in inv[i+1] : op[<<i, s>>] \in inv[i]
    BY <1>12
  <2> QED BY <1>11, <2>1, DownLoopExists
<1>14. Is(f)
  <2>1. f[n] = a /\ (\A i \in 0..n : f[i] \in inv[i]) /\ \A i \in 0..n-1 : f[i] = op[<<i, f[i+1]>>]
    BY <1>13 DEF DownFrom
  <2> HIDE DEF inv, op
  <2>2. ASSUME NEW i \in 0..n PROVE f[i] = IF i >= bi_get_msb_var(b) THEN a ELSE Turn(i, f[i+1])
    <3>1. CASE i = n
      <4>1. n >= bi_get_msb_var(b)
        BY <1>5
      <4> QED BY <2>1, <3>1, <4>1
    <3>2. CASE i # n
      <4>1. i \in 0..n-1 /\ i + 1 \in 0..n
        BY <3>2
      <4>2. f[i] = op[<<i, f[i+1]>>] /\ f[i+1] \in inv[i+1]
        BY <2>1, <4>1
      <4> QED BY <1>12, <4>1, <4>2
    <3> QED BY <3>1, <3>2
  <2>3. f = [i \in 0..n |-> f[i]]
    BY <1>13
  <2> QED BY <2>2, <2>3
<1>15. Is(w)
  <2> HIDE DEF Is
  <2> QED BY <1>14
<1>16. w[0] \in inv[0]
  <2>1. \A i \in 0..n : w[i] = IF i >= bi_get_msb_var(b) THEN a ELSE Turn(i, w[i+1])
    <3> HIDE DEF w
    <3> QED BY <1>15
  <2> HIDE DEF w, Is
  <2>2. w[n] \in inv[n]
    <3>1. w[n] = a
      <4>1. n >= bi_get_msb_var(b) /\ n \in 0..n
        BY <1>5
      <4> QED BY <2>1, <4>1
    <3> QED BY <1>11, <3>1
  <2>3. \A i \in 0..n-1 : w[i+1] \in inv[i+1] => w[i] \in inv[i]
    <3> TAKE i \in 0..n-1
    <3> HAVE w[i+1] \in inv[i+1]
    <3>1. i \in 0..n
      OBVIOUS
    <3>2. w[i] = IF i >= bi_get_msb_var(b) THEN a ELSE Turn(i, w[i+1])
      BY <2>1, <3>1
    <3>3. op[<<i, w[i+1]>>] \in inv[i] /\ op[<<i, w[i+1]>>] = IF i >= bi_get_msb_var(b) THEN a ELSE Turn(i, w[i+1])
      BY <1>12
    <3> QED BY <3>2, <3>3, Zenon
  <2> HIDE DEF inv
  <2>4. \A i \in 0..n : w[i] \in inv[i]
    BY <2>2, <2>3, DownLoopStays
  <2>5. 0 \in 0..n
    OBVIOUS
  <2> QED BY <2>4, <2>5
<1> HIDE DEF w
<1>17. ReducedTo(w[0], PowerOf(x, e), p)
  <2>1. ReducedTo(w[0], PowerAt(x, e, 0), p)
    <3>1. 0 \in 0..n /\ 0 <= m
      BY <1>5
    <3> QED BY <1>16, <3>1
  <2>2. PowerOf(2, 0) = 1 /\ e \div 1 = e
    BY PowerLaws
  <2> QED BY <2>1, <2>2 DEF PowerAt
<1>18. w[0] \in Elements /\ Value(w[0]) = RestPower(x, p, e) % p
  <2>1. PICK y \in Nat, z \in Nat, q \in Nat :
          y = Value(w[0]) /\ z = RestPower(x, p, e) /\ q = PowerOf(x, e) /\ y < p /\ Congruent(y, q, p) /\ Congruent(z, q, p)
    <3>0. w[0] \in Elements
      BY <1>17 DEF ReducedTo
    <3>4. \A y \in Elements : Value(y) \in Nat
      BY BigFacts
    <3>1. Value(w[0]) \in Nat
      BY <3>0, <3>4
    <3>5. x \in Nat /\ p \in Nat /\ p > 0 /\ e \in Nat
      BY <1>1, <1>3
    <3>2. RestPower(x, p, e) \in Nat /\ Congruent(RestPower(x, p, e), PowerOf(x, e), p)
      BY <3>5, RestPowerIs, Zenon
    <3>3. PowerOf(x, e) \in Nat
      BY PowerLaws
    <3> QED BY <1>17, <3>1, <3>2, <3>3 DEF ReducedTo
  <2>2. Congruent(y, z, p)
    <3>1. Congruent(q, z, p)
      BY <2>1, CongruentBack
    <3> QED BY <2>1, <3>1, CongruentChain
  <2>3. y % p = z % p
    <3>1. y \in Int /\ z \in Int /\ p \in Nat /\ p > 0
      BY <1>1, <2>1
    <3> QED BY <2>2, <3>1, SameRest, Zenon
  <2>4. y % p = y
    BY <1>1, <2>1
  <2> QED BY <1>17, <2>1, <2>3, <2>4 DEF ReducedTo
<1>19. fp_inv_exp_var(a, mod, mu) = w[0]
  BY <1>2 DEF w
<1> QED BY <1>1, <1>3, <1>18, <1>19, Zenon

-----------------------------------------------------------------------------
(* fp_inv_binary on numbers: u and v have no divisor in common, and with   *)
(* the power of two f that was taken out so far, A times x is u times f    *)
(* and A times y is minus v times f, up to multiples of p.                 *)
Bezout(u, v) == \E c \in Int : \E d \in Int : c * u + d * v = 1
Halving(u, v, x, y, f, A, p) ==
  Congruent(A * x, u * f, p) /\ Congruent(A * y, 0 - v * f, p)
(* What is left of the product of both after so many halvings.             *)
Within(u, v, g, M) == (u * v) * g <= M

(* The numbers may change places.                                          *)
LEMMA BezoutTurned ==
  ASSUME NEW u \in Int, NEW v \in Int, Bezout(u, v)
  PROVE  Bezout(v, u)
<1>1. PICK c \in Int, d \in Int : c * u + d * v = 1
  BY DEF Bezout
<1>2. d * v + c * u = 1
  <2>1. PICK m \in Int, n \in Int : m = c * u /\ n = d * v
    OBVIOUS
  <2> QED BY <1>1, <2>1
<1> QED BY <1>2 DEF Bezout

(* Half of what is left after taking one from the other has no divisor in  *)
(* common with it either.                                                  *)
LEMMA BezoutHalf ==
  ASSUME NEW u \in Int, NEW v \in Int, NEW h \in Int, NEW e \in {0, 1}, v = 2 * h + e * u, Bezout(u, v)
  PROVE  Bezout(u, h)
<1>1. PICK c \in Int, d \in Int : c * u + d * v = 1
  BY DEF Bezout
<1>2. CASE e = 0
  <2>1. d * v = (2 * d) * h
    <3>1. v = 2 * h
      BY <1>2
    <3>2. d * (2 * h) = (2 * d) * h
      OBVIOUS
    <3> QED BY <3>1, <3>2
  <2>2. c * u + (2 * d) * h = 1 /\ 2 * d \in Int
    BY <1>1, <2>1
  <2> QED BY <2>2 DEF Bezout
<1>3. CASE e = 1
  <2>1. d * v = (2 * d) * h + d * u
    <3>1. v = 2 * h + u
      BY <1>3
    <3>2. d * (2 * h + u) = (2 * d) * h + d * u
      OBVIOUS
    <3> QED BY <3>1, <3>2
  <2>2. (c + d) * u = c * u + d * u
    OBVIOUS
  <2>3. PICK k \in Int, l \in Int, m \in Int, n \in Int, o \in Int, q \in Int :
          k = c * u /\ l = d * u /\ m = (2 * d) * h /\ n = d * v /\ o = c + d /\ q = o * u
    OBVIOUS
  <2>4. q + m = 1
    BY <1>1, <2>1, <2>2, <2>3
  <2>5. o * u + (2 * d) * h = 1 /\ 2 * d \in Int
    BY <2>3, <2>4
  <2> QED BY <2>3, <2>5 DEF Bezout
<1> QED BY <1>2, <1>3

(* A times a sum is the sum of the products.                               *)
LEMMA TimesSum ==
  ASSUME NEW A \in Int, NEW p \in Nat, NEW x \in Int, NEW y \in Int, NEW s \in Int, NEW z \in Int, NEW w \in Int,
         Congruent(s, x + y, p), Congruent(A * x, z, p), Congruent(A * y, w, p)
  PROVE  Congruent(A * s, z + w, p)
<1>1. Congruent(A * s, A * (x + y), p)
  <2>1. Congruent(A, A, p) /\ x + y \in Int
    BY CongruentSelf
  <2> QED BY <2>1, CongruentProduct
<1>2. A * x \in Int /\ A * y \in Int
  OBVIOUS
<1>3. Congruent(A * x + A * y, z + w, p)
  BY <1>2, CongruentSum
<1>4. A * (x + y) = A * x + A * y
  OBVIOUS
<1>5. PICK m \in Int, n \in Int, k \in Int : m = A * s /\ n = A * x + A * y /\ k = z + w
  OBVIOUS
<1>6. Congruent(m, n, p) /\ Congruent(n, k, p)
  BY <1>1, <1>3, <1>4, <1>5, Zenon
<1>7. Congruent(m, k, p)
  BY <1>5, <1>6, CongruentChain
<1> QED BY <1>5, <1>7, Zenon

(* v is halved, alone or after u was taken from it.                        *)
LEMMA HalvingV ==
  ASSUME NEW A \in Int, NEW p \in Nat, NEW u \in Int, NEW v \in Int, NEW x \in Int, NEW y \in Int, NEW f \in Int,
         NEW h \in Int, NEW e \in {0, 1}, v = 2 * h + e * u, Halving(u, v, x, y, f, A, p),
         NEW s \in Int, Congruent(s, x + x, p),
         NEW t \in Int, Congruent(t, e * x + y, p)
  PROVE  Halving(u, h, s, t, 2 * f, A, p)
<1>1. Congruent(A * x, u * f, p) /\ Congruent(A * y, 0 - v * f, p) /\ u * f \in Int /\ 0 - v * f \in Int
  BY DEF Halving
<1>2. Congruent(A * s, u * f + u * f, p)
  BY <1>1, TimesSum
<1>3. u * f + u * f = u * (2 * f)
  OBVIOUS
<1>4. PICK z \in Int : z = e * (u * f) /\ Congruent(A * (e * x), z, p)
  <2>1. CASE e = 0
    <3>1. e * (u * f) = 0 /\ A * (e * x) = 0
      <4>1. e * x = 0 /\ 0 * (u * f) = 0 /\ A * 0 = 0
        BY <2>1
      <4> QED BY <2>1, <4>1
    <3>2. Congruent(0, 0, p)
      BY CongruentSelf
    <3> QED BY <3>1, <3>2
  <2>2. CASE e = 1
    <3>1. e * (u * f) = u * f /\ e * x = x
      BY <2>2
    <3> QED BY <1>1, <3>1
  <2> QED BY <2>1, <2>2
<1>5. Congruent(A * t, z + (0 - v * f), p)
  <2>1. e * x \in Int
    OBVIOUS
  <2> QED BY <1>1, <1>4, <2>1, TimesSum
<1>6. z + (0 - v * f) = 0 - h * (2 * f)
  <2>1. v * f = h * (2 * f) + e * (u * f)
    <3>1. (2 * h + e * u) * f = h * (2 * f) + e * (u * f)
      BY e \in Int
    <3> QED BY <3>1
  <2>2. PICK m \in Int, n \in Int : m = v * f /\ n = h * (2 * f)
    OBVIOUS
  <2> QED BY <1>4, <2>1, <2>2
<1> QED BY <1>2, <1>3, <1>5, <1>6, Zenon DEF Halving

(* u is halved, alone or after v was taken from it.                        *)
LEMMA HalvingU ==
  ASSUME NEW A \in Int, NEW p \in Nat, NEW u \in Int, NEW v \in Int, NEW x \in Int, NEW y \in Int, NEW f \in Int,
         NEW h \in Int, NEW e \in {0, 1}, u = 2 * h + e * v, Halving(u, v, x, y, f, A, p),
         NEW s \in Int, Congruent(s, y + y, p),
         NEW t \in Int, Congruent(t, x + e * y, p)
  PROVE  Halving(h, v, t, s, 2 * f, A, p)
<1>1. Congruent(A * x, u * f, p) /\ Congruent(A * y, 0 - v * f, p) /\ u * f \in Int /\ 0 - v * f \in Int
  BY DEF Halving
<1>2. Congruent(A * s, (0 - v * f) + (0 - v * f), p)
  BY <1>1, TimesSum
<1>3. (0 - v * f) + (0 - v * f) = 0 - v * (2 * f)
  <2>1. v * (2 * f) = v * f + v * f
    OBVIOUS
  <2>2. PICK m \in Int : m = v * f
    OBVIOUS
  <2> QED BY <2>1, <2>2
<1>4. PICK z \in Int : z = 0 - e * (v * f) /\ Congruent(A * (e * y), z, p)
  <2>1. CASE e = 0
    <3>1. 0 - e * (v * f) = 0 /\ A * (e * y) = 0
      <4>1. e * y = 0 /\ 0 * (v * f) = 0 /\ A * 0 = 0
        BY <2>1
      <4> QED BY <2>1, <4>1
    <3>2. Congruent(0, 0, p)
      BY CongruentSelf
    <3> QED BY <3>1, <3>2
  <2>2. CASE e = 1
    <3>1. e * (v * f) = v * f /\ e * y = y
      BY <2>2
    <3> QED BY <1>1, <3>1
  <2> QED BY <2>1, <2>2
<1>5. Congruent(A * t, u * f + z, p)
  <2>1. e * y \in Int
    OBVIOUS
  <2> QED BY <1>1, <1>4, <2>1, TimesSum
<1>6. u * f + z = h * (2 * f)
  <2>1. u * f = h * (2 * f) + e * (v * f)
    <3>1. (2 * h + e * v) * f = h * (2 * f) + e * (v * f)
      BY e \in Int
    <3> QED BY <3>1
  <2>2. PICK m \in Int, n \in Int, k \in Int : m = u * f /\ n = h * (2 * f) /\ k = e * (v * f)
    BY e \in Int
  <2> QED BY <1>4, <2>1, <2>2
<1> QED BY <1>2, <1>3, <1>5, <1>6, Zenon DEF Halving

(* Each turn leaves at most half of the product.                           *)
LEMMA WithinHalf ==
  ASSUME NEW u \in Nat, NEW v \in Nat, NEW h \in Nat, NEW g \in Nat, NEW M \in Nat, 2 * h <= v, Within(u, v, g, M)
  PROVE  Within(u, h, 2 * g, M) /\ Within(h, u, 2 * g, M)
<1>1. PICK k \in Nat : k = v - 2 * h
  OBVIOUS
<1>2. (u * (2 * h + k)) * g = (u * h) * (2 * g) + (u * k) * g
  OBVIOUS
<1>3. v = 2 * h + k
  BY <1>1
<1>4. PICK m \in Nat, n \in Nat, q \in Int : m = u * k /\ n = m * g /\ q = (u * h) * (2 * g)
  OBVIOUS
<1>5. (u * v) * g = q + n
  BY <1>2, <1>3, <1>4
<1>6. q <= M
  BY <1>4, <1>5 DEF Within
<1>7. u * h = h * u
  OBVIOUS
<1> QED BY <1>4, <1>6, <1>7 DEF Within

(* A number is congruent to its rest.                                      *)
LEMMA RestIsCongruent ==
  ASSUME NEW p \in Nat, p > 0, NEW z \in Int
  PROVE  z % p \in 0..p-1 /\ Congruent(z % p, z, p)
<1>1. PICK r \in 0..p-1, q \in Int : r = z % p /\ z = p * q + r
  <2>1. z \div p \in Int /\ z % p \in 0..p-1 /\ z = p * (z \div p) + (z % p)
    BY Divided
  <2> QED BY <2>1
<1>2. Congruent(z, r, p)
  <2>1. PICK g \in Int : g = p * q
    OBVIOUS
  <2>2. z = r + g
    BY <1>1, <2>1
  <2> QED BY <2>1, <2>2 DEF Congruent
<1>3. Congruent(r, z, p)
  BY <1>2, CongruentBack
<1> QED BY <1>1, <1>3

(* fp_dbl in this form.                                                    *)
LEMMA DoubleReduced ==
  ASSUME ExactWords, NEW mod \in Elements, Value(mod) % 2 = 1, NEW a \in Elements, Value(a) < Value(mod)
  PROVE  ReducedTo(fp_dbl_std(a, mod), Value(a) + Value(a), Value(mod))
<1>1. PICK r : r = fp_dbl_std(a, mod) /\ r \in Elements /\ Value(r) = (2 * Value(a)) % Value(mod)
  BY FieldDoublesAreReduced
<1>2. PICK x \in Nat, p \in Nat : x = Value(a) /\ p = Value(mod) /\ p > 0 /\ 2 * x = x + x
  BY BigFacts
<1>3. x + x \in Int
  OBVIOUS
<1>4. (x + x) % p \in 0..p-1 /\ Congruent((x + x) % p, x + x, p)
  BY <1>2, <1>3, RestIsCongruent
<1> QED BY <1>1, <1>2, <1>4 DEF ReducedTo

(* fp_add in this form.                                                    *)
LEMMA SumReduced ==
  ASSUME ExactWords, NEW mod \in Elements, NEW a \in Elements, Value(a) < Value(mod),
         NEW b \in Elements, Value(b) < Value(mod)
  PROVE  ReducedTo(fp_add_std(a, b, mod), Value(a) + Value(b), Value(mod))
<1>1. PICK r : r = fp_add_std(a, b, mod) /\ r \in Elements /\ Value(r) = (Value(a) + Value(b)) % Value(mod)
  BY FieldSumsAreReduced
<1>2. PICK x \in Nat, y \in Nat, p \in Nat : x = Value(a) /\ y = Value(b) /\ p = Value(mod) /\ p > 0
  BY BigFacts
<1>3. x + y \in Int
  OBVIOUS
<1>4. (x + y) % p \in 0..p-1 /\ Congruent((x + y) % p, x + y, p)
  BY <1>2, <1>3, RestIsCongruent
<1> QED BY <1>1, <1>2, <1>4 DEF ReducedTo

(* A number is twice its half and its lowest bit.                          *)
LEMMA ElementHalf ==
  ASSUME NEW a \in Elements
  PROVE  LET h == bi_shift_right_one_var(a) IN
         h \in Elements /\ a[1] % 2 \in {0, 1} /\ Value(a) = 2 * Value(h) + (a[1] % 2)
<1>1. BI_WORDS \in Nat /\ BI_WORDS > 0 /\ a \in Bigs(BI_WORDS)
  BY WordsAssumption DEF Elements
<1>2. PICK h : h = bi_shift_right_one_var(a) /\ h \in Bigs(BI_WORDS) /\ a[1] % 2 \in {0, 1}
               /\ 2 * Value(h) + (a[1] % 2) = Value(a) + PowerOf(Base, BI_WORDS) * 0
  <2>1. /\ Halved(a, 0) \in Bigs(BI_WORDS) /\ a[1] % 2 \in {0, 1}
        /\ 2 * Value(Halved(a, 0)) + (a[1] % 2) = Value(a) + PowerOf(Base, BI_WORDS) * 0
    BY <1>1, HalvesAreExact, 0 \in {0, 1}
  <2>2. bi_shift_right_one_var(a) = Halved(a, 0)
    BY <1>1, ShiftRightOne
  <2> QED BY <2>1, <2>2
<1>3. PICK x \in Nat, y \in Nat, B \in Nat, e \in {0, 1} :
        x = Value(a) /\ y = Value(h) /\ B = PowerOf(Base, BI_WORDS) /\ e = a[1] % 2
  BY <1>1, <1>2, BigFacts, PowerNat DEF Elements
<1>4. 2 * y + e = x
  BY <1>2, <1>3
<1> QED BY <1>2, <1>3, <1>4 DEF Elements

(* The difference of two odd numbers is halved without a rest.             *)
LEMMA DifferenceHalf ==
  ASSUME ExactWords, NEW a \in Elements, NEW b \in Elements, a[1] % 2 = 1, b[1] % 2 = 1, Value(a) >= Value(b)
  PROVE  LET h == bi_shift_right_one_var(bi_subtract_var(a, b).res) IN
         h \in Elements /\ Value(a) = 2 * Value(h) + Value(b)
<1>1. PICK d : d = bi_subtract_var(a, b).res /\ d \in Elements /\ Value(d) = Value(a) - Value(b)
  <2>1. PICK s : /\ s = bi_subtract_var(a, b) /\ s.res \in Elements /\ Value(s.res) \in 0..R-1
                 /\ \/ s.carry = 0 /\ Value(s.res) = Value(a) - Value(b)
                    \/ s.carry = 1 /\ Value(s.res) = Value(a) - Value(b) + R
    BY DifferenceCases
  <2>2. PICK x \in Nat, y \in Nat, B \in Nat, z \in Nat :
          x = Value(a) /\ y = Value(b) /\ B = R /\ z = Value(s.res) /\ z < B
    BY <2>1, BigFacts
  <2>3. z = x - y
    BY <2>1, <2>2
  <2> QED BY <2>1, <2>2, <2>3
<1>2. PICK h : h = bi_shift_right_one_var(d) /\ h \in Elements /\ d[1] % 2 \in {0, 1}
               /\ Value(d) = 2 * Value(h) + (d[1] % 2)
  BY <1>1, ElementHalf
<1>3. PICK x \in Nat, y \in Nat, z \in Nat, e \in {0, 1} :
        x = Value(a) /\ y = Value(b) /\ z = Value(h) /\ e = d[1] % 2 /\ x - y = 2 * z + e
  BY <1>1, <1>2, BigFacts
<1>4. PICK m \in Nat, n \in Nat : x = 2 * m + 1 /\ y = 2 * n + 1
  <2>1. /\ bi_shift_right_one_var(a) \in Elements /\ Value(a) = 2 * Value(bi_shift_right_one_var(a)) + 1
        /\ bi_shift_right_one_var(b) \in Elements /\ Value(b) = 2 * Value(bi_shift_right_one_var(b)) + 1
    BY ElementHalf
  <2>2. Value(bi_shift_right_one_var(a)) \in Nat /\ Value(bi_shift_right_one_var(b)) \in Nat
    BY <2>1, BigFacts
  <2> QED BY <1>3, <2>1, <2>2
<1>5. x = 2 * z + y
  BY <1>3, <1>4
<1> QED BY <1>1, <1>2, <1>3, <1>5

(* The state of the loop of fp_inv_binary after i turns.                   *)
InverseStates == [u : Elements, v : Elements, x1 : Elements, x2 : Elements, k : Nat]
InverseState(s, i, A, p, M) ==
  /\ s \in InverseStates /\ Value(s.x1) < p /\ Value(s.x2) < p /\ s.k <= i
  /\ Value(s.u) > 0 /\ Bezout(Value(s.u), Value(s.v))
  /\ Halving(Value(s.u), Value(s.v), Value(s.x1), Value(s.x2), PowerOf(2, s.k), A, p)
  /\ Within(Value(s.u), Value(s.v), PowerOf(2, i), M)

(* A turn that changes v keeps what is said of the four numbers.           *)
LEMMA InverseMovesV ==
  ASSUME NEW A \in Nat, NEW p \in Nat, NEW M \in Nat, NEW i \in Nat, NEW s, InverseState(s, i, A, p, M),
         NEW t \in InverseStates, t.k = s.k + 1, t.u = s.u, NEW e \in {0, 1},
         Value(s.v) = 2 * Value(t.v) + e * Value(s.u),
         ReducedTo(t.x1, Value(s.x1) + Value(s.x1), p), ReducedTo(t.x2, e * Value(s.x1) + Value(s.x2), p)
  PROVE  InverseState(t, i + 1, A, p, M)
<1>1. PICK u \in Nat, v \in Nat, x \in Nat, y \in Nat, h \in Nat, a \in Nat, b \in Nat, k \in Nat, f \in Nat, g \in Nat :
        /\ u = Value(s.u) /\ v = Value(s.v) /\ x = Value(s.x1) /\ y = Value(s.x2) /\ k = s.k
        /\ h = Value(t.v) /\ a = Value(t.x1) /\ b = Value(t.x2) /\ f = PowerOf(2, k) /\ g = PowerOf(2, i)
  <2>1. /\ Value(s.u) \in Nat /\ Value(s.v) \in Nat /\ Value(s.x1) \in Nat /\ Value(s.x2) \in Nat /\ s.k \in Nat
        /\ Value(t.v) \in Nat /\ Value(t.x1) \in Nat /\ Value(t.x2) \in Nat
    <3>1. /\ s.u \in Elements /\ s.v \in Elements /\ s.x1 \in Elements /\ s.x2 \in Elements /\ s.k \in Nat
          /\ t.v \in Elements /\ t.x1 \in Elements /\ t.x2 \in Elements
      BY DEF InverseState, InverseStates
    <3> QED BY <3>1, BigFacts
  <2>2. PowerOf(2, s.k) \in Nat /\ PowerOf(2, i) \in Nat
    BY <2>1, TwoPower
  <2> QED BY <2>1, <2>2
<1>2. v = 2 * h + e * u /\ k <= i /\ u > 0 /\ Bezout(u, v) /\ Halving(u, v, x, y, f, A, p) /\ Within(u, v, g, M)
  BY <1>1 DEF InverseState
<1>3. a < p /\ b < p /\ Congruent(a, x + x, p) /\ Congruent(b, e * x + y, p)
  BY <1>1 DEF ReducedTo
<1>4. Bezout(u, h)
  <2>1. u \in Int /\ v \in Int /\ h \in Int /\ v = 2 * h + e * u /\ Bezout(u, v)
    BY <1>2
  <2> QED BY <2>1, BezoutHalf, Zenon
<1>5. Halving(u, h, a, b, 2 * f, A, p)
  <2>1. /\ A \in Int /\ u \in Int /\ v \in Int /\ x \in Int /\ y \in Int /\ f \in Int /\ h \in Int
        /\ a \in Int /\ b \in Int /\ v = 2 * h + e * u /\ Halving(u, v, x, y, f, A, p)
    BY <1>2
  <2> QED BY <1>3, <2>1, HalvingV, Zenon
<1>6. Within(u, h, 2 * g, M)
  <2>1. 2 * h <= v
    <3>1. e * u >= 0 /\ e * u \in Int
      OBVIOUS
    <3> QED BY <1>2, <3>1
  <2> QED BY <1>2, <2>1, WithinHalf
<1>7. PowerOf(2, k + 1) = 2 * f /\ PowerOf(2, i + 1) = 2 * g
  BY <1>1, TwoPower
<1>8. k + 1 <= i + 1
  BY <1>2
<1> QED BY <1>1, <1>2, <1>3, <1>4, <1>5, <1>6, <1>7, <1>8, Zenon DEF InverseState

(* So does a turn that changes u.                                          *)
LEMMA InverseMovesU ==
  ASSUME NEW A \in Nat, NEW p \in Nat, NEW M \in Nat, NEW i \in Nat, NEW s, InverseState(s, i, A, p, M),
         NEW t \in InverseStates, t.k = s.k + 1, t.v = s.v, NEW e \in {0, 1}, Value(t.u) > 0,
         Value(s.u) = 2 * Value(t.u) + e * Value(s.v),
         ReducedTo(t.x2, Value(s.x2) + Value(s.x2), p), ReducedTo(t.x1, Value(s.x1) + e * Value(s.x2), p)
  PROVE  InverseState(t, i + 1, A, p, M)
<1>1. PICK u \in Nat, v \in Nat, x \in Nat, y \in Nat, h \in Nat, a \in Nat, b \in Nat, k \in Nat, f \in Nat, g \in Nat :
        /\ u = Value(s.u) /\ v = Value(s.v) /\ x = Value(s.x1) /\ y = Value(s.x2) /\ k = s.k
        /\ h = Value(t.u) /\ a = Value(t.x1) /\ b = Value(t.x2) /\ f = PowerOf(2, k) /\ g = PowerOf(2, i)
  <2>1. /\ Value(s.u) \in Nat /\ Value(s.v) \in Nat /\ Value(s.x1) \in Nat /\ Value(s.x2) \in Nat /\ s.k \in Nat
        /\ Value(t.u) \in Nat /\ Value(t.x1) \in Nat /\ Value(t.x2) \in Nat
    <3>1. /\ s.u \in Elements /\ s.v \in Elements /\ s.x1 \in Elements /\ s.x2 \in Elements /\ s.k \in Nat
          /\ t.u \in Elements /\ t.x1 \in Elements /\ t.x2 \in Elements
      BY DEF InverseState, InverseStates
    <3> QED BY <3>1, BigFacts
  <2>2. PowerOf(2, s.k) \in Nat /\ PowerOf(2, i) \in Nat
    BY <2>1, TwoPower
  <2> QED BY <2>1, <2>2
<1>2. /\ u = 2 * h + e * v /\ k <= i /\ h > 0 /\ Bezout(u, v) /\ Halving(u, v, x, y, f, A, p) /\ Within(u, v, g, M)
  BY <1>1 DEF InverseState
<1>3. a < p /\ b < p /\ Congruent(b, y + y, p) /\ Congruent(a, x + e * y, p)
  BY <1>1 DEF ReducedTo
<1>4. Bezout(h, v)
  <2>1. Bezout(v, u)
    BY <1>2, BezoutTurned
  <2>2. u \in Int /\ v \in Int /\ h \in Int /\ u = 2 * h + e * v
    BY <1>2
  <2>3. Bezout(v, h)
    BY <2>1, <2>2, BezoutHalf, Zenon
  <2> QED BY <2>3, BezoutTurned
<1>5. Halving(h, v, a, b, 2 * f, A, p)
  <2>1. /\ A \in Int /\ u \in Int /\ v \in Int /\ x \in Int /\ y \in Int /\ f \in Int /\ h \in Int
        /\ a \in Int /\ b \in Int /\ u = 2 * h + e * v /\ Halving(u, v, x, y, f, A, p)
    BY <1>2
  <2> QED BY <1>3, <2>1, HalvingU, Zenon
<1>6. Within(h, v, 2 * g, M)
  <2>1. 2 * h <= u
    <3>1. e * v >= 0 /\ e * v \in Int
      OBVIOUS
    <3> QED BY <1>2, <3>1
  <2>2. Within(v, u, g, M)
    <3>1. u * v = v * u
      OBVIOUS
    <3> QED BY <1>2, <3>1 DEF Within
  <2> QED BY <2>1, <2>2, WithinHalf
<1>7. PowerOf(2, k + 1) = 2 * f /\ PowerOf(2, i + 1) = 2 * g
  BY <1>1, TwoPower
<1>8. k + 1 <= i + 1
  BY <1>2
<1> QED BY <1>1, <1>2, <1>3, <1>4, <1>5, <1>6, <1>7, <1>8, Zenon DEF InverseState

(* A turn of the loop, as in fp_inv_binary.                                *)
InverseStep(s, mod) ==
  LET Half(x) == bi_shift_right_one_var(x)
      Twice(x) == fp_dbl_std(x, mod)
      Minus(x, y) == bi_subtract_var(x, y).res
      Even(x) == x[1] % 2 = 0
  IN IF Even(s.v) THEN [s EXCEPT !.v = Half(@), !.x1 = Twice(@), !.k = @ + 1]
     ELSE IF Even(s.u) THEN [s EXCEPT !.u = Half(@), !.x2 = Twice(@), !.k = @ + 1]
     ELSE IF bi_compare_var(s.v, s.u) >= 0
     THEN [s EXCEPT !.v = Half(Minus(s.v, s.u)), !.x1 = Twice(@),
                    !.x2 = fp_add_std(s.x2, s.x1, mod), !.k = @ + 1]
     ELSE [s EXCEPT !.u = Half(Minus(s.u, s.v)), !.x2 = Twice(@),
                    !.x1 = fp_add_std(s.x2, s.x1, mod), !.k = @ + 1]

(* The four cases of a turn of the loop.                                   *)
LEMMA InverseStepFields ==
  ASSUME NEW s \in InverseStates, NEW mod
  PROVE  LET t == InverseStep(s, mod)
             T(u, v, x1, x2) == [u |-> u, v |-> v, x1 |-> x1, x2 |-> x2, k |-> s.k + 1]
         IN
         /\ s.v[1] % 2 = 0 => t = T(s.u, bi_shift_right_one_var(s.v), fp_dbl_std(s.x1, mod), s.x2)
         /\ s.v[1] % 2 # 0 /\ s.u[1] % 2 = 0 => t = T(bi_shift_right_one_var(s.u), s.v, s.x1, fp_dbl_std(s.x2, mod))
         /\ s.v[1] % 2 # 0 /\ s.u[1] % 2 # 0 /\ bi_compare_var(s.v, s.u) >= 0
              => t = T(s.u, bi_shift_right_one_var(bi_subtract_var(s.v, s.u).res), fp_dbl_std(s.x1, mod),
                       fp_add_std(s.x2, s.x1, mod))
         /\ s.v[1] % 2 # 0 /\ s.u[1] % 2 # 0 /\ ~ (bi_compare_var(s.v, s.u) >= 0)
              => t = T(bi_shift_right_one_var(bi_subtract_var(s.u, s.v).res), s.v, fp_add_std(s.x2, s.x1, mod),
                       fp_dbl_std(s.x2, mod))
BY DEF InverseStep, InverseStates

(* Each of them keeps what is said of the four numbers.                    *)
LEMMA InverseStepStays ==
  ASSUME ExactWords, NEW mod \in Elements, Value(mod) % 2 = 1, NEW A \in Nat, NEW M \in Nat, NEW i \in Nat,
         NEW s, InverseState(s, i, A, Value(mod), M)
  PROVE  InverseState(InverseStep(s, mod), i + 1, A, Value(mod), M)
<1> DEFINE t == InverseStep(s, mod)
           T(u, v, x1, x2) == [u |-> u, v |-> v, x1 |-> x1, x2 |-> x2, k |-> s.k + 1]
<1>1. s \in InverseStates /\ Value(s.x1) < Value(mod) /\ Value(s.x2) < Value(mod) /\ Value(s.u) > 0
  BY DEF InverseState
<1>2. /\ s.u \in Elements /\ s.v \in Elements /\ s.x1 \in Elements /\ s.x2 \in Elements /\ s.k \in Nat
      /\ s.k + 1 \in Nat
  BY <1>1 DEF InverseStates
<1>3. PICK u \in Nat, v \in Nat, x \in Nat, y \in Nat, p \in Nat :
        u = Value(s.u) /\ v = Value(s.v) /\ x = Value(s.x1) /\ y = Value(s.x2) /\ p = Value(mod)
  BY <1>2, BigFacts
<1>4. InverseState(s, i, A, p, M)
  BY <1>3
<1>5. /\ ReducedTo(fp_dbl_std(s.x1, mod), x + x, p) /\ ReducedTo(fp_dbl_std(s.x2, mod), y + y, p)
      /\ ReducedTo(fp_add_std(s.x2, s.x1, mod), y + x, p)
  BY <1>1, <1>2, <1>3, DoubleReduced, SumReduced
<1>6. fp_dbl_std(s.x1, mod) \in Elements /\ fp_dbl_std(s.x2, mod) \in Elements /\ fp_add_std(s.x2, s.x1, mod) \in Elements
  BY <1>5 DEF ReducedTo
<1>7. ReducedTo(s.x1, x, p) /\ ReducedTo(s.x2, y, p)
  BY <1>1, <1>2, <1>3, CongruentSelf DEF ReducedTo
<1>8. CASE s.v[1] % 2 = 0
  <2>1. PICK h : h = bi_shift_right_one_var(s.v) /\ h \in Elements /\ v = 2 * Value(h) + 0
    BY <1>2, <1>3, <1>8, ElementHalf
  <2>2. t = T(s.u, h, fp_dbl_std(s.x1, mod), s.x2)
    BY <1>1, <1>8, <2>1, InverseStepFields
  <2>3. /\ t \in InverseStates /\ t.k = s.k + 1 /\ t.u = s.u /\ t.v = h
        /\ t.x1 = fp_dbl_std(s.x1, mod) /\ t.x2 = s.x2
    BY <1>2, <1>6, <2>1, <2>2 DEF InverseStates
  <2> HIDE DEF t
  <2>4. 0 * u = 0 /\ 0 * x = 0 /\ 0 * x + y = y /\ 0 \in {0, 1}
    OBVIOUS
  <2>5. Value(s.v) = 2 * Value(t.v) + 0 * Value(s.u)
    BY <1>3, <2>1, <2>3, <2>4
  <2>6. ReducedTo(t.x1, Value(s.x1) + Value(s.x1), p) /\ ReducedTo(t.x2, 0 * Value(s.x1) + Value(s.x2), p)
    BY <1>3, <1>5, <1>7, <2>3, <2>4
  <2>7. InverseState(t, i + 1, A, p, M)
    BY <1>4, <2>3, <2>4, <2>5, <2>6, InverseMovesV
  <2> QED BY <1>3, <2>7 DEF t
<1>9. CASE s.v[1] % 2 # 0 /\ s.u[1] % 2 = 0
  <2>1. PICK h : h = bi_shift_right_one_var(s.u) /\ h \in Elements /\ u = 2 * Value(h) + 0
    BY <1>2, <1>3, <1>9, ElementHalf
  <2>2. t = T(h, s.v, s.x1, fp_dbl_std(s.x2, mod))
    BY <1>1, <1>9, <2>1, InverseStepFields
  <2>3. /\ t \in InverseStates /\ t.k = s.k + 1 /\ t.v = s.v /\ t.u = h
        /\ t.x2 = fp_dbl_std(s.x2, mod) /\ t.x1 = s.x1
    BY <1>2, <1>6, <2>1, <2>2 DEF InverseStates
  <2> HIDE DEF t
  <2>4. 0 * v = 0 /\ 0 * y = 0 /\ x + 0 * y = x /\ 0 \in {0, 1}
    OBVIOUS
  <2>5. Value(s.u) = 2 * Value(t.u) + 0 * Value(s.v)
    BY <1>3, <2>1, <2>3, <2>4
  <2>6. Value(t.u) > 0
    <3>1. PICK z \in Nat : z = Value(h)
      BY <2>1, BigFacts
    <3> QED BY <1>1, <1>3, <2>1, <2>3, <3>1
  <2>7. ReducedTo(t.x2, Value(s.x2) + Value(s.x2), p) /\ ReducedTo(t.x1, Value(s.x1) + 0 * Value(s.x2), p)
    BY <1>3, <1>5, <1>7, <2>3, <2>4
  <2>8. InverseState(t, i + 1, A, p, M)
    BY <1>4, <2>3, <2>4, <2>5, <2>6, <2>7, InverseMovesU
  <2> QED BY <1>3, <2>8 DEF t
<1>10. s.v[1] % 2 \in {0, 1} /\ s.u[1] % 2 \in {0, 1}
  BY <1>2, ElementHalf
<1>11. CASE s.v[1] % 2 # 0 /\ s.u[1] % 2 # 0 /\ bi_compare_var(s.v, s.u) >= 0
  <2>1. PICK h : h = bi_shift_right_one_var(bi_subtract_var(s.v, s.u).res) /\ h \in Elements /\ v = 2 * Value(h) + u
    <3>1. s.v[1] % 2 = 1 /\ s.u[1] % 2 = 1
      BY <1>10, <1>11
    <3>2. Value(s.v) >= Value(s.u)
      BY <1>2, <1>11, CompareCases
    <3> QED BY <1>2, <1>3, <3>1, <3>2, DifferenceHalf
  <2>2. t = T(s.u, h, fp_dbl_std(s.x1, mod), fp_add_std(s.x2, s.x1, mod))
    BY <1>1, <1>11, <2>1, InverseStepFields
  <2>3. /\ t \in InverseStates /\ t.k = s.k + 1 /\ t.u = s.u /\ t.v = h
        /\ t.x1 = fp_dbl_std(s.x1, mod) /\ t.x2 = fp_add_std(s.x2, s.x1, mod)
    BY <1>2, <1>6, <2>1, <2>2 DEF InverseStates
  <2> HIDE DEF t
  <2>4. 1 * u = u /\ 1 * x = x /\ 1 * x + y = y + x /\ 1 \in {0, 1}
    OBVIOUS
  <2>5. Value(s.v) = 2 * Value(t.v) + 1 * Value(s.u)
    BY <1>3, <2>1, <2>3, <2>4
  <2>6. ReducedTo(t.x1, Value(s.x1) + Value(s.x1), p) /\ ReducedTo(t.x2, 1 * Value(s.x1) + Value(s.x2), p)
    BY <1>3, <1>5, <2>3, <2>4
  <2>7. InverseState(t, i + 1, A, p, M)
    BY <1>4, <2>3, <2>4, <2>5, <2>6, InverseMovesV
  <2> QED BY <1>3, <2>7 DEF t
<1>12. CASE s.v[1] % 2 # 0 /\ s.u[1] % 2 # 0 /\ ~ (bi_compare_var(s.v, s.u) >= 0)
  <2>1. PICK h : h = bi_shift_right_one_var(bi_subtract_var(s.u, s.v).res) /\ h \in Elements /\ u = 2 * Value(h) + v
                 /\ u > v
    <3>1. s.v[1] % 2 = 1 /\ s.u[1] % 2 = 1
      BY <1>10, <1>12
    <3>2. ~ (Value(s.v) >= Value(s.u))
      BY <1>2, <1>12, CompareCases
    <3>3. Value(s.u) >= Value(s.v) /\ u > v
      BY <1>3, <3>2
    <3> QED BY <1>2, <1>3, <3>1, <3>3, DifferenceHalf
  <2>2. t = T(h, s.v, fp_add_std(s.x2, s.x1, mod), fp_dbl_std(s.x2, mod))
    BY <1>1, <1>12, <2>1, InverseStepFields
  <2>3. /\ t \in InverseStates /\ t.k = s.k + 1 /\ t.v = s.v /\ t.u = h
        /\ t.x2 = fp_dbl_std(s.x2, mod) /\ t.x1 = fp_add_std(s.x2, s.x1, mod)
    BY <1>2, <1>6, <2>1, <2>2 DEF InverseStates
  <2> HIDE DEF t
  <2>4. 1 * v = v /\ 1 * y = y /\ x + 1 * y = y + x /\ 1 \in {0, 1}
    OBVIOUS
  <2>5. Value(s.u) = 2 * Value(t.u) + 1 * Value(s.v)
    BY <1>3, <2>1, <2>3, <2>4
  <2>6. Value(t.u) > 0
    <3>1. PICK z \in Nat : z = Value(h)
      BY <2>1, BigFacts
    <3> QED BY <1>1, <1>3, <2>1, <2>3, <3>1
  <2>7. ReducedTo(t.x2, Value(s.x2) + Value(s.x2), p) /\ ReducedTo(t.x1, Value(s.x1) + 1 * Value(s.x2), p)
    BY <1>3, <1>5, <2>3, <2>4
  <2>8. InverseState(t, i + 1, A, p, M)
    BY <1>4, <2>3, <2>4, <2>5, <2>6, <2>7, InverseMovesU
  <2> QED BY <1>3, <2>8 DEF t
<1> QED BY <1>8, <1>9, <1>10, <1>11, <1>12

(* Into the domain once more multiplies by R.                              *)
LEMMA Lifted ==
  ASSUME ExactWords, ExactProducts, StandardProduct, NEW mod, NEW n0, NEW r2, Domain(mod, n0, r2),
         NEW x \in Elements, Value(x) < Value(mod), NEW A \in Int, NEW g \in Int, Congruent(A * Value(x), g, Value(mod))
  PROVE  LET y == fp_mul_monty_var(x, r2, mod, n0) IN
         y \in Elements /\ Value(y) < Value(mod) /\ Congruent(A * Value(y), R * g, Value(mod))
<1>1. PICK y : y = fp_mul_monty_var(x, r2, mod, n0) /\ y \in Elements /\ Value(y) < Value(mod)
               /\ Congruent(Value(y), R * Value(x), Value(mod))
  BY StandsForElement DEF Stands
<1>2. PICK p \in Nat, B \in Nat, z \in Nat, v \in Nat : p = Value(mod) /\ B = R /\ z = Value(y) /\ v = Value(x)
  BY <1>1, BigFacts DEF Domain
<1>3. Congruent(A * z, A * (B * v), p)
  <2>1. Congruent(z, B * v, p) /\ B * v \in Int
    BY <1>1, <1>2
  <2> QED BY <2>1, CongruentSelf, CongruentProduct
<1>4. Congruent(B * (A * v), B * g, p)
  <2>1. Congruent(A * v, g, p) /\ A * v \in Int
    BY <1>2
  <2>2. Congruent(B, B, p) /\ B \in Int
    BY CongruentSelf
  <2> QED BY <2>1, <2>2, CongruentProduct
<1>5. A * (B * v) = B * (A * v)
  OBVIOUS
<1>6. PICK c \in Int, d \in Int, e \in Int : c = A * z /\ d = A * (B * v) /\ e = B * g
  OBVIOUS
<1>7. Congruent(c, e, p)
  <2>1. Congruent(c, d, p) /\ Congruent(d, e, p)
    BY <1>3, <1>4, <1>5, <1>6, Zenon
  <2> QED BY <2>1, CongruentChain
<1> QED BY <1>1, <1>2, <1>6, <1>7, Zenon

(* A number with an inverse still has one in the domain.                   *)
LEMMA StaysCoprime ==
  ASSUME ExactWords, ExactProducts, StandardProduct, NEW mod, NEW n0, NEW r2, Domain(mod, n0, r2),
         NEW A \in Int, NEW v \in Int, Congruent(A, R * v, Value(mod)), NEW e \in Int, Congruent(v * e, 1, Value(mod))
  PROVE  Bezout(A, Value(mod))
<1>1. PICK r : r = fp_mul_monty_var(bi_one, bi_one, mod, n0) /\ r \in Elements
               /\ Congruent(R * Value(r), Value(bi_one) * Value(bi_one), Value(mod))
  BY TimesReduced, BiOne DEF Domain
<1>2. PICK p \in Nat, B \in Nat, w \in Nat : p = Value(mod) /\ B = R /\ w = Value(r) /\ Congruent(B * w, 1, p)
  <2>1. Value(mod) \in Nat /\ R \in Nat /\ Value(r) \in Nat
    BY <1>1, BigFacts DEF Domain
  <2>2. Value(bi_one) * Value(bi_one) = 1
    BY BiOne
  <2> QED BY <1>1, <2>1, <2>2
<1>3. Congruent(A * (w * e), (B * v) * (w * e), p)
  <2>1. Congruent(A, B * v, p) /\ B * v \in Int /\ w * e \in Int
    BY <1>2
  <2> QED BY <2>1, CongruentSelf, CongruentProduct
<1>4. Congruent((B * w) * (v * e), 1 * 1, p)
  <2>1. B * w \in Int /\ v * e \in Int /\ Congruent(v * e, 1, p)
    BY <1>2
  <2> QED BY <1>2, <2>1, CongruentProduct
<1>5. (B * v) * (w * e) = (B * w) * (v * e) /\ 1 * 1 = 1
  OBVIOUS
<1>6. PICK c \in Int, d \in Int : c = A * (w * e) /\ d = (B * v) * (w * e)
  OBVIOUS
<1>7. Congruent(c, 1, p)
  <2>1. Congruent(c, d, p) /\ Congruent(d, 1, p)
    BY <1>3, <1>4, <1>5, <1>6, Zenon
  <2> QED BY <2>1, CongruentChain
<1>8. PICK m \in Int : c = 1 + p * m
  BY <1>7 DEF Congruent
<1>9. (w * e) * A + (0 - m) * p = 1
  <2>1. (w * e) * A = A * (w * e) /\ (0 - m) * p = 0 - p * m
    OBVIOUS
  <2>2. PICK k \in Int : k = p * m
    OBVIOUS
  <2> QED BY <1>6, <1>8, <2>1, <2>2
<1>10. w * e \in Int /\ 0 - m \in Int
  OBVIOUS
<1> QED BY <1>2, <1>9, <1>10 DEF Bezout

(* A number without a divisor in common with 0 is 1.                       *)
LEMMA OnlyOne ==
  ASSUME NEW u \in Nat, u > 0, Bezout(u, 0)
  PROVE  u = 1
<1>1. PICK c \in Int, d \in Int : c * u + d * 0 = 1
  BY DEF Bezout
<1>2. u * c = 1
  <2>1. d * 0 = 0 /\ c * u = u * c
    OBVIOUS
  <2>2. PICK m \in Int : m = u * c
    OBVIOUS
  <2> QED BY <1>1, <2>1, <2>2
<1>3. CASE c >= 1
  <2>1. u * c >= u
    BY <1>3, AtLeastItself
  <2> QED BY <1>2, <2>1
<1>4. CASE c <= 0
  <2>1. u * (0 - c) >= 0 /\ u * c = 0 - u * (0 - c)
    BY <1>4
  <2>2. PICK m \in Int : m = u * (0 - c)
    OBVIOUS
  <2> QED BY <1>2, <2>1, <2>2
<1> QED BY <1>3, <1>4

(* The loop is over: nothing is left of v.                                 *)
LEMMA InverseEnds ==
  ASSUME NEW A \in Nat, NEW p \in Nat, NEW M \in Nat, NEW i \in Nat, M < PowerOf(2, i),
         NEW s, InverseState(s, i, A, p, M)
  PROVE  /\ s.x1 \in Elements /\ Value(s.x1) < p /\ s.k \in 0..i
         /\ Congruent(A * Value(s.x1), PowerOf(2, s.k), p)
<1>1. /\ s.u \in Elements /\ s.v \in Elements /\ s.x1 \in Elements /\ s.k \in Nat /\ s.k <= i /\ Value(s.x1) < p
  BY DEF InverseState, InverseStates
<1>2. PICK u \in Nat, v \in Nat, g \in Nat, f \in Nat, x \in Nat :
        u = Value(s.u) /\ v = Value(s.v) /\ g = PowerOf(2, i) /\ f = PowerOf(2, s.k) /\ x = Value(s.x1)
  BY <1>1, BigFacts, TwoPower
<1>3. u > 0 /\ Bezout(u, v) /\ Within(u, v, g, M) /\ Congruent(A * x, u * f, p) /\ M < g
  BY <1>2 DEF InverseState, Halving
<1>4. v = 0
  <2>1. SUFFICES ASSUME v >= 1 PROVE FALSE
    OBVIOUS
  <2>2. u * v >= u
    BY <2>1, AtLeastItself
  <2>3. PICK m \in Nat : m = u * v
    OBVIOUS
  <2>4. g * m >= g
    BY <1>3, <2>2, <2>3, AtLeastItself
  <2>5. m * g = g * m
    OBVIOUS
  <2>6. PICK n \in Nat : n = g * m
    OBVIOUS
  <2>7. m * g <= M
    BY <1>3, <2>3 DEF Within
  <2> QED BY <1>3, <2>4, <2>5, <2>6, <2>7
<1>5. u = 1
  BY <1>3, <1>4, OnlyOne
<1>6. u * f = f
  BY <1>5
<1> QED BY <1>1, <1>2, <1>3, <1>6

(* The loop of fp_inv_binary.                                              *)
InverseTurn(s, mod) == IF s.v = Zeros(BI_WORDS) THEN s ELSE InverseStep(s, mod)
InverseStart(a, mod) == [u |-> a, v |-> mod, x1 |-> bi_one, x2 |-> Zeros(BI_WORDS), k |-> 0]
InverseLoop(a, mod, n) ==
  LET loop[i \in 0..n] == IF i = 0 THEN InverseStart(a, mod) ELSE InverseTurn(loop[i-1], mod) IN loop[n]

(* It holds before the first turn.                                         *)
LEMMA InverseStarts ==
  ASSUME NEW mod \in Elements, Value(mod) > 1, NEW a \in Elements, Bezout(Value(a), Value(mod)),
         NEW M, M = Value(a) * Value(mod)
  PROVE  InverseState(InverseStart(a, mod), 0, Value(a), Value(mod), M)
<1>1. PICK A \in Nat, p \in Nat : A = Value(a) /\ p = Value(mod) /\ p > 1 /\ M = A * p /\ Bezout(A, p)
  BY BigFacts
<1>2. PICK s : s = InverseStart(a, mod)
  OBVIOUS
<1>3. bi_one \in Elements /\ Value(bi_one) = 1 /\ Zeros(BI_WORDS) \in Elements /\ Value(Zeros(BI_WORDS)) = 0
  BY BiOne, ZeroValue, BigFacts DEF Elements
<1>4. /\ s \in InverseStates /\ s.u = a /\ s.v = mod /\ s.x1 = bi_one /\ s.x2 = Zeros(BI_WORDS) /\ s.k = 0
  BY <1>2, <1>3 DEF InverseStart, InverseStates
<1>5. A > 0
  <2>1. SUFFICES ASSUME A = 0 PROVE FALSE
    OBVIOUS
  <2>2. PICK c \in Int, d \in Int : c * A + d * p = 1
    BY <1>1 DEF Bezout
  <2>3. p * d = 1
    <3>1. c * A = 0 /\ d * p = p * d
      BY <2>1
    <3>2. PICK m \in Int : m = p * d
      OBVIOUS
    <3> QED BY <2>2, <3>1, <3>2
  <2>4. CASE d >= 1
    <3>1. p * d >= p
      BY <2>4, AtLeastItself
    <3> QED BY <1>1, <2>3, <3>1
  <2>5. CASE d <= 0
    <3>1. p * (0 - d) >= 0 /\ p * d = 0 - p * (0 - d)
      BY <2>5
    <3>2. PICK m \in Int : m = p * (0 - d)
      OBVIOUS
    <3> QED BY <2>3, <3>1, <3>2
  <2> QED BY <2>4, <2>5
<1>6. PowerOf(2, 0) = 1
  BY PowerLaws
<1>7. Halving(A, p, 1, 0, 1, A, p)
  <2>1. Congruent(A * 1, A * 1, p)
    BY CongruentSelf
  <2>2. A * 0 = (0 - p * 1) + p * 1 /\ 1 \in Int /\ A * 0 \in Int /\ 0 - p * 1 \in Int
    OBVIOUS
  <2>3. Congruent(A * 0, 0 - p * 1, p)
    BY <2>2 DEF Congruent
  <2> QED BY <2>1, <2>3 DEF Halving
<1>8. Within(A, p, 1, M)
  <2>1. (A * p) * 1 = A * p /\ A * p <= A * p
    OBVIOUS
  <2> QED BY <1>1, <2>1 DEF Within
<1>9. 0 < p /\ 1 < p
  BY <1>1
<1>10. 0 <= 0
  OBVIOUS
<1>11. InverseState(s, 0, A, p, M)
  BY <1>1, <1>3, <1>4, <1>5, <1>6, <1>7, <1>8, <1>9, <1>10, Zenon DEF InverseState
<1> QED BY <1>1, <1>2, <1>11, Zenon

(* It is kept by a turn that comes when v is 0 already.                    *)
LEMMA InverseTurnStays ==
  ASSUME ExactWords, NEW mod \in Elements, Value(mod) % 2 = 1, NEW A \in Nat, NEW M \in Nat, NEW i \in Nat,
         NEW s, InverseState(s, i, A, Value(mod), M)
  PROVE  InverseState(InverseTurn(s, mod), i + 1, A, Value(mod), M)
<1>1. CASE s.v = Zeros(BI_WORDS)
  <2>1. PICK u \in Nat, g \in Nat : u = Value(s.u) /\ g = PowerOf(2, i + 1) /\ Value(s.v) = 0
    <3>1. s.u \in Elements
      BY DEF InverseState, InverseStates
    <3>2. i + 1 \in Nat
      OBVIOUS
    <3> QED BY <1>1, <3>1, <3>2, BigFacts, ZeroValue, TwoPower
  <2>2. Within(u, 0, g, M)
    <3>1. (u * 0) * g = 0
      <4>1. u * 0 = 0 /\ 0 * g = 0
        OBVIOUS
      <4> QED BY <4>1
    <3> QED BY <3>1 DEF Within
  <2>3. s.k <= i + 1
    <3>1. s.k \in Nat /\ s.k <= i
      BY DEF InverseState, InverseStates
    <3> QED BY <3>1
  <2>4. InverseState(s, i + 1, A, Value(mod), M)
    BY <2>1, <2>2, <2>3, Zenon DEF InverseState
  <2> QED BY <1>1, <2>4 DEF InverseTurn
<1>2. CASE s.v # Zeros(BI_WORDS)
  BY <1>2, InverseStepStays DEF InverseTurn
<1> QED BY <1>1, <1>2

(* So it holds after any number of turns.                                  *)
LEMMA InverseLoopEnds ==
  ASSUME ExactWords, NEW mod \in Elements, Value(mod) > 1, Value(mod) % 2 = 1,
         NEW a \in Elements, Bezout(Value(a), Value(mod)), NEW n \in Nat
  PROVE  InverseState(InverseLoop(a, mod, n), n, Value(a), Value(mod), Value(a) * Value(mod))
<1>1. PICK A \in Nat, p \in Nat, M \in Nat : A = Value(a) /\ p = Value(mod) /\ M = A * p
  <2>1. Value(a) \in Nat /\ Value(mod) \in Nat
    BY BigFacts
  <2>2. Value(a) * Value(mod) \in Nat
    BY <2>1
  <2> QED BY <2>1, <2>2
<1> DEFINE x0 == InverseStart(a, mod)
           Is(f) == f = [i \in 0..n |-> IF i = 0 THEN x0 ELSE InverseTurn(f[i-1], mod)]
           inv == [i \in 0..n |-> {s \in InverseStates : InverseState(s, i, A, p, M)}]
           op == [t \in (0..n) \X InverseStates |-> InverseTurn(t[2], mod)]
           w == CHOOSE f : Is(f)
<1>2. InverseLoop(a, mod, n) = w[n]
  BY Zenon DEF InverseLoop
<1>3. InverseState(x0, 0, A, p, M) /\ x0 \in InverseStates
  <2>1. InverseState(x0, 0, A, p, M)
    BY <1>1, InverseStarts
  <2> QED BY <2>1 DEF InverseState
<1> HIDE DEF x0
<1>4. ASSUME NEW i \in 1..n, NEW s, InverseState(s, i - 1, A, p, M) PROVE InverseState(InverseTurn(s, mod), i, A, p, M)
  <2>1. PICK j \in Nat : j = i - 1 /\ j + 1 = i
    <3>1. i - 1 \in Nat /\ (i - 1) + 1 = i
      OBVIOUS
    <3> QED BY <3>1
  <2>2. InverseState(s, j, A, Value(mod), M)
    BY <1>1, <1>4, <2>1
  <2>3. InverseState(InverseTurn(s, mod), j + 1, A, Value(mod), M)
    BY <2>2, InverseTurnStays
  <2> QED BY <1>1, <2>1, <2>3
<1>5. inv \in [0..n -> SUBSET InverseStates] /\ x0 \in inv[0]
  BY <1>3
<1>6. ASSUME NEW i \in 1..n, NEW s \in inv[i-1] PROVE op[<<i, s>>] \in inv[i] /\ op[<<i, s>>] = InverseTurn(s, mod)
  <2>1. i \in 0..n /\ i - 1 \in 0..n
    OBVIOUS
  <2>2. s \in InverseStates /\ InverseState(s, i - 1, A, p, M)
    BY <1>6, <2>1
  <2>3. <<i, s>> \in (0..n) \X InverseStates /\ <<i, s>>[2] = s
    BY <2>1, <2>2
  <2>4. op[<<i, s>>] = InverseTurn(s, mod)
    BY <2>3
  <2>5. InverseState(InverseTurn(s, mod), i, A, p, M)
    BY <1>4, <2>2
  <2>6. InverseTurn(s, mod) \in InverseStates
    BY <2>5 DEF InverseState
  <2> HIDE DEF op
  <2> QED BY <2>1, <2>4, <2>5, <2>6
<1>7. PICK f : f \in [0..n -> InverseStates] /\ LoopFrom(f, n, x0, op, inv)
  <2> HIDE DEF inv, op
  <2>1. \A i \in 1..n : \A s \in inv[i-1] : op[<<i, s>>] \in inv[i]
    BY <1>6
  <2>2. \E f : f \in [0..n -> InverseStates] /\ LoopFrom(f, n, x0, op, inv)
    BY <1>5, <2>1, LoopExists
  <2> QED BY <2>2
<1>8. Is(f)
  <2>1. f[0] = x0 /\ (\A i \in 0..n : f[i] \in inv[i]) /\ \A i \in 1..n : f[i] = op[<<i, f[i-1]>>]
    BY <1>7 DEF LoopFrom
  <2> HIDE DEF inv, op
  <2>2. ASSUME NEW i \in 0..n PROVE f[i] = IF i = 0 THEN x0 ELSE InverseTurn(f[i-1], mod)
    <3>1. CASE i = 0
      BY <2>1, <3>1
    <3>2. CASE i # 0
      <4>1. i \in 1..n /\ i - 1 \in 0..n
        BY <3>2
      <4>2. f[i] = op[<<i, f[i-1]>>] /\ f[i-1] \in inv[i-1]
        BY <2>1, <4>1
      <4>3. op[<<i, f[i-1]>>] = InverseTurn(f[i-1], mod)
        BY <1>6, <4>1, <4>2
      <4> QED BY <3>2, <4>2, <4>3, Zenon
    <3> QED BY <3>1, <3>2
  <2> QED BY <1>7, <2>2
<1>9. Is(w)
  BY <1>8
<1>10. InverseState(w[n], n, A, p, M)
  <2>1. w[0] = x0 /\ \A i \in 1..n : w[i] = InverseTurn(w[i-1], mod)
    <3> HIDE DEF w
    <3>1. w = [i \in 0..n |-> IF i = 0 THEN x0 ELSE InverseTurn(w[i-1], mod)]
      BY <1>9
    <3> HIDE DEF Is
    <3>2. 0 \in 0..n /\ \A i \in 1..n : i \in 0..n /\ i # 0
      OBVIOUS
    <3>3. w[0] = x0
      BY <3>1, <3>2
    <3>4. ASSUME NEW i \in 1..n PROVE w[i] = InverseTurn(w[i-1], mod)
      <4>1. i \in 0..n /\ i # 0
        BY <3>2
      <4>2. w[i] = IF i = 0 THEN x0 ELSE InverseTurn(w[i-1], mod)
        BY <3>1, <4>1
      <4> QED BY <4>1, <4>2
    <3> QED BY <3>3, <3>4
  <2>2. w[0] \in inv[0]
    BY <1>5, <2>1
  <2>3. ASSUME NEW i \in 1..n, w[i-1] \in inv[i-1] PROVE w[i] \in inv[i]
    <3>1. w[i] = InverseTurn(w[i-1], mod)
      BY <2>1
    <3> HIDE DEF w, inv, op
    <3>2. op[<<i, w[i-1]>>] \in inv[i] /\ op[<<i, w[i-1]>>] = InverseTurn(w[i-1], mod)
      BY <1>6, <2>3
    <3> QED BY <3>1, <3>2
  <2>4. n \in 0..n
    OBVIOUS
  <2> HIDE DEF w
  <2>5. w[n] \in inv[n]
    <3> HIDE DEF inv
    <3>1. \A i \in 0..n : w[i] \in inv[i]
      BY <2>2, <2>3, LoopStays
    <3> QED BY <2>4, <3>1
  <2> QED BY <2>4, <2>5
<1> HIDE DEF w
<1> QED BY <1>1, <1>2, <1>10, Zenon

(* After the loop, where x is the inverse times 2^k: the result.           *)
InverseEnd(end, mod, n0, r2) ==
  LET bits == BITS_PER_WORD * BI_WORDS
      x == IF bi_compare_var(end.x1, mod) > 0 THEN bi_subtract_var(end.x1, mod).res ELSE end.x1
      Times[t \in Bigs(BI_WORDS) \X Bigs(BI_WORDS)] == fp_mul_monty_var(t[1], t[2], mod, n0)
      x1 == IF end.k < bits THEN Times[<<x, r2>>] ELSE x
      k == IF end.k < bits THEN end.k + bits ELSE end.k
  IN IF k > bits THEN Times[<<Times[<<x1, r2>>], bi_set_bit_var(Zeros(BI_WORDS), 2 * bits - k)>>]
     ELSE Times[<<x1, r2>>]

(* fp_inv_binary is this loop and the products that follow it.             *)
LEMMA InverseParts ==
  ASSUME NEW a, NEW mod, NEW n0, NEW r2
  PROVE  fp_inv_binary(a, mod, n0, r2)
           = InverseEnd(InverseLoop(a, mod, 2 * (BITS_PER_WORD * BI_WORDS)), mod, n0, r2)
BY Zenon DEF fp_inv_binary, InverseEnd, InverseLoop, InverseTurn, InverseStep, InverseStart

(* The end of the second phase: R^2 by the inverse of A.                   *)
LEMMA InverseLast ==
  ASSUME ExactWords, ExactProducts, StandardProduct, NEW mod, NEW n0, NEW r2, Domain(mod, n0, r2),
         NEW A \in Int, NEW x1 \in Elements, Value(x1) < Value(mod),
         NEW bits \in Nat, bits = BITS_PER_WORD * BI_WORDS, NEW k \in Nat, bits <= k, k <= 2 * bits,
         Congruent(A * Value(x1), PowerOf(2, k), Value(mod))
  PROVE  LET z == fp_mul_monty_var(x1, r2, mod, n0)
             r == IF k > bits THEN fp_mul_monty_var(z, bi_set_bit_var(Zeros(BI_WORDS), 2 * bits - k), mod, n0) ELSE z
         IN r \in Elements /\ Value(r) < Value(mod) /\ Congruent(A * Value(r), R * R, Value(mod))
<1>1. PICK p \in Nat, B \in Nat, f \in Nat :
        p = Value(mod) /\ B = R /\ f = PowerOf(2, k) /\ B = PowerOf(2, bits) /\ n0 \in Nat /\ (n0 * p + 1) % Base = 0
  <2>1. R = PowerOf(2, bits)
    BY BigFacts, BasePower DEF R
  <2> QED BY <2>1, BigFacts, TwoPower DEF Domain
<1>2. PICK z : z = fp_mul_monty_var(x1, r2, mod, n0) /\ z \in Elements /\ Value(z) < p /\ Congruent(A * Value(z), B * f, p)
  <2>1. f \in Int /\ Congruent(A * Value(x1), f, Value(mod))
    BY <1>1
  <2>2. LET y == fp_mul_monty_var(x1, r2, mod, n0) IN
        y \in Elements /\ Value(y) < Value(mod) /\ Congruent(A * Value(y), R * f, Value(mod))
    BY <2>1, Lifted, Zenon
  <2> QED BY <1>1, <2>2, Zenon
<1>3. CASE k > bits
  <2>1. PICK j \in Nat : j = 2 * bits - k /\ j < bits /\ k + j = bits + bits
    BY <1>3
  <2>2. PICK d : d = bi_set_bit_var(Zeros(BI_WORDS), j) /\ d \in Elements /\ Value(d) = PowerOf(2, j)
    <3>1. j \in 0..BI_WORDS * BITS_PER_WORD - 1
      <4>1. PICK b \in Nat, c \in Nat : b = BITS_PER_WORD /\ c = BI_WORDS
        BY WordsAssumption
      <4>2. b * c = c * b
        OBVIOUS
      <4> QED BY <2>1, <4>1, <4>2
    <3> QED BY <3>1, BigFacts, SetBitsAreSet DEF Elements
  <2>3. PICK r : /\ r = fp_mul_monty_var(z, d, mod, n0) /\ r \in Elements /\ Value(r) < Value(mod)
                 /\ Congruent(R * Value(r), Value(z) * Value(d), Value(mod))
    BY <1>1, <1>2, <2>2, TimesReduced
  <2>4. PICK y \in Nat, v \in Nat, D \in Nat :
          /\ y = Value(z) /\ v = Value(r) /\ D = Value(d) /\ D = PowerOf(2, j) /\ Congruent(B * v, y * D, p)
    <3>1. Value(z) \in Nat /\ Value(r) \in Nat /\ Value(d) \in Nat
      BY <1>2, <2>2, <2>3, BigFacts
    <3> QED BY <1>1, <2>2, <2>3, <3>1
  <2>5. f * D = B * B
    <3>1. f * D = PowerOf(2, k + j)
      BY <1>1, <2>4, TwoPowerAdd
    <3>2. B * B = PowerOf(2, bits + bits)
      BY <1>1, TwoPowerAdd
    <3> QED BY <2>1, <3>1, <3>2
  <2>6. Congruent(A * (B * v), A * (y * D), p)
    <3>1. Congruent(A, A, p) /\ B * v \in Int /\ y * D \in Int
      BY CongruentSelf
    <3> QED BY <2>4, <3>1, CongruentProduct
  <2>7. Congruent((A * y) * D, (B * f) * D, p)
    <3>1. Congruent(A * y, B * f, p) /\ Congruent(D, D, p) /\ A * y \in Int /\ B * f \in Int
      BY <1>2, <2>4, CongruentSelf
    <3> QED BY <3>1, CongruentProduct
  <2>8. A * (B * v) = B * (A * v) /\ A * (y * D) = (A * y) * D /\ (B * f) * D = B * (B * B)
    <3>1. A * (B * v) = B * (A * v) /\ A * (y * D) = (A * y) * D /\ (B * f) * D = B * (f * D)
      OBVIOUS
    <3> QED BY <2>5, <3>1
  <2>9. PICK c \in Int, e \in Int, g \in Int, h \in Int :
          c = A * (B * v) /\ e = A * (y * D) /\ g = B * (B * B) /\ h = A * v
    OBVIOUS
  <2>10. Congruent(c, e, p) /\ Congruent(e, g, p)
    BY <2>6, <2>7, <2>8, <2>9, Zenon
  <2>11. Congruent(c, g, p)
    BY <2>10, CongruentChain
  <2>12. Congruent(h, B * B, p)
    <3>1. Congruent(R * h, R * (B * B), p)
      BY <1>1, <2>8, <2>9, <2>11, Zenon
    <3>2. B * B \in Int
      OBVIOUS
    <3> QED BY <1>1, <3>1, <3>2, RCancels, Zenon
  <2>13. r \in Elements /\ Value(r) < Value(mod) /\ Congruent(A * Value(r), R * R, Value(mod))
    BY <1>1, <2>3, <2>4, <2>9, <2>12, Zenon
  <2> QED BY <1>2, <1>3, <2>1, <2>2, <2>3, <2>13, Zenon
<1>4. CASE ~ (k > bits)
  <2>1. f = B
    BY <1>1, <1>4
  <2>2. Congruent(A * Value(z), R * R, Value(mod))
    BY <1>1, <1>2, <2>1, Zenon
  <2> QED BY <1>1, <1>2, <1>4, <2>2, Zenon
<1> QED BY <1>3, <1>4

(* What the loop leaves, brought to the end.                               *)
LEMMA InverseEndIs ==
  ASSUME ExactWords, ExactProducts, StandardProduct, NEW mod, NEW n0, NEW r2, Domain(mod, n0, r2), NEW A \in Int,
         NEW bits \in Nat, bits = BITS_PER_WORD * BI_WORDS,
         NEW end, end.x1 \in Elements, Value(end.x1) < Value(mod), end.k \in 0..2 * bits,
         Congruent(A * Value(end.x1), PowerOf(2, end.k), Value(mod))
  PROVE  LET r == InverseEnd(end, mod, n0, r2) IN
         r \in Elements /\ Value(r) < Value(mod) /\ Congruent(A * Value(r), R * R, Value(mod))
<1> DEFINE Times == [t \in Bigs(BI_WORDS) \X Bigs(BI_WORDS) |-> fp_mul_monty_var(t[1], t[2], mod, n0)]
<1>1. mod \in Elements /\ r2 \in Elements
  BY DEF Domain
<1>2. ~ (bi_compare_var(end.x1, mod) > 0)
  <2>1. PICK x \in Nat, p \in Nat : x = Value(end.x1) /\ p = Value(mod) /\ x < p
    BY <1>1, BigFacts
  <2>2. bi_compare_var(end.x1, mod) > 0 <=> x > p
    BY <1>1, <2>1, CompareCases
  <2> QED BY <2>1, <2>2
<1>3. ASSUME NEW y \in Elements, NEW z \in Elements PROVE Times[<<y, z>>] = fp_mul_monty_var(y, z, mod, n0)
  <2>1. <<y, z>> \in Bigs(BI_WORDS) \X Bigs(BI_WORDS) /\ <<y, z>>[1] = y /\ <<y, z>>[2] = z
    BY DEF Elements
  <2> QED BY <2>1
<1> DEFINE x1 == IF end.k < bits THEN Times[<<end.x1, r2>>] ELSE end.x1
           k == IF end.k < bits THEN end.k + bits ELSE end.k
<1>4. InverseEnd(end, mod, n0, r2)
        = IF k > bits THEN Times[<<Times[<<x1, r2>>], bi_set_bit_var(Zeros(BI_WORDS), 2 * bits - k)>>]
          ELSE Times[<<x1, r2>>]
  <2> DEFINE T == BITS_PER_WORD * BI_WORDS
             x == IF bi_compare_var(end.x1, mod) > 0 THEN bi_subtract_var(end.x1, mod).res ELSE end.x1
             y == IF end.k < T THEN Times[<<x, r2>>] ELSE x
             c == IF end.k < T THEN end.k + T ELSE end.k
  <2>1. InverseEnd(end, mod, n0, r2)
          = IF c > T THEN Times[<<Times[<<y, r2>>], bi_set_bit_var(Zeros(BI_WORDS), 2 * T - c)>>] ELSE Times[<<y, r2>>]
    BY Zenon DEF InverseEnd
  <2>2. x = end.x1 /\ T = bits
    BY <1>2
  <2> HIDE DEF Times, x, T
  <2>3. y = x1 /\ c = k
    BY <2>2, Zenon
  <2> HIDE DEF y, c, x1, k
  <2> QED BY <2>1, <2>2, <2>3, Zenon
<1>5. x1 \in Elements /\ Value(x1) < Value(mod) /\ Congruent(A * Value(x1), PowerOf(2, k), Value(mod))
  <2>1. CASE end.k < bits
    <3>1. PICK y : /\ y = fp_mul_monty_var(end.x1, r2, mod, n0) /\ y \in Elements /\ Value(y) < Value(mod)
                   /\ Congruent(A * Value(y), R * PowerOf(2, end.k), Value(mod))
      <4>1. PowerOf(2, end.k) \in Int
        BY TwoPower
      <4> QED BY <4>1, Lifted
    <3>2. R * PowerOf(2, end.k) = PowerOf(2, end.k + bits)
      <4>1. R = PowerOf(2, bits)
        <5>1. BI_WORDS \in Nat
          BY BigFacts
        <5>2. PowerOf(Base, BI_WORDS) = PowerOf(2, BITS_PER_WORD * BI_WORDS)
          BY <5>1, BasePower
        <5> QED BY <5>2 DEF R
      <4>2. PowerOf(2, end.k + bits) = PowerOf(2, end.k) * PowerOf(2, bits)
        <5>1. end.k \in Nat /\ bits \in Nat
          OBVIOUS
        <5> QED BY <5>1, TwoPowerAdd
      <4>3. PICK f \in Nat, g \in Nat : f = PowerOf(2, end.k) /\ g = PowerOf(2, bits) /\ f * g = g * f
        <5>1. PowerOf(2, end.k) \in Nat /\ PowerOf(2, bits) \in Nat
          BY TwoPower
        <5> QED BY <5>1
      <4> QED BY <4>1, <4>2, <4>3
    <3>3. x1 = y
      BY <1>1, <1>3, <2>1, <3>1
    <3>4. k = end.k + bits
      BY <2>1
    <3> HIDE DEF x1, k
    <3> QED BY <3>1, <3>2, <3>3, <3>4, Zenon
  <2>2. CASE ~ (end.k < bits)
    BY <2>2
  <2> QED BY <2>1, <2>2
<1>6. k \in Nat /\ bits <= k /\ k <= 2 * bits
  OBVIOUS
<1> HIDE DEF x1, k
<1>7. PICK z : /\ z = fp_mul_monty_var(x1, r2, mod, n0) /\ z \in Elements
  BY <1>1, <1>5, StandsForElement DEF Stands
<1>8. Times[<<x1, r2>>] = z
  BY <1>1, <1>3, <1>5, <1>7
<1>9. LET r == IF k > bits THEN fp_mul_monty_var(z, bi_set_bit_var(Zeros(BI_WORDS), 2 * bits - k), mod, n0) ELSE z
      IN r \in Elements /\ Value(r) < Value(mod) /\ Congruent(A * Value(r), R * R, Value(mod))
  BY <1>5, <1>6, <1>7, InverseLast, Zenon
<1>10. CASE k > bits
  <2>1. bi_set_bit_var(Zeros(BI_WORDS), 2 * bits - k) \in Elements
    <3>1. 2 * bits - k \in 0..BI_WORDS * BITS_PER_WORD - 1
      <4>1. PICK b \in Nat, c \in Nat : b = BITS_PER_WORD /\ c = BI_WORDS
        BY WordsAssumption
      <4>2. b * c = c * b
        OBVIOUS
      <4> QED BY <1>6, <1>10, <4>1, <4>2
    <3> QED BY <3>1, BigFacts, SetBitsAreSet DEF Elements
  <2>2. Times[<<z, bi_set_bit_var(Zeros(BI_WORDS), 2 * bits - k)>>]
          = fp_mul_monty_var(z, bi_set_bit_var(Zeros(BI_WORDS), 2 * bits - k), mod, n0)
    BY <1>3, <1>7, <2>1
  <2> HIDE DEF Times
  <2> QED BY <1>4, <1>8, <1>9, <1>10, <2>2, Zenon
<1>11. CASE ~ (k > bits)
  <2> HIDE DEF Times
  <2> QED BY <1>4, <1>8, <1>9, <1>11, Zenon
<1> QED BY <1>10, <1>11

(* fp_inv_binary returns the inverse in the domain of whatever has one: v  *)
(* by the number that is returned is R, for every odd modulus.  The loop   *)
(* halves the product of what is left of both numbers each time, so that   *)
(* it is done before its bound; the power of two it took out is put back   *)
(* by the one or two products after it.                                    *)
THEOREM InversesAreExact ==
  ASSUME ExactWords, ExactProducts, StandardProduct, NEW mod, NEW n0, NEW r2, Domain(mod, n0, r2), Value(mod) % 2 = 1,
         NEW a, NEW v \in Int, Stands(a, v, Value(mod)), NEW e \in Int, Congruent(v * e, 1, Value(mod))
  PROVE  LET r == fp_inv_binary(a, mod, n0, r2) IN
         r \in Elements /\ Value(r) < Value(mod) /\ Congruent(v * Value(r), R, Value(mod))
<1>1. PICK bits \in Nat : bits = BITS_PER_WORD * BI_WORDS /\ R = PowerOf(2, bits)
  BY BigFacts, BasePower DEF R
<1>2. PICK A \in Nat, p \in Nat, B \in Nat :
        /\ A = Value(a) /\ p = Value(mod) /\ B = R /\ A < B /\ p < B /\ p > 1
        /\ a \in Elements /\ mod \in Elements /\ n0 \in Nat /\ (n0 * p + 1) % Base = 0
  BY BigFacts DEF Stands, Domain
<1>3. Congruent(A, B * v, p)
  BY <1>2 DEF Stands
<1>4. Bezout(A, p)
  <2>1. A \in Int /\ Congruent(A, R * v, Value(mod))
    BY <1>2, <1>3
  <2>2. Bezout(A, Value(mod))
    BY <2>1, StaysCoprime, Zenon
  <2> QED BY <1>2, <2>2
<1>5. PICK n \in Nat : n = 2 * (BITS_PER_WORD * BI_WORDS) /\ n = 2 * bits /\ n = bits + bits
  BY <1>1
<1>6. PICK M \in Nat : M = A * p /\ M < PowerOf(2, n)
  <2>1. PowerOf(2, n) = B * B
    BY <1>1, <1>2, <1>5, TwoPowerAdd
  <2>2. A * p < B * B
    BY <1>2, ProductBelow
  <2>3. A * p \in Nat
    OBVIOUS
  <2> QED BY <2>1, <2>2, <2>3
<1>7. PICK end : end = InverseLoop(a, mod, n) /\ InverseState(end, n, A, p, M)
  BY <1>2, <1>4, <1>6, InverseLoopEnds
<1>8. end.x1 \in Elements /\ Value(end.x1) < p /\ end.k \in 0..n /\ Congruent(A * Value(end.x1), PowerOf(2, end.k), p)
  BY <1>6, <1>7, InverseEnds
<1>9. PICK r : r = InverseEnd(end, mod, n0, r2) /\ r \in Elements /\ Value(r) < p /\ Congruent(A * Value(r), B * B, p)
  BY <1>1, <1>2, <1>5, <1>8, InverseEndIs
<1>10. fp_inv_binary(a, mod, n0, r2) = r
  BY <1>5, <1>7, <1>9, InverseParts, Zenon
<1>11. PICK y \in Nat : y = Value(r)
  BY <1>9, BigFacts
<1>12. Congruent(v * y, B, p)
  <2>1. Congruent(A * y, (B * v) * y, p)
    <3>1. Congruent(y, y, p) /\ B * v \in Int
      BY CongruentSelf
    <3> QED BY <1>3, <3>1, CongruentProduct
  <2>2. PICK c \in Int, d \in Int, g \in Int : c = A * y /\ d = (B * v) * y /\ g = B * B
    OBVIOUS
  <2>3. (B * v) * y = B * (v * y) /\ v * y \in Int
    OBVIOUS
  <2>4. Congruent(d, c, p)
    BY <2>1, <2>2, CongruentBack
  <2>5. Congruent(c, g, p)
    BY <1>9, <1>11, <2>2, Zenon
  <2>6. Congruent(d, g, p)
    BY <2>4, <2>5, CongruentChain
  <2>7. Congruent(R * (v * y), R * B, p)
    BY <1>2, <2>2, <2>3, <2>6, Zenon
  <2>8. B \in Int
    OBVIOUS
  <2> QED BY <1>2, <2>3, <2>7, <2>8, RCancels, Zenon
<1> QED BY <1>2, <1>9, <1>10, <1>11, <1>12, Zenon

-----------------------------------------------------------------------------
(* The sum of the first numbers of a function.                             *)
Numbers0 == [Nat -> Int]
SumTo(f, n) == LET s[k \in 0..n] == IF k = 0 THEN 0 ELSE s[k-1] + f[k-1] IN s[n]

(* The partial sums of a sequence of integers, one by one.                 *)
LEMMA SumToDef ==
  ASSUME NEW f \in Numbers0, NEW n \in Nat
  PROVE  \E s \in [0..n -> Int] : s[0] = 0 /\ (\A i \in 1..n : s[i] = s[i-1] + f[i-1]) /\ SumTo(f, n) = s[n]
<1> DEFINE step == [t \in Nat \X Int |-> t[2] + (IF t[1] >= 1 THEN f[t[1] - 1] ELSE 0)]
           Is(s) == s = [k \in 0..n |-> IF k = 0 THEN 0 ELSE s[k-1] + f[k-1]]
           w == CHOOSE s : Is(s)
<1>1. \E s : Is(s)
  <2>1. ASSUME NEW i \in Nat, NEW x \in Int, i >= 1 PROVE step[<<i, x>>] = x + f[i-1]
    <3>1. <<i, x>> \in Nat \X Int /\ <<i, x>>[1] = i /\ <<i, x>>[2] = x
      OBVIOUS
    <3> QED BY <2>1, <3>1
  <2>2. step \in Steps(Int)
    <3>1. ASSUME NEW t \in Nat \X Int PROVE step[t] \in Int
      <4>1. t[1] \in Nat /\ t[2] \in Int
        OBVIOUS
      <4>2. CASE t[1] >= 1
        <5>1. t[1] - 1 \in Nat
          BY <4>1, <4>2
        <5>2. f[t[1] - 1] \in Int
          BY <5>1 DEF Numbers0
        <5> QED BY <4>1, <4>2, <5>2
      <4>3. CASE ~ (t[1] >= 1)
        BY <4>1, <4>3
      <4> QED BY <4>2, <4>3
    <3> QED BY <3>1 DEF Steps
  <2> HIDE DEF step
  <2>3. PICK g : Iterates(g, n, Int, 0, step)
    <3>1. 0 \in Int
      OBVIOUS
    <3> QED BY <2>2, <3>1, IteratesExist
  <2>4. g \in [0..n -> Int] /\ g[0] = 0
    BY <2>3 DEF Iterates
  <2>5. ASSUME NEW i \in 1..n PROVE g[i] = g[i-1] + f[i-1]
    <3>1. i \in Nat /\ i - 1 \in 0..n /\ i >= 1
      OBVIOUS
    <3>2. g[i] = step[<<i, g[i-1]>>] /\ g[i-1] \in Int
      BY <2>3, <2>4, <3>1 DEF Iterates
    <3> QED BY <2>1, <3>1, <3>2
  <2>6. \A i \in 0..n : g[i] = IF i = 0 THEN 0 ELSE g[i-1] + f[i-1]
    BY <2>4, <2>5
  <2> QED BY <2>4, <2>6
<1>2. Is(w)
  BY <1>1
<1>3. SumTo(f, n) = w[n]
  BY DEF SumTo
<1> HIDE DEF w
<1>4. w[0] = 0 /\ \A i \in 1..n : w[i] = w[i-1] + f[i-1]
  BY <1>2
<1>5. \A i \in 0..n : w[i] \in Int
  <2> DEFINE T == {i \in 0..n : w[i] \in Int}
  <2>1. 0 \in T
    BY <1>4
  <2>2. ASSUME NEW i \in 1..n, i - 1 \in T PROVE i \in T
    <3>1. i - 1 \in Nat /\ w[i-1] \in Int
      BY <2>2
    <3>2. f[i-1] \in Int
      BY <3>1 DEF Numbers0
    <3> QED BY <1>4, <3>1, <3>2
  <2> HIDE DEF T
  <2>3. \A i \in 0..n : i \in T
    BY <2>1, <2>2, UpTo
  <2> QED BY <2>3 DEF T
<1>6. w \in [0..n -> Int]
  BY <1>2, <1>5
<1> QED
  BY <1>3, <1>4, <1>6

(* A sum to n + 1 is the sum to n and one term.                            *)
LEMMA SumToLaws ==
  ASSUME NEW f \in Numbers0, NEW n \in Nat
  PROVE  SumTo(f, n) \in Int /\ SumTo(f, 0) = 0 /\ SumTo(f, n + 1) = SumTo(f, n) + f[n]
<1>1. PICK p \in [0..n -> Int] : p[0] = 0 /\ (\A i \in 1..n : p[i] = p[i-1] + f[i-1]) /\ SumTo(f, n) = p[n]
  BY SumToDef
<1>2. PICK q \in [0..n+1 -> Int] : q[0] = 0 /\ (\A i \in 1..n+1 : q[i] = q[i-1] + f[i-1]) /\ SumTo(f, n + 1) = q[n+1]
  BY SumToDef, n + 1 \in Nat
<1>3. PICK z \in [0..0 -> Int] : z[0] = 0 /\ SumTo(f, 0) = z[0]
  BY SumToDef, 0 \in Nat
<1>4. \A i \in 0..n : p[i] = q[i]
  <2> DEFINE T == {i \in 0..n : p[i] = q[i]}
  <2>1. 0 \in T
    BY <1>1, <1>2
  <2>2. ASSUME NEW i \in 1..n, i - 1 \in T PROVE i \in T
    <3>1. i \in 0..n /\ i \in 1..n+1
      OBVIOUS
    <3> QED BY <1>1, <1>2, <2>2, <3>1
  <2> HIDE DEF T
  <2>3. \A i \in 0..n : i \in T
    BY <2>1, <2>2, UpTo
  <2> QED BY <2>3 DEF T
<1>5. n + 1 \in 1..n+1 /\ n \in 0..n /\ n + 1 - 1 = n
  OBVIOUS
<1>6. q[n+1] = q[n] + f[n]
  BY <1>2, <1>5
<1> QED
  BY <1>1, <1>2, <1>3, <1>4, <1>5, <1>6

(* Sums that agree number by number.                                       *)
LEMMA SumToSame ==
  ASSUME NEW f \in Numbers0, NEW g \in Numbers0, NEW n \in Nat, \A j \in 0..n-1 : f[j] = g[j]
  PROVE  SumTo(f, n) = SumTo(g, n)
<1> DEFINE T == {i \in 0..n : SumTo(f, i) = SumTo(g, i)}
<1>1. 0 \in T
  BY SumToLaws, 0 \in Nat
<1>2. ASSUME NEW i \in 1..n, i - 1 \in T PROVE i \in T
  <2>1. PICK j \in Nat : j = i - 1 /\ j + 1 = i /\ j \in 0..n-1
    <3>1. i - 1 \in Nat /\ (i - 1) + 1 = i /\ i - 1 \in 0..n-1
      OBVIOUS
    <3> QED BY <3>1
  <2>2. SumTo(f, j + 1) = SumTo(f, j) + f[j] /\ SumTo(g, j + 1) = SumTo(g, j) + g[j]
    BY <2>1, SumToLaws
  <2>3. SumTo(f, j) = SumTo(g, j)
    BY <1>2, <2>1
  <2> QED BY <2>1, <2>2, <2>3
<1> HIDE DEF T
<1>3. \A i \in 0..n : i \in T
  BY <1>1, <1>2, UpTo
<1>4. n \in T
  BY <1>3
<1> QED BY <1>4 DEF T

(* Nothing is added by zeros at the end.                                   *)
LEMMA SumToLonger ==
  ASSUME NEW f \in Numbers0, NEW n \in Nat, NEW m \in Nat, \A j \in Nat : j >= n => f[j] = 0
  PROVE  SumTo(f, n + m) = SumTo(f, n)
<1> DEFINE T == {i \in Nat : SumTo(f, n + i) = SumTo(f, n)}
<1>1. 0 \in T
  <2>1. n + 0 = n
    OBVIOUS
  <2> QED BY <2>1
<1>2. ASSUME NEW i \in T PROVE i + 1 \in T
  <2>1. PICK j \in Nat : j = n + i /\ j + 1 = n + (i + 1) /\ j >= n
    OBVIOUS
  <2>2. SumTo(f, j + 1) = SumTo(f, j) + f[j] /\ SumTo(f, j) \in Int /\ f[j] = 0
    BY <2>1, SumToLaws
  <2> QED BY <1>2, <2>1, <2>2
<1>3. T = Nat
  <2> HIDE DEF T
  <2>1. T \in SUBSET Nat
    BY DEF T
  <2> QED BY <1>1, <1>2, <2>1, Induct
<1> QED BY <1>3

(* A sum of zeros.                                                         *)
LEMMA SumToNone ==
  ASSUME NEW f \in Numbers0, NEW n \in Nat, \A j \in 0..n-1 : f[j] = 0
  PROVE  SumTo(f, n) = 0
<1> DEFINE T == {i \in 0..n : SumTo(f, i) = 0}
<1>1. 0 \in T
  BY SumToLaws, 0 \in Nat
<1>2. ASSUME NEW i \in 1..n, i - 1 \in T PROVE i \in T
  <2>1. PICK j \in Nat : j = i - 1 /\ j + 1 = i /\ j \in 0..n-1
    <3>1. i - 1 \in Nat /\ (i - 1) + 1 = i /\ i - 1 \in 0..n-1
      OBVIOUS
    <3> QED BY <3>1
  <2>2. SumTo(f, j + 1) = SumTo(f, j) + f[j]
    BY <2>1, SumToLaws
  <2> QED BY <1>2, <2>1, <2>2
<1> HIDE DEF T
<1>3. \A i \in 0..n : i \in T
  BY <1>1, <1>2, UpTo
<1>4. n \in T
  BY <1>3
<1> QED BY <1>4 DEF T

(* Numbers by their words, with zeros beyond both ends; the value of the   *)
(* lowest k words.                                                         *)
WordPlaces == {x \in [Int -> Nat] : \A j \in Int : j < 0 => x[j] = 0}
Lowest(x, k) == IF k < 0 THEN 0 ELSE SumTo([j \in Nat |-> x[j] * PowerOf(Base, j)], k)
(* A column of the product, and the product of the lowest words of x with  *)
(* what the columns below i have of y.                                     *)
Column(x, y, i, J) == SumTo([j \in Nat |-> x[j] * y[i-j]], J)
Rows(x, y, i, J) == SumTo([j \in Nat |-> (x[j] * PowerOf(Base, j)) * Lowest(y, i - j)], J)

(* The value of the lowest k words, one by one.                            *)
LEMMA LowestLaws ==
  ASSUME NEW x \in WordPlaces, NEW k \in Int
  PROVE  /\ Lowest(x, k) \in Int
         /\ k <= 0 => Lowest(x, k) = 0
         /\ k >= 0 => Lowest(x, k + 1) = Lowest(x, k) + x[k] * PowerOf(Base, k)
<1> DEFINE f == [j \in Nat |-> x[j] * PowerOf(Base, j)]
<1>1. f \in Numbers0
  <2>1. ASSUME NEW j \in Nat PROVE x[j] * PowerOf(Base, j) \in Int
    <3>1. x[j] \in Nat
      BY DEF WordPlaces
    <3>2. PowerOf(Base, j) \in Nat
      BY PowerNat
    <3> QED BY <3>1, <3>2
  <2> QED BY <2>1 DEF Numbers0
<1>2. CASE k >= 0
  <2>1. k \in Nat /\ ~ (k < 0) /\ ~ (k + 1 < 0)
    BY <1>2
  <2>2. f[k] = x[k] * PowerOf(Base, k)
    BY <2>1
  <2>3. Lowest(x, k) = SumTo(f, k) /\ Lowest(x, k + 1) = SumTo(f, k + 1)
    BY <2>1, Zenon DEF Lowest
  <2> HIDE DEF f
  <2>4. SumTo(f, k) \in Int /\ SumTo(f, 0) = 0 /\ SumTo(f, k + 1) = SumTo(f, k) + f[k]
    BY <1>1, <2>1, SumToLaws
  <2>5. k <= 0 => Lowest(x, k) = 0
    BY <2>1, <2>3, <2>4
  <2> QED BY <2>2, <2>3, <2>4, <2>5
<1>3. CASE k < 0
  BY <1>3 DEF Lowest
<1> QED BY <1>2, <1>3

(* The terms of rows and columns are integers.                             *)
LEMMA RowAndColumnTerms ==
  ASSUME NEW x \in WordPlaces, NEW y \in WordPlaces, NEW i \in Int
  PROVE  /\ [j \in Nat |-> x[j] * y[i-j]] \in Numbers0
         /\ [j \in Nat |-> (x[j] * PowerOf(Base, j)) * Lowest(y, i - j)] \in Numbers0
<1>1. ASSUME NEW j \in Nat PROVE x[j] * y[i-j] \in Int /\ (x[j] * PowerOf(Base, j)) * Lowest(y, i - j) \in Int
  <2>1. x[j] \in Nat /\ y[i-j] \in Nat
    <3>1. j \in Int /\ i - j \in Int
      OBVIOUS
    <3> QED BY <3>1 DEF WordPlaces
  <2>2. PowerOf(Base, j) \in Nat /\ Lowest(y, i - j) \in Int
    <3>1. i - j \in Int
      OBVIOUS
    <3> QED BY <3>1, PowerNat, LowestLaws
  <2> QED BY <2>1, <2>2
<1> QED BY <1>1 DEF Numbers0

(* Rows and columns grow by one term.                                      *)
LEMMA RowsLaws ==
  ASSUME NEW x \in WordPlaces, NEW y \in WordPlaces, NEW i \in Int, NEW J \in Nat
  PROVE  /\ Column(x, y, i, J) \in Int /\ Rows(x, y, i, J) \in Int
         /\ Column(x, y, i, 0) = 0 /\ Rows(x, y, i, 0) = 0
         /\ Column(x, y, i, J + 1) = Column(x, y, i, J) + x[J] * y[i-J]
         /\ Rows(x, y, i, J + 1) = Rows(x, y, i, J) + (x[J] * PowerOf(Base, J)) * Lowest(y, i - J)
<1> DEFINE c == [j \in Nat |-> x[j] * y[i-j]]
           r == [j \in Nat |-> (x[j] * PowerOf(Base, j)) * Lowest(y, i - j)]
<1>1. c \in Numbers0 /\ r \in Numbers0
  BY RowAndColumnTerms
<1>2. c[J] = x[J] * y[i-J] /\ r[J] = (x[J] * PowerOf(Base, J)) * Lowest(y, i - J)
  OBVIOUS
<1>3. \A k : Column(x, y, i, k) = SumTo(c, k) /\ Rows(x, y, i, k) = SumTo(r, k)
  BY Zenon DEF Column, Rows
<1> HIDE DEF c, r
<1>4. /\ SumTo(c, J) \in Int /\ SumTo(c, 0) = 0 /\ SumTo(c, J + 1) = SumTo(c, J) + c[J]
      /\ SumTo(r, J) \in Int /\ SumTo(r, 0) = 0 /\ SumTo(r, J + 1) = SumTo(r, J) + r[J]
  BY <1>1, SumToLaws
<1> QED BY <1>2, <1>3, <1>4, Zenon

(* One more column.                                                        *)
LEMMA RowGrows ==
  ASSUME NEW x \in WordPlaces, NEW y \in WordPlaces, NEW i \in Nat, NEW j \in Nat
  PROVE  (x[j] * PowerOf(Base, j)) * Lowest(y, i + 1 - j)
           = (x[j] * PowerOf(Base, j)) * Lowest(y, i - j) + PowerOf(Base, i) * (x[j] * y[i-j])
<1>1. PICK a \in Nat, b \in Nat, P \in Nat, Q \in Nat :
        a = x[j] /\ b = y[i-j] /\ P = PowerOf(Base, j) /\ Q = PowerOf(Base, i)
  <2>1. x[j] \in Nat /\ y[i-j] \in Nat
    <3>1. j \in Int /\ i - j \in Int
      OBVIOUS
    <3> QED BY <3>1 DEF WordPlaces
  <2> QED BY <2>1, PowerNat
<1>2. CASE j <= i
  <2>1. PICK k \in Nat : k = i - j /\ i + 1 - j = k + 1 /\ i = j + k
    <3>1. i - j \in Nat /\ i + 1 - j = (i - j) + 1 /\ i = j + (i - j)
      BY <1>2
    <3> QED BY <3>1
  <2>2. PICK S \in Nat : S = PowerOf(Base, k) /\ Q = P * S
    <3>1. Base \in Nat
      BY BaseFacts
    <3>2. PowerOf(Base, j + k) = PowerOf(Base, j) * PowerOf(Base, k)
      BY <3>1, PowerAdd
    <3>3. PowerOf(Base, k) \in Nat
      BY PowerNat
    <3> QED BY <1>1, <2>1, <3>2, <3>3
  <2>3. PICK l \in Int, m \in Int : l = Lowest(y, k) /\ m = Lowest(y, k + 1) /\ m = l + b * S
    <3>1. k \in Int /\ k + 1 \in Int /\ k >= 0
      OBVIOUS
    <3>2. Lowest(y, k) \in Int /\ Lowest(y, k + 1) \in Int /\ Lowest(y, k + 1) = Lowest(y, k) + y[k] * PowerOf(Base, k)
      BY <3>1, LowestLaws
    <3> QED BY <1>1, <2>1, <2>2, <3>2
  <2>4. (a * P) * (l + b * S) = (a * P) * l + (P * S) * (a * b)
    OBVIOUS
  <2> QED BY <1>1, <2>1, <2>2, <2>3, <2>4, Zenon
<1>3. CASE j > i
  <2>1. b = 0
    <3>1. i - j \in Int /\ i - j < 0
      BY <1>3
    <3> QED BY <1>1, <3>1 DEF WordPlaces
  <2>2. Lowest(y, i - j) = 0 /\ Lowest(y, i + 1 - j) = 0
    <3>1. i - j \in Int /\ i - j <= 0 /\ i + 1 - j \in Int /\ i + 1 - j <= 0
      BY <1>3
    <3> QED BY <3>1, LowestLaws
  <2>3. (a * P) * 0 = (a * P) * 0 + Q * (a * 0)
    OBVIOUS
  <2> QED BY <1>1, <2>1, <2>2, <2>3, Zenon
<1> QED BY <1>2, <1>3

(* One place more in every row is one more column.                         *)
LEMMA RowsGrow ==
  ASSUME NEW x \in WordPlaces, NEW y \in WordPlaces, NEW i \in Nat, NEW J \in Nat
  PROVE  Rows(x, y, i + 1, J) = Rows(x, y, i, J) + PowerOf(Base, i) * Column(x, y, i, J)
<1> DEFINE S == {k \in Nat : Rows(x, y, i + 1, k) = Rows(x, y, i, k) + PowerOf(Base, i) * Column(x, y, i, k)}
<1>0. PICK Q \in Nat : Q = PowerOf(Base, i)
  BY PowerNat
<1>1. 0 \in S
  <2>1. Rows(x, y, i + 1, 0) = 0 /\ Rows(x, y, i, 0) = 0 /\ Column(x, y, i, 0) = 0
    BY RowsLaws, 0 \in Nat, i + 1 \in Int
  <2> QED BY <1>0, <2>1
<1>2. ASSUME NEW k \in S PROVE k + 1 \in S
  <2>1. k \in Nat /\ k + 1 \in Nat /\ i + 1 \in Int /\ i \in Int
    OBVIOUS
  <2>2. PICK r \in Int, c \in Int, e \in Int : r = Rows(x, y, i, k) /\ c = Column(x, y, i, k) /\ e = Rows(x, y, i + 1, k)
    BY <2>1, RowsLaws
  <2>3. e = r + Q * c
    BY <1>0, <1>2, <2>2
  <2>4. PICK t \in Int, g \in Int, h \in Int :
          /\ t = x[k] * y[i-k] /\ g = (x[k] * PowerOf(Base, k)) * Lowest(y, i - k)
          /\ h = (x[k] * PowerOf(Base, k)) * Lowest(y, i + 1 - k)
    <3>1. x[k] \in Nat /\ y[i-k] \in Nat
      <4>1. k \in Int /\ i - k \in Int
        BY <2>1
      <4> QED BY <4>1 DEF WordPlaces
    <3>2. PowerOf(Base, k) \in Nat /\ Lowest(y, i - k) \in Int /\ Lowest(y, i + 1 - k) \in Int
      <4>1. i - k \in Int /\ i + 1 - k \in Int
        BY <2>1
      <4> QED BY <2>1, <4>1, PowerNat, LowestLaws
    <3> QED BY <3>1, <3>2
  <2>5. h = g + Q * t
    BY <1>0, <2>1, <2>4, RowGrows
  <2>6. Rows(x, y, i + 1, k + 1) = e + h /\ Rows(x, y, i, k + 1) = r + g /\ Column(x, y, i, k + 1) = c + t
    BY <2>1, <2>2, <2>4, RowsLaws
  <2>7. Q * (c + t) = Q * c + Q * t
    OBVIOUS
  <2>8. PICK u \in Int, v \in Int, w \in Int : u = Q * c /\ v = Q * t /\ w = Q * (c + t)
    OBVIOUS
  <2>9. e + h = (r + g) + w
    BY <2>3, <2>5, <2>7, <2>8
  <2>10. Rows(x, y, i + 1, k + 1) = Rows(x, y, i, k + 1) + PowerOf(Base, i) * Column(x, y, i, k + 1)
    BY <1>0, <2>6, <2>8, <2>9, Zenon
  <2> QED BY <2>1, <2>10
<1>3. S = Nat
  <2> HIDE DEF S
  <2>1. S \in SUBSET Nat
    BY DEF S
  <2> QED BY <1>1, <1>2, <2>1, Induct
<1> QED BY <1>3

(* No column yet; all of them.                                             *)
LEMMA RowsStart ==
  ASSUME NEW x \in WordPlaces, NEW y \in WordPlaces, NEW J \in Nat
  PROVE  Rows(x, y, 0, J) = 0
<1> DEFINE S == {k \in Nat : Rows(x, y, 0, k) = 0}
<1>1. 0 \in S
  BY RowsLaws, 0 \in Nat, 0 \in Int
<1>2. ASSUME NEW k \in S PROVE k + 1 \in S
  <2>1. Rows(x, y, 0, k + 1) = Rows(x, y, 0, k) + (x[k] * PowerOf(Base, k)) * Lowest(y, 0 - k)
    BY RowsLaws, 0 \in Int
  <2>2. Lowest(y, 0 - k) = 0
    <3>1. 0 - k \in Int /\ 0 - k <= 0
      OBVIOUS
    <3> QED BY <3>1, LowestLaws
  <2>3. (x[k] * PowerOf(Base, k)) * 0 = 0
    <3>1. x[k] \in Nat /\ PowerOf(Base, k) \in Nat
      <4>1. k \in Int
        OBVIOUS
      <4> QED BY <4>1, PowerNat DEF WordPlaces
    <3> QED BY <3>1
  <2> QED BY <1>2, <2>1, <2>2, <2>3
<1>3. S = Nat
  <2> HIDE DEF S
  <2>1. S \in SUBSET Nat
    BY DEF S
  <2> QED BY <1>1, <1>2, <2>1, Induct
<1> QED BY <1>3

Settled(y, N, V) == N \in Nat /\ V \in Int /\ \A k \in Nat : k >= N => Lowest(y, k) = V

(* When every row is complete, the rows are the product.                   *)
LEMMA RowsEnd ==
  ASSUME NEW x \in WordPlaces, NEW y \in WordPlaces, NEW N, NEW V, Settled(y, N, V),
         NEW i \in Nat, NEW J \in Nat, i >= N + J
  PROVE  Rows(x, y, i, J) = Lowest(x, J) * V
<1> SUFFICES ASSUME N \in Nat, V \in Int, \A k \in Nat : k >= N => Lowest(y, k) = V
             PROVE  Rows(x, y, i, J) = Lowest(x, J) * V
  BY DEF Settled
<1> DEFINE T == {k \in 0..J : Rows(x, y, i, k) = Lowest(x, k) * V}
<1>1. 0 \in T
  <2>1. Rows(x, y, i, 0) = 0 /\ Lowest(x, 0) = 0
    BY RowsLaws, LowestLaws, 0 \in Nat, i \in Int, 0 \in Int, 0 <= 0
  <2> QED BY <2>1
<1>2. ASSUME NEW h \in 1..J, h - 1 \in T PROVE h \in T
  <2>1. PICK k \in Nat : k = h - 1 /\ k + 1 = h /\ i - k \in Nat /\ i - k >= N
    <3>1. h - 1 \in Nat /\ (h - 1) + 1 = h /\ i - (h - 1) \in Nat /\ i - (h - 1) >= N
      OBVIOUS
    <3> QED BY <3>1
  <2>2. Lowest(y, i - k) = V
    BY <2>1
  <2>3. PICK a \in Nat, P \in Nat, l \in Int : a = x[k] /\ P = PowerOf(Base, k) /\ l = Lowest(x, k)
    <3>1. k \in Int
      OBVIOUS
    <3>2. x[k] \in Nat /\ PowerOf(Base, k) \in Nat /\ Lowest(x, k) \in Int
      BY <3>1, PowerNat, LowestLaws DEF WordPlaces
    <3> QED BY <3>2
  <2>4. Rows(x, y, i, k + 1) = Rows(x, y, i, k) + (a * P) * V
    BY <2>2, <2>3, RowsLaws, i \in Int
  <2>5. Lowest(x, k + 1) = l + a * P
    BY <2>3, LowestLaws, k \in Int
  <2>6. Rows(x, y, i, k) = l * V
    BY <1>2, <2>1, <2>3
  <2>7. (l + a * P) * V = l * V + (a * P) * V
    OBVIOUS
  <2>8. Rows(x, y, i, k + 1) = Lowest(x, k + 1) * V
    BY <2>4, <2>5, <2>6, <2>7, Zenon
  <2> QED BY <2>1, <2>8
<1> HIDE DEF T
<1>3. \A k \in 0..J : k \in T
  BY <1>1, <1>2, UpTo
<1>4. J \in T
  BY <1>3
<1> QED BY <1>4 DEF T

(* Sums add term by term.                                                  *)
LEMMA SumToAdd ==
  ASSUME NEW f \in Numbers0, NEW g \in Numbers0, NEW h \in Numbers0, NEW n \in Nat, \A j \in Nat : h[j] = f[j] + g[j]
  PROVE  SumTo(h, n) = SumTo(f, n) + SumTo(g, n)
<1> DEFINE S == {k \in Nat : SumTo(h, k) = SumTo(f, k) + SumTo(g, k)}
<1>1. 0 \in S
  BY SumToLaws, 0 \in Nat
<1>2. ASSUME NEW k \in S PROVE k + 1 \in S
  <2>1. /\ SumTo(f, k) \in Int /\ SumTo(f, k + 1) = SumTo(f, k) + f[k]
        /\ SumTo(g, k) \in Int /\ SumTo(g, k + 1) = SumTo(g, k) + g[k]
        /\ SumTo(h, k) \in Int /\ SumTo(h, k + 1) = SumTo(h, k) + h[k]
    BY SumToLaws
  <2>2. f[k] \in Int /\ g[k] \in Int /\ h[k] = f[k] + g[k]
    BY DEF Numbers0
  <2> QED BY <1>2, <2>1, <2>2
<1>3. S = Nat
  <2> HIDE DEF S
  <2>1. S \in SUBSET Nat
    BY DEF S
  <2> QED BY <1>1, <1>2, <2>1, Induct
<1> QED BY <1>3

(* The sum of products that fp_mul_monty_fips gathers in a loop from first *)
(* to last.                                                                *)
ColumnProducts(a, b, n, m, i, first, last) ==
  LET sum[j \in first-1..last] ==
        IF j = first - 1 THEN 0 ELSE sum[j-1] + a[j+1] * b[i-j+1] + m[j+1] * n[i-j+1]
  IN sum[last]
ProductTerms(f, a, b, m, n, i, first, last) ==
  /\ f \in Numbers0 /\ first \in Nat /\ last \in Int /\ last >= first - 1
  /\ \A j \in 0..first-1 : f[j] = 0
  /\ \A j \in first..last : /\ a[j+1] * b[i-j+1] \in Int /\ m[j+1] * n[i-j+1] \in Int
                           /\ f[j] = a[j+1] * b[i-j+1] + m[j+1] * n[i-j+1]

(* The loop of the code over a column computes the sum of its terms.       *)
LEMMA ProductsAre ==
  ASSUME NEW f, NEW a, NEW b, NEW m, NEW n, NEW i, NEW first, NEW last, ProductTerms(f, a, b, m, n, i, first, last)
  PROVE  ColumnProducts(a, b, n, m, i, first, last) = SumTo(f, last + 1)
<1> SUFFICES ASSUME f \in Numbers0, first \in Nat, last \in Int, last >= first - 1, \A j \in 0..first-1 : f[j] = 0,
                    \A j \in first..last : /\ a[j+1] * b[i-j+1] \in Int /\ m[j+1] * n[i-j+1] \in Int
                                           /\ f[j] = a[j+1] * b[i-j+1] + m[j+1] * n[i-j+1]
             PROVE  ColumnProducts(a, b, n, m, i, first, last) = SumTo(f, last + 1)
  BY DEF ProductTerms
<1> DEFINE Term(s, j) == IF j = first - 1 THEN 0 ELSE s[j-1] + a[j+1] * b[i-j+1] + m[j+1] * n[i-j+1]
           Is(s) == s = [j \in first-1..last |-> Term(s, j)]
           w == CHOOSE s : Is(s)
           g == [j \in first-1..last |-> SumTo(f, j + 1)]
<1>1. Is(g)
  <2>1. ASSUME NEW j \in first-1..last PROVE g[j] = Term(g, j)
    <3>1. CASE j = first - 1
      <4>1. j + 1 = first
        BY <3>1
      <4>2. SumTo(f, first) = 0
        BY SumToNone
      <4> QED BY <3>1, <4>1, <4>2
    <3>2. CASE j # first - 1
      <4>1. j \in Nat /\ j - 1 \in first-1..last /\ (j - 1) + 1 = j
        BY <3>2
      <4>2. SumTo(f, j + 1) = SumTo(f, j) + f[j] /\ SumTo(f, j) \in Int
        BY <4>1, SumToLaws
      <4>3. g[j] = SumTo(f, j + 1) /\ g[j-1] = SumTo(f, j)
        BY <4>1
      <4>4. PICK x \in Int, y \in Int : x = a[j+1] * b[i-j+1] /\ y = m[j+1] * n[i-j+1] /\ f[j] = x + y
        <5>1. j \in first..last
          BY <3>2
        <5> QED BY <5>1
      <4> HIDE DEF g
      <4>5. g[j] = g[j-1] + x + y
        BY <4>2, <4>3, <4>4
      <4> QED BY <3>2, <4>4, <4>5
    <3> QED BY <3>1, <3>2
  <2> HIDE DEF g
  <2>2. g = [j \in first-1..last |-> g[j]]
    BY DEF g
  <2> QED BY <2>1, <2>2
<1>2. Is(w)
  BY <1>1
<1> HIDE DEF w, g
<1>3. \A j \in first-1..last : w[j] = Term(w, j)
  BY <1>2
<1>4. \A j \in first-1..last : g[j] = Term(g, j)
  BY <1>1
<1> DEFINE gap == last - (first - 1)
           T == {d \in 0..gap : w[first - 1 + d] = g[first - 1 + d]}
<1>5. gap \in Nat
  OBVIOUS
<1>6. 0 \in T
  <2>1. first - 1 \in first-1..last /\ first - 1 + 0 = first - 1
    OBVIOUS
  <2>2. w[first - 1] = 0 /\ g[first - 1] = 0
    BY <1>3, <1>4, <2>1
  <2> QED BY <1>5, <2>1, <2>2
<1>7. ASSUME NEW d \in 1..gap, d - 1 \in T PROVE d \in T
  <2>1. PICK j \in Int : j = first - 1 + d /\ j \in first-1..last /\ j # first - 1 /\ j - 1 = first - 1 + (d - 1)
    OBVIOUS
  <2>2. w[j-1] = g[j-1]
    BY <1>7, <2>1
  <2>3. w[j] = Term(w, j) /\ g[j] = Term(g, j)
    BY <1>3, <1>4, <2>1
  <2>4. w[j] = g[j]
    BY <2>2, <2>3, Zenon
  <2> QED BY <2>1, <2>4
<1>8. \A d \in 0..gap : d \in T
  <2> HIDE DEF T, gap
  <2> QED BY <1>5, <1>6, <1>7, UpTo
<1>9. w[last] = g[last]
  <2>1. gap \in 0..gap /\ first - 1 + gap = last
    OBVIOUS
  <2> QED BY <1>8, <2>1
<1>10. g[last] = SumTo(f, last + 1)
  BY DEF g
<1>11. ColumnProducts(a, b, n, m, i, first, last) = w[last]
  BY Zenon DEF ColumnProducts, w
<1> QED BY <1>9, <1>10, <1>11

(* The words of a big integer, and zeros beyond.                           *)
WordsOf(x) == [j \in Int |-> IF j \in 0..Len(x)-1 THEN x[j+1] ELSE 0]

(* The words of a big integer by place, with zeros outside it.             *)
LEMMA WordsOfBig ==
  ASSUME NEW n \in Nat, NEW x \in Bigs(n)
  PROVE  /\ WordsOf(x) \in WordPlaces
         /\ \A j \in Int : /\ WordsOf(x)[j] = IF j \in 0..n-1 THEN x[j+1] ELSE 0
                           /\ WordsOf(x)[j] \in 0..Base-1
<1>1. Len(x) = n /\ (\A i \in 1..n : x[i] \in Word) /\ 0 \in Word /\ Word = 0..Base-1 /\ Base \in Nat
  BY BigWords, BaseFacts DEF Word
<1>2. ASSUME NEW j \in Int PROVE /\ WordsOf(x)[j] = IF j \in 0..n-1 THEN x[j+1] ELSE 0
                                /\ WordsOf(x)[j] \in 0..Base-1
  <2>1. WordsOf(x)[j] = IF j \in 0..n-1 THEN x[j+1] ELSE 0
    BY <1>1 DEF WordsOf
  <2>2. j \in 0..n-1 => j + 1 \in 1..n
    OBVIOUS
  <2> QED BY <1>1, <2>1, <2>2
<1>3. \A j \in Int : WordsOf(x)[j] \in Nat
  BY <1>1, <1>2
<1>4. \A j \in Int : j < 0 => WordsOf(x)[j] = 0
  BY <1>2
<1>5. WordsOf(x) = [j \in Int |-> WordsOf(x)[j]]
  BY DEF WordsOf
<1> QED BY <1>2, <1>3, <1>4, <1>5 DEF WordPlaces

(* All places together are the value.                                      *)
LEMMA LowestOfBig ==
  ASSUME NEW n \in Nat, NEW x \in Bigs(n), NEW k \in Nat, k >= n
  PROVE  Lowest(WordsOf(x), k) = Value(x)
<1> DEFINE w == WordsOf(x)
           T == {i \in 0..n : Lowest(w, i) = Value(SubSeq(x, 1, i))}
<1>1. w \in WordPlaces /\ \A j \in Int : w[j] = IF j \in 0..n-1 THEN x[j+1] ELSE 0
  BY WordsOfBig
<1> HIDE DEF w
<1>2. 0 \in T
  <2>1. Lowest(w, 0) = 0
    BY <1>1, LowestLaws, 0 \in Int
  <2>2. SubSeq(x, 1, 0) \in Bigs(0)
    BY CutValue, 0 \in 0..n
  <2>3. Value(SubSeq(x, 1, 0)) = 0
    <3>1. Value(SubSeq(x, 1, 0)) \in Nat /\ Value(SubSeq(x, 1, 0)) < PowerOf(Base, 0)
      BY <2>2, ValueIsNat, ValueBound, 0 \in Nat
    <3>2. PowerOf(Base, 0) = 1
      BY PowerLaws, BaseFacts
    <3> QED BY <3>1, <3>2
  <2> QED BY <2>1, <2>3
<1>3. ASSUME NEW i \in 1..n, i - 1 \in T PROVE i \in T
  <2>1. PICK j \in Nat : j = i - 1 /\ j + 1 = i /\ j \in 0..n-1
    <3>1. i - 1 \in Nat /\ (i - 1) + 1 = i /\ i - 1 \in 0..n-1
      OBVIOUS
    <3> QED BY <3>1
  <2>2. Lowest(w, j + 1) = Lowest(w, j) + x[i] * PowerOf(Base, j)
    <3>1. w[j] = x[i]
      BY <1>1, <2>1
    <3>2. j \in Int /\ j >= 0
      OBVIOUS
    <3> QED BY <1>1, <3>1, <3>2, LowestLaws
  <2>3. Value(SubSeq(x, 1, i)) = Value(SubSeq(x, 1, j)) + PowerOf(Base, j) * x[i]
    <3>1. SubSeq(x, 1, i) = SubSeq(x, 1, j) \o <<x[i]>>
      <4>1. x \in Seq(Word) /\ Len(x) = n
        BY DEF Bigs
      <4>2. SubSeq(x, 1, j + 1) = Append(SubSeq(x, 1, j), x[j + 1])
        BY <2>1, <4>1
      <4>3. SubSeq(x, 1, j) \in Seq(Word) /\ x[i] \in Word
        BY <2>1, <4>1
      <4>4. Append(SubSeq(x, 1, j), x[i]) = SubSeq(x, 1, j) \o <<x[i]>>
        BY <4>3
      <4> QED BY <2>1, <4>2, <4>4
    <3>2. SubSeq(x, 1, j) \in Bigs(j)
      BY <2>1, CutValue
    <3>3. x[i] \in Word
      BY BigWords
    <3>4. <<x[i]>> \in Bigs(1) /\ Value(<<x[i]>>) = x[i]
      BY <3>3, OneWord
    <3>5. Value(SubSeq(x, 1, j) \o <<x[i]>>) = Value(SubSeq(x, 1, j)) + PowerOf(Base, j) * Value(<<x[i]>>)
      BY <3>2, <3>4, ValueConcat, 1 \in Nat
    <3> QED BY <3>1, <3>4, <3>5, Zenon
  <2>4. PICK a \in Nat, P \in Nat : a = x[i] /\ P = PowerOf(Base, j) /\ a * P = P * a
    <3>1. x[i] \in Nat /\ PowerOf(Base, j) \in Nat
      BY BigWords, PowerNat
    <3> QED BY <3>1
  <2>5. Lowest(w, j) = Value(SubSeq(x, 1, j))
    BY <1>3, <2>1
  <2>6. Lowest(w, i) = Value(SubSeq(x, 1, i))
    BY <2>1, <2>2, <2>3, <2>4, <2>5, Zenon
  <2> QED BY <2>6
<1>4. Lowest(w, n) = Value(x)
  <2> HIDE DEF T
  <2>1. \A i \in 0..n : i \in T
    BY <1>2, <1>3, UpTo
  <2>2. n \in T
    BY <2>1
  <2>3. SubSeq(x, 1, n) = x
    <3>1. x \in Seq(Word) /\ Len(x) = n
      BY DEF Bigs
    <3> QED BY <3>1
  <2> QED BY <2>2, <2>3 DEF T
<1> DEFINE S == {i \in Nat : Lowest(w, n + i) = Value(x)}
<1>5. 0 \in S
  <2>1. n + 0 = n
    OBVIOUS
  <2> QED BY <1>4, <2>1
<1>6. ASSUME NEW i \in S PROVE i + 1 \in S
  <2>1. PICK j \in Int : j = n + i /\ j + 1 = n + (i + 1) /\ j >= 0 /\ j >= n
    OBVIOUS
  <2>2. w[j] = 0
    BY <1>1, <2>1
  <2>3. Lowest(w, j + 1) = Lowest(w, j) + 0 * PowerOf(Base, j) /\ Lowest(w, j) \in Int
    BY <1>1, <2>1, <2>2, LowestLaws
  <2>4. 0 * PowerOf(Base, j) = 0
    BY <2>1, PowerNat
  <2> QED BY <1>6, <2>1, <2>3, <2>4
<1>7. S = Nat
  <2> HIDE DEF S
  <2>1. S \in SUBSET Nat
    BY DEF S
  <2> QED BY <1>5, <1>6, <2>1, Induct
<1>8. PICK d \in Nat : n + d = k
  <2>1. k - n \in Nat /\ n + (k - n) = k
    OBVIOUS
  <2> QED BY <2>1
<1>9. d \in S
  BY <1>7
<1> QED BY <1>8, <1>9 DEF w

(* The lowest words depend on these words only.                            *)
LEMMA LowestSame ==
  ASSUME NEW x \in WordPlaces, NEW z \in WordPlaces, NEW k \in Nat, \A j \in 0..k-1 : x[j] = z[j]
  PROVE  Lowest(x, k) = Lowest(z, k)
<1> DEFINE T == {i \in 0..k : Lowest(x, i) = Lowest(z, i)}
<1>1. 0 \in T
  BY LowestLaws, 0 \in Int, 0 <= 0
<1>2. ASSUME NEW i \in 1..k, i - 1 \in T PROVE i \in T
  <2>1. PICK j \in Int : j = i - 1 /\ j + 1 = i /\ j \in 0..k-1 /\ j >= 0
    OBVIOUS
  <2>2. /\ Lowest(x, j + 1) = Lowest(x, j) + x[j] * PowerOf(Base, j)
        /\ Lowest(z, j + 1) = Lowest(z, j) + z[j] * PowerOf(Base, j)
    BY <2>1, LowestLaws
  <2>3. x[j] = z[j] /\ Lowest(x, j) = Lowest(z, j)
    BY <1>2, <2>1
  <2>4. Lowest(x, i) = Lowest(z, i)
    BY <2>1, <2>2, <2>3, Zenon
  <2> QED BY <2>4
<1> HIDE DEF T
<1>3. \A i \in 0..k : i \in T
  BY <1>1, <1>2, UpTo
<1>4. k \in T
  BY <1>3
<1> QED BY <1>4 DEF T

(* Only the words below i play a part in the columns below i.              *)
LEMMA RowsSame ==
  ASSUME NEW x \in WordPlaces, NEW z \in WordPlaces, NEW y \in WordPlaces, NEW i \in Int, NEW J \in Nat,
         \A j \in Nat : j < i => x[j] = z[j]
  PROVE  Rows(x, y, i, J) = Rows(z, y, i, J)
<1> DEFINE f == [j \in Nat |-> (x[j] * PowerOf(Base, j)) * Lowest(y, i - j)]
           g == [j \in Nat |-> (z[j] * PowerOf(Base, j)) * Lowest(y, i - j)]
<1>1. f \in Numbers0 /\ g \in Numbers0
  BY RowAndColumnTerms
<1>2. ASSUME NEW j \in 0..J-1 PROVE f[j] = g[j]
  <2>1. j \in Nat
    OBVIOUS
  <2>2. CASE j < i
    BY <1>2, <2>1, <2>2
  <2>3. CASE ~ (j < i)
    <3>1. Lowest(y, i - j) = 0
      <4>1. i - j \in Int /\ i - j <= 0
        BY <2>1, <2>3
      <4> QED BY <4>1, LowestLaws
    <3>2. x[j] \in Nat /\ z[j] \in Nat /\ PowerOf(Base, j) \in Nat
      <4>1. j \in Int
        OBVIOUS
      <4> QED BY <2>1, <4>1, PowerNat DEF WordPlaces
    <3>3. (x[j] * PowerOf(Base, j)) * 0 = 0 /\ (z[j] * PowerOf(Base, j)) * 0 = 0
      BY <3>2
    <3> QED BY <2>1, <3>1, <3>3
  <2> QED BY <2>2, <2>3
<1>3. Rows(x, y, i, J) = SumTo(f, J) /\ Rows(z, y, i, J) = SumTo(g, J)
  BY Zenon DEF Rows
<1> HIDE DEF f, g
<1> QED BY <1>1, <1>2, <1>3, SumToSame

(* Above the diagonal a column has no products.                            *)
LEMMA ColumnCut ==
  ASSUME NEW x \in WordPlaces, NEW y \in WordPlaces, NEW i \in Nat, NEW J \in Nat, i < J
  PROVE  Column(x, y, i, J) = Column(x, y, i, i + 1)
<1> DEFINE f == [j \in Nat |-> x[j] * y[i-j]]
<1>1. f \in Numbers0
  BY RowAndColumnTerms, i \in Int
<1>2. ASSUME NEW j \in Nat, j >= i + 1 PROVE f[j] = 0
  <2>1. y[i-j] = 0
    <3>1. i - j \in Int /\ i - j < 0
      BY <1>2
    <3> QED BY <3>1 DEF WordPlaces
  <2>2. x[j] \in Nat
    <3>1. j \in Int
      OBVIOUS
    <3> QED BY <3>1 DEF WordPlaces
  <2> QED BY <2>1, <2>2
<1>3. \A k : Column(x, y, i, k) = SumTo(f, k)
  BY Zenon DEF Column
<1> HIDE DEF f
<1>4. PICK n \in Nat, d \in Nat : n = i + 1 /\ n + d = J
  <2>1. i + 1 \in Nat /\ J - (i + 1) \in Nat /\ (i + 1) + (J - (i + 1)) = J
    OBVIOUS
  <2> QED BY <2>1
<1>5. SumTo(f, n + d) = SumTo(f, n)
  BY <1>1, <1>2, <1>4, SumToLonger
<1> QED BY <1>3, <1>4, <1>5

(* A column of J products is at most J times the square of the highest     *)
(* word.                                                                   *)
LEMMA ColumnBound ==
  ASSUME NEW x \in WordPlaces, NEW y \in WordPlaces, \A j \in Int : x[j] \in 0..Base-1 /\ y[j] \in 0..Base-1,
         NEW i \in Int, NEW J \in Nat
  PROVE  Column(x, y, i, J) \in Nat /\ Column(x, y, i, J) <= J * ((Base - 1) * (Base - 1))
<1>0. PICK b \in Nat, m \in Nat : b = Base - 1 /\ m = b * b
  <2>1. Base - 1 \in Nat
    BY BaseFacts
  <2> QED BY <2>1
<1> DEFINE S == {k \in Nat : Column(x, y, i, k) \in Nat /\ Column(x, y, i, k) <= k * m}
<1>1. 0 \in S
  <2>1. Column(x, y, i, 0) = 0
    BY RowsLaws, 0 \in Nat
  <2> QED BY <2>1
<1>2. ASSUME NEW k \in S PROVE k + 1 \in S
  <2>1. Column(x, y, i, k + 1) = Column(x, y, i, k) + x[k] * y[i-k]
    BY RowsLaws
  <2>2. PICK u \in 0..b, v \in 0..b : u = x[k] /\ v = y[i-k]
    <3>1. k \in Int /\ i - k \in Int
      OBVIOUS
    <3> QED BY <1>0, <3>1
  <2>3. u * v \in Nat /\ u * v <= m
    <3>1. u * v >= 0 /\ u * (b - v) >= 0 /\ (b - u) * b >= 0 /\ u * (b - v) = u * b - u * v /\ (b - u) * b = b * b - u * b
      OBVIOUS
    <3>2. PICK c \in Int, d \in Int : c = u * v /\ d = u * b
      OBVIOUS
    <3> QED BY <1>0, <3>1, <3>2
  <2>4. (k + 1) * m = k * m + m
    OBVIOUS
  <2>5. PICK c \in Nat, d \in Int, e \in Nat : c = Column(x, y, i, k) /\ d = k * m /\ e = u * v /\ c <= d /\ e <= m
    BY <1>2, <2>3
  <2>6. c + e \in Nat /\ c + e <= (k + 1) * m
    BY <2>4, <2>5
  <2>7. Column(x, y, i, k + 1) = c + e
    BY <2>1, <2>2, <2>5
  <2> QED BY <2>6, <2>7
<1>3. S = Nat
  <2> HIDE DEF S
  <2>1. S \in SUBSET Nat
    BY DEF S
  <2> QED BY <1>1, <1>2, <2>1, Induct
<1> QED BY <1>0, <1>3

(* Two columns and what was carried into them fit three words.             *)
ColumnsFit == 2 * BI_WORDS <= Base

(* Two columns and a carry fit the three words of the accumulator, and the *)
(* carry keeps its bound.                                                  *)
LEMMA ColumnFits ==
  ASSUME ColumnsFit, NEW t \in Nat, t <= 2 * (BI_WORDS * Base),
         NEW c \in Nat, c <= BI_WORDS * ((Base - 1) * (Base - 1)),
         NEW d \in Nat, d <= BI_WORDS * ((Base - 1) * (Base - 1))
  PROVE  /\ PowerOf(Base, 3) \in Nat /\ t + c + d < PowerOf(Base, 3)
         /\ \A q \in Nat : Base * q <= t + c + d => q <= 2 * (BI_WORDS * Base)
<1>1. PICK n \in Nat, B \in Nat : n = BI_WORDS /\ B = Base /\ B > 1 /\ n > 0 /\ 2 * n <= B
  BY BaseFacts, WordsAssumption DEF ColumnsFit
<1>2. PowerOf(B, 3) = B * (B * B)
  <2>1. PowerOf(B, 0) = 1 /\ PowerOf(B, 0 + 1) = B * PowerOf(B, 0)
    BY PowerLaws
  <2>2. PowerOf(B, 1 + 1) = B * PowerOf(B, 1) /\ PowerOf(B, 2 + 1) = B * PowerOf(B, 2)
    BY PowerLaws, 1 \in Nat, 2 \in Nat
  <2>3. 0 + 1 = 1 /\ 1 + 1 = 2 /\ 2 + 1 = 3
    OBVIOUS
  <2>4. B * 1 = B
    OBVIOUS
  <2> QED BY <2>1, <2>2, <2>3, <2>4
<1>3. PICK nB \in Nat, nBB \in Nat : nB = n * B /\ nBB = n * (B * B)
  OBVIOUS
<1>4. n * ((B - 1) * (B - 1)) = nBB - 2 * nB + n
  <2>1. n * ((B - 1) * (B - 1)) = n * (B * B) - 2 * (n * B) + n
    OBVIOUS
  <2> QED BY <1>3, <2>1
<1>5. t <= 2 * nB /\ c <= nBB - 2 * nB + n /\ d <= nBB - 2 * nB + n
  BY <1>1, <1>3, <1>4
<1>6. n < nB
  <2>1. n * (B - 2) >= 0 /\ n * (B - 2) = n * B - 2 * n
    BY <1>1
  <2> QED BY <1>1, <1>3, <2>1
<1>7. t + c + d < 2 * nBB
  BY <1>5, <1>6
<1>8. PICK B3 \in Nat : B3 = B * (B * B) /\ 2 * nBB <= B3
  <2>1. (B - 2 * n) * (B * B) >= 0 /\ (B - 2 * n) * (B * B) = B * (B * B) - 2 * (n * (B * B))
    <3>1. PICK e \in Nat, f \in Nat : e = B - 2 * n /\ f = B * B
      BY <1>1
    <3>2. e * f >= 0
      OBVIOUS
    <3>3. (B - 2 * n) * (B * B) = B * (B * B) - 2 * (n * (B * B))
      OBVIOUS
    <3> QED BY <3>1, <3>2, <3>3
  <2>2. PICK u \in Nat : u = B * (B * B)
    OBVIOUS
  <2> QED BY <1>3, <2>1, <2>2
<1>9. ASSUME NEW q \in Nat, B * q <= t + c + d PROVE q <= 2 * nB
  <2>1. SUFFICES ASSUME q > 2 * nB PROVE FALSE
    OBVIOUS
  <2>2. B * (q - 2 * nB) >= 0 /\ B * (q - 2 * nB) = B * q - 2 * (B * nB)
    BY <2>1
  <2>3. B * nB = nBB
    <3>1. B * (n * B) = n * (B * B)
      OBVIOUS
    <3> QED BY <1>3, <3>1
  <2>4. PICK u \in Int : u = B * q
    OBVIOUS
  <2> QED BY <1>7, <1>9, <2>2, <2>3, <2>4
<1> QED BY <1>1, <1>2, <1>3, <1>7, <1>8, <1>9

-----------------------------------------------------------------------------
(* What fp_mul_monty_fips does with a low and with a high column.          *)
LowColumn(a, b, n, n0, s, i) ==
  LET t == s.t + ColumnProducts(a, b, n, s.m, i, 0, i - 1) + a[i+1] * b[1]
      m == (t * n0) % Base
  IN [t |-> ((t + m * n[1]) % PowerOf(Base, 3)) \div Base, m |-> Append(s.m, m)]
HighColumn(a, b, n, s, i) ==
  LET t == (s.t + ColumnProducts(a, b, n, s.m, i, i - BI_WORDS + 1, BI_WORDS - 1)) % PowerOf(Base, 3) IN
  [t |-> t \div Base, m |-> [s.m EXCEPT ![i - BI_WORDS + 1] = t % Base]]

(* One word more of the result.                                            *)
LEMMA WordAppended ==
  ASSUME NEW i \in Nat, NEW m \in Bigs(i), NEW e \in Word
  PROVE  Append(m, e) \in Bigs(i + 1) /\ Append(m, e)[i+1] = e /\ \A j \in 1..i : Append(m, e)[j] = m[j]
<1>1. m \in [1..i -> Word]
  BY DEF Bigs
<1>2. m \in Seq(Word) /\ Len(m) = i
  <2> HIDE DEF Word
  <2> QED BY <1>1
<1>3. Append(m, e) \in Seq(Word) /\ Len(Append(m, e)) = i + 1 /\ Append(m, e)[i+1] = e
  BY <1>2
<1>4. \A j \in 1..i : Append(m, e)[j] = m[j]
  BY <1>2
<1>5. Append(m, e) \in [1..i+1 -> Word]
  <2> DEFINE t == Append(m, e)
  <2>1. t \in Seq(Word) /\ Len(t) = i + 1
    BY <1>3
  <2> HIDE DEF t
  <2>2. t \in [1..Len(t) -> Word]
    BY <2>1
  <2>3. t \in [1..i+1 -> Word]
    BY <2>1, <2>2
  <2> QED BY <2>3 DEF t
<1> QED BY <1>3, <1>4, <1>5 DEF Bigs

(* The word m that fp_mul_monty_fips chooses makes the lowest word zero.   *)
ChosenDigit(B, n0, p, d, y, t, m) ==
  /\ B \in Nat /\ B > 0 /\ n0 \in Nat /\ p \in Nat /\ (n0 * p + 1) % B = 0
  /\ d \in Nat /\ y \in Int /\ p = d + B * y /\ t \in Nat /\ m \in Nat /\ m = (t * n0) % B
IsMultipleOf(x, B) == \E k \in Int : x = B * k

(* The digit is chosen so that it cancels the lowest word.                 *)
LEMMA DigitCancels ==
  ASSUME NEW B, NEW n0, NEW p, NEW d, NEW y, NEW t, NEW m, ChosenDigit(B, n0, p, d, y, t, m)
  PROVE  IsMultipleOf(t + m * d, B)
<1> SUFFICES ASSUME B \in Nat, B > 0, n0 \in Nat, p \in Nat, (n0 * p + 1) % B = 0,
                    d \in Nat, y \in Int, p = d + B * y, t \in Nat, m \in Nat, m = (t * n0) % B
             PROVE  \E k \in Int : t + m * d = B * k
  BY DEF ChosenDigit, IsMultipleOf
<1>1. PICK j \in Int : n0 * p + 1 = B * j
  <2>1. PICK u \in Int : u = n0 * p + 1 /\ u % B = 0
    OBVIOUS
  <2>2. u = B * (u \div B) + (u % B) /\ u \div B \in Int
    OBVIOUS
  <2>3. PICK q \in Int : q = u \div B /\ u = B * q
    BY <2>1, <2>2
  <2> QED BY <2>1, <2>3
<1>2. PICK l \in Int : t * n0 = B * l + m
  <2>1. PICK u \in Int : u = t * n0
    OBVIOUS
  <2>2. u = B * (u \div B) + (u % B) /\ u \div B \in Int
    OBVIOUS
  <2>3. u % B = m
    BY <2>1
  <2>4. PICK q \in Int : q = u \div B /\ u = B * q + m
    BY <2>2, <2>3
  <2> QED BY <2>1, <2>4
<1>3. m * d = m * p - B * (m * y)
  <2>1. m * (p - B * y) = m * p - B * (m * y)
    OBVIOUS
  <2>2. d = p - B * y
    OBVIOUS
  <2> QED BY <2>1, <2>2
<1>4. m * p = t * (n0 * p) - B * (l * p)
  <2>1. (t * n0 - B * l) * p = t * (n0 * p) - B * (l * p)
    OBVIOUS
  <2>2. m = t * n0 - B * l
    BY <1>2
  <2> QED BY <2>1, <2>2
<1>5. t * (n0 * p) = B * (t * j) - t
  <2>1. t * (B * j - 1) = B * (t * j) - t
    OBVIOUS
  <2>2. n0 * p = B * j - 1
    BY <1>1
  <2> QED BY <2>1, <2>2
<1>6. B * (t * j - l * p - m * y) = B * (t * j) - B * (l * p) - B * (m * y)
  OBVIOUS
<1>7. PICK q1 \in Int, q2 \in Int, q3 \in Int, q4 \in Int, q5 \in Int :
        q1 = B * (t * j) /\ q2 = B * (l * p) /\ q3 = B * (m * y) /\ q4 = m * d /\ q5 = m * p
  OBVIOUS
<1>8. q4 = q5 - q3 /\ q5 = (q1 - t) - q2
  BY <1>3, <1>4, <1>5, <1>7
<1>9. t + q4 = q1 - q2 - q3
  BY <1>8
<1>10. t + m * d = B * (t * j - l * p - m * y) /\ t * j - l * p - m * y \in Int
  BY <1>6, <1>7, <1>9
<1> QED BY <1>10

(* What the code adds up is the column of both products.                   *)
LEMMA LowColumnSum ==
  ASSUME NEW a \in Elements, NEW b \in Elements, NEW n \in Elements,
         NEW i \in Nat, i < BI_WORDS, NEW m \in Bigs(i), NEW e \in Word
  PROVE  LET s == ColumnProducts(a, b, n, m, i, 0, i - 1) IN
         /\ s \in Int
         /\ s + a[i+1] * b[1] + e * n[1] = Column(WordsOf(a), WordsOf(b), i, BI_WORDS)
                                             + Column(WordsOf(Append(m, e)), WordsOf(n), i, BI_WORDS)
<1>1. PICK N \in Nat : N = BI_WORDS /\ i < N /\ a \in Bigs(N) /\ b \in Bigs(N) /\ n \in Bigs(N)
  BY BigFacts DEF Elements
<1>2. PICK m2 : m2 = Append(m, e) /\ m2 \in Bigs(i + 1) /\ m2[i+1] = e /\ \A j \in 1..i : m2[j] = m[j]
  <2>1. Append(m, e) \in Bigs(i + 1) /\ Append(m, e)[i+1] = e /\ \A j \in 1..i : Append(m, e)[j] = m[j]
    BY WordAppended, Zenon
  <2> QED BY <2>1, Zenon
<1>3. PICK x \in WordPlaces, y \in WordPlaces, z \in WordPlaces, z2 \in WordPlaces, w \in WordPlaces :
        /\ x = WordsOf(a) /\ y = WordsOf(b) /\ z = WordsOf(m) /\ z2 = WordsOf(m2) /\ w = WordsOf(n)
  BY <1>1, <1>2, WordsOfBig, i + 1 \in Nat
<1>4. \A j \in Int : /\ x[j] = IF j \in 0..N-1 THEN a[j+1] ELSE 0
                     /\ y[j] = IF j \in 0..N-1 THEN b[j+1] ELSE 0
                     /\ w[j] = IF j \in 0..N-1 THEN n[j+1] ELSE 0
  BY <1>1, <1>3, WordsOfBig
<1>5. \A j \in Int : z[j] = IF j \in 0..i-1 THEN m[j+1] ELSE 0
  <2>1. \A j \in Int : WordsOf(m)[j] = IF j \in 0..i-1 THEN m[j+1] ELSE 0
    BY WordsOfBig, Zenon
  <2> QED BY <1>3, <2>1, Zenon
<1>6. \A j \in Int : z2[j] = IF j \in 0..i THEN m2[j+1] ELSE 0
  <2>1. PICK k \in Nat : k = i + 1 /\ k - 1 = i
    OBVIOUS
  <2>2. m2 \in Bigs(k)
    BY <1>2, <2>1
  <2>3. \A j \in Int : WordsOf(m2)[j] = IF j \in 0..k-1 THEN m2[j+1] ELSE 0
    BY <2>2, WordsOfBig, Zenon
  <2> QED BY <1>3, <2>1, <2>3, Zenon
<1>7. z2[i] = e /\ \A j \in 0..i-1 : z2[j] = z[j]
  <2>1. i \in Int /\ i \in 0..i
    OBVIOUS
  <2>2. z2[i] = e
    BY <1>2, <1>6, <2>1
  <2>3. ASSUME NEW j \in 0..i-1 PROVE z2[j] = z[j]
    <3>1. j \in Int /\ j \in 0..i /\ j + 1 \in 1..i
      OBVIOUS
    <3>2. z2[j] = m2[j+1] /\ z[j] = m[j+1]
      BY <1>5, <1>6, <3>1
    <3> QED BY <1>2, <3>1, <3>2
  <2> QED BY <2>2, <2>3
<1>8. x[i] = a[i+1] /\ y[0] = b[1] /\ w[0] = n[1]
  BY <1>1, <1>4
<1>9. \A j \in Int : x[j] \in Nat /\ y[j] \in Nat /\ z[j] \in Nat /\ z2[j] \in Nat /\ w[j] \in Nat
  BY DEF WordPlaces
<1> DEFINE f == [j \in Nat |-> x[j] * y[i-j]]
           g == [j \in Nat |-> z[j] * w[i-j]]
           g2 == [j \in Nat |-> z2[j] * w[i-j]]
           h == [j \in Nat |-> x[j] * y[i-j] + z[j] * w[i-j]]
<1>10. f \in Numbers0 /\ g \in Numbers0 /\ g2 \in Numbers0 /\ h \in Numbers0
  <2>1. f \in Numbers0 /\ g \in Numbers0 /\ g2 \in Numbers0
    BY RowAndColumnTerms, i \in Int
  <2>2. ASSUME NEW j \in Nat PROVE x[j] * y[i-j] + z[j] * w[i-j] \in Int
    <3>1. j \in Int /\ i - j \in Int
      OBVIOUS
    <3>2. x[j] \in Nat /\ y[i-j] \in Nat /\ z[j] \in Nat /\ w[i-j] \in Nat
      BY <1>9, <3>1
    <3> QED BY <3>2
  <2> QED BY <2>1, <2>2 DEF Numbers0
<1>11. \A j \in Nat : h[j] = f[j] + g[j]
  OBVIOUS
<1>12. \A j \in 0..i-1 : /\ a[j+1] * b[i-j+1] \in Int /\ m[j+1] * n[i-j+1] \in Int
                         /\ h[j] = a[j+1] * b[i-j+1] + m[j+1] * n[i-j+1]
  <2>1. ASSUME NEW j \in 0..i-1 PROVE x[j] = a[j+1] /\ y[i-j] = b[i-j+1] /\ z[j] = m[j+1] /\ w[i-j] = n[i-j+1]
    BY <1>1, <1>4, <1>5
  <2>2. ASSUME NEW j \in 0..i-1 PROVE x[j] * y[i-j] \in Int /\ z[j] * w[i-j] \in Int
    <3>1. j \in Int /\ i - j \in Int
      OBVIOUS
    <3>2. x[j] \in Nat /\ y[i-j] \in Nat /\ z[j] \in Nat /\ w[i-j] \in Nat
      BY <1>9, <3>1
    <3> QED BY <3>2
  <2>3. ASSUME NEW j \in 0..i-1 PROVE h[j] = x[j] * y[i-j] + z[j] * w[i-j]
    OBVIOUS
  <2> HIDE DEF h
  <2> QED BY <2>1, <2>2, <2>3, Zenon
<1>13. \A k : Column(x, y, i, k) = SumTo(f, k) /\ Column(z, w, i, k) = SumTo(g, k) /\ Column(z2, w, i, k) = SumTo(g2, k)
  BY Zenon DEF Column
<1>14. \A j \in 0..i-1 : g2[j] = g[j]
  BY <1>7
<1> HIDE DEF f, g, g2, h
<1>15. ColumnProducts(a, b, n, m, i, 0, i - 1) = SumTo(h, i)
  <2>1. PICK first \in Nat, last \in Int : first = 0 /\ last = i - 1 /\ last >= first - 1 /\ last + 1 = i
    OBVIOUS
  <2>2. \A j \in 0..first-1 : h[j] = 0
    BY <2>1
  <2>3. \A j \in first..last : /\ a[j+1] * b[i-j+1] \in Int /\ m[j+1] * n[i-j+1] \in Int
                               /\ h[j] = a[j+1] * b[i-j+1] + m[j+1] * n[i-j+1]
    BY <1>12, <2>1
  <2>4. first \in Nat /\ last >= first - 1 /\ h \in Numbers0
    BY <1>10, <2>1
  <2>5. ProductTerms(h, a, b, m, n, i, first, last)
    BY <2>1, <2>2, <2>3, <2>4 DEF ProductTerms
  <2>6. ColumnProducts(a, b, n, m, i, first, last) = SumTo(h, last + 1)
    BY <2>5, ProductsAre
  <2> QED BY <2>1, <2>6, Zenon
<1>16. SumTo(h, i) = SumTo(f, i) + SumTo(g, i)
  BY <1>10, <1>11, SumToAdd
<1>17. SumTo(g, i) = SumTo(g2, i)
  BY <1>10, <1>14, SumToSame
<1>18. /\ Column(x, y, i, N) = SumTo(f, i) + a[i+1] * b[1]
       /\ Column(z2, w, i, N) = SumTo(g2, i) + e * n[1]
  <2>1. /\ Column(x, y, i, N) = Column(x, y, i, i + 1)
        /\ Column(z2, w, i, N) = Column(z2, w, i, i + 1)
    BY <1>1, ColumnCut
  <2>2. i \in Int /\ i - i = 0
    OBVIOUS
  <2>3. /\ Column(x, y, i, i + 1) = Column(x, y, i, i) + x[i] * y[i-i]
        /\ Column(z2, w, i, i + 1) = Column(z2, w, i, i) + z2[i] * w[i-i]
    BY <2>2, RowsLaws
  <2> QED BY <1>7, <1>8, <1>13, <2>1, <2>2, <2>3, Zenon
<1>19. SumTo(f, i) \in Int /\ SumTo(g2, i) \in Int
  BY <1>10, SumToLaws
<1>20. a[i+1] * b[1] \in Int /\ e * n[1] \in Int
  <2>1. i \in Int /\ 0 \in Int
    OBVIOUS
  <2>2. x[i] \in Nat /\ y[0] \in Nat /\ z2[i] \in Nat /\ w[0] \in Nat
    BY <1>9, <2>1
  <2> QED BY <1>7, <1>8, <2>2
<1>21. PICK s \in Int, u \in Int, v \in Int, k \in Int, l \in Int :
         /\ s = ColumnProducts(a, b, n, m, i, 0, i - 1) /\ u = SumTo(f, i) /\ v = SumTo(g2, i)
         /\ k = a[i+1] * b[1] /\ l = e * n[1] /\ s = u + v
  BY <1>15, <1>16, <1>17, <1>19, <1>20
<1>22. s + k + l = (u + k) + (v + l)
  BY <1>21
<1> QED BY <1>1, <1>2, <1>3, <1>18, <1>21, <1>22

(* The sum of a high column; the words of m below the diagonal are gone.   *)
LEMMA HighColumnSum ==
  ASSUME NEW a \in Elements, NEW b \in Elements, NEW n \in Elements, NEW i \in Nat, i >= BI_WORDS, i < 2 * BI_WORDS,
         NEW m \in Elements, NEW m2 \in Elements, \A j \in i-BI_WORDS..BI_WORDS-1 : m[j+1] = m2[j+1]
  PROVE  ColumnProducts(a, b, n, m, i, i - BI_WORDS + 1, BI_WORDS - 1)
           = Column(WordsOf(a), WordsOf(b), i, BI_WORDS) + Column(WordsOf(m2), WordsOf(n), i, BI_WORDS)
<1>1. PICK N \in Nat : N = BI_WORDS /\ N <= i /\ i < 2 * N /\ a \in Bigs(N) /\ b \in Bigs(N) /\ n \in Bigs(N)
                       /\ m \in Bigs(N) /\ m2 \in Bigs(N)
  BY BigFacts DEF Elements
<1>2. PICK x \in WordPlaces, y \in WordPlaces, z \in WordPlaces, z2 \in WordPlaces, w \in WordPlaces :
        /\ x = WordsOf(a) /\ y = WordsOf(b) /\ z = WordsOf(m) /\ z2 = WordsOf(m2) /\ w = WordsOf(n)
  BY <1>1, WordsOfBig
<1>3. \A j \in Int : /\ x[j] = IF j \in 0..N-1 THEN a[j+1] ELSE 0
                     /\ y[j] = IF j \in 0..N-1 THEN b[j+1] ELSE 0
                     /\ z[j] = IF j \in 0..N-1 THEN m[j+1] ELSE 0
                     /\ z2[j] = IF j \in 0..N-1 THEN m2[j+1] ELSE 0
                     /\ w[j] = IF j \in 0..N-1 THEN n[j+1] ELSE 0
  BY <1>1, <1>2, WordsOfBig
<1>4. \A j \in Int : x[j] \in Nat /\ y[j] \in Nat /\ z[j] \in Nat /\ z2[j] \in Nat /\ w[j] \in Nat
  BY DEF WordPlaces
<1> DEFINE f == [j \in Nat |-> x[j] * y[i-j]]
           g == [j \in Nat |-> z2[j] * w[i-j]]
           h == [j \in Nat |-> x[j] * y[i-j] + z[j] * w[i-j]]
           h2 == [j \in Nat |-> x[j] * y[i-j] + z2[j] * w[i-j]]
<1>5. f \in Numbers0 /\ g \in Numbers0 /\ h \in Numbers0 /\ h2 \in Numbers0
  <2>1. f \in Numbers0 /\ g \in Numbers0
    BY RowAndColumnTerms, i \in Int
  <2>2. ASSUME NEW j \in Nat PROVE x[j] * y[i-j] + z[j] * w[i-j] \in Int /\ x[j] * y[i-j] + z2[j] * w[i-j] \in Int
    <3>1. j \in Int /\ i - j \in Int
      OBVIOUS
    <3>2. x[j] \in Nat /\ y[i-j] \in Nat /\ z[j] \in Nat /\ z2[j] \in Nat /\ w[i-j] \in Nat
      BY <1>4, <3>1
    <3> QED BY <3>2
  <2> QED BY <2>1, <2>2 DEF Numbers0
<1>6. \A j \in Nat : h2[j] = f[j] + g[j]
  OBVIOUS
<1>7. ASSUME NEW j \in 0..N-1 PROVE h[j] = h2[j] /\ (j <= i - N => h[j] = 0)
  <2>1. j \in Int /\ j \in Nat /\ i - j \in Int
    OBVIOUS
  <2>2. h[j] = x[j] * y[i-j] + z[j] * w[i-j] /\ h2[j] = x[j] * y[i-j] + z2[j] * w[i-j]
    BY <2>1
  <2>3. CASE j <= i - N
    <3>1. ~ (i - j \in 0..N-1)
      BY <1>1, <2>3
    <3>2. y[i-j] = 0 /\ w[i-j] = 0
      BY <1>3, <2>1, <3>1
    <3>3. PICK c \in Nat, d \in Nat, e \in Nat : c = x[j] /\ d = z[j] /\ e = z2[j]
      BY <1>4, <2>1
    <3>4. c * 0 + d * 0 = 0 /\ c * 0 + e * 0 = 0
      OBVIOUS
    <3>5. h[j] = c * 0 + d * 0 /\ h2[j] = c * 0 + e * 0
      BY <2>2, <3>2, <3>3, Zenon
    <3> QED BY <3>4, <3>5
  <2>4. CASE ~ (j <= i - N)
    <3>1. j \in i-BI_WORDS..BI_WORDS-1
      BY <1>1, <2>4
    <3>2. z[j] = m[j+1] /\ z2[j] = m2[j+1]
      BY <1>3, <2>1
    <3>3. z[j] = z2[j]
      BY <3>1, <3>2
    <3> QED BY <2>2, <2>4, <3>3
  <2> QED BY <2>3, <2>4
<1>8. \A j \in i-N+1..N-1 : /\ a[j+1] * b[i-j+1] \in Int /\ m[j+1] * n[i-j+1] \in Int
                           /\ h[j] = a[j+1] * b[i-j+1] + m[j+1] * n[i-j+1]
  <2>1. ASSUME NEW j \in i-N+1..N-1 PROVE x[j] = a[j+1] /\ y[i-j] = b[i-j+1] /\ z[j] = m[j+1] /\ w[i-j] = n[i-j+1]
    <3>1. j \in Int /\ i - j \in Int /\ j \in 0..N-1 /\ i - j \in 0..N-1
      BY <1>1
    <3> QED BY <1>3, <3>1
  <2>2. ASSUME NEW j \in i-N+1..N-1 PROVE x[j] * y[i-j] \in Int /\ z[j] * w[i-j] \in Int
    <3>1. j \in Int /\ i - j \in Int
      OBVIOUS
    <3>2. x[j] \in Nat /\ y[i-j] \in Nat /\ z[j] \in Nat /\ w[i-j] \in Nat
      BY <1>4, <3>1
    <3> QED BY <3>2
  <2>3. ASSUME NEW j \in i-N+1..N-1 PROVE h[j] = x[j] * y[i-j] + z[j] * w[i-j]
    <3>1. j \in Nat
      BY <1>1
    <3> QED BY <3>1
  <2> HIDE DEF h
  <2> QED BY <2>1, <2>2, <2>3, Zenon
<1>9. \A k : Column(x, y, i, k) = SumTo(f, k) /\ Column(z2, w, i, k) = SumTo(g, k)
  BY Zenon DEF Column
<1> HIDE DEF f, g, h, h2
<1>10. ColumnProducts(a, b, n, m, i, i - BI_WORDS + 1, BI_WORDS - 1) = SumTo(h, N)
  <2>1. PICK first \in Nat, last \in Int : first = i - N + 1 /\ last = N - 1 /\ last >= first - 1 /\ last + 1 = N
    <3>1. i - N + 1 \in Nat /\ N - 1 \in Int /\ N - 1 >= (i - N + 1) - 1 /\ (N - 1) + 1 = N
      BY <1>1
    <3> QED BY <3>1
  <2>2. \A j \in 0..first-1 : h[j] = 0
    <3>1. ASSUME NEW j \in 0..first-1 PROVE j \in 0..N-1 /\ j <= i - N
      BY <1>1, <2>1
    <3> QED BY <1>7, <3>1
  <2>3. \A j \in first..last : /\ a[j+1] * b[i-j+1] \in Int /\ m[j+1] * n[i-j+1] \in Int
                               /\ h[j] = a[j+1] * b[i-j+1] + m[j+1] * n[i-j+1]
    BY <1>8, <2>1
  <2>4. ProductTerms(h, a, b, m, n, i, first, last)
    BY <1>5, <2>1, <2>2, <2>3 DEF ProductTerms
  <2>5. ColumnProducts(a, b, n, m, i, first, last) = SumTo(h, last + 1)
    BY <2>4, ProductsAre
  <2> QED BY <1>1, <2>1, <2>5, Zenon
<1>11. SumTo(h, N) = SumTo(h2, N)
  BY <1>5, <1>7, SumToSame
<1>12. SumTo(h2, N) = SumTo(f, N) + SumTo(g, N)
  BY <1>5, <1>6, SumToAdd
<1> QED BY <1>1, <1>2, <1>9, <1>10, <1>11, <1>12, Zenon

(* What stands after i columns: the carried sum t times Base^i is what the *)
(* words below i contribute.                                               *)
Gathered(a, b, n, m, i) == Rows(WordsOf(a), WordsOf(b), i, BI_WORDS) + Rows(WordsOf(m), WordsOf(n), i, BI_WORDS)
LowState(s, i, a, b, n) ==
  /\ s.m \in Bigs(i) /\ s.t \in Nat /\ s.t <= 2 * (BI_WORDS * Base)
  /\ s.t * PowerOf(Base, i) = Gathered(a, b, n, s.m, i)
(* Above the diagonal the words of m2, the multiple of the modulus, make   *)
(* room for those of the result.                                           *)
HighState(s, i, a, b, n) ==
  /\ s.m \in Elements /\ s.t \in Nat /\ s.t <= 2 * (BI_WORDS * Base)
  /\ \E m2 \in Elements :
       /\ \A j \in i-BI_WORDS..BI_WORDS-1 : s.m[j+1] = m2[j+1]
       /\ s.t * PowerOf(Base, i) + R * Lowest(WordsOf(s.m), i - BI_WORDS) = Gathered(a, b, n, m2, i)

(* One more column.                                                        *)
LEMMA ColumnGathered ==
  ASSUME NEW la \in Nat, NEW a \in Bigs(la), NEW lb \in Nat, NEW b \in Bigs(lb),
         NEW ln \in Nat, NEW n \in Bigs(ln), NEW lm \in Nat, NEW m \in Bigs(lm), NEW i \in Nat
  PROVE  LET c == Column(WordsOf(a), WordsOf(b), i, BI_WORDS)
             d == Column(WordsOf(m), WordsOf(n), i, BI_WORDS)
         IN /\ c \in Nat /\ c <= BI_WORDS * ((Base - 1) * (Base - 1))
            /\ d \in Nat /\ d <= BI_WORDS * ((Base - 1) * (Base - 1))
            /\ Gathered(a, b, n, m, i) \in Int
            /\ Gathered(a, b, n, m, i + 1) = Gathered(a, b, n, m, i) + PowerOf(Base, i) * (c + d)
<1>1. PICK N \in Nat : N = BI_WORDS
  BY BigFacts
<1>2. PICK x \in WordPlaces, y \in WordPlaces, z \in WordPlaces, w \in WordPlaces :
        /\ x = WordsOf(a) /\ y = WordsOf(b) /\ z = WordsOf(m) /\ w = WordsOf(n)
  BY WordsOfBig
<1>3. \A j \in Int : x[j] \in 0..Base-1 /\ y[j] \in 0..Base-1 /\ z[j] \in 0..Base-1 /\ w[j] \in 0..Base-1
  BY <1>2, WordsOfBig
<1>4. /\ Column(x, y, i, N) \in Nat /\ Column(x, y, i, N) <= N * ((Base - 1) * (Base - 1))
      /\ Column(z, w, i, N) \in Nat /\ Column(z, w, i, N) <= N * ((Base - 1) * (Base - 1))
  BY <1>3, ColumnBound, i \in Int
<1>5. /\ Rows(x, y, i + 1, N) = Rows(x, y, i, N) + PowerOf(Base, i) * Column(x, y, i, N)
      /\ Rows(z, w, i + 1, N) = Rows(z, w, i, N) + PowerOf(Base, i) * Column(z, w, i, N)
  BY RowsGrow
<1>6. PICK c \in Nat, d \in Nat, q \in Nat, e \in Int, f \in Int :
        /\ c = Column(x, y, i, N) /\ d = Column(z, w, i, N) /\ q = PowerOf(Base, i)
        /\ e = Rows(x, y, i, N) /\ f = Rows(z, w, i, N)
  <2>1. PowerOf(Base, i) \in Nat
    BY PowerNat
  <2>2. Rows(x, y, i, N) \in Int /\ Rows(z, w, i, N) \in Int
    BY RowsLaws, i \in Int
  <2> QED BY <1>4, <2>1, <2>2
<1>7. (e + q * c) + (f + q * d) = (e + f) + q * (c + d)
  <2>1. q * (c + d) = q * c + q * d
    OBVIOUS
  <2>2. PICK u \in Int, v \in Int : u = q * c /\ v = q * d
    OBVIOUS
  <2> QED BY <2>1, <2>2
<1>8. Gathered(a, b, n, m, i) = e + f /\ Gathered(a, b, n, m, i + 1) = (e + q * c) + (f + q * d)
  BY <1>1, <1>2, <1>5, <1>6, Zenon DEF Gathered
<1>9. Gathered(a, b, n, m, i) \in Int
  BY <1>6, <1>8
<1> QED BY <1>1, <1>2, <1>4, <1>6, <1>7, <1>8, <1>9, Zenon

(* A turn of the first loop, which finds a digit.                          *)
LEMMA LowColumnStays ==
  ASSUME ColumnsFit, NEW a \in Elements, NEW b \in Elements, NEW n \in Elements,
         NEW n0 \in Nat, (n0 * Value(n) + 1) % Base = 0,
         NEW i \in Nat, i < BI_WORDS, NEW s, LowState(s, i, a, b, n)
  PROVE  LowState(LowColumn(a, b, n, n0, s, i), i + 1, a, b, n)
<1>1. PICK N \in Nat, B \in Nat : N = BI_WORDS /\ B = Base /\ B > 1 /\ i < N /\ 1 \in 1..N
                                  /\ a \in Bigs(N) /\ b \in Bigs(N) /\ n \in Bigs(N)
  <2>1. BI_WORDS \in Nat /\ Base \in Nat /\ Base > 1
    BY BigFacts, BaseFacts
  <2>2. 1 \in 1..BI_WORDS
    BY <2>1
  <2> QED BY <2>1, <2>2 DEF Elements
<1>2. PICK m \in Bigs(i), t0 \in Nat : m = s.m /\ t0 = s.t /\ t0 <= 2 * (BI_WORDS * Base)
                   /\ t0 * PowerOf(Base, i) = Gathered(a, b, n, m, i)
  BY Zenon DEF LowState
<1>3. a[i+1] \in Nat /\ b[1] \in Nat /\ n[1] \in Nat
  <2>1. i + 1 \in 1..N
    BY <1>1
  <2> QED BY <1>1, <2>1, BigWords
<1>4. PICK P \in Int, ab \in Nat : P = ColumnProducts(a, b, n, m, i, 0, i - 1) /\ ab = a[i+1] * b[1]
  <2>1. 0 \in Word
    BY BaseFacts DEF Word
  <2>2. ColumnProducts(a, b, n, m, i, 0, i - 1) \in Int
    BY <1>2, <2>1, LowColumnSum
  <2>3. a[i+1] * b[1] \in Nat
    BY <1>3
  <2> QED BY <2>2, <2>3
<1>5. PICK c \in Nat : c = Column(WordsOf(a), WordsOf(b), i, BI_WORDS) /\ c <= BI_WORDS * ((Base - 1) * (Base - 1))
  BY <1>1, <1>2, ColumnGathered
<1>6. ASSUME NEW e \in Word
      PROVE  \E d \in Nat : /\ d <= BI_WORDS * ((Base - 1) * (Base - 1))
                            /\ P + ab + e * n[1] = c + d
                            /\ Gathered(a, b, n, Append(m, e), i) \in Int
                            /\ Gathered(a, b, n, Append(m, e), i + 1)
                                 = Gathered(a, b, n, Append(m, e), i) + PowerOf(Base, i) * (c + d)
  <2>1. Append(m, e) \in Bigs(i + 1) /\ i + 1 \in Nat
    BY <1>2, WordAppended
  <2>2. PICK d : d = Column(WordsOf(Append(m, e)), WordsOf(n), i, BI_WORDS)
    OBVIOUS
  <2>3. /\ d \in Nat /\ d <= BI_WORDS * ((Base - 1) * (Base - 1))
        /\ Gathered(a, b, n, Append(m, e), i) \in Int
        /\ Gathered(a, b, n, Append(m, e), i + 1)
             = Gathered(a, b, n, Append(m, e), i) + PowerOf(Base, i) * (c + d)
    BY <1>1, <1>5, <2>1, <2>2, ColumnGathered
  <2>4. P + ab + e * n[1] = c + d
    BY <1>2, <1>4, <1>5, <2>2, LowColumnSum
  <2> QED BY <2>3, <2>4
<1>7. PICK t \in Nat : t = t0 + P + ab
  <2>1. 0 \in Word
    BY BaseFacts DEF Word
  <2>2. PICK d \in Nat : P + ab + 0 * n[1] = c + d
    BY <1>6, <2>1
  <2>3. 0 * n[1] = 0
    BY <1>3
  <2>4. t0 + P + ab = t0 + c + d /\ t0 + c + d \in Nat
    BY <2>2, <2>3
  <2> QED BY <2>4
<1>8. PICK e \in Nat : e = (t * n0) % B /\ e \in Word
  <2>1. PICK u \in Nat : u = t * n0
    OBVIOUS
  <2>2. u % B \in 0..B-1
    BY <1>1
  <2> QED BY <1>1, <2>1, <2>2 DEF Word
<1>9. PICK d \in Nat : /\ d <= BI_WORDS * ((Base - 1) * (Base - 1))
                       /\ P + ab + e * n[1] = c + d
                       /\ Gathered(a, b, n, Append(m, e), i) \in Int
                       /\ Gathered(a, b, n, Append(m, e), i + 1)
                            = Gathered(a, b, n, Append(m, e), i) + PowerOf(Base, i) * (c + d)
  BY <1>6, <1>8
<1>10. PICK w \in Nat : w = e * n[1]
  BY <1>3
<1>11. t + w = t0 + c + d
  <2>1. P + ab + w = c + d
    BY <1>9, <1>10, Zenon
  <2> QED BY <1>7, <2>1
<1>12. PICK k \in Int : t + w = B * k
  <2>1. PICK p \in Nat : p = Value(n) /\ (n0 * p + 1) % B = 0
    BY <1>1, BigFacts
  <2>2. Value(n) = PowerOf(Base, 1 - 1) * p
    <3>1. PowerOf(Base, 0) = 1 /\ 1 - 1 = 0 /\ 1 * p = p
      BY PowerLaws, BaseFacts
    <3> QED BY <2>1, <3>1
  <2>3. \E y \in Nat : p = n[1] + Base * y
    <3>1. PICK j \in 1..N : j = 1
      BY <1>1
    <3>2. Value(n) = PowerOf(Base, j - 1) * p
      BY <2>2, <3>1
    <3>4. N \in Nat /\ n \in Bigs(N) /\ j \in 1..N /\ p \in Nat
      BY <1>1, <2>1, <3>1
    <3>3. \E y \in Nat : p = n[j] + Base * y
      BY <3>2, <3>4, LowestWord, SMTT(40)
    <3> QED BY <3>1, <3>3
  <2>6. PICK y \in Nat : p = n[1] + B * y
    BY <1>1, <2>3, Zenon
  <2>7. PICK g \in Nat : g = n[1] /\ p = g + B * y
    BY <1>3, <2>6, Zenon
  <2>4. y \in Int /\ B > 0
    BY <1>1
  <2>5. \E k \in Int : t + e * g = B * k
    <3>1. /\ B \in Nat /\ B > 0 /\ p \in Nat /\ (n0 * p + 1) % B = 0 /\ g \in Nat /\ y \in Int
          /\ p = g + B * y /\ t \in Nat /\ e \in Nat /\ e = (t * n0) % B
      BY <1>1, <1>7, <1>8, <2>1, <2>4, <2>7
    <3>2. ChosenDigit(B, n0, p, g, y, t, e)
      BY <3>1, Zenon DEF ChosenDigit
    <3>3. IsMultipleOf(t + e * g, B)
      BY <3>2, DigitCancels
    <3> QED BY <3>3, Zenon DEF IsMultipleOf
  <2> QED BY <1>10, <2>5, <2>7, Zenon
<1>13. k \in Nat
  <2>1. SUFFICES ASSUME k < 0 PROVE FALSE
    OBVIOUS
  <2>2. B * (0 - k) >= B
    BY <1>1, <2>1, AtLeastItself
  <2>3. B * (0 - k) = 0 - B * k
    OBVIOUS
  <2>4. PICK u \in Int : u = B * k
    OBVIOUS
  <2> QED BY <1>1, <1>12, <2>2, <2>3, <2>4
<1>14. /\ PowerOf(Base, 3) \in Nat /\ t0 + c + d < PowerOf(Base, 3)
       /\ \A q \in Nat : Base * q <= t0 + c + d => q <= 2 * (BI_WORDS * Base)
  BY <1>2, <1>5, <1>9, ColumnFits
<1>15. (t + w) % PowerOf(Base, 3) = t + w /\ (t + w) \div B = k
  <2>1. PICK v \in Nat, q \in Nat : v = t + w /\ q = PowerOf(Base, 3) /\ v < q
    BY <1>11, <1>14
  <2>2. v % q = v
    BY <2>1
  <2>3. v = B * k + 0 /\ 0 \in 0..B-1 /\ B > 0
    BY <1>1, <1>12, <2>1
  <2>4. v \div B = k
    BY <2>3, QuotientIs
  <2> QED BY <2>1, <2>2, <2>4
<1>16. LowColumn(a, b, n, n0, s, i) = [t |-> k, m |-> Append(m, e)]
  <2>1. s.t + ColumnProducts(a, b, n, s.m, i, 0, i - 1) + a[i+1] * b[1] = t
    BY <1>2, <1>4, <1>7
  <2>2. ((t + e * n[1]) % PowerOf(Base, 3)) \div Base = k
    BY <1>1, <1>10, <1>15
  <2> QED BY <1>1, <1>2, <1>8, <2>1, <2>2, Zenon DEF LowColumn
<1>17. Append(m, e) \in Bigs(i + 1) /\ \A j \in 1..i : Append(m, e)[j] = m[j]
  BY <1>2, <1>8, WordAppended
<1>18. Gathered(a, b, n, Append(m, e), i) = Gathered(a, b, n, m, i)
  <2>1. PICK x \in WordPlaces, z \in WordPlaces, y \in WordPlaces :
          x = WordsOf(Append(m, e)) /\ z = WordsOf(m) /\ y = WordsOf(n)
    BY <1>1, <1>2, <1>17, WordsOfBig, i + 1 \in Nat
  <2>2. ASSUME NEW j \in Nat, j < i PROVE x[j] = z[j]
    <3>1. j \in Int /\ j \in 0..(i + 1) - 1 /\ j \in 0..i-1 /\ j + 1 \in 1..i
      BY <2>2
    <3>2. x[j] = Append(m, e)[j+1]
      BY <1>17, <2>1, <3>1, WordsOfBig, i + 1 \in Nat
    <3>3. z[j] = m[j+1]
      BY <1>2, <2>1, <3>1, WordsOfBig
    <3> QED BY <1>17, <3>1, <3>2, <3>3
  <2>3. Rows(x, y, i, BI_WORDS) = Rows(z, y, i, BI_WORDS)
    BY <1>1, <2>2, RowsSame, i \in Int
  <2> QED BY <2>1, <2>3, Zenon DEF Gathered
<1>19. k * PowerOf(Base, i + 1) = Gathered(a, b, n, Append(m, e), i + 1)
  <2>1. PICK Q \in Nat : Q = PowerOf(Base, i) /\ PowerOf(Base, i + 1) = B * Q
    BY <1>1, PowerNat, PowerLaws
  <2>2. k * (B * Q) = (B * k) * Q
    OBVIOUS
  <2>3. (t0 + (c + d)) * Q = t0 * Q + Q * (c + d)
    OBVIOUS
  <2>4. B * k = t0 + (c + d)
    BY <1>11, <1>12
  <2>5. (B * k) * Q = t0 * Q + Q * (c + d)
    BY <2>3, <2>4
  <2>6. t0 * Q + Q * (c + d) = Gathered(a, b, n, Append(m, e), i + 1)
    BY <1>2, <1>9, <1>18, <2>1, Zenon
  <2> QED BY <2>1, <2>2, <2>5, <2>6, Zenon
<1>20. k <= 2 * (BI_WORDS * Base)
  <2>1. Base * k <= t0 + c + d
    BY <1>1, <1>11, <1>12
  <2> QED BY <1>13, <1>14, <2>1
<1>21. PICK s2 : s2 = [t |-> k, m |-> Append(m, e)] /\ s2.t = k /\ s2.m = Append(m, e)
  <2>1. [t |-> k, m |-> Append(m, e)].t = k /\ [t |-> k, m |-> Append(m, e)].m = Append(m, e)
    BY Zenon
  <2> QED BY <2>1, Zenon
<1>22. LowState(s2, i + 1, a, b, n)
  BY <1>13, <1>17, <1>19, <1>20, <1>21, Zenon DEF LowState
<1> QED BY <1>16, <1>21, <1>22, Zenon

(* In the middle.                                                          *)
LEMMA LowIsHigh ==
  ASSUME NEW a, NEW b, NEW n, NEW s, LowState(s, BI_WORDS, a, b, n), Gathered(a, b, n, s.m, BI_WORDS) \in Int
  PROVE  HighState(s, BI_WORDS, a, b, n)
<1>1. PICK N \in Nat : N = BI_WORDS /\ N - N = 0
  BY BigFacts
<1>2. s.m \in Bigs(N)
  BY <1>1 DEF LowState
<1>3. Lowest(WordsOf(s.m), 0) = 0
  <2>1. WordsOf(s.m) \in WordPlaces
    BY <1>2, WordsOfBig
  <2> QED BY <2>1, LowestLaws, 0 \in Int, 0 <= 0
<1>4. s.t * PowerOf(Base, N) + R * Lowest(WordsOf(s.m), N - N) = Gathered(a, b, n, s.m, N)
  <2>1. s.t * PowerOf(Base, N) = Gathered(a, b, n, s.m, N)
    BY <1>1, Zenon DEF LowState
  <2>2. R * 0 = 0
    BY BigFacts
  <2>3. PICK u \in Int : u = Gathered(a, b, n, s.m, N)
    BY <1>1
  <2>4. s.t * PowerOf(Base, N) + 0 = u
    BY <2>1, <2>3
  <2>5. R * Lowest(WordsOf(s.m), N - N) = 0
    BY <1>1, <1>3, <2>2, Zenon
  <2> QED BY <2>3, <2>4, <2>5, Zenon
<1>5. s.m \in Elements
  BY <1>1, <1>2 DEF Elements
<1>6. \A j \in N-BI_WORDS..BI_WORDS-1 : s.m[j+1] = s.m[j+1]
  OBVIOUS
<1> QED BY <1>1, <1>4, <1>5, <1>6, Zenon DEF LowState, HighState

(* A turn of the second loop, which finds a word of the result.            *)
LEMMA HighColumnStays ==
  ASSUME ColumnsFit, NEW a \in Elements, NEW b \in Elements, NEW n \in Elements,
         NEW i \in Nat, i >= BI_WORDS, i < 2 * BI_WORDS, NEW s, HighState(s, i, a, b, n)
  PROVE  HighState(HighColumn(a, b, n, s, i), i + 1, a, b, n)
<1>1. PICK N \in Nat, B \in Nat, g \in Nat : N = BI_WORDS /\ B = Base /\ B > 1 /\ N <= i /\ i < 2 * N /\ g = i - N /\ N + g = i
                       /\ g + 1 \in 1..N /\ g + 1 = (i + 1) - N /\ a \in Bigs(N) /\ b \in Bigs(N) /\ n \in Bigs(N)
  <2>1. BI_WORDS \in Nat /\ Base \in Nat /\ Base > 1
    BY BigFacts, BaseFacts
  <2>2. /\ i - BI_WORDS \in Nat /\ BI_WORDS + (i - BI_WORDS) = i /\ (i - BI_WORDS) + 1 \in 1..BI_WORDS
        /\ (i - BI_WORDS) + 1 = (i + 1) - BI_WORDS
    BY <2>1
  <2> QED BY <2>1, <2>2 DEF Elements
<1>2. PICK m \in Elements, t0 \in Nat : m = s.m /\ t0 = s.t /\ t0 <= 2 * (BI_WORDS * Base)
  BY Zenon DEF HighState
<1>3. PICK m2 \in Elements :
        /\ \A j \in i-BI_WORDS..BI_WORDS-1 : m[j+1] = m2[j+1]
        /\ t0 * PowerOf(Base, i) + R * Lowest(WordsOf(m), i - BI_WORDS) = Gathered(a, b, n, m2, i)
  BY <1>2, Zenon DEF HighState
<1>4. m \in Bigs(N) /\ m2 \in Bigs(N)
  BY <1>1 DEF Elements
<1>5. PICK c \in Nat, d \in Nat :
        /\ c = Column(WordsOf(a), WordsOf(b), i, BI_WORDS) /\ c <= BI_WORDS * ((Base - 1) * (Base - 1))
        /\ d = Column(WordsOf(m2), WordsOf(n), i, BI_WORDS) /\ d <= BI_WORDS * ((Base - 1) * (Base - 1))
        /\ Gathered(a, b, n, m2, i) \in Int
        /\ Gathered(a, b, n, m2, i + 1) = Gathered(a, b, n, m2, i) + PowerOf(Base, i) * (c + d)
  <2>1. PICK c, d : c = Column(WordsOf(a), WordsOf(b), i, BI_WORDS) /\ d = Column(WordsOf(m2), WordsOf(n), i, BI_WORDS)
    OBVIOUS
  <2>2. /\ c \in Nat /\ c <= BI_WORDS * ((Base - 1) * (Base - 1))
        /\ d \in Nat /\ d <= BI_WORDS * ((Base - 1) * (Base - 1))
        /\ Gathered(a, b, n, m2, i) \in Int
        /\ Gathered(a, b, n, m2, i + 1) = Gathered(a, b, n, m2, i) + PowerOf(Base, i) * (c + d)
    BY <1>1, <1>4, <2>1, ColumnGathered
  <2> QED BY <2>1, <2>2, Zenon
<1>6. ColumnProducts(a, b, n, m, i, i - BI_WORDS + 1, BI_WORDS - 1) = c + d
  BY <1>3, <1>5, HighColumnSum
<1>7. /\ PowerOf(Base, 3) \in Nat /\ t0 + c + d < PowerOf(Base, 3)
      /\ \A q \in Nat : Base * q <= t0 + c + d => q <= 2 * (BI_WORDS * Base)
  BY <1>2, <1>5, ColumnFits
<1>8. PICK v \in Nat : v = t0 + c + d /\ v % PowerOf(Base, 3) = v
  <2>1. PICK v \in Nat, q \in Nat : v = t0 + c + d /\ q = PowerOf(Base, 3) /\ v < q
    BY <1>7
  <2>2. v % q = v
    BY <2>1
  <2> QED BY <2>1, <2>2
<1>9. PICK k \in Nat, e \in 0..B-1 : k = v \div B /\ e = v % B /\ v = B * k + e
  <2>1. v \div B \in Nat /\ v % B \in 0..B-1 /\ v = B * (v \div B) + (v % B)
    BY <1>1
  <2> QED BY <2>1
<1>10. PICK m3 : m3 = [m EXCEPT ![g + 1] = e]
  OBVIOUS
<1>11. HighColumn(a, b, n, s, i) = [t |-> k, m |-> m3]
  <2>1. (s.t + ColumnProducts(a, b, n, s.m, i, i - BI_WORDS + 1, BI_WORDS - 1)) % PowerOf(Base, 3) = v
    <3>1. s.t + ColumnProducts(a, b, n, s.m, i, i - BI_WORDS + 1, BI_WORDS - 1) = t0 + (c + d)
      BY <1>2, <1>6, Zenon
    <3>2. t0 + (c + d) = v
      BY <1>8
    <3> QED BY <1>8, <3>1, <3>2, Zenon
  <2>2. k = v \div Base /\ e = v % Base /\ i - BI_WORDS + 1 = g + 1
    BY <1>1, <1>9
  <2> QED BY <1>2, <1>10, <2>1, <2>2, Zenon DEF HighColumn
<1>12. m3 \in Bigs(N) /\ m3[g+1] = e /\ \A j \in 1..N : j # g + 1 => m3[j] = m[j]
  <2>1. m \in [1..N -> Word] /\ e \in Word
    BY <1>1, <1>4, <1>9 DEF Bigs, Word
  <2>2. m3 \in [1..N -> Word] /\ m3[g+1] = e /\ \A j \in 1..N : j # g + 1 => m3[j] = m[j]
    <3> HIDE DEF Word
    <3> QED BY <1>1, <1>10, <2>1
  <2> QED BY <2>2 DEF Bigs
<1>13. ASSUME NEW j \in (i + 1)-BI_WORDS..BI_WORDS-1 PROVE m3[j+1] = m2[j+1]
  <2>1. j \in i-BI_WORDS..BI_WORDS-1 /\ j + 1 \in 1..N /\ j + 1 # g + 1
    BY <1>1
  <2>2. m[j+1] = m2[j+1]
    BY <1>3, <2>1
  <2>3. m3[j+1] = m[j+1]
    BY <1>12, <2>1
  <2> QED BY <2>2, <2>3
<1>14. PICK L \in Int, H \in Nat : /\ L = Lowest(WordsOf(m), g) /\ H = PowerOf(Base, g)
                                  /\ Lowest(WordsOf(m3), g + 1) = L + e * H
  <2>1. PICK z \in WordPlaces, z3 \in WordPlaces : z = WordsOf(m) /\ z3 = WordsOf(m3)
    BY <1>4, <1>12, WordsOfBig
  <2>2. \A j \in Int : /\ z[j] = IF j \in 0..N-1 THEN m[j+1] ELSE 0
                       /\ z3[j] = IF j \in 0..N-1 THEN m3[j+1] ELSE 0
    BY <1>4, <1>12, <2>1, WordsOfBig
  <2>3. ASSUME NEW j \in 0..g-1 PROVE z3[j] = z[j]
    <3>1. j \in Int /\ j \in 0..N-1 /\ j + 1 \in 1..N /\ j + 1 # g + 1
      BY <1>1
    <3> QED BY <1>12, <2>2, <3>1
  <2>4. Lowest(z3, g) = Lowest(z, g)
    BY <2>3, LowestSame
  <2>5. z3[g] = e
    <3>1. g \in Int /\ g \in 0..N-1
      BY <1>1
    <3> QED BY <1>12, <2>2, <3>1
  <2>6. g \in Int /\ g >= 0
    OBVIOUS
  <2>7. Lowest(z3, g + 1) = Lowest(z3, g) + z3[g] * PowerOf(Base, g) /\ Lowest(z, g) \in Int
    BY <2>6, LowestLaws
  <2>8. PowerOf(Base, g) \in Nat
    BY PowerNat
  <2> QED BY <2>1, <2>4, <2>5, <2>7, <2>8
<1>15. k * PowerOf(Base, i + 1) + R * Lowest(WordsOf(m3), (i + 1) - BI_WORDS) = Gathered(a, b, n, m2, i + 1)
  <2>1. PICK Q \in Nat, r \in Nat, G \in Int :
          Q = PowerOf(Base, i) /\ PowerOf(Base, i + 1) = B * Q /\ r = R /\ Q = r * H /\ G = Gathered(a, b, n, m2, i)
    <3>1. PowerOf(Base, i) \in Nat /\ PowerOf(Base, i + 1) = B * PowerOf(Base, i)
      BY <1>1, PowerNat, PowerLaws
    <3>2. PowerOf(Base, N + g) = PowerOf(Base, N) * PowerOf(Base, g)
      BY <1>1, PowerAdd
    <3>3. R \in Nat /\ R = PowerOf(Base, N)
      BY <1>1, BigFacts DEF R
    <3>4. PowerOf(Base, i) = R * H
      BY <1>1, <1>14, <3>2, <3>3, Zenon
    <3> QED BY <1>5, <3>1, <3>3, <3>4
  <2>2. t0 * Q + r * L = G
    BY <1>1, <1>3, <1>14, <2>1, Zenon
  <2>3. k * (B * Q) + r * (L + e * H) = r * L + Q * (B * k + e)
    <3>1. k * (B * Q) = Q * (B * k)
      OBVIOUS
    <3>2. r * (L + e * H) = r * L + e * (r * H)
      OBVIOUS
    <3>3. Q * (B * k + e) = Q * (B * k) + e * Q
      OBVIOUS
    <3>4. e * (r * H) = e * Q
      BY <2>1
    <3>5. PICK q1 \in Int, q2 \in Int, q3 \in Int : q1 = Q * (B * k) /\ q2 = e * Q /\ q3 = r * L
      OBVIOUS
    <3> QED BY <3>1, <3>2, <3>3, <3>4, <3>5
  <2>4. Q * (B * k + e) = t0 * Q + Q * (c + d)
    <3>1. B * k + e = t0 + (c + d)
      BY <1>8, <1>9
    <3>2. Q * (t0 + (c + d)) = t0 * Q + Q * (c + d)
      OBVIOUS
    <3> QED BY <3>1, <3>2
  <2>5. k * (B * Q) + r * (L + e * H) = G + Q * (c + d)
    <3>1. PICK q1 \in Int, q2 \in Int, q3 \in Int : q1 = t0 * Q /\ q2 = Q * (c + d) /\ q3 = r * L
      OBVIOUS
    <3> QED BY <2>2, <2>3, <2>4, <3>1
  <2>6. G + Q * (c + d) = Gathered(a, b, n, m2, i + 1)
    BY <1>5, <2>1, Zenon
  <2> QED BY <1>1, <1>14, <2>1, <2>5, <2>6, Zenon
<1>16. k <= 2 * (BI_WORDS * Base)
  <2>1. Base * k <= t0 + c + d
    BY <1>1, <1>8, <1>9
  <2> QED BY <1>7, <2>1
<1>17. PICK s2 : s2 = [t |-> k, m |-> m3] /\ s2.t = k /\ s2.m = m3
  <2>1. [t |-> k, m |-> m3].t = k /\ [t |-> k, m |-> m3].m = m3
    BY Zenon
  <2> QED BY <2>1, Zenon
<1>18. m3 \in Elements
  BY <1>1, <1>12 DEF Elements
<1>19. HighState(s2, i + 1, a, b, n)
  BY <1>13, <1>15, <1>16, <1>17, <1>18, Zenon DEF HighState
<1> QED BY <1>11, <1>17, <1>19, Zenon

(* All columns one after the other.                                        *)
ColumnTurn(a, b, n, n0, s, i) ==
  IF i <= BI_WORDS THEN LowColumn(a, b, n, n0, s, i - 1) ELSE HighColumn(a, b, n, s, i - 1)
AllColumns(a, b, n, n0) ==
  LET column[i \in 0..2 * BI_WORDS] ==
        IF i = 0 THEN [t |-> 0, m |-> <<>>]
        ELSE IF i <= BI_WORDS THEN LowColumn(a, b, n, n0, column[i-1], i - 1)
                              ELSE HighColumn(a, b, n, column[i-1], i - 1)
  IN column[2 * BI_WORDS]
ColumnState(s, i, a, b, n) ==
  /\ i <= BI_WORDS => LowState(s, i, a, b, n)
  /\ i >= BI_WORDS => HighState(s, i, a, b, n)
ColumnStates == UNION {[t : Nat, m : Bigs(k)] : k \in 0..BI_WORDS}

(* Before the first turn there is nothing.                                 *)
LEMMA ColumnsStart ==
  ASSUME NEW a \in Elements, NEW b \in Elements, NEW n \in Elements
  PROVE  ColumnState([t |-> 0, m |-> <<>>], 0, a, b, n)
<1>1. PICK N \in Nat : N = BI_WORDS /\ N > 0 /\ a \in Bigs(N) /\ b \in Bigs(N) /\ n \in Bigs(N)
  BY BigFacts, WordsAssumption DEF Elements
<1>2. <<>> \in Bigs(0)
  BY DEF Bigs
<1>3. Gathered(a, b, n, <<>>, 0) = 0
  <2>1. /\ WordsOf(a) \in WordPlaces /\ WordsOf(b) \in WordPlaces
        /\ WordsOf(n) \in WordPlaces /\ WordsOf(<<>>) \in WordPlaces
    BY <1>1, <1>2, WordsOfBig, 0 \in Nat
  <2>2. Rows(WordsOf(a), WordsOf(b), 0, BI_WORDS) = 0 /\ Rows(WordsOf(<<>>), WordsOf(n), 0, BI_WORDS) = 0
    BY <1>1, <2>1, RowsStart
  <2>3. Gathered(a, b, n, <<>>, 0) = 0 + 0
    BY <2>2, Zenon DEF Gathered
  <2> QED BY <2>3
<1>4. 0 * PowerOf(Base, 0) = 0
  BY PowerNat, 0 \in Nat
<1>5. 0 <= 2 * (BI_WORDS * Base)
  <2>1. BI_WORDS * Base \in Nat
    BY <1>1, BaseFacts
  <2> QED BY <2>1
<1>6. LowState([t |-> 0, m |-> <<>>], 0, a, b, n)
  BY <1>2, <1>3, <1>4, <1>5 DEF LowState
<1>7. ~ (0 >= BI_WORDS)
  BY <1>1
<1> QED BY <1>6, <1>7 DEF ColumnState

(* A turn of either loop.                                                  *)
LEMMA ColumnTurnStays ==
  ASSUME ColumnsFit, NEW a \in Elements, NEW b \in Elements, NEW n \in Elements,
         NEW n0 \in Nat, (n0 * Value(n) + 1) % Base = 0,
         NEW i \in 1..2 * BI_WORDS, NEW s, ColumnState(s, i - 1, a, b, n)
  PROVE  ColumnState(ColumnTurn(a, b, n, n0, s, i), i, a, b, n)
<1>1. PICK N \in Nat, j \in Nat : N = BI_WORDS /\ j = i - 1 /\ j + 1 = i /\ j < 2 * N /\ i \in Nat
                                  /\ a \in Bigs(N) /\ b \in Bigs(N) /\ n \in Bigs(N)
  <2>1. BI_WORDS \in Nat
    BY BigFacts
  <2>2. i - 1 \in Nat /\ (i - 1) + 1 = i /\ i - 1 < 2 * BI_WORDS /\ i \in Nat
    BY <2>1
  <2> QED BY <2>1, <2>2 DEF Elements
<1>2. CASE i <= N
  <2>1. j < BI_WORDS /\ j <= BI_WORDS
    BY <1>1, <1>2
  <2>2. LowState(s, j, a, b, n)
    BY <1>1, <2>1 DEF ColumnState
  <2>3. PICK s2 : s2 = LowColumn(a, b, n, n0, s, j) /\ LowState(s2, i, a, b, n)
    <3>1. LowState(LowColumn(a, b, n, n0, s, j), j + 1, a, b, n)
      BY <2>1, <2>2, LowColumnStays
    <3> QED BY <1>1, <3>1
  <2>4. ColumnTurn(a, b, n, n0, s, i) = s2
    BY <1>1, <1>2, <2>3, Zenon DEF ColumnTurn
  <2>5. i >= BI_WORDS => HighState(s2, i, a, b, n)
    <3>1. SUFFICES ASSUME i = BI_WORDS PROVE HighState(s2, i, a, b, n)
      BY <1>1, <1>2
    <3>2. s2.m \in Bigs(N)
      BY <1>1, <2>3, <3>1 DEF LowState
    <3>3. Gathered(a, b, n, s2.m, N) \in Int
      BY <1>1, <3>2, ColumnGathered
    <3> QED BY <1>1, <2>3, <3>1, <3>3, LowIsHigh
  <2> QED BY <2>3, <2>4, <2>5 DEF ColumnState
<1>3. CASE ~ (i <= N)
  <2>1. j >= BI_WORDS /\ j < 2 * BI_WORDS /\ ~ (i <= BI_WORDS)
    BY <1>1, <1>3
  <2>2. HighState(s, j, a, b, n)
    BY <1>1, <2>1 DEF ColumnState
  <2>3. PICK s2 : s2 = HighColumn(a, b, n, s, j) /\ HighState(s2, i, a, b, n)
    <3>1. HighState(HighColumn(a, b, n, s, j), j + 1, a, b, n)
      BY <2>1, <2>2, HighColumnStays
    <3> QED BY <1>1, <3>1
  <2>4. ColumnTurn(a, b, n, n0, s, i) = s2
    BY <1>1, <2>1, <2>3, Zenon DEF ColumnTurn
  <2> QED BY <2>1, <2>3, <2>4 DEF ColumnState
<1> QED BY <1>2, <1>3

(* A turn leaves a state of the loop.                                      *)
LEMMA ColumnTurnIsState ==
  ASSUME NEW a, NEW b, NEW n, NEW n0, NEW s, NEW i \in 0..2 * BI_WORDS,
         ColumnState(ColumnTurn(a, b, n, n0, s, i), i, a, b, n)
  PROVE  ColumnTurn(a, b, n, n0, s, i) \in ColumnStates
<1>1. PICK u : u = ColumnTurn(a, b, n, n0, s, i)
  OBVIOUS
<1>2. \E x, y : u = [t |-> x, m |-> y]
  <2>1. CASE i <= BI_WORDS
    <3>1. u = LowColumn(a, b, n, n0, s, i - 1)
      BY <1>1, <2>1 DEF ColumnTurn
    <3> QED BY <3>1, Zenon DEF LowColumn
  <2>2. CASE ~ (i <= BI_WORDS)
    <3>1. u = HighColumn(a, b, n, s, i - 1)
      BY <1>1, <2>2 DEF ColumnTurn
    <3> QED BY <3>1, Zenon DEF HighColumn
  <2> QED BY <2>1, <2>2
<1>3. PICK x, y : u = [t |-> x, m |-> y]
  BY <1>2
<1>4. \E k \in 0..BI_WORDS : u.t \in Nat /\ u.m \in Bigs(k)
  <2>0. BI_WORDS \in Nat /\ i \in Nat
    BY BigFacts
  <2>1. CASE i <= BI_WORDS
    <3>1. LowState(u, i, a, b, n)
      BY <1>1, <2>1 DEF ColumnState
    <3>2. u.t \in Nat /\ u.m \in Bigs(i) /\ i \in 0..BI_WORDS
      BY <2>0, <2>1, <3>1 DEF LowState
    <3> QED BY <3>2
  <2>2. CASE ~ (i <= BI_WORDS)
    <3>1. i >= BI_WORDS
      BY <2>0, <2>2
    <3>2. HighState(u, i, a, b, n)
      BY <1>1, <3>1 DEF ColumnState
    <3>3. u.t \in Nat /\ u.m \in Bigs(BI_WORDS) /\ BI_WORDS \in 0..BI_WORDS
      BY <2>0, <3>2 DEF HighState, Elements
    <3> QED BY <3>3
  <2> QED BY <2>1, <2>2
<1>5. PICK k \in 0..BI_WORDS : u.t \in Nat /\ u.m \in Bigs(k)
  BY <1>4
<1>6. u \in [t : Nat, m : Bigs(k)]
  <2>1. u.t = x /\ u.m = y
    BY <1>3
  <2>2. x \in Nat /\ y \in Bigs(k)
    BY <1>5, <2>1
  <2> QED BY <1>3, <2>2
<1> QED BY <1>1, <1>5, <1>6 DEF ColumnStates

(* After both loops all columns are added up.                              *)
LEMMA ColumnsEnd ==
  ASSUME ColumnsFit, NEW a \in Elements, NEW b \in Elements, NEW mod \in Elements,
         NEW n0 \in Nat, (n0 * Value(mod) + 1) % Base = 0
  PROVE  HighState(AllColumns(a, b, mod, n0), 2 * BI_WORDS, a, b, mod)
<1>1. PICK n \in Nat : n = 2 * BI_WORDS /\ n >= BI_WORDS /\ n \in 0..n
  BY BigFacts
<1> DEFINE x0 == [t |-> 0, m |-> <<>>]
           Turn(s, i) == ColumnTurn(a, b, mod, n0, s, i)
           Is(f) == f = [i \in 0..n |-> IF i = 0 THEN x0 ELSE Turn(f[i-1], i)]
           inv == [i \in 0..n |-> {s \in ColumnStates : ColumnState(s, i, a, b, mod)}]
           op == [t \in (0..n) \X ColumnStates |-> Turn(t[2], t[1])]
           w == CHOOSE f : Is(f)
<1>2. AllColumns(a, b, mod, n0) = w[n]
  BY <1>1, Zenon DEF AllColumns, ColumnTurn
<1>3. ColumnState(x0, 0, a, b, mod) /\ x0 \in ColumnStates
  <2>1. ColumnState(x0, 0, a, b, mod)
    BY ColumnsStart
  <2>2. <<>> \in Bigs(0) /\ 0 \in 0..BI_WORDS
    BY BigFacts DEF Bigs
  <2>3. x0 \in [t : Nat, m : Bigs(0)]
    BY <2>2
  <2> QED BY <2>1, <2>2, <2>3 DEF ColumnStates
<1> HIDE DEF x0
<1>4. ASSUME NEW i \in 1..n, NEW s, ColumnState(s, i - 1, a, b, mod)
      PROVE  ColumnState(Turn(s, i), i, a, b, mod) /\ Turn(s, i) \in ColumnStates
  <2>1. i \in 1..2 * BI_WORDS /\ i \in 0..2 * BI_WORDS
    BY <1>1
  <2>2. ColumnState(ColumnTurn(a, b, mod, n0, s, i), i, a, b, mod)
    BY <1>4, <2>1, ColumnTurnStays
  <2>3. ColumnTurn(a, b, mod, n0, s, i) \in ColumnStates
    BY <2>1, <2>2, ColumnTurnIsState
  <2> QED BY <2>2, <2>3
<1> HIDE DEF Turn
<1>5. inv \in [0..n -> SUBSET ColumnStates] /\ x0 \in inv[0]
  BY <1>3
<1>6. ASSUME NEW i \in 1..n, NEW s \in inv[i-1] PROVE op[<<i, s>>] \in inv[i] /\ op[<<i, s>>] = Turn(s, i)
  <2>1. i \in 0..n /\ i - 1 \in 0..n
    OBVIOUS
  <2>2. s \in ColumnStates /\ ColumnState(s, i - 1, a, b, mod)
    BY <1>6, <2>1
  <2>3. <<i, s>> \in (0..n) \X ColumnStates /\ <<i, s>>[2] = s /\ <<i, s>>[1] = i
    BY <2>1, <2>2
  <2>4. op[<<i, s>>] = Turn(s, i)
    BY <2>3
  <2>5. ColumnState(Turn(s, i), i, a, b, mod) /\ Turn(s, i) \in ColumnStates
    BY <1>4, <2>2
  <2> HIDE DEF op
  <2> QED BY <2>1, <2>4, <2>5
<1>7. PICK f : f \in [0..n -> ColumnStates] /\ LoopFrom(f, n, x0, op, inv)
  <2> HIDE DEF inv, op
  <2>1. \A i \in 1..n : \A s \in inv[i-1] : op[<<i, s>>] \in inv[i]
    BY <1>6
  <2>2. \E f : f \in [0..n -> ColumnStates] /\ LoopFrom(f, n, x0, op, inv)
    BY <1>5, <2>1, LoopExists
  <2> QED BY <2>2
<1>8. Is(f)
  <2>1. f[0] = x0 /\ (\A i \in 0..n : f[i] \in inv[i]) /\ \A i \in 1..n : f[i] = op[<<i, f[i-1]>>]
    BY <1>7 DEF LoopFrom
  <2> HIDE DEF inv, op
  <2>2. ASSUME NEW i \in 0..n PROVE f[i] = IF i = 0 THEN x0 ELSE Turn(f[i-1], i)
    <3>1. CASE i = 0
      BY <2>1, <3>1
    <3>2. CASE i # 0
      <4>1. i \in 1..n /\ i - 1 \in 0..n
        BY <3>2
      <4>2. f[i] = op[<<i, f[i-1]>>] /\ f[i-1] \in inv[i-1]
        BY <2>1, <4>1
      <4>3. op[<<i, f[i-1]>>] = Turn(f[i-1], i)
        BY <1>6, <4>1, <4>2
      <4> QED BY <3>2, <4>2, <4>3, Zenon
    <3> QED BY <3>1, <3>2
  <2> QED BY <1>7, <2>2
<1>9. Is(w)
  BY <1>8
<1>10. HighState(w[n], n, a, b, mod)
  <2>1. w[0] = x0 /\ \A i \in 1..n : w[i] = Turn(w[i-1], i)
    <3> HIDE DEF w
    <3>1. w = [i \in 0..n |-> IF i = 0 THEN x0 ELSE Turn(w[i-1], i)]
      BY <1>9
    <3> HIDE DEF Is
    <3>2. 0 \in 0..n /\ \A i \in 1..n : i \in 0..n /\ i # 0
      OBVIOUS
    <3>3. w[0] = x0
      BY <3>1, <3>2
    <3>4. ASSUME NEW i \in 1..n PROVE w[i] = Turn(w[i-1], i)
      <4>1. i \in 0..n /\ i # 0
        BY <3>2
      <4>2. w[i] = IF i = 0 THEN x0 ELSE Turn(w[i-1], i)
        BY <3>1, <4>1
      <4> QED BY <4>1, <4>2
    <3> QED BY <3>3, <3>4
  <2>2. w[0] \in inv[0]
    BY <1>5, <2>1
  <2>3. ASSUME NEW i \in 1..n, w[i-1] \in inv[i-1] PROVE w[i] \in inv[i]
    <3>1. w[i] = Turn(w[i-1], i)
      BY <2>1
    <3> HIDE DEF w, inv, op
    <3>2. op[<<i, w[i-1]>>] \in inv[i] /\ op[<<i, w[i-1]>>] = Turn(w[i-1], i)
      BY <1>6, <2>3
    <3> QED BY <3>1, <3>2
  <2> HIDE DEF w
  <2>5. w[n] \in inv[n]
    <3> HIDE DEF inv
    <3>1. \A i \in 0..n : w[i] \in inv[i]
      BY <2>2, <2>3, LoopStays
    <3> QED BY <1>1, <3>1
  <2>6. ColumnState(w[n], n, a, b, mod)
    BY <1>1, <2>5
  <2> QED BY <1>1, <2>6 DEF ColumnState
<1> HIDE DEF w
<1> QED BY <1>1, <1>2, <1>10, Zenon

(* All columns are the product.                                            *)
LEMMA RowsComplete ==
  ASSUME NEW N \in Nat, NEW a \in Bigs(N), NEW b \in Bigs(N)
  PROVE  Rows(WordsOf(a), WordsOf(b), N + N, N) = Lowest(WordsOf(a), N) * Value(b)
<1>1. PICK x \in WordPlaces, y \in WordPlaces, n \in Nat, V \in Int :
        x = WordsOf(a) /\ y = WordsOf(b) /\ n = N + N /\ V = Value(b)
  <2>1. Value(b) \in Int /\ N + N \in Nat
    BY ValueIsNat
  <2>2. WordsOf(a) \in WordPlaces /\ WordsOf(b) \in WordPlaces
    BY WordsOfBig
  <2> QED BY <2>1, <2>2
<1>2. \A k \in Nat : k >= N => Lowest(y, k) = V
  BY <1>1, LowestOfBig
<1>3. n >= N + N
  BY <1>1
<1>4. Rows(x, y, n, N) = Lowest(x, N) * V
  <2>1. Settled(y, N, V)
    BY <1>2 DEF Settled
  <2> QED BY <1>3, <2>1, RowsEnd
<1> QED BY <1>1, <1>4, Zenon

(* fp_mul_monty_fips is these loops and one subtraction.                   *)
LEMMA ColumnProductIs ==
  ASSUME NEW a, NEW b, NEW n, NEW n0
  PROVE  LET last == AllColumns(a, b, n, n0) IN
         fp_mul_monty_fips(a, b, n, n0) = IF bi_compare_var(last.m, n) >= 0 \/ last.t # 0
                                          THEN bi_subtract_var(last.m, n).res ELSE last.m
BY Zenon DEF fp_mul_monty_fips, AllColumns, LowColumn, HighColumn, ColumnProducts

(* fp_mul_monty_fips, which gathers the columns of the product and of the  *)
(* multiple of the modulus in three words, gives Montgomery's product in   *)
(* the range of the field, if twice the number of words is a word: then    *)
(* the three words never overflow.  The code has 8 words of 32 bits.       *)
THEOREM ColumnProductIsExact ==
  ASSUME ExactWords, ColumnsFit, NEW mod \in Elements, NEW n0 \in Nat, (n0 * Value(mod) + 1) % Base = 0,
         NEW a \in Elements, NEW b \in Elements, Value(a) < Value(mod), Value(b) < Value(mod)
  PROVE  LET r == fp_mul_monty_fips(a, b, mod, n0) IN
         /\ r \in Elements /\ Value(r) < Value(mod)
         /\ Congruent(R * Value(r), Value(a) * Value(b), Value(mod))
<1>1. PICK N \in Nat, n \in Nat : N = BI_WORDS /\ n = 2 * BI_WORDS /\ n = N + N /\ n - N = N /\ N <= n
                                  /\ a \in Bigs(N) /\ b \in Bigs(N) /\ mod \in Bigs(N)
  <2>1. BI_WORDS \in Nat
    BY BigFacts
  <2>2. 2 * BI_WORDS \in Nat /\ 2 * BI_WORDS = BI_WORDS + BI_WORDS /\ 2 * BI_WORDS - BI_WORDS = BI_WORDS
        /\ BI_WORDS <= 2 * BI_WORDS
    BY <2>1
  <2> QED BY <2>1, <2>2 DEF Elements
<1>2. PICK s : s = AllColumns(a, b, mod, n0) /\ HighState(s, n, a, b, mod)
  BY <1>1, ColumnsEnd
<1>3. PICK m2 \in Elements : s.t * PowerOf(Base, n) + R * Lowest(WordsOf(s.m), n - BI_WORDS) = Gathered(a, b, mod, m2, n)
  BY <1>2, Zenon DEF HighState
<1>4. s.m \in Elements /\ s.m \in Bigs(N) /\ s.t \in Nat /\ m2 \in Bigs(N)
  BY <1>1, <1>2 DEF HighState, Elements
<1>5. PICK x \in Nat, y \in Nat, p \in Nat, k \in Nat, v \in Nat, t \in Nat, r \in Nat :
        /\ x = Value(a) /\ y = Value(b) /\ p = Value(mod) /\ k = Value(m2) /\ v = Value(s.m) /\ t = s.t /\ r = R
        /\ x < p /\ y < p /\ p < r /\ k < r /\ v < r /\ r > 0
  BY <1>4, BigFacts
<1>6. Lowest(WordsOf(s.m), n - BI_WORDS) = v
  BY <1>1, <1>4, <1>5, LowestOfBig
<1>7. Gathered(a, b, mod, m2, n) = x * y + k * p
  <2>1. /\ WordsOf(a) \in WordPlaces /\ WordsOf(b) \in WordPlaces
        /\ WordsOf(mod) \in WordPlaces /\ WordsOf(m2) \in WordPlaces
    BY <1>1, <1>4, WordsOfBig
  <2>2. \A j \in Nat : j >= N => Lowest(WordsOf(b), j) = y /\ Lowest(WordsOf(mod), j) = p
    BY <1>1, <1>5, LowestOfBig
  <2>3. Lowest(WordsOf(a), N) = x /\ Lowest(WordsOf(m2), N) = k
    BY <1>1, <1>4, <1>5, LowestOfBig
  <2>4. Rows(WordsOf(a), WordsOf(b), n, N) = Lowest(WordsOf(a), N) * y
    BY <1>1, <1>5, RowsComplete, LowestOfBig
  <2>5. Rows(WordsOf(m2), WordsOf(mod), n, N) = Lowest(WordsOf(m2), N) * p
    BY <1>1, <1>4, <1>5, RowsComplete, LowestOfBig
  <2> QED BY <1>1, <2>3, <2>4, <2>5, Zenon DEF Gathered
<1>8. PowerOf(Base, n) = r * r
  <2>1. PowerOf(Base, N + N) = PowerOf(Base, N) * PowerOf(Base, N)
    BY BaseFacts, PowerAdd
  <2> QED BY <1>1, <1>5, <2>1 DEF R
<1>9. t * (r * r) + r * v = x * y + k * p
  BY <1>3, <1>5, <1>6, <1>7, <1>8, Zenon
<1>10. PICK z \in Nat : z = t * r + v /\ r * z = x * y + k * p
  <2>1. t * r + v \in Nat /\ r * (t * r + v) = t * (r * r) + r * v
    OBVIOUS
  <2> QED BY <1>9, <2>1
<1>11. z < 2 * p
  <2>1. SUFFICES ASSUME z >= 2 * p PROVE FALSE
    OBVIOUS
  <2>2. r * (z - 2 * p) >= 0 /\ r * (z - 2 * p) = r * z - 2 * (r * p)
    BY <1>5, <2>1
  <2>3. (p - x) * y >= 0 /\ p * (p - y) > 0 /\ (r - p) * p > 0 /\ (r - k) * p > 0
    <3>1. p - x \in Nat /\ p - y \in Nat /\ p - y > 0 /\ p > 0 /\ r - p \in Nat /\ r - p > 0 /\ r - k \in Nat /\ r - k > 0
      BY <1>5
    <3>2. \A e, f \in Nat : e * f >= 0 /\ (e > 0 /\ f > 0 => e * f > 0)
      OBVIOUS
    <3> QED BY <3>1, <3>2
  <2>4. /\ (p - x) * y = p * y - x * y /\ p * (p - y) = p * p - p * y
        /\ (r - p) * p = r * p - p * p /\ (r - k) * p = r * p - k * p
    OBVIOUS
  <2>5. PICK q1 \in Int, q2 \in Int, q3 \in Int, q4 \in Int, q5 \in Int, q6 \in Int :
          q1 = x * y /\ q2 = k * p /\ q3 = p * y /\ q4 = p * p /\ q5 = r * p /\ q6 = r * z
    OBVIOUS
  <2>6. /\ q6 - 2 * q5 >= 0 /\ q3 - q1 >= 0 /\ q4 - q3 > 0 /\ q5 - q4 > 0 /\ q5 - q2 > 0
    BY <2>2, <2>3, <2>4, <2>5
  <2>7. q6 = q1 + q2
    BY <1>10, <2>5
  <2> QED BY <2>6, <2>7
<1>12. t = 0 \/ (t = 1 /\ v < p)
  <2>1. CASE t = 0
    BY <2>1
  <2>2. CASE t = 1
    <3>1. z = r + v
      BY <1>10, <2>2
    <3> QED BY <1>5, <1>11, <2>2, <3>1
  <2>3. CASE t >= 2
    <3>1. r * (t - 2) >= 0 /\ r * (t - 2) = t * r - 2 * r
      BY <2>3
    <3>2. PICK u \in Int : u = t * r
      OBVIOUS
    <3> QED BY <1>5, <1>10, <1>11, <3>1, <3>2
  <2> QED BY <2>1, <2>2, <2>3
<1>13. PICK d : /\ d = bi_subtract_var(s.m, mod) /\ d.res \in Elements /\ Value(d.res) \in 0..r-1
                /\ \/ d.carry = 0 /\ Value(d.res) = v - p
                   \/ d.carry = 1 /\ Value(d.res) = v - p + r
  <2>1. PICK d : d = bi_subtract_var(s.m, mod)
    OBVIOUS
  <2> QED BY <1>4, <1>5, <2>1, DifferenceCases
<1>14. bi_compare_var(s.m, mod) >= 0 <=> v >= p
  BY <1>4, <1>5, CompareCases
<1>15. PICK res : res = IF bi_compare_var(s.m, mod) >= 0 \/ s.t # 0 THEN d.res ELSE s.m
  OBVIOUS
<1>16. fp_mul_monty_fips(a, b, mod, n0) = res
  BY <1>2, <1>13, <1>15, ColumnProductIs, Zenon
<1>17. PICK o \in {0, 1} : res \in Elements /\ Value(res) = z - p * o /\ Value(res) < p
  <2>1. CASE t = 0 /\ v < p
    <3>1. res = s.m /\ z = v
      <4>1. t * r = 0
        BY <2>1
      <4> QED BY <1>5, <1>10, <1>14, <1>15, <2>1, <4>1
    <3>2. z - p * 0 = v
      BY <3>1
    <3> QED BY <1>4, <1>5, <2>1, <3>1, <3>2
  <2>2. CASE t = 0 /\ v >= p
    <3>1. res = d.res /\ z = v
      <4>1. t * r = 0
        BY <2>2
      <4> QED BY <1>5, <1>10, <1>14, <1>15, <2>2, <4>1
    <3>2. Value(d.res) = v - p
      BY <1>5, <1>13, <2>2
    <3>3. z - p * 1 = v - p /\ v - p < p
      BY <1>11, <3>1
    <3> QED BY <1>13, <3>1, <3>2, <3>3
  <2>3. CASE t = 1 /\ v < p
    <3>1. res = d.res /\ z = r + v
      <4>1. t * r = r
        BY <2>3
      <4> QED BY <1>5, <1>10, <1>15, <2>3, <4>1
    <3>2. Value(d.res) = v - p + r
      BY <1>5, <1>13, <2>3
    <3>3. z - p * 1 = v - p + r /\ v - p + r < p
      BY <1>11, <3>1
    <3> QED BY <1>13, <3>1, <3>2, <3>3
  <2> QED BY <1>12, <2>1, <2>2, <2>3
<1>18. R * Value(res) = x * y + p * (k - r * o)
  <2>1. r * (z - p * o) = r * z - p * (r * o)
    OBVIOUS
  <2>2. p * (k - r * o) = k * p - p * (r * o)
    OBVIOUS
  <2>3. PICK q1 \in Int, q2 \in Int, q3 \in Int, q4 \in Int : q1 = x * y /\ q2 = k * p /\ q3 = p * (r * o) /\ q4 = r * z
    OBVIOUS
  <2>4. r * (z - p * o) = q1 + (q2 - q3)
    BY <1>10, <2>1, <2>3
  <2> QED BY <1>5, <1>17, <2>2, <2>3, <2>4
<1>19. Congruent(R * Value(res), x * y, p)
  <2>1. k - r * o \in Int
    OBVIOUS
  <2> QED BY <1>18, <2>1 DEF Congruent
<1> QED BY <1>5, <1>16, <1>17, <1>19, Zenon

-----------------------------------------------------------------------------
(* A modulus and what the library keeps beside it: its word n0, Barrett's  *)
(* quotient, the whole of minus its inverse, and the square of R.          *)
Reduces(p, mod, n0, mu, all, r2) ==
  /\ p \in Nat /\ p % 2 = 1 /\ 1 < p /\ p > 2 /\ 3 * p <= R /\ p >= PowerOf(Base, BI_WORDS - 1)
  /\ mod \in Elements /\ Value(mod) = p
  /\ n0 \in Nat /\ (n0 * p + 1) % Base = 0
  /\ mu \in Bigs(BI_WORDS + 1) /\ Value(mu) = (R * R) \div p
  /\ all \in Elements /\ (Value(all) * p + 1) % R = 0
  /\ r2 \in Elements /\ Value(r2) < p /\ Value(r2) = (R * R) % p /\ Congruent(Value(r2), R * R, p)

(* Barrett's quotient has one word more than the modulus, which is odd and *)
(* so not a power of Base.                                                 *)
LEMMA QuotientFits ==
  ASSUME NEW p, GoodModulus(p)
  PROVE  (R * R) \div p \in Nat /\ (R * R) \div p < PowerOf(Base, BI_WORDS + 1)
<1>1. PICK n \in Nat : n = BI_WORDS - 2
  <2>1. BI_WORDS \in Nat /\ BI_WORDS >= 2
    BY WordsAssumption
  <2> QED BY <2>1
<1>2. BI_WORDS - 1 = n + 1 /\ BI_WORDS = (n + 1) + 1 /\ BI_WORDS + 1 = ((n + 1) + 1) + 1 /\ n + 1 \in Nat /\ (n + 1) + 1 \in Nat
  <2>1. BI_WORDS \in Nat
    BY WordsAssumption
  <2> QED BY <1>1, <2>1
<1>3. PICK B \in Nat, H \in Nat, P \in Nat, S \in Nat, T \in Nat, U \in Nat :
        /\ B = Base /\ B = 2 * H /\ B > 0 /\ P = PowerOf(Base, n) /\ S = PowerOf(Base, BI_WORDS - 1) /\ S = B * P
        /\ T = R /\ T = B * S /\ U = PowerOf(Base, BI_WORDS + 1) /\ U = B * T
  <2>1. Base \in Nat /\ Base \div 2 \in Nat /\ Base = 2 * (Base \div 2) /\ Base > 0
    BY BaseFacts
  <2>2. PowerOf(Base, n) \in Nat /\ PowerOf(Base, n + 1) = Base * PowerOf(Base, n)
    BY <2>1, PowerLaws
  <2>3. PowerOf(Base, n + 1) \in Nat /\ PowerOf(Base, (n + 1) + 1) = Base * PowerOf(Base, n + 1)
    BY <1>2, <2>1, PowerLaws
  <2>4. PowerOf(Base, (n + 1) + 1) \in Nat /\ PowerOf(Base, ((n + 1) + 1) + 1) = Base * PowerOf(Base, (n + 1) + 1)
        /\ PowerOf(Base, ((n + 1) + 1) + 1) \in Nat
    <3>1. ((n + 1) + 1) + 1 \in Nat
      BY <1>2
    <3>2. PowerOf(Base, (n + 1) + 1) \in Nat /\ PowerOf(Base, ((n + 1) + 1) + 1) = Base * PowerOf(Base, (n + 1) + 1)
      BY <1>2, <2>1, PowerLaws
    <3>3. PowerOf(Base, ((n + 1) + 1) + 1) \in Nat
      BY <2>1, <3>1, PowerLaws
    <3> QED BY <3>2, <3>3
  <2> QED BY <1>2, <2>1, <2>2, <2>3, <2>4 DEF R
<1>4. p \in Nat /\ p >= S /\ p > 0 /\ p % 2 = 1
  BY <1>3 DEF GoodModulus
<1>5. p > S
  <2>1. SUFFICES ASSUME p = S PROVE FALSE
    BY <1>3, <1>4
  <2>2. PICK h \in Nat : h = H * P
    BY <1>3
  <2>3. (2 * H) * P = 2 * (H * P)
    BY <1>3
  <2>4. p = 2 * h
    BY <1>3, <2>1, <2>2, <2>3
  <2> QED BY <1>4, <2>2, <2>4
<1>6. PICK Q \in Nat : Q = T * T
  BY <1>3
<1>7. PICK q \in Int, r \in 0..p-1 : q = Q \div p /\ Q = p * q + r
  <2>1. Q \div p \in Int /\ Q % p \in 0..p-1 /\ Q = p * (Q \div p) + (Q % p)
    BY <1>4, <1>6, Divided
  <2> QED BY <2>1
<1>8. q >= 0
  BY <1>4, <1>6, <1>7
<1>9. q < U
  <2>1. SUFFICES ASSUME q >= U PROVE FALSE
    BY <1>3, <1>7
  <2>2. p * q >= p * U
    <3>1. PICK d \in Nat : q = U + d
      <4>1. q - U \in Nat /\ q = U + (q - U)
        BY <1>3, <1>7, <2>1
      <4> QED BY <4>1
    <3>2. p * d \in Nat
      BY <1>4
    <3>3. p * (U + d) = p * U + p * d
      BY <1>4
    <3>4. PICK x \in Int, y \in Nat : x = p * U /\ y = p * d
      BY <1>3, <1>4, <3>1, <3>2
    <3> QED BY <3>1, <3>3, <3>4
  <2>3. U > 0
    <3>1. T > 0
      BY <1>3, BigFacts
    <3>2. T * B >= T
      BY <1>3, AtLeastItself
    <3>3. T * B = B * T
      OBVIOUS
    <3>4. PICK x \in Int : x = T * B /\ x = B * T
      BY <3>3
    <3>5. U = x /\ x >= T
      BY <1>3, <3>2, <3>4
    <3> QED BY <3>1, <3>5
  <2>4. p * U > S * U
    <3>1. p - S \in Int /\ p - S >= 1
      BY <1>3, <1>4, <1>5
    <3>2. U * (p - S) >= U
      BY <1>3, <3>1, AtLeastItself
    <3>3. U * (p - S) = p * U - S * U
      BY <1>3, <1>4
    <3>4. PICK x \in Int, y \in Int : x = p * U /\ y = S * U
      BY <1>3, <1>4
    <3> QED BY <1>3, <2>3, <3>2, <3>3, <3>4
  <2>5. S * U = T * T
    <3>1. S * (B * T) = (B * S) * T
      BY <1>3
    <3> QED BY <1>3, <3>1
  <2>6. PICK x \in Int, y \in Int, z \in Int : x = p * q /\ y = p * U /\ z = S * U
    BY <1>3, <1>4, <1>7
  <2>7. z = Q
    BY <1>6, <2>5, <2>6
  <2>8. Q >= x
    BY <1>4, <1>6, <1>7, <2>6
  <2>9. x >= y /\ y > z
    BY <2>2, <2>4, <2>6
  <2>10. x \in Int /\ y \in Int /\ z \in Int /\ Q \in Int
    BY <1>6, <2>6
  <2> QED BY <2>7, <2>8, <2>9, <2>10
<1>10. q = (R * R) \div p /\ U = PowerOf(Base, BI_WORDS + 1)
  BY <1>3, <1>6, <1>7, Zenon
<1>11. q \in Nat
  BY <1>7, <1>8
<1> QED BY <1>9, <1>10, <1>11, Zenon

(* The square of R is reduced to an element.                               *)
LEMMA SquareFits ==
  ASSUME NEW p, GoodModulus(p)
  PROVE  (R * R) % p \in 0..p-1 /\ Congruent((R * R) % p, R * R, p)
<1>1. PICK T \in Nat, Q \in Nat : T = R /\ Q = R * R
  BY BigFacts
<1>2. p \in Nat /\ p > 0
  BY DEF GoodModulus
<1>3. PICK q \in Int, r \in 0..p-1 : r = Q % p /\ Q = p * q + r
  <2>1. Q \div p \in Int /\ Q % p \in 0..p-1 /\ Q = p * (Q \div p) + (Q % p)
    BY <1>1, <1>2, Divided
  <2> QED BY <2>1
<1>4. Congruent(r, Q, p)
  <2>1. p * (0 - q) = 0 - p * q
    BY <1>2, <1>3
  <2>2. PICK u \in Int : u = p * q
    BY <1>2, <1>3
  <2>3. r = Q + p * (0 - q) /\ 0 - q \in Int
    BY <1>1, <1>2, <1>3, <2>1, <2>2
  <2> QED BY <2>3 DEF Congruent
<1> QED BY <1>1, <1>2, <1>3, <1>4

(* A modulus of the length of an element has all of these.                 *)
LEMMA ModulusReduces ==
  ASSUME NEW p, GoodModulus(p)
  PROVE  Reduces(p, Big(p, BI_WORDS), CHOOSE n \in Word : (n * p + 1) % Base = 0,
                 Big((R * R) \div p, BI_WORDS + 1),
                 Big(CHOOSE n \in 0..R - 1 : (n * p + 1) % R = 0, BI_WORDS),
                 Big((R * R) % p, BI_WORDS))
<1> DEFINE n0 == CHOOSE n \in Word : (n * p + 1) % Base = 0
           whole == CHOOSE n \in 0..R - 1 : (n * p + 1) % R = 0
           quotient == (R * R) \div p
           rest == (R * R) % p
<1>1. /\ p \in Nat /\ p % 2 = 1 /\ 1 < p /\ p > 2 /\ 3 * p <= R /\ p >= PowerOf(Base, BI_WORDS - 1) /\ p < R
      /\ BI_WORDS \in Nat /\ BI_WORDS + 1 \in Nat /\ R \in Nat /\ R = PowerOf(Base, BI_WORDS)
  <2>1. BI_WORDS \in Nat /\ R \in Nat /\ R > 0 /\ R = PowerOf(Base, BI_WORDS)
    BY BigFacts DEF R
  <2>2. p \in Nat /\ p % 2 = 1 /\ 1 < p /\ 3 * p <= R
    BY DEF GoodModulus
  <2>3. BI_WORDS - 1 \in Nat
    BY WordsAssumption
  <2>4. PowerOf(Base, BI_WORDS - 1) \in Nat
    BY <2>3, BaseFacts, PowerLaws
  <2>5. p >= PowerOf(Base, BI_WORDS - 1)
    BY <2>2, <2>4 DEF GoodModulus
  <2>6. p > 2
    BY <2>2
  <2>7. p < R
    BY <2>1, <2>2
  <2> QED BY <2>1, <2>2, <2>5, <2>6, <2>7
<1>2. Big(p, BI_WORDS) \in Elements /\ Value(Big(p, BI_WORDS)) = p
  BY ModulusWords
<1>3. n0 \in Nat /\ (n0 * p + 1) % Base = 0
  <2>1. IsMinusInverse(n0, p, Base)
    BY <1>1, WordInverse
  <2> HIDE DEF n0
  <2> QED BY <2>1, BaseFacts DEF IsMinusInverse
<1>4. whole \in Nat /\ whole < PowerOf(Base, BI_WORDS) /\ (whole * p + 1) % R = 0
  <2>1. IsMinusInverse(whole, p, R)
    BY <1>1, WholeInverse
  <2> HIDE DEF whole
  <2> QED BY <1>1, <2>1 DEF IsMinusInverse
<1>5. quotient \in Nat /\ quotient < PowerOf(Base, BI_WORDS + 1)
  BY QuotientFits
<1>6. rest \in 0..p-1 /\ Congruent(rest, R * R, p)
  BY SquareFits
<1>7. rest \in Nat /\ rest < p /\ rest < PowerOf(Base, BI_WORDS)
  <2> HIDE DEF rest
  <2> QED BY <1>1, <1>6
<1> HIDE DEF n0, whole, quotient, rest
<1>8. Big(whole, BI_WORDS) \in Elements /\ Value(Big(whole, BI_WORDS)) = whole
  BY <1>1, <1>4, BigValue DEF Elements
<1>9. Big(quotient, BI_WORDS + 1) \in Bigs(BI_WORDS + 1) /\ Value(Big(quotient, BI_WORDS + 1)) = quotient
  BY <1>1, <1>5, BigValue
<1>10. Big(rest, BI_WORDS) \in Elements /\ Value(Big(rest, BI_WORDS)) = rest
  BY <1>1, <1>7, BigValue DEF Elements
<1>11. Reduces(p, Big(p, BI_WORDS), n0, Big(quotient, BI_WORDS + 1), Big(whole, BI_WORDS), Big(rest, BI_WORDS))
  <2>1. Value(Big(quotient, BI_WORDS + 1)) = (R * R) \div p /\ Value(Big(rest, BI_WORDS)) = (R * R) % p
    BY <1>9, <1>10, Zenon DEF quotient, rest
  <2>2. (Value(Big(whole, BI_WORDS)) * p + 1) % R = 0
    BY <1>4, <1>8, Zenon
  <2>3. Value(Big(rest, BI_WORDS)) < p /\ Congruent(Value(Big(rest, BI_WORDS)), R * R, p)
    BY <1>6, <1>7, <1>10, Zenon
  <2> QED BY <1>1, <1>2, <1>3, <1>8, <1>9, <1>10, <2>1, <2>2, <2>3, Zenon DEF Reduces
<1> QED BY <1>11, Zenon DEF n0, whole, quotient, rest

(* The conjuncts of ResiduesAgree, by the routines they are about.         *)
LEMMA ResidueSums ==
  ASSUME ExactWords, NEW p, NEW mod, NEW n0, NEW mu, NEW all, NEW r2, Reduces(p, mod, n0, mu, all, r2),
         NEW a \in Elements, Value(a) < p, NEW b \in Elements, Value(b) < p
  PROVE  /\ Value(fp_add_std(a, b, mod)) = (Value(a) + Value(b)) % p
         /\ Value(fp_sub_std(a, b, mod)) = (Value(a) - Value(b)) % p
         /\ Value(fp_neg_std(a, mod)) = (-Value(a)) % p
         /\ Value(fp_dbl_std(a, mod)) = (2 * Value(a)) % p
         /\ (2 * Value(fp_hlv_std(a, mod))) % p = Value(a) /\ Value(fp_hlv_std(a, mod)) < p
<1>1. mod \in Elements /\ Value(mod) = p /\ Value(mod) % 2 = 1 /\ Value(a) < Value(mod) /\ Value(b) < Value(mod)
  BY Zenon DEF Reduces
<1>2. Value(fp_add_std(a, b, mod)) = (Value(a) + Value(b)) % p
  BY <1>1, FieldSumsAreReduced, Zenon
<1>3. Value(fp_sub_std(a, b, mod)) = (Value(a) - Value(b)) % p
  BY <1>1, FieldDifferencesAreReduced, Zenon
<1>4. Value(fp_neg_std(a, mod)) = (-Value(a)) % p
  BY <1>1, FieldNegativesAreReduced, Zenon
<1>5. Value(fp_dbl_std(a, mod)) = (2 * Value(a)) % p
  BY <1>1, FieldDoublesAreReduced, Zenon
<1>6. (2 * Value(fp_hlv_std(a, mod))) % p = Value(a) /\ Value(fp_hlv_std(a, mod)) < p
  BY <1>1, FieldHalvesAreReduced, Zenon
<1> QED BY <1>2, <1>3, <1>4, <1>5, <1>6, Zenon

(* A product in the domain as a remainder.                                 *)
LEMMA MontyRest ==
  ASSUME NEW p \in Nat, p > 0, NEW r \in Elements, NEW v \in Int, Congruent(R * Value(r), v, p)
  PROVE  (R * Value(r) - v) % p = 0
<1>1. PICK x \in Int : x = R * Value(r)
  BY BigFacts
<1>2. Congruent(x, v, p)
  BY <1>1, Zenon
<1>3. (x - v) % p = 0
  BY <1>2, RestOfDifference
<1> QED BY <1>1, <1>3, Zenon

(* The products, in the domain and outside it.                             *)
LEMMA ResidueProducts ==
  ASSUME ExactWords, ExactProducts, StandardProduct, ColumnsFit,
         NEW p, NEW mod, NEW n0, NEW mu, NEW all, NEW r2, Reduces(p, mod, n0, mu, all, r2),
         NEW a \in Elements, Value(a) < p, NEW b \in Elements, Value(b) < p
  PROVE  /\ Value(fp_mul_std(a, b, mod, mu)) = (Value(a) * Value(b)) % p
         /\ Value(fp_mul_monty_twostep_std(a, b, mod, n0)) < p
         /\ (R * Value(fp_mul_monty_twostep_std(a, b, mod, n0)) - Value(a) * Value(b)) % p = 0
         /\ Value(fp_mul_monty_fips(a, b, mod, n0)) < p
         /\ (R * Value(fp_mul_monty_fips(a, b, mod, n0)) - Value(a) * Value(b)) % p = 0
         /\ Value(fp_mul_monty_std(a, b, mod, all)) < p
         /\ (R * Value(fp_mul_monty_std(a, b, mod, all)) - Value(a) * Value(b)) % p = 0
         /\ fp_from_montgomery(fp_to_montgomery(a, mod, n0, r2), mod, n0) = a
<1>1. /\ mod \in Elements /\ Value(mod) = p /\ Value(a) < Value(mod) /\ Value(b) < Value(mod)
      /\ n0 \in Nat /\ (n0 * Value(mod) + 1) % Base = 0 /\ 3 * Value(mod) <= R
      /\ all \in Elements /\ (Value(all) * Value(mod) + 1) % R = 0 /\ 1 < Value(mod)
      /\ mu \in Bigs(BI_WORDS + 1) /\ Value(mu) = (R * R) \div Value(mod)
      /\ Value(mod) >= PowerOf(Base, BI_WORDS - 1)
      /\ r2 \in Elements /\ Value(r2) < Value(mod) /\ Congruent(Value(r2), R * R, Value(mod))
  BY Zenon DEF Reduces
<1>2. p \in Nat /\ p > 0 /\ Value(a) * Value(b) \in Int
  <2>1. p \in Nat /\ 1 < p
    BY DEF Reduces
  <2>2. PICK x \in Nat, y \in Nat : x = Value(a) /\ y = Value(b)
    BY BigFacts
  <2>3. x * y \in Int
    OBVIOUS
  <2> QED BY <2>1, <2>2, <2>3
<1>3. Value(fp_mul_std(a, b, mod, mu)) = (Value(a) * Value(b)) % p
  BY <1>1, BarrettIsExact, Zenon
<1>4. PICK r : /\ r = fp_mul_monty_twostep_std(a, b, mod, n0) /\ r \in Elements /\ Value(r) < p
               /\ Congruent(R * Value(r), Value(a) * Value(b), p)
  BY <1>1, MontyProductIsExact, Zenon
<1>5. PICK s : /\ s = fp_mul_monty_fips(a, b, mod, n0) /\ s \in Elements /\ Value(s) < p
               /\ Congruent(R * Value(s), Value(a) * Value(b), p)
  BY <1>1, ColumnProductIsExact, Zenon
<1>6. PICK t : /\ t = fp_mul_monty_std(a, b, mod, all) /\ t \in Elements /\ Value(t) < p
               /\ Congruent(R * Value(t), Value(a) * Value(b), p)
  BY <1>1, WholeMontyIsExact, Zenon
<1>7. (R * Value(r) - Value(a) * Value(b)) % p = 0
  BY <1>2, <1>4, MontyRest, Zenon
<1>8. (R * Value(s) - Value(a) * Value(b)) % p = 0
  BY <1>2, <1>5, MontyRest, Zenon
<1>9. (R * Value(t) - Value(a) * Value(b)) % p = 0
  BY <1>2, <1>6, MontyRest, Zenon
<1>10. fp_from_montgomery(fp_to_montgomery(a, mod, n0, r2), mod, n0) = a
  BY <1>1, DomainReturns
<1> QED BY <1>3, <1>4, <1>5, <1>6, <1>7, <1>8, <1>9, <1>10, Zenon

(* R times the inverse of a, if there is one.                              *)
InverseOf(a, r, p) == \A e \in Int : (Value(a) * e) % p = 1 => (Value(a) * Value(r) - R) % p = 0

(* The powers and the inverse.                                             *)
LEMMA ResiduePowers ==
  ASSUME ExactWords, ExactProducts, StandardProduct,
         NEW p, NEW mod, NEW n0, NEW mu, NEW all, NEW r2, Reduces(p, mod, n0, mu, all, r2),
         NEW a \in Elements, Value(a) < p, NEW b \in Elements
  PROVE  /\ Value(fp_exp_monty(a, b, mod, n0, r2)) = RestPower(Value(a), p, Value(b)) % p
         /\ Value(fp_inv_exp_var(a, mod, mu)) = RestPower(Value(a), p, p - 2) % p
         /\ InverseOf(a, fp_inv_binary(fp_to_montgomery(a, mod, n0, r2), mod, n0, r2), p)
<1>1. Domain(mod, n0, r2) /\ Value(mod) = p /\ Value(mod) % 2 = 1 /\ Value(a) < Value(mod) /\ Barrett(mod, mu)
  <2>1. /\ mod \in Elements /\ Value(mod) = p /\ n0 \in Nat /\ (n0 * p + 1) % Base = 0 /\ 1 < p /\ 3 * p <= R /\ p % 2 = 1
        /\ r2 \in Elements /\ Value(r2) < p /\ Congruent(Value(r2), R * R, p)
    BY DEF Reduces
  <2>2. p > 2 /\ p >= PowerOf(Base, BI_WORDS - 1) /\ mu \in Bigs(BI_WORDS + 1) /\ Value(mu) = (R * R) \div p
    BY DEF Reduces
  <2>3. Domain(mod, n0, r2)
    BY <2>1, Zenon DEF Domain
  <2>4. Barrett(mod, mu)
    BY <2>1, <2>2, Zenon DEF Barrett
  <2>5. Value(mod) % 2 = 1 /\ Value(a) < Value(mod)
    BY <2>1
  <2> QED BY <2>1, <2>3, <2>4, <2>5
<1>2. Value(fp_exp_monty(a, b, mod, n0, r2)) = RestPower(Value(a), p, Value(b)) % p
  <2>1. PICK r : r = fp_exp_monty(a, b, mod, n0, r2) /\ Value(r) = RestPower(Value(a), Value(mod), Value(b)) % Value(mod)
    BY <1>1, PowersAreExact
  <2> QED BY <1>1, <2>1, Zenon
<1>3. Value(fp_inv_exp_var(a, mod, mu)) = RestPower(Value(a), p, p - 2) % p
  BY <1>1, InversePowersAreExact, Zenon
<1>4. PICK v \in Int : v = Value(a)
  BY BigFacts
<1>5. p \in Nat /\ p > 0 /\ R \in Int
  <2>1. p \in Nat /\ 1 < p
    BY DEF Reduces
  <2> QED BY <2>1, BigFacts
<1>6. PICK inside : inside = fp_to_montgomery(a, mod, n0, r2) /\ Stands(inside, v, Value(mod))
  BY <1>1, <1>4, StandsForElement, Zenon DEF fp_to_montgomery
<1>7. ASSUME NEW e \in Int, (v * e) % p = 1
      PROVE  (v * Value(fp_inv_binary(inside, mod, n0, r2)) - R) % p = 0
  <2>1. PICK x \in Int : x = v * e
    OBVIOUS
  <2>2. x \div p \in Int /\ x = p * (x \div p) + (x % p)
    BY <1>5, <2>1, Divided
  <2>3. Congruent(x, 1, p)
    <3>1. PICK q \in Int : q = x \div p /\ x = p * q + 1
      BY <1>7, <2>1, <2>2
    <3>2. PICK u \in Int : u = p * q
      BY <1>5
    <3>3. x = 1 + p * q
      BY <3>1, <3>2
    <3> QED BY <3>3 DEF Congruent
  <2>4. Congruent(v * e, 1, Value(mod))
    BY <1>1, <2>1, <2>3, Zenon
  <2>5. PICK r : /\ r = fp_inv_binary(inside, mod, n0, r2) /\ r \in Elements
                 /\ Congruent(v * Value(r), R, Value(mod))
    BY <1>1, <1>6, <2>4, InversesAreExact
  <2>6. PICK y \in Int : y = v * Value(r)
    <3>1. Value(r) \in Nat
      BY <2>5, BigFacts
    <3> QED BY <3>1
  <2>7. Congruent(y, R, p)
    BY <1>1, <2>5, <2>6, Zenon
  <2>8. (y - R) % p = 0
    BY <1>5, <2>7, RestOfDifference
  <2> QED BY <2>5, <2>6, <2>8, Zenon
<1>8. InverseOf(a, fp_inv_binary(inside, mod, n0, r2), p)
  BY <1>4, <1>7, Zenon DEF InverseOf
<1> QED BY <1>2, <1>3, <1>6, <1>8, Zenon

(* The product of the quadratic extension.                                 *)
LEMMA ResidueExtension ==
  ASSUME ExactWords, ExactProducts,
         NEW p, NEW mod, NEW n0, NEW mu, NEW all, NEW r2, Reduces(p, mod, n0, mu, all, r2),
         NEW a \in Elements, Value(a) < p, NEW b \in Elements, Value(b) < p,
         NEW c \in Elements, Value(c) < p, NEW d \in Elements, Value(d) < p
  PROVE  LET m == fp2_mul_lazy(<<a, c>>, <<b, d>>, mod, n0) IN
         /\ Value(m[1]) < p /\ (R * Value(m[1]) - (Value(a) * Value(b) - Value(c) * Value(d))) % p = 0
         /\ Value(m[2]) < p /\ (R * Value(m[2]) - (Value(a) * Value(d) + Value(c) * Value(b))) % p = 0
<1>1. /\ mod \in Elements /\ Value(mod) = p /\ n0 \in Nat /\ (n0 * Value(mod) + 1) % Base = 0 /\ 3 * Value(mod) <= R
      /\ \A e \in {a, c, b, d} : Value(e) < Value(mod)
  <2>1. mod \in Elements /\ Value(mod) = p /\ n0 \in Nat /\ (n0 * Value(mod) + 1) % Base = 0 /\ 3 * Value(mod) <= R
    BY Zenon DEF Reduces
  <2>2. ASSUME NEW e \in {a, c, b, d} PROVE Value(e) < Value(mod)
    BY <2>1, Zenon
  <2> QED BY <2>1, <2>2, Zenon
<1>2. PICK m : /\ m = fp2_mul_lazy(<<a, c>>, <<b, d>>, mod, n0)
               /\ m[1] \in Elements /\ Value(m[1]) < p /\ m[2] \in Elements /\ Value(m[2]) < p
               /\ Congruent(R * Value(m[1]), Value(a) * Value(b) - Value(c) * Value(d), p)
               /\ Congruent(R * Value(m[2]), Value(a) * Value(d) + Value(c) * Value(b), p)
  BY <1>1, ExtensionProductIsExact, Zenon
<1>3. p \in Nat /\ p > 0
  <2>1. p \in Nat /\ 1 < p
    BY DEF Reduces
  <2> QED BY <2>1
<1>4. Value(a) * Value(b) - Value(c) * Value(d) \in Int /\ Value(a) * Value(d) + Value(c) * Value(b) \in Int
  <2>1. PICK w \in Nat, x \in Nat, y \in Nat, z \in Nat : w = Value(a) /\ x = Value(b) /\ y = Value(c) /\ z = Value(d)
    BY BigFacts
  <2>2. w * x - y * z \in Int /\ w * z + y * x \in Int
    OBVIOUS
  <2> QED BY <2>1, <2>2
<1>5. (R * Value(m[1]) - (Value(a) * Value(b) - Value(c) * Value(d))) % p = 0
  BY <1>2, <1>3, <1>4, MontyRest, Zenon
<1>6. (R * Value(m[2]) - (Value(a) * Value(d) + Value(c) * Value(b))) % p = 0
  BY <1>2, <1>3, <1>4, MontyRest, Zenon
<1> QED BY <1>2, <1>5, <1>6, Zenon

(* A residue as an element.                                                *)
LEMMA ResidueElement ==
  ASSUME NEW p, GoodModulus(p), NEW v \in Nat, v < p
  PROVE  Big(v, BI_WORDS) \in Elements /\ Value(Big(v, BI_WORDS)) = v
<1>1. BI_WORDS \in Nat /\ R \in Nat /\ R > 0 /\ R = PowerOf(Base, BI_WORDS)
  BY BigFacts DEF R
<1>2. v < R
  BY <1>1 DEF GoodModulus
<1> QED BY <1>1, <1>2, BigValue, Zenon DEF Elements

(* Every routine of residues returns the residue, in its domain or outside *)
(* it, for any two numbers below a modulus of the length of an element.    *)
THEOREM ResiduesAreIntegers ==
  ASSUME ExactWords, ExactProducts, StandardProduct, ColumnsFit,
         NEW va \in 0..R-1, NEW vb \in 0..R-1, NEW p, GoodModulus(p), va < p, vb < p
  PROVE  ResiduesAgree(va, vb, p)
<1> DEFINE a == Big(va, BI_WORDS)
           b == Big(vb, BI_WORDS)
           mod == Big(p, BI_WORDS)
           n0 == CHOOSE n \in Word : (n * p + 1) % Base = 0
           mu == Big((R * R) \div p, BI_WORDS + 1)
           all == Big(CHOOSE n \in 0..R - 1 : (n * p + 1) % R = 0, BI_WORDS)
           r2 == Big((R * R) % p, BI_WORDS)
           Power(k) == LET w[i \in 0..k] == IF i = 0 THEN 1 ELSE (va * w[i-1]) % p IN w[k]
           m(c, d) == fp2_mul_lazy(<<a, Big(c, BI_WORDS)>>, <<b, Big(d, BI_WORDS)>>, mod, n0)
           x(c, d) == va * vb - c * d
           y(c, d) == va * d + c * vb
<1>1. va \in Nat /\ vb \in Nat /\ p \in Nat /\ p % 2 = 1 /\ 1 < p
  BY BigFacts DEF GoodModulus
<1>2. a \in Elements /\ Value(a) = va /\ b \in Elements /\ Value(b) = vb
  BY <1>1, ResidueElement
<1>3. Reduces(p, mod, n0, mu, all, r2)
  BY ModulusReduces
<1>4. \A k : Power(k) = RestPower(va, p, k)
  BY Zenon DEF RestPower
<1> HIDE DEF a, b, mod, n0, mu, all, r2, Power
<1>5. Value(a) < p /\ Value(b) < p
  BY <1>2
<1>6. /\ Value(fp_add_std(a, b, mod)) = (va + vb) % p
      /\ Value(fp_sub_std(a, b, mod)) = (va - vb) % p
      /\ Value(fp_neg_std(a, mod)) = (-va) % p
      /\ Value(fp_dbl_std(a, mod)) = (2 * va) % p
      /\ (2 * Value(fp_hlv_std(a, mod))) % p = va /\ Value(fp_hlv_std(a, mod)) < p
  <2>1. /\ Value(fp_add_std(a, b, mod)) = (Value(a) + Value(b)) % p
        /\ Value(fp_sub_std(a, b, mod)) = (Value(a) - Value(b)) % p
        /\ Value(fp_neg_std(a, mod)) = (-Value(a)) % p
        /\ Value(fp_dbl_std(a, mod)) = (2 * Value(a)) % p
        /\ (2 * Value(fp_hlv_std(a, mod))) % p = Value(a) /\ Value(fp_hlv_std(a, mod)) < p
    BY <1>2, <1>3, <1>5, ResidueSums, Zenon
  <2> QED BY <1>2, <2>1, Zenon
<1>7. /\ Value(fp_mul_std(a, b, mod, mu)) = (va * vb) % p
      /\ Value(fp_mul_monty_twostep_std(a, b, mod, n0)) < p
      /\ (R * Value(fp_mul_monty_twostep_std(a, b, mod, n0)) - va * vb) % p = 0
      /\ Value(fp_mul_monty_fips(a, b, mod, n0)) < p
      /\ (R * Value(fp_mul_monty_fips(a, b, mod, n0)) - va * vb) % p = 0
      /\ Value(fp_mul_monty_std(a, b, mod, all)) < p
      /\ (R * Value(fp_mul_monty_std(a, b, mod, all)) - va * vb) % p = 0
      /\ fp_from_montgomery(fp_to_montgomery(a, mod, n0, r2), mod, n0) = a
  <2>1. /\ Value(fp_mul_std(a, b, mod, mu)) = (Value(a) * Value(b)) % p
        /\ Value(fp_mul_monty_twostep_std(a, b, mod, n0)) < p
        /\ (R * Value(fp_mul_monty_twostep_std(a, b, mod, n0)) - Value(a) * Value(b)) % p = 0
        /\ Value(fp_mul_monty_fips(a, b, mod, n0)) < p
        /\ (R * Value(fp_mul_monty_fips(a, b, mod, n0)) - Value(a) * Value(b)) % p = 0
        /\ Value(fp_mul_monty_std(a, b, mod, all)) < p
        /\ (R * Value(fp_mul_monty_std(a, b, mod, all)) - Value(a) * Value(b)) % p = 0
        /\ fp_from_montgomery(fp_to_montgomery(a, mod, n0, r2), mod, n0) = a
    BY <1>2, <1>3, <1>5, ResidueProducts
  <2> QED BY <1>2, <2>1, Zenon
<1>8. /\ Value(fp_exp_monty(a, b, mod, n0, r2)) = Power(vb) % p
      /\ Value(fp_inv_exp_var(a, mod, mu)) = Power(p - 2) % p
      /\ \A e \in Int : (va * e) % p = 1 =>
           (va * Value(fp_inv_binary(fp_to_montgomery(a, mod, n0, r2), mod, n0, r2)) - R) % p = 0
  <2>1. /\ Value(fp_exp_monty(a, b, mod, n0, r2)) = RestPower(Value(a), p, Value(b)) % p
        /\ Value(fp_inv_exp_var(a, mod, mu)) = RestPower(Value(a), p, p - 2) % p
        /\ InverseOf(a, fp_inv_binary(fp_to_montgomery(a, mod, n0, r2), mod, n0, r2), p)
    BY <1>2, <1>3, <1>5, ResiduePowers
  <2> QED BY <1>2, <1>4, <2>1, Zenon DEF InverseOf
<1>9. Coprime(va, p) => (va * Value(fp_inv_binary(fp_to_montgomery(a, mod, n0, r2), mod, n0, r2)) - R) % p = 0
  <2>1. \A e \in 0..p-1 : e \in Int
    OBVIOUS
  <2> QED BY <1>8, <2>1, Zenon DEF Coprime
<1>10. ASSUME NEW c \in {0, p - 1, p \div 2}, NEW d \in {0, p - 1, p \div 2}
       PROVE  /\ Value(m(c, d)[1]) < p /\ (R * Value(m(c, d)[1]) - x(c, d)) % p = 0
              /\ Value(m(c, d)[2]) < p /\ (R * Value(m(c, d)[2]) - y(c, d)) % p = 0
  <2>1. c \in Nat /\ c < p /\ d \in Nat /\ d < p
    BY <1>1
  <2>2. PICK u : u = Big(c, BI_WORDS) /\ u \in Elements /\ Value(u) = c /\ Value(u) < p
    BY <2>1, ResidueElement
  <2>3. PICK v : v = Big(d, BI_WORDS) /\ v \in Elements /\ Value(v) = d /\ Value(v) < p
    BY <2>1, ResidueElement
  <2>4. PICK n : /\ n = fp2_mul_lazy(<<a, u>>, <<b, v>>, mod, n0)
                 /\ Value(n[1]) < p /\ (R * Value(n[1]) - (Value(a) * Value(b) - Value(u) * Value(v))) % p = 0
                 /\ Value(n[2]) < p /\ (R * Value(n[2]) - (Value(a) * Value(v) + Value(u) * Value(b))) % p = 0
    BY <1>2, <1>3, <1>5, <2>2, <2>3, ResidueExtension
  <2>5. n = m(c, d)
    BY <2>2, <2>3, <2>4, Zenon
  <2> QED BY <1>2, <2>2, <2>3, <2>4, <2>5, Zenon
<1> QED BY <1>6, <1>7, <1>8, <1>9, <1>10, Zenon DEF ResiduesAgree, a, b, mod, n0, mu, all, r2, Power

(* The words agree with integers for every pair and every such modulus.    *)
THEOREM WordsAgreeAlways ==
  ASSUME ExactWords, ExactProducts, StandardProduct, ColumnsFit, \A p \in Moduli : GoodModulus(p),
         NEW va \in 0..R-1, NEW vb \in 0..R-1
  PROVE  WordsAgree(va, vb)
<1>1. BigsAgree(va, vb)
  BY BigsAreIntegers
<1>2. ASSUME NEW p \in Moduli PROVE LazyAgree(va, vb, p) /\ (va < p /\ vb < p => ResiduesAgree(va, vb, p))
  <2>1. GoodModulus(p)
    OBVIOUS
  <2>2. LazyAgree(va, vb, p)
    BY <2>1, LazyFieldsAreIntegers
  <2>3. ASSUME va < p, vb < p PROVE ResiduesAgree(va, vb, p)
    BY <2>1, <2>3, ResiduesAreIntegers
  <2> QED BY <2>2, <2>3
<1> QED BY <1>1, <1>2 DEF WordsAgree

=============================================================================
