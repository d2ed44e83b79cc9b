---------------------------- MODULE WordProofs -----------------------------
(***************************************************************************)
(* The word routines of bi.c and fp.c and the lazy product of fp2.c do     *)
(* exact arithmetic for every size of a word, every number of words and    *)
(* every modulus: what the run over Arithmetic tries with three words of   *)
(* two bits, these theorems say of the eight words of 32 bits in the code. *)
(*                                                                         *)
(* A loop is a recursive function.  It is followed from turn to turn by    *)
(* the least counterexample, so no induction theorem with an operator      *)
(* parameter is needed.                                                    *)
(***************************************************************************)
EXTENDS WordValues, NaturalsInduction, WellFoundedInduction, TLAPS

-----------------------------------------------------------------------------
(* Loops.                                                                  *)

(* A nonempty set of numbers has a least element; the order of the numbers *)
(* is well-founded.                                                        *)
LEMMA Least ==
  ASSUME NEW S \in SUBSET Nat, S # {}
  PROVE  \E i \in S : \A j \in S : i <= j
<1> DEFINE Below == {p \in Nat \X Nat : p[1] < p[2]}
<1>1. IsWellFoundedOn(Below, Nat)
  BY NatLessThanWellFounded, Zenon DEF OpToRel
<1> HIDE DEF Below
<1>2. PICK x \in S : \A y \in S : ~ (<<y, x>> \in Below)
  <2>1. S \subseteq Nat /\ S # {}
    OBVIOUS
  <2> QED
    BY <1>1, <2>1, WFMin
<1>3. ASSUME NEW y \in S PROVE x <= y
  <2>1. x \in Nat /\ y \in Nat
    OBVIOUS
  <2>2. y < x => <<y, x>> \in Below
    BY <2>1 DEF Below
  <2> QED
    BY <1>2, <2>1, <2>2
<1> QED
  BY <1>3

(* A set of numbers with 0 and every successor holds all of them:          *)
(* otherwise the least number outside it would have a predecessor inside.  *)
LEMMA Induct ==
  ASSUME NEW S \in SUBSET Nat, 0 \in S, \A n \in S : n + 1 \in S
  PROVE  S = Nat
<1>1. SUFFICES ASSUME S # Nat PROVE FALSE
  OBVIOUS
<1> DEFINE Outside == Nat \ S
<1>2. Outside \in SUBSET Nat /\ Outside # {}
  BY <1>1
<1>3. PICK i \in Outside : \A j \in Outside : i <= j
  BY <1>2, Least
<1>4. i \in Nat /\ i # 0 /\ i \notin S
  OBVIOUS
<1>5. i - 1 \in Nat /\ i - 1 \in S
  BY <1>3, <1>4
<1> QED
  BY <1>4, <1>5

(* The turns of a loop with states in X: the number of the turn and the    *)
(* state before it give the state after it.                                *)
Steps(X) == [(Nat \X X) -> X]
(* f is the run of a loop of n turns from x0.                              *)
Iterates(f, n, X, x0, step) ==
  f \in [0..n -> X] /\ f[0] = x0 /\ \A i \in 1..n : f[i] = step[<<i, f[i-1]>>]

(* A loop that starts in X and stays in X has a state before every turn;   *)
(* the state after the last turn is what the recursive functions of the    *)
(* models return.                                                          *)
LEMMA IteratesExist ==
  ASSUME NEW X, NEW x0 \in X, NEW step \in Steps(X), NEW n \in Nat
  PROVE  \E f : Iterates(f, n, X, x0, step)
<1> USE DEF Steps, Iterates
<1> DEFINE Is(f, m) == f \in [0..m -> X] /\ f[0] = x0 /\ \A i \in 1..m : f[i] = step[<<i, f[i-1]>>]
           S == {m \in Nat : \E f \in [0..m -> X] : Is(f, m)}
<1>1. 0 \in S
  <2>1. Is([i \in 0..0 |-> x0], 0)
    OBVIOUS
  <2> QED BY <2>1
<1>2. ASSUME NEW m \in S PROVE m + 1 \in S
  <2>1. PICK f \in [0..m -> X] : Is(f, m)
    OBVIOUS
  <2>0. m \in Nat
    OBVIOUS
  <2> DEFINE g == [i \in 0..m+1 |-> IF i <= m THEN f[i] ELSE step[<<m+1, f[m]>>]]
  <2>2. g \in [0..m+1 -> X]
    BY <2>0
  <2>3. \A i \in 1..m+1 : g[i] = step[<<i, g[i-1]>>]
    <3>1. ASSUME NEW i \in 1..m PROVE g[i] = step[<<i, g[i-1]>>]
      <4>1. g[i] = f[i] /\ g[i-1] = f[i-1]
        BY <2>0
      <4> QED BY <2>1, <4>1
    <3>2. g[m+1] = step[<<m+1, g[m]>>]
      <4>1. m \in 0..m+1 /\ m+1 \in 0..m+1 /\ m <= m /\ ~ (m + 1 <= m)
        BY <2>0
      <4> QED BY <4>1
    <3>3. 1..m+1 = 1..m \cup {m+1}
      BY <2>0
    <3>4. m + 1 - 1 = m
      BY <2>0
    <3> HIDE DEF g
    <3> QED BY <3>1, <3>2, <3>3, <3>4
  <2>4. g[0] = x0
    BY <2>0, <2>1
  <2> HIDE DEF g
  <2>5. \E h \in [0..m+1 -> X] : Is(h, m + 1)
    BY <2>2, <2>3, <2>4
  <2> QED
    BY <2>0, <2>5
<1>3. S = Nat
  <2> HIDE DEF S
  <2> QED BY <1>1, <1>2, Induct DEF S
<1> QED
  BY <1>3

(* Induction over the turns of a loop that stops after n of them.          *)
LEMMA UpTo ==
  ASSUME NEW n \in Nat, NEW S, 0 \in S, \A i \in 1..n : i - 1 \in S => i \in S
  PROVE  \A i \in 0..n : i \in S
<1> DEFINE T == {i \in Nat : i <= n => i \in S}
<1>1. 0 \in T
  OBVIOUS
<1>2. ASSUME NEW i \in T PROVE i + 1 \in T
  <2>1. i \in Nat /\ i + 1 - 1 = i
    OBVIOUS
  <2>2. CASE i + 1 <= n
    <3>1. i + 1 \in 1..n /\ i <= n
      BY <2>1, <2>2
    <3>2. i \in S
      BY <3>1
    <3> QED BY <2>1, <3>1, <3>2
  <2> QED
    BY <2>1, <2>2
<1>3. T = Nat
  <2> HIDE DEF T
  <2> QED BY <1>1, <1>2, Induct DEF T
<1> QED
  BY <1>3

-----------------------------------------------------------------------------
(* Words.                                                                  *)

(* A big integer of n words as a sequence.                                 *)
LEMMA BigLen ==
  ASSUME NEW n \in Nat, NEW a \in Bigs(n)
  PROVE  Len(a) = n /\ a \in Seq(Word) /\ DOMAIN a = 1..n
BY DEF Bigs

(* A product with a positive factor is not below the other factor.         *)
LEMMA AtLeastItself ==
  ASSUME NEW B \in Nat, NEW k \in Int, k >= 1
  PROVE  B * k >= B
<1> QED OBVIOUS
(* Division by a base takes apart what multiplication by it put together.  *)
LEMMA QuotientAndRest ==
  ASSUME NEW B \in Nat, B > 0, NEW q \in Int, NEW r \in 0..(B-1)
  PROVE (q * B + r) % B = r /\ (q * B + r) \div B = q
<1>1. (r + q * B) % B = r % B /\ r % B = r
  OBVIOUS
<1>2. (q * B + r) % B = r
  BY <1>1
<1> DEFINE x == q * B + r
 k == x \div B
<1>3. x = B * (x \div B) + (x % B) /\ x \div B \in Int
  OBVIOUS
<1> HIDE DEF k
<1>4. B * k = B * q /\ k \in Int
  BY <1>2, <1>3 DEF k
<1>5. B * (k - q) = 0 /\ B * (q - k) = 0
  BY <1>4
<1>6. ~ (k - q >= 1) /\ ~ (q - k >= 1)
  BY <1>4, <1>5, AtLeastItself
<1>7. k = q
  BY <1>4, <1>6
<1> QED BY <1>2, <1>7 DEF k

-----------------------------------------------------------------------------
(* Powers and values.                                                      *)
(* The powers of a number, one by one.                                     *)
LEMMA PowerDef ==
  ASSUME NEW b \in Nat, NEW n \in Nat
  PROVE  \E p \in [0..n -> Nat] : /\ p[0] = 1 /\ \A i \in 1..n : p[i] = b * p[i-1]
                                  /\ PowerOf(b, n) = p[n]
<1> DEFINE step == [s \in Nat \X Nat |-> b * s[2]]
           Is(p) == p = [i \in 0..n |-> IF i = 0 THEN 1 ELSE b * p[i-1]]
           w == CHOOSE p : Is(p)
<1>1. \E f : Is(f)
  <2>1. step \in Steps(Nat) /\ \A i, x \in Nat : step[<<i, x>>] = b * x
    BY DEF Steps
  <2> HIDE DEF step
  <2>2. PICK f : Iterates(f, n, Nat, 1, step)
    BY <2>1, IteratesExist
  <2>3. f \in [0..n -> Nat] /\ f[0] = 1
    BY <2>2 DEF Iterates
  <2>4. ASSUME NEW i \in 1..n PROVE f[i] = b * f[i-1]
    <3>1. i \in Nat /\ i - 1 \in 0..n
      OBVIOUS
    <3> QED BY <2>1, <2>2, <2>3, <3>1 DEF Iterates
  <2>5. \A i \in 0..n : f[i] = IF i = 0 THEN 1 ELSE b * f[i-1]
    BY <2>3, <2>4
  <2> QED BY <2>3, <2>5
<1>2. Is(w)
  BY <1>1
<1>3. PowerOf(b, n) = w[n]
  BY DEF PowerOf
<1> HIDE DEF w
<1>4. w[0] = 1 /\ \A i \in 1..n : w[i] = b * w[i-1]
  BY <1>2
<1>5. \A i \in 0..n : w[i] \in Nat
  <2> DEFINE T == {i \in 0..n : w[i] \in Nat}
  <2>1. 0 \in T /\ \A i \in 1..n : i - 1 \in T => i \in T
    BY <1>4
  <2> QED BY <2>1, UpTo
<1>6. w \in [0..n -> Nat]
  BY <1>2, <1>5
<1> QED
  BY <1>3, <1>4, <1>6

(* The recursion of powers.                                                *)
LEMMA PowerLaws ==
  ASSUME NEW b \in Nat, NEW n \in Nat
  PROVE  PowerOf(b, n) \in Nat /\ PowerOf(b, 0) = 1 /\ PowerOf(b, n + 1) = b * PowerOf(b, n)
<1>1. PICK p \in [0..n -> Nat] : p[0] = 1 /\ (\A i \in 1..n : p[i] = b * p[i-1]) /\ PowerOf(b, n) = p[n]
  BY PowerDef
<1>2. PICK q \in [0..n+1 -> Nat] : q[0] = 1 /\ (\A i \in 1..n+1 : q[i] = b * q[i-1])
                                   /\ PowerOf(b, n + 1) = q[n+1]
  BY PowerDef, n + 1 \in Nat
<1>3. PICK z \in [0..0 -> Nat] : z[0] = 1 /\ PowerOf(b, 0) = z[0]
  BY PowerDef, 0 \in Nat
<1>4. \A i \in 0..n : p[i] = q[i]
  <2> DEFINE T == {i \in 0..n : p[i] = q[i]}
  <2>1. 0 \in T
    BY <1>1, <1>2
  <2>2. ASSUME NEW i \in 1..n, i - 1 \in T PROVE i \in T
    <3>1. i \in 0..n /\ i \in 1..n+1
      OBVIOUS
    <3> QED BY <1>1, <1>2, <2>2, <3>1
  <2> HIDE DEF T
  <2>3. \A i \in 0..n : i \in T
    BY <2>1, <2>2, UpTo
  <2> QED BY <2>3 DEF T
<1>5. n + 1 \in 1..n+1 /\ n \in 0..n /\ n + 1 - 1 = n
  OBVIOUS
<1>6. q[n+1] = b * q[n]
  BY <1>2, <1>5
<1> QED
  BY <1>1, <1>2, <1>3, <1>4, <1>5, <1>6

(* Powers of a positive number are positive.                               *)
LEMMA PowerMonotone ==
  ASSUME NEW b \in Nat, b >= 1, NEW n \in Nat
  PROVE  PowerOf(b, n) >= 1
<1> DEFINE T == {i \in Nat : PowerOf(b, i) >= 1}
<1>1. 0 \in T
  BY PowerLaws
<1>2. ASSUME NEW i \in T PROVE i + 1 \in T
  <2> DEFINE x == PowerOf(b, i)
  <2>1. x \in Nat /\ x >= 1 /\ PowerOf(b, i + 1) = b * x
    BY PowerLaws
  <2> HIDE DEF x
  <2>2. b * x >= 1
    BY <2>1
  <2> QED BY <2>1, <2>2
<1> HIDE DEF T
<1>3. T \in SUBSET Nat
  BY DEF T
<1>4. T = Nat
  BY <1>1, <1>2, <1>3, Induct
<1> QED BY <1>4 DEF T

(* A word has at least two bits, so the base is even and at least two.     *)
LEMMA BaseFacts == Base \in Nat /\ Base >= 2 /\ Base = 2 * (Base \div 2) /\ Base \div 2 \in Nat \ {0}
<1>1. BITS_PER_WORD \in Nat /\ BITS_PER_WORD - 1 \in Nat /\ BITS_PER_WORD - 1 + 1 = BITS_PER_WORD
  BY WordsAssumption
<1> DEFINE h == PowerOf(2, BITS_PER_WORD - 1)
<1>2. Base = 2 * h /\ h \in Nat
  BY <1>1, PowerLaws DEF Base
<1>3. h >= 1
  BY <1>1, PowerMonotone
<1> HIDE DEF h
<1> QED BY <1>2, <1>3

(* The words of a big integer are natural numbers.                         *)
LEMMA BigWords ==
  ASSUME NEW n \in Nat, NEW a \in Bigs(n)
  PROVE  Len(a) = n /\ \A i \in 1..n : a[i] \in Word /\ a[i] \in Nat
BY BaseFacts DEF Bigs, Word

(* The value of a big integer, one word after the other from the highest.  *)
LEMMA ValueDef ==
  ASSUME NEW n \in Nat, NEW a \in Bigs(n)
  PROVE  \E v \in [0..n -> Nat] : /\ v[0] = 0 /\ \A i \in 1..n : v[i] = a[n+1-i] + Base * v[i-1]
                                  /\ Value(a) = v[n]
<1> DEFINE step == [s \in Nat \X Nat |-> IF s[1] \in 1..n THEN a[n+1-s[1]] + Base * s[2] ELSE 0]
           Is(v) == v = [i \in 0..n |-> IF i = 0 THEN 0 ELSE a[n+1-i] + Base * v[i-1]]
           w == CHOOSE v : Is(v)
<1>0. /\ Base \in Nat /\ Len(a) = n
      /\ \A i \in 1..n : n+1-i \in 1..n /\ a[n+1-i] \in Nat
  BY BaseFacts DEF Bigs, Word
<1> HIDE DEF Bigs
<1>1. \E f : Is(f)
  <2>1. step \in Steps(Nat) /\ \A i \in 1..n : \A x \in Nat : step[<<i, x>>] = a[n+1-i] + Base * x
    <3>1. \A s \in Nat \X Nat : step[s] \in Nat
      BY <1>0
    <3>2. step \in Steps(Nat)
      BY <3>1 DEF Steps
    <3>3. ASSUME NEW i \in 1..n, NEW x \in Nat PROVE step[<<i, x>>] = a[n+1-i] + Base * x
      OBVIOUS
    <3> HIDE DEF step
    <3> QED BY <3>2, <3>3
  <2> HIDE DEF step
  <2>2. PICK f : Iterates(f, n, Nat, 0, step)
    BY <2>1, IteratesExist
  <2>3. f \in [0..n -> Nat] /\ f[0] = 0
    BY <2>2 DEF Iterates
  <2>4. ASSUME NEW i \in 1..n PROVE f[i] = a[n+1-i] + Base * f[i-1]
    <3>1. i \in Nat /\ i - 1 \in 0..n
      OBVIOUS
    <3> QED BY <2>1, <2>2, <2>3, <3>1 DEF Iterates
  <2>5. \A i \in 0..n : f[i] = IF i = 0 THEN 0 ELSE a[n+1-i] + Base * f[i-1]
    BY <2>3, <2>4
  <2> QED BY <2>3, <2>5
<1>2. Is(w)
  BY <1>1
<1>3. Value(a) = w[n]
  BY <1>0 DEF Value
<1> HIDE DEF w
<1>4. w[0] = 0 /\ \A i \in 1..n : w[i] = a[n+1-i] + Base * w[i-1]
  BY <1>2
<1>5. \A i \in 0..n : w[i] \in Nat
  <2> DEFINE T == {i \in 0..n : w[i] \in Nat}
  <2>1. 0 \in T
    BY <1>4
  <2>2. ASSUME NEW i \in 1..n, i - 1 \in T PROVE i \in T
    <3>1. w[i] = a[n+1-i] + Base * w[i-1] /\ w[i-1] \in Nat /\ a[n+1-i] \in Nat /\ Base \in Nat
      BY <1>0, <1>4, <2>2
    <3>2. Base * w[i-1] \in Nat
      BY <3>1
    <3> QED BY <3>1, <3>2
  <2> HIDE DEF T
  <2>3. \A i \in 0..n : i \in T
    BY <2>1, <2>2, UpTo
  <2> QED BY <2>3 DEF T
<1>6. w \in [0..n -> Nat]
  BY <1>2, <1>5
<1> QED
  BY <1>3, <1>4, <1>6

(* The value of a big integer is a natural number.                         *)
LEMMA ValueIsNat ==
  ASSUME NEW n \in Nat, NEW a \in Bigs(n)
  PROVE  Value(a) \in Nat
<1>1. PICK v \in [0..n -> Nat] : Value(a) = v[n]
  BY ValueDef
<1> QED BY <1>1

(* A value of n words is below the n-th power of the base.                 *)
LEMMA ValueBound ==
  ASSUME NEW n \in Nat, NEW a \in Bigs(n)
  PROVE  Value(a) < PowerOf(Base, n)
<1>1. PICK v \in [0..n -> Nat] : /\ v[0] = 0 /\ \A i \in 1..n : v[i] = a[n+1-i] + Base * v[i-1]
                                 /\ Value(a) = v[n]
  BY ValueDef
<1>2. PICK p \in [0..n -> Nat] : /\ p[0] = 1 /\ \A i \in 1..n : p[i] = Base * p[i-1]
                                 /\ PowerOf(Base, n) = p[n]
  BY PowerDef, BaseFacts
<1> DEFINE T == {j \in 0..n : v[j] + 1 <= p[j]}
<1>3. 0 \in T
  BY <1>1, <1>2
<1>4. ASSUME NEW j \in 1..n, j - 1 \in T PROVE j \in T
  <2>1. n + 1 - j \in 1..n /\ j \in 0..n /\ j - 1 \in 0..n
    OBVIOUS
  <2>2. PICK x \in Int, y \in Int, q \in Int, B \in Int :
          x = a[n+1-j] /\ y = v[j-1] /\ q = p[j-1] /\ B = Base
    <3>1. \A i \in 1..n : a[i] \in Nat
      BY BigWords
    <3>2. a[n+1-j] \in Nat
      BY <2>1, <3>1
    <3>3. v[j-1] \in Int /\ p[j-1] \in Int /\ Base \in Int /\ a[n+1-j] \in Int
      BY <2>1, <3>2, BaseFacts
    <3> QED BY <3>3
  <2>3. x <= B - 1 /\ B >= 2 /\ y + 1 <= q
    BY <1>4, <2>1, <2>2, BigWords, BaseFacts DEF Word
  <2>4. v[j] = x + B * y /\ p[j] = B * q
    BY <1>1, <1>2, <2>2
  <2>5. B * (q - (y + 1)) >= 0
    BY <2>3
  <2>6. PICK bq \in Int, bz \in Int : bq = B * q /\ bz = B * y
    OBVIOUS
  <2>7. B * (q - (y + 1)) = bq - bz - B
    BY <2>6
  <2>8. x + bz + 1 <= bq
    <3>1. bq - bz - B >= 0
      BY <2>5, <2>7
    <3> QED BY <2>3, <3>1
  <2> QED BY <2>1, <2>4, <2>6, <2>8
<1> HIDE DEF T
<1>5. \A j \in 0..n : j \in T
  BY <1>3, <1>4, UpTo
<1>6. v[n] + 1 <= p[n]
  BY <1>5 DEF T
<1> QED BY <1>1, <1>2, <1>6

(* If the words of two numbers, one of them m times, and of a result agree *)
(* place by place up to a carry that goes on to the next place, then so do *)
(* the numbers, up to the carry that comes in and the one that goes out.   *)
LEMMA ChainProduct ==
  ASSUME NEW n \in Nat, NEW a \in Bigs(n), NEW b \in Bigs(n), NEW r \in Bigs(n), NEW m \in Int,
         NEW c \in [0..n -> Int],
         \A i \in 1..n : a[i] + m * b[i] + c[i-1] = r[i] + Base * c[i]
  PROVE  Value(a) + m * Value(b) + c[0] = Value(r) + PowerOf(Base, n) * c[n]
<1>1. PICK va \in [0..n -> Nat] : /\ va[0] = 0 /\ \A i \in 1..n : va[i] = a[n+1-i] + Base * va[i-1]
                                  /\ Value(a) = va[n]
  BY ValueDef
<1>2. PICK vb \in [0..n -> Nat] : /\ vb[0] = 0 /\ \A i \in 1..n : vb[i] = b[n+1-i] + Base * vb[i-1]
                                  /\ Value(b) = vb[n]
  BY ValueDef
<1>3. PICK vr \in [0..n -> Nat] : /\ vr[0] = 0 /\ \A i \in 1..n : vr[i] = r[n+1-i] + Base * vr[i-1]
                                  /\ Value(r) = vr[n]
  BY ValueDef
<1>4. PICK p \in [0..n -> Nat] : /\ p[0] = 1 /\ \A i \in 1..n : p[i] = Base * p[i-1]
                                 /\ PowerOf(Base, n) = p[n]
  BY PowerDef, BaseFacts
<1> DEFINE T == {j \in 0..n : va[j] + m * vb[j] + c[n-j] = vr[j] + p[j] * c[n]}
<1>5. 0 \in T
  BY <1>1, <1>2, <1>3, <1>4
<1>6. ASSUME NEW j \in 1..n, j - 1 \in T PROVE j \in T
  <2> DEFINE i == n + 1 - j
  <2>1. i \in 1..n /\ i - 1 = n - j /\ n - (j - 1) = i /\ j - 1 \in 0..n /\ j \in 0..n
        /\ i - 1 \in 0..n /\ i \in 0..n
    OBVIOUS
  <2>2. /\ va[j] = a[i] + Base * va[j-1] /\ vb[j] = b[i] + Base * vb[j-1]
        /\ vr[j] = r[i] + Base * vr[j-1] /\ p[j] = Base * p[j-1]
    BY <1>1, <1>2, <1>3, <1>4
  <2> HIDE DEF i
  <2>3. va[j-1] + m * vb[j-1] + c[i] = vr[j-1] + p[j-1] * c[n]
    BY <1>6, <2>1
  <2>4. a[i] + m * b[i] + c[i-1] = r[i] + Base * c[i]
    BY <2>1
  <2>5. /\ a[i] \in Int /\ b[i] \in Int /\ r[i] \in Int /\ c[i] \in Int /\ c[i-1] \in Int /\ c[n] \in Int
        /\ va[j-1] \in Int /\ vb[j-1] \in Int /\ vr[j-1] \in Int /\ p[j-1] \in Int /\ Base \in Int
    BY <2>1, BaseFacts, SMTT(30) DEF Bigs, Word
  <2>6. va[j] + m * vb[j] + c[i-1] = vr[j] + p[j] * c[n]
    <3>1. PICK B \in Int, a1 \in Int, b1 \in Int, r1 \in Int, c0 \in Int, c1 \in Int, cn \in Int :
            B = Base /\ a1 = a[i] /\ b1 = b[i] /\ r1 = r[i] /\ c0 = c[i-1] /\ c1 = c[i] /\ cn = c[n]
      BY <2>5
    <3>2. PICK x \in Int, y \in Int, z \in Int, q \in Int :
            x = va[j-1] /\ y = vb[j-1] /\ z = vr[j-1] /\ q = p[j-1]
      BY <2>5
    <3>3. x + m * y + c1 = z + q * cn /\ a1 + m * b1 + c0 = r1 + B * c1
      BY <2>3, <2>4, <3>1, <3>2
    <3>4. (a1 + B * x) + m * (b1 + B * y) + c0 = (r1 + B * z) + (B * q) * cn
      <4>1. B * (x + m * y + c1) = B * (z + q * cn)
        BY <3>3
      <4>2. B * (x + m * y + c1) = B * x + m * (B * y) + B * c1
        OBVIOUS
      <4>3. B * (z + q * cn) = B * z + (B * q) * cn
        OBVIOUS
      <4>4. m * (b1 + B * y) = m * b1 + m * (B * y)
        OBVIOUS
      <4>5. PICK bx \in Int, by \in Int, bc \in Int, bz \in Int, bq \in Int, mb \in Int :
              bx = B * x /\ by = m * (B * y) /\ bc = B * c1 /\ bz = B * z /\ bq = (B * q) * cn /\ mb = m * b1
        OBVIOUS
      <4>6. bx + by + bc = bz + bq /\ a1 + mb + c0 = r1 + bc
        BY <3>3, <4>1, <4>2, <4>3, <4>5
      <4>7. (a1 + bx) + (mb + by) + c0 = (r1 + bz) + bq
        BY <4>6
      <4> QED BY <4>4, <4>5, <4>7
    <3> QED BY <2>2, <3>1, <3>2, <3>4
  <2>7. va[j] + m * vb[j] + c[n-j] = vr[j] + p[j] * c[n]
    BY <2>1, <2>6
  <2> QED
    BY <2>1, <2>7
<1> HIDE DEF T
<1>7. n \in T
  <2>1. \A j \in 0..n : j \in T
    BY <1>5, <1>6, UpTo
  <2> QED BY <2>1
<1>8. va[n] + m * vb[n] + c[n-n] = vr[n] + p[n] * c[n]
  BY <1>7 DEF T
<1> QED
  BY <1>1, <1>2, <1>3, <1>4, <1>8

(* The same for a sum, where m is one.                                     *)
LEMMA ChainValue ==
  ASSUME NEW n \in Nat, NEW a \in Bigs(n), NEW b \in Bigs(n), NEW r \in Bigs(n),
         NEW c \in [0..n -> Int],
         \A i \in 1..n : a[i] + b[i] + c[i-1] = r[i] + Base * c[i]
  PROVE  Value(a) + Value(b) + c[0] = Value(r) + PowerOf(Base, n) * c[n]
<1>1. PICK m \in Int : m = 1
  OBVIOUS
<1>2. ASSUME NEW i \in 1..n PROVE a[i] + m * b[i] + c[i-1] = r[i] + Base * c[i]
  <2>1. \A h \in 1..n : b[h] \in Nat
    BY BigWords
  <2>2. m * b[i] = b[i]
    BY <1>1, <2>1
  <2> QED BY <2>2
<1>3. Value(a) + m * Value(b) + c[0] = Value(r) + PowerOf(Base, n) * c[n]
  BY <1>2, ChainProduct
<1>4. m * Value(b) = Value(b)
  BY <1>1, ValueIsNat
<1> QED BY <1>3, <1>4

(* The power of a sum is the product of the powers.                        *)
LEMMA PowerAdd ==
  ASSUME NEW b \in Nat, NEW n \in Nat, NEW m \in Nat
  PROVE  PowerOf(b, n + m) = PowerOf(b, n) * PowerOf(b, m)
<1> DEFINE T == {k \in Nat : PowerOf(b, n + k) = PowerOf(b, n) * PowerOf(b, k)}
<1>1. 0 \in T
  BY PowerLaws
<1>2. ASSUME NEW k \in T PROVE k + 1 \in T
  <2>1. k \in Nat /\ n + k \in Nat /\ n + (k + 1) = (n + k) + 1 /\ k + 1 \in Nat
    OBVIOUS
  <2>2. PICK x \in Int, y \in Int : x = PowerOf(b, n) /\ y = PowerOf(b, k)
    BY <2>1, PowerLaws
  <2>3. PowerOf(b, n + (k + 1)) = b * PowerOf(b, n + k) /\ PowerOf(b, k + 1) = b * y
    BY <2>1, <2>2, PowerLaws
  <2>4. PowerOf(b, n + k) = x * y
    BY <2>2
  <2>5. b * (x * y) = x * (b * y)
    OBVIOUS
  <2>6. PowerOf(b, n + (k + 1)) = PowerOf(b, n) * PowerOf(b, k + 1)
    BY <2>2, <2>3, <2>4, <2>5
  <2> QED BY <2>1, <2>6
<1> HIDE DEF T
<1>3. T \in SUBSET Nat
  BY DEF T
<1>4. T = Nat
  BY <1>1, <1>2, <1>3, Induct
<1> QED BY <1>4 DEF T

(* The words of two big integers in a row.                                 *)
LEMMA ConcatWords ==
  ASSUME NEW n \in Nat, NEW m \in Nat, NEW s \in Bigs(n), NEW t \in Bigs(m)
  PROVE  /\ s \o t \in Bigs(n + m) /\ n + m \in Nat
         /\ (\A k \in 1..n : (s \o t)[k] = s[k]) /\ (\A k \in 1..m : (s \o t)[n+k] = t[k])
<1> DEFINE u == s \o t
<1>1. s \in Seq(Word) /\ t \in Seq(Word) /\ Len(s) = n /\ Len(t) = m
  BY DEF Bigs
<1>2. u \in Seq(Word) /\ Len(u) = n + m
  BY <1>1
<1>3. \A q \in Seq(Word) : q \in [1..Len(q) -> Word]
  OBVIOUS
<1>4. \A k \in 1..n : u[k] = s[k]
  BY <1>1
<1>5. \A k \in 1..m : u[n+k] = t[k]
  BY <1>1
<1>6. u \in [1..n+m -> Word]
  BY <1>2, <1>3
<1> HIDE DEF u
<1>7. u \in Bigs(n + m) /\ n + m \in Nat
  BY <1>6 DEF Bigs
<1> QED BY <1>4, <1>5, <1>7 DEF u

(* The words from place f to place l.                                      *)
LEMMA SubWords ==
  ASSUME NEW n \in Nat, NEW s \in Bigs(n), NEW f \in Nat, NEW l \in Nat, f >= 1, f <= l + 1, l <= n
  PROVE  /\ SubSeq(s, f, l) \in Bigs(l - f + 1) /\ l - f + 1 \in Nat
         /\ \A k \in 1..l-f+1 : SubSeq(s, f, l)[k] = s[f + k - 1]
<1> DEFINE u == SubSeq(s, f, l)
<1>1. s \in Seq(Word) /\ Len(s) = n
  BY DEF Bigs
<1>2. u \in Seq(Word)
  <2>1. \A k \in f..l : s[k] \in Word
    BY <1>1
  <2> QED BY <1>1, <2>1
<1>3. Len(u) = l - f + 1
  BY <1>1
<1>4. \A k \in 1..l-f+1 : u[k] = s[f + k - 1]
  BY <1>1
<1>5. \A q \in Seq(Word) : q \in [1..Len(q) -> Word]
  OBVIOUS
<1> HIDE DEF u
<1>6. u \in [1..l-f+1 -> Word]
  BY <1>2, <1>3, <1>5
<1> QED BY <1>4, <1>6 DEF Bigs, u

(* Two big integers in a row are the lower one plus the higher one moved   *)
(* up by the length of the lower.                                          *)
LEMMA ValueConcat ==
  ASSUME NEW n \in Nat, NEW m \in Nat, NEW s \in Bigs(n), NEW t \in Bigs(m)
  PROVE  /\ s \o t \in Bigs(n + m)
         /\ Value(s \o t) = Value(s) + PowerOf(Base, n) * Value(t)
<1> DEFINE u == s \o t
<1>1. /\ u \in Bigs(n + m) /\ n + m \in Nat
      /\ (\A k \in 1..n : u[k] = s[k]) /\ (\A k \in 1..m : u[n+k] = t[k])
  BY ConcatWords
<1> HIDE DEF u
<1>2. PICK vu \in [0..n+m -> Nat] : /\ vu[0] = 0 /\ \A i \in 1..n+m : vu[i] = u[n+m+1-i] + Base * vu[i-1]
                                    /\ Value(u) = vu[n+m]
  BY <1>1, ValueDef
<1>3. PICK vs \in [0..n -> Nat] : /\ vs[0] = 0 /\ \A i \in 1..n : vs[i] = s[n+1-i] + Base * vs[i-1]
                                  /\ Value(s) = vs[n]
  BY ValueDef
<1>4. PICK vt \in [0..m -> Nat] : /\ vt[0] = 0 /\ \A i \in 1..m : vt[i] = t[m+1-i] + Base * vt[i-1]
                                  /\ Value(t) = vt[m]
  BY ValueDef
<1>5. PICK p \in [0..n -> Nat] : /\ p[0] = 1 /\ \A i \in 1..n : p[i] = Base * p[i-1]
                                 /\ PowerOf(Base, n) = p[n]
  BY PowerDef, BaseFacts
<1> DEFINE T == {j \in 0..m : vu[j] = vt[j]}
<1>6. 0 \in T
  BY <1>2, <1>4
<1>7. ASSUME NEW j \in 1..m, j - 1 \in T PROVE j \in T
  <2>1. m + 1 - j \in 1..m /\ n + m + 1 - j = n + (m + 1 - j) /\ j \in 1..n+m
    OBVIOUS
  <2>2. u[n + m + 1 - j] = t[m + 1 - j]
    BY <1>1, <2>1
  <2> QED BY <1>2, <1>4, <1>7, <2>1, <2>2
<1> HIDE DEF T
<1>8. vu[m] = vt[m]
  <2>1. \A j \in 0..m : j \in T
    BY <1>6, <1>7, UpTo
  <2> QED BY <2>1 DEF T
<1> DEFINE S == {k \in 0..n : vu[m+k] = vs[k] + p[k] * vt[m]}
<1>9. 0 \in S
  BY <1>3, <1>5, <1>8
<1>10. ASSUME NEW k \in 1..n, k - 1 \in S PROVE k \in S
  <2>1. m + k \in 1..n+m /\ n + m + 1 - (m + k) = n + 1 - k /\ n + 1 - k \in 1..n
        /\ m + k - 1 = m + (k - 1) /\ k - 1 \in 0..n /\ k \in 0..n
    OBVIOUS
  <2>2. vu[m+k] = s[n+1-k] + Base * vu[m+(k-1)]
    BY <1>1, <1>2, <2>1
  <2>3. vs[k] = s[n+1-k] + Base * vs[k-1] /\ p[k] = Base * p[k-1]
    BY <1>3, <1>5
  <2>4. vu[m+(k-1)] = vs[k-1] + p[k-1] * vt[m]
    BY <1>10
  <2>5. \A h \in 1..n : s[h] \in Nat
    BY BigWords
  <2>6. s[n+1-k] \in Int /\ vs[k-1] \in Int /\ p[k-1] \in Int /\ vt[m] \in Int /\ Base \in Int
    BY <2>1, <2>5, BaseFacts
  <2>7. PICK x \in Int, y \in Int, q \in Int, v \in Int, B \in Int :
          x = s[n+1-k] /\ y = vs[k-1] /\ q = p[k-1] /\ v = vt[m] /\ B = Base
    BY <2>6
  <2>8. x + B * (y + q * v) = (x + B * y) + (B * q) * v
    OBVIOUS
  <2>9. vu[m+k] = vs[k] + p[k] * vt[m]
    BY <2>2, <2>3, <2>4, <2>7, <2>8
  <2> QED BY <2>1, <2>9
<1> HIDE DEF S
<1>11. vu[m+n] = vs[n] + p[n] * vt[m]
  <2>1. \A k \in 0..n : k \in S
    BY <1>9, <1>10, UpTo
  <2> QED BY <2>1 DEF S
<1>12. m + n = n + m
  OBVIOUS
<1> QED BY <1>1, <1>2, <1>3, <1>4, <1>5, <1>11, <1>12 DEF u

-----------------------------------------------------------------------------
(* Sums, differences and comparisons: bi.c.                                *)
(* The loops over words, with the word and the carry as functions of the   *)
(* carry that comes in.                                                    *)
(* The loops over words, with the word and the carry of each turn as       *)
(* functions of the carry that comes in.                                   *)
LoopFunctions(n) == [1..n -> [Word -> Word]]
(* r is what a loop of n turns gives: its words, and the last of its       *)
(* carries.                                                                *)
LoopResult(r, n, cin, out, car) ==
  /\ r.res \in Bigs(n) /\ r.carry \in Word
  /\ \E c \in [0..n -> Word] :
       /\ c[0] = cin /\ c[n] = r.carry
       /\ \A i \in 1..n : r.res[i] = out[i][c[i-1]] /\ c[i] = car[i][c[i-1]]

(* A loop over the words gives as many words as it has turns, with the     *)
(* carries that the turns pass on.                                         *)
LEMMA LoopWords ==
  ASSUME NEW n \in Nat, NEW cin \in Word, NEW out \in LoopFunctions(n), NEW car \in LoopFunctions(n)
  PROVE  LoopResult(CarryLoop(cin, n, out, car), n, cin, out, car)
<1> DEFINE start == [res |-> << >>, carry |-> cin]
           State == [res : Seq(Word), carry : Word]
           Turn(x, i) == [res |-> Append(x.res, out[i][x.carry]), carry |-> car[i][x.carry]]
           step == [s \in Nat \X State |-> IF s[1] \in 1..n THEN Turn(s[2], s[1]) ELSE start]
           Is(f) == f = [i \in 0..n |-> IF i = 0 THEN start ELSE Turn(f[i-1], i)]
           d == CHOOSE f : Is(f)
<1>1. start \in State
  OBVIOUS
<1>2. ASSUME NEW i \in 1..n, NEW x \in State PROVE Turn(x, i) \in State
  <2>1. x.res \in Seq(Word) /\ x.carry \in Word
    OBVIOUS
  <2>2. out[i][x.carry] \in Word /\ car[i][x.carry] \in Word
    BY <2>1 DEF LoopFunctions
  <2> QED BY <2>1, <2>2
<1>3. CarryLoop(cin, n, out, car) = d[n]
  BY DEF CarryLoop
<1> HIDE DEF start, Turn, State
<1>4. step \in Steps(State)
  <2>1. \A s \in Nat \X State : step[s] \in State
    BY <1>1, <1>2
  <2> QED BY <2>1 DEF Steps
<1>5. ASSUME NEW i \in 1..n, NEW x \in State PROVE step[<<i, x>>] = Turn(x, i)
  OBVIOUS
<1> HIDE DEF step
<1>6. PICK f : Iterates(f, n, State, start, step)
  BY <1>1, <1>4, IteratesExist
<1>7. Is(f)
  <2>1. f \in [0..n -> State] /\ f[0] = start
    BY <1>6 DEF Iterates
  <2>2. ASSUME NEW i \in 1..n PROVE f[i] = Turn(f[i-1], i)
    <3>1. f[i-1] \in State /\ f[i] = step[<<i, f[i-1]>>]
      BY <1>6, <2>1 DEF Iterates
    <3> QED BY <1>5, <3>1
  <2>3. \A i \in 0..n : f[i] = IF i = 0 THEN start ELSE Turn(f[i-1], i)
    BY <2>1, <2>2
  <2> QED BY <2>1, <2>3
<1>8. Is(d)
  BY <1>7
<1> HIDE DEF d
<1>9. d[0] = start /\ \A i \in 1..n : d[i] = Turn(d[i-1], i)
  BY <1>8
<1> DEFINE T == {i \in 0..n : /\ d[i].carry \in Word /\ d[i].res \in Bigs(i)
                              /\ \A k \in 1..i : d[i].res[k] = out[k][d[k-1].carry]}
<1>10. 0 \in T
  <2>1. d[0].carry = cin /\ d[0].res = << >>
    BY <1>9 DEF start
  <2>2. << >> \in Bigs(0) /\ 1..0 = {}
    BY DEF Bigs
  <2> QED BY <2>1, <2>2
<1>11. ASSUME NEW i \in 1..n PROVE /\ d[i].res = Append(d[i-1].res, out[i][d[i-1].carry])
                                   /\ d[i].carry = car[i][d[i-1].carry]
  <2> DEFINE x == Append(d[i-1].res, out[i][d[i-1].carry])
             y == car[i][d[i-1].carry]
  <2>1. d[i] = [res |-> x, carry |-> y]
    BY <1>9 DEF Turn
  <2> HIDE DEF x, y
  <2>2. d[i].res = x /\ d[i].carry = y
    BY <2>1
  <2> QED BY <2>2 DEF x, y
<1>12. ASSUME NEW i \in 1..n, i - 1 \in T PROVE i \in T
  <2> DEFINE x == d[i-1]
             o == out[i][x.carry]
  <2>1. /\ x.carry \in Word /\ x.res \in Bigs(i-1)
        /\ \A k \in 1..i-1 : x.res[k] = out[k][d[k-1].carry]
    BY <1>12
  <2>2. o \in Word /\ car[i][x.carry] \in Word
    BY <2>1 DEF LoopFunctions
  <2>3. d[i].res = Append(x.res, o) /\ d[i].carry = car[i][x.carry]
    BY <1>11
  <2> HIDE DEF x, o
  <2>4. i - 1 \in Nat /\ i \in 0..n /\ \A k \in 1..i : k = i \/ k \in 1..i-1
    OBVIOUS
  <2>5. x.res \in Seq(Word) /\ Len(x.res) = i - 1
    BY <2>1, <2>4 DEF Bigs
  <2>6. /\ Append(x.res, o) \in Seq(Word) /\ Len(Append(x.res, o)) = i
        /\ \A k \in 1..i-1 : Append(x.res, o)[k] = x.res[k]
        /\ Append(x.res, o)[i] = o
    BY <2>2, <2>5
  <2>7. Append(x.res, o) \in Bigs(i)
    <3>1. \A q \in Seq(Word) : q \in [1..Len(q) -> Word]
      OBVIOUS
    <3> QED BY <2>6, <3>1 DEF Bigs
  <2>8. \A k \in 1..i : d[i].res[k] = out[k][d[k-1].carry]
    <3>1. d[i].res[i] = out[i][d[i-1].carry]
      BY <2>3, <2>6 DEF x, o
    <3>2. \A k \in 1..i-1 : d[i].res[k] = out[k][d[k-1].carry]
      BY <2>1, <2>3, <2>6
    <3> QED BY <2>4, <3>1, <3>2
  <2>9. d[i].carry \in Word /\ d[i].res \in Bigs(i)
    BY <2>2, <2>3, <2>7
  <2> QED BY <2>4, <2>8, <2>9
<1> HIDE DEF T
<1>13. \A i \in 0..n : i \in T
  BY <1>10, <1>12, UpTo
<1> DEFINE c == [i \in 0..n |-> d[i].carry]
<1>14. n \in T /\ \A i \in 0..n : d[i].carry \in Word
  BY <1>13 DEF T
<1>15. c \in [0..n -> Word] /\ c[0] = cin /\ c[n] = d[n].carry
  BY <1>9, <1>14 DEF start
<1>16. ASSUME NEW i \in 1..n PROVE d[n].res[i] = out[i][c[i-1]] /\ c[i] = car[i][c[i-1]]
  <2>1. c[i-1] = d[i-1].carry /\ c[i] = d[i].carry
    OBVIOUS
  <2>2. \A k \in 1..n : d[n].res[k] = out[k][d[k-1].carry]
    BY <1>14 DEF T
  <2> HIDE DEF c
  <2> QED BY <1>11, <2>1, <2>2
<1> HIDE DEF c
<1>17. d[n].res \in Bigs(n) /\ d[n].carry \in Word
  BY <1>14 DEF T
<1> QED BY <1>3, <1>15, <1>16, <1>17 DEF LoopResult

(* One word of bi_add_carry_var: the two tests for an overflow, of the     *)
(* words and of the carry, say together what does not fit in the word.     *)
LEMMA AddWord ==
  ASSUME NEW x \in Word, NEW y \in Word, NEW c \in {0, 1}
  PROVE  LET r == (x + y) % Base
             w == (r + c) % Base
         IN w \in Word /\ CarryOut(w, r, x) \in {0, 1} /\ x + y + c = w + Base * CarryOut(w, r, x)
<1> DEFINE r == (x + y) % Base
           w == (r + c) % Base
<1>1. x \in 0..Base-1 /\ y \in 0..Base-1 /\ Base \in Int /\ Base >= 2
  BY BaseFacts DEF Word
<1>2. r = IF x + y < Base THEN x + y ELSE x + y - Base
  BY <1>1
<1> HIDE DEF r
<1>3. w = IF r + c < Base THEN r + c ELSE r + c - Base
  BY <1>1, <1>2
<1> HIDE DEF w
<1>4. CASE x + y + c >= Base
  BY <1>1, <1>2, <1>3, <1>4 DEF CarryOut, Bit, Word
<1>5. CASE ~ (x + y + c >= Base)
  BY <1>1, <1>2, <1>3, <1>5 DEF CarryOut, Bit, Word
<1> QED BY <1>4, <1>5 DEF r, w

(* A loop whose turns add a word and a carry adds big integers.            *)
LEMMA AddingLoop ==
  ASSUME NEW n \in Nat, NEW a \in Bigs(n), NEW b \in Bigs(n), NEW cin \in {0, 1},
         NEW out \in LoopFunctions(n), NEW car \in LoopFunctions(n),
         \A i \in 1..n : \A c \in {0, 1} :
           car[i][c] \in {0, 1} /\ a[i] + b[i] + c = out[i][c] + Base * car[i][c]
  PROVE  LET s == CarryLoop(cin, n, out, car) IN
         /\ s.res \in Bigs(n) /\ s.carry \in {0, 1}
         /\ Value(s.res) + PowerOf(Base, n) * s.carry = Value(a) + Value(b) + cin
<1> DEFINE s == CarryLoop(cin, n, out, car)
<1>1. cin \in Word
  BY BaseFacts DEF Word
<1>2. LoopResult(s, n, cin, out, car)
  BY <1>1, LoopWords
<1> HIDE DEF s
<1>3. s.res \in Bigs(n)
  BY <1>2 DEF LoopResult
<1>4. PICK c \in [0..n -> Word] :
        /\ c[0] = cin /\ c[n] = s.carry
        /\ \A i \in 1..n : s.res[i] = out[i][c[i-1]] /\ c[i] = car[i][c[i-1]]
  BY <1>2 DEF LoopResult
<1>5. \A i \in 0..n : c[i] \in {0, 1}
  <2> DEFINE T == {i \in 0..n : c[i] \in {0, 1}}
  <2>1. 0 \in T
    BY <1>4
  <2>2. ASSUME NEW i \in 1..n, i - 1 \in T PROVE i \in T
    <3>1. c[i-1] \in {0, 1}
      BY <2>2
    <3> QED BY <1>4, <3>1
  <2> HIDE DEF T
  <2>3. \A i \in 0..n : i \in T
    BY <2>1, <2>2, UpTo
  <2> QED BY <2>3 DEF T
<1>6. ASSUME NEW i \in 1..n PROVE a[i] + b[i] + c[i-1] = s.res[i] + Base * c[i]
  <2>1. c[i-1] \in {0, 1}
    BY <1>5
  <2> QED BY <1>4, <2>1
<1>7. c \in [0..n -> Int]
  BY <1>5
<1>8. Value(a) + Value(b) + c[0] = Value(s.res) + PowerOf(Base, n) * c[n]
  BY <1>3, <1>6, <1>7, ChainValue
<1> QED BY <1>3, <1>4, <1>5, <1>8 DEF s

(* A loop whose turns subtract a word and a borrow subtracts big integers. *)
LEMMA SubtractingLoop ==
  ASSUME NEW n \in Nat, NEW a \in Bigs(n), NEW b \in Bigs(n), NEW cin \in {0, 1},
         NEW out \in LoopFunctions(n), NEW car \in LoopFunctions(n),
         \A i \in 1..n : \A c \in {0, 1} :
           car[i][c] \in {0, 1} /\ out[i][c] + b[i] + c = a[i] + Base * car[i][c]
  PROVE  LET s == CarryLoop(cin, n, out, car) IN
         /\ s.res \in Bigs(n) /\ s.carry \in {0, 1}
         /\ Value(s.res) + Value(b) + cin = Value(a) + PowerOf(Base, n) * s.carry
<1> DEFINE s == CarryLoop(cin, n, out, car)
<1>1. cin \in Word
  BY BaseFacts DEF Word
<1>2. LoopResult(s, n, cin, out, car)
  BY <1>1, LoopWords
<1> HIDE DEF s
<1>3. s.res \in Bigs(n)
  BY <1>2 DEF LoopResult
<1>4. PICK c \in [0..n -> Word] :
        /\ c[0] = cin /\ c[n] = s.carry
        /\ \A i \in 1..n : s.res[i] = out[i][c[i-1]] /\ c[i] = car[i][c[i-1]]
  BY <1>2 DEF LoopResult
<1>5. \A i \in 0..n : c[i] \in {0, 1}
  <2> DEFINE T == {i \in 0..n : c[i] \in {0, 1}}
  <2>1. 0 \in T
    BY <1>4
  <2>2. ASSUME NEW i \in 1..n, i - 1 \in T PROVE i \in T
    <3>1. c[i-1] \in {0, 1}
      BY <2>2
    <3> QED BY <1>4, <3>1
  <2> HIDE DEF T
  <2>3. \A i \in 0..n : i \in T
    BY <2>1, <2>2, UpTo
  <2> QED BY <2>3 DEF T
<1>6. ASSUME NEW i \in 1..n PROVE s.res[i] + b[i] + c[i-1] = a[i] + Base * c[i]
  <2>1. c[i-1] \in {0, 1}
    BY <1>5
  <2> QED BY <1>4, <2>1
<1>7. c \in [0..n -> Int]
  BY <1>5
<1>8. Value(s.res) + Value(b) + c[0] = Value(a) + PowerOf(Base, n) * c[n]
  BY <1>3, <1>6, <1>7, ChainValue
<1> QED BY <1>3, <1>4, <1>5, <1>8 DEF s

(* bi_add_var and bi_add_carry_var add: the words they leave and the carry *)
(* they return are together the sum of the operands and of the carry that  *)
(* comes in, for any number of words. A carry lost between two words would *)
(* go unseen in all but a few inputs.                                      *)
THEOREM SumsAreExact ==
  ASSUME NEW n \in Nat, NEW a \in Bigs(n), NEW b \in Bigs(n), NEW cin \in {0, 1}
  PROVE  LET s == bi_add_carry_var(a, b, cin) IN
         /\ s.res \in Bigs(n) /\ s.carry \in {0, 1}
         /\ Value(s.res) + PowerOf(Base, n) * s.carry = Value(a) + Value(b) + cin
<1> DEFINE r(i) == (a[i] + b[i]) % Base
           out == [i \in 1..n |-> [c \in Word |-> (r(i) + c) % Base]]
           car == [i \in 1..n |-> [c \in Word |-> CarryOut((r(i) + c) % Base, r(i), a[i])]]
<1>0. 0 \in Word /\ 1 \in Word /\ Len(a) = n
  BY BaseFacts DEF Bigs, Word
<1>1. bi_add_carry_var(a, b, cin) = CarryLoop(cin, n, out, car)
  BY <1>0 DEF bi_add_carry_var, WordLoopFrom
<1>2. ASSUME NEW i \in 1..n, NEW c \in Word
      PROVE  out[i][c] \in Word /\ car[i][c] \in {0, 1}
  <2>1. r(i) \in Int /\ c \in Int /\ Base \in Int /\ Base > 0
    BY BigWords, BaseFacts DEF Word
  <2> HIDE DEF r
  <2>2. (r(i) + c) % Base \in Word
    BY <2>1 DEF Word
  <2>3. car[i][c] \in {0, 1}
    BY DEF CarryOut, Bit
  <2> QED BY <2>2, <2>3
<1>3. ASSUME NEW i \in 1..n, NEW c \in {0, 1}
      PROVE  car[i][c] \in {0, 1} /\ a[i] + b[i] + c = out[i][c] + Base * car[i][c]
  <2>1. a[i] \in Word /\ b[i] \in Word /\ c \in Word
    BY <1>0, BigWords
  <2> QED BY <1>2, <2>1, AddWord
<1> HIDE DEF r, out, car
<1>4. out \in LoopFunctions(n) /\ car \in LoopFunctions(n)
  BY <1>0, <1>2 DEF LoopFunctions, out, car
<1> QED BY <1>1, <1>3, <1>4, AddingLoop

(* One word of bi_subtract_var: the borrow is found from the operands and, *)
(* when the difference is zero, from the borrow that comes in.             *)
LEMMA SubtractWord ==
  ASSUME NEW x \in Word, NEW y \in Word, NEW c \in {0, 1}
  PROVE  LET r == (x - y) % Base
             w == (r - c) % Base
             borrow == Bit(x < y \/ (r = 0 /\ c = 1))
         IN w + y + c = x + Base * borrow
<1> DEFINE r == (x - y) % Base
           w == (r - c) % Base
<1>1. x \in 0..Base-1 /\ y \in 0..Base-1 /\ Base \in Int /\ Base >= 2
  BY BaseFacts DEF Word
<1>2. r = IF x >= y THEN x - y ELSE x - y + Base
  BY <1>1
<1> HIDE DEF r
<1>3. w = IF r - c >= 0 THEN r - c ELSE r - c + Base
  BY <1>1, <1>2
<1> HIDE DEF w
<1>4. CASE x < y \/ (r = 0 /\ c = 1)
  BY <1>1, <1>2, <1>3, <1>4 DEF Bit
<1>5. CASE ~ (x < y \/ (r = 0 /\ c = 1))
  BY <1>1, <1>2, <1>3, <1>5 DEF Bit
<1> QED BY <1>4, <1>5 DEF r, w

(* bi_subtract_var subtracts: the words are the difference, and the borrow *)
(* it returns says that the difference is negative and is to be read       *)
(* modulo a power of the base.                                             *)
THEOREM DifferencesAreExact ==
  ASSUME NEW n \in Nat, NEW a \in Bigs(n), NEW b \in Bigs(n)
  PROVE  LET d == bi_subtract_var_std(a, b) IN
         /\ d.res \in Bigs(n) /\ d.carry \in {0, 1}
         /\ Value(d.res) - PowerOf(Base, n) * d.carry = Value(a) - Value(b)
<1> DEFINE r(i) == (a[i] - b[i]) % Base
           out == [i \in 1..n |-> [c \in Word |-> (r(i) - c) % Base]]
           car == [i \in 1..n |-> [c \in Word |-> Bit(a[i] < b[i] \/ (r(i) = 0 /\ c = 1))]]
<1>0. 0 \in Word /\ 1 \in Word /\ Len(a) = n
  BY BaseFacts DEF Bigs, Word
<1>1. bi_subtract_var_std(a, b) = CarryLoop(0, n, out, car)
  BY <1>0 DEF bi_subtract_var_std, WordLoop, WordLoopFrom
<1>2. ASSUME NEW i \in 1..n, NEW c \in Word
      PROVE  out[i][c] \in Word /\ car[i][c] \in {0, 1}
  <2>1. r(i) \in Int /\ c \in Int /\ Base \in Int /\ Base > 0
    BY BigWords, BaseFacts DEF Word
  <2> HIDE DEF r
  <2>2. (r(i) - c) % Base \in Word
    BY <2>1 DEF Word
  <2>3. car[i][c] \in {0, 1}
    BY DEF Bit
  <2> QED BY <2>2, <2>3
<1>3. ASSUME NEW i \in 1..n, NEW c \in {0, 1}
      PROVE  car[i][c] \in {0, 1} /\ out[i][c] + b[i] + c = a[i] + Base * car[i][c]
  <2>1. a[i] \in Word /\ b[i] \in Word /\ c \in Word
    BY <1>0, BigWords
  <2> QED BY <1>2, <2>1, SubtractWord
<1> HIDE DEF r, out, car
<1>4. out \in LoopFunctions(n) /\ car \in LoopFunctions(n)
  <2>1. \A i \in 1..n : \A c \in Word : out[i][c] \in Word /\ car[i][c] \in Word
    BY <1>0, <1>2
  <2>2. out \in LoopFunctions(n)
    BY <2>1 DEF LoopFunctions, out
  <2>3. car \in LoopFunctions(n)
    BY <2>1 DEF LoopFunctions, car
  <2> QED BY <2>2, <2>3
<1> DEFINE d == CarryLoop(0, n, out, car)
<1>5. /\ d.res \in Bigs(n) /\ d.carry \in {0, 1}
      /\ Value(d.res) + Value(b) + 0 = Value(a) + PowerOf(Base, n) * d.carry
  <2>1. 0 \in {0, 1}
    OBVIOUS
  <2> QED BY <1>3, <1>4, <2>1, SubtractingLoop
<1> HIDE DEF d
<1>6. PICK x \in Int, y \in Int, z \in Int, p \in Int, c \in Int :
        x = Value(d.res) /\ y = Value(b) /\ z = Value(a) /\ p = PowerOf(Base, n) /\ c = d.carry
  <2>1. Value(d.res) \in Int /\ Value(b) \in Int /\ Value(a) \in Int
    BY <1>5, ValueIsNat
  <2>2. PowerOf(Base, n) \in Int
    BY PowerLaws, BaseFacts
  <2> QED BY <1>5, <2>1, <2>2
<1>7. x + y + 0 = z + p * c
  BY <1>5, <1>6
<1>8. x - p * c = z - y
  <2>1. PICK q \in Int : q = p * c
    OBVIOUS
  <2>2. x + y + 0 = z + q
    BY <1>7, <2>1
  <2>3. x - q = z - y
    BY <2>2
  <2> QED BY <2>1, <2>3
<1> QED BY <1>1, <1>5, <1>6, <1>8 DEF d

(* The highest place in which two numbers differ decides which is less.    *)
LEMMA LessAt ==
  ASSUME NEW n \in Nat, NEW a \in Bigs(n), NEW b \in Bigs(n), NEW i \in 1..n,
         a[i] < b[i], \A k \in i+1..n : a[k] = b[k]
  PROVE  Value(a) < Value(b)
<1>1. PICK v \in [0..n -> Nat] : /\ v[0] = 0 /\ \A j \in 1..n : v[j] = a[n+1-j] + Base * v[j-1]
                                 /\ Value(a) = v[n]
  BY ValueDef
<1>2. PICK w \in [0..n -> Nat] : /\ w[0] = 0 /\ \A j \in 1..n : w[j] = b[n+1-j] + Base * w[j-1]
                                 /\ Value(b) = w[n]
  BY ValueDef
<1> DEFINE T == {j \in 0..n : IF j <= n - i THEN v[j] = w[j] ELSE v[j] + 1 <= w[j]}
<1>3. 0 \in T
  BY <1>1, <1>2
<1>4. ASSUME NEW j \in 1..n, j - 1 \in T PROVE j \in T
  <2>1. n + 1 - j \in 1..n /\ j \in 0..n /\ j - 1 \in 0..n
    OBVIOUS
  <2>2. PICK k \in 1..n : k = n + 1 - j
    BY <2>1
  <2>3. a[k] \in Word /\ b[k] \in Word /\ a[k] \in Int /\ b[k] \in Int
    <3>1. \A h \in 1..n : a[h] \in Word /\ b[h] \in Word /\ a[h] \in Nat /\ b[h] \in Nat
      BY BigWords
    <3> QED BY <3>1
  <2>4. PICK x \in Int, y \in Int, B \in Int : x = a[k] /\ y = b[k] /\ B = Base
    BY <2>3, BaseFacts
  <2>5. PICK p \in Int, q \in Int : p = v[j-1] /\ q = w[j-1]
    BY <2>1
  <2>6. x \in 0..B-1 /\ y \in 0..B-1 /\ B >= 2
    BY <2>3, <2>4, BaseFacts DEF Word
  <2>7. v[j] = x + B * p /\ w[j] = y + B * q
    BY <1>1, <1>2, <2>2, <2>4, <2>5
  <2>8. CASE j <= n - i
    <3>1. k \in i+1..n /\ j - 1 <= n - i
      BY <2>2, <2>8
    <3>2. x = y /\ p = q
      BY <1>4, <2>1, <2>4, <2>5, <3>1
    <3> QED BY <2>1, <2>7, <2>8, <3>2
  <2>9. CASE j = n - i + 1
    <3>1. k = i /\ j - 1 <= n - i /\ ~ (j <= n - i)
      BY <2>2, <2>9
    <3>2. x < y /\ p = q
      BY <1>4, <2>1, <2>4, <2>5, <3>1
    <3>3. B * p = B * q /\ B * p \in Int
      BY <3>2
    <3>4. x + B * p + 1 <= y + B * q
      BY <3>2, <3>3
    <3> QED BY <2>1, <2>7, <3>1, <3>4
  <2>10. CASE j > n - i + 1
    <3>1. ~ (j - 1 <= n - i) /\ ~ (j <= n - i)
      BY <2>10
    <3>2. p + 1 <= q
      BY <1>4, <2>1, <2>5, <3>1
    <3>3. B * (q - (p + 1)) >= 0
      BY <2>6, <3>2
    <3>4. PICK bp \in Int, bq \in Int : bp = B * p /\ bq = B * q
      OBVIOUS
    <3>5. B * (q - (p + 1)) = bq - bp - B
      BY <3>4
    <3>6. bq - bp - B >= 0
      BY <3>3, <3>5
    <3>7. x + bp + 1 <= y + bq
      BY <2>6, <3>6
    <3> QED BY <2>1, <2>7, <3>1, <3>4, <3>7
  <2>11. j <= n - i \/ j = n - i + 1 \/ j > n - i + 1
    OBVIOUS
  <2> QED BY <2>8, <2>9, <2>10, <2>11
<1> HIDE DEF T
<1>5. \A j \in 0..n : j \in T
  BY <1>3, <1>4, UpTo
<1>6. v[n] + 1 <= w[n]
  BY <1>5 DEF T
<1> QED BY <1>1, <1>2, <1>6

(* A nonempty set of places has a highest one.                             *)
LEMMA Highest ==
  ASSUME NEW n \in Nat, NEW S \in SUBSET (1..n), S # {}
  PROVE  \E i \in S : \A j \in S : j <= i
<1> DEFINE D == {k \in 0..n : n - k \in S}
<1>1. D \in SUBSET Nat /\ D # {}
  <2>1. PICK i \in S : TRUE
    OBVIOUS
  <2>2. n - i \in 0..n /\ n - (n - i) = i
    BY <2>1
  <2>3. n - i \in D
    BY <2>2
  <2>4. D \subseteq Nat
    OBVIOUS
  <2> QED BY <2>3, <2>4
<1>2. PICK k \in D : \A j \in D : k <= j
  BY <1>1, Least
<1>3. n - k \in S /\ k \in 0..n
  OBVIOUS
<1>4. ASSUME NEW j \in S PROVE j <= n - k
  <2>1. n - j \in D
    <3>1. n - j \in 0..n /\ n - (n - j) = j
      OBVIOUS
    <3> QED BY <3>1
  <2> QED BY <1>2, <1>3, <2>1
<1> QED BY <1>3, <1>4

(* bi_compare_var gives the order of the numbers as 1, 0 or -1, for any    *)
(* number of words.                                                        *)
THEOREM ComparisonsAreExact ==
  ASSUME NEW n \in Nat, NEW a \in Bigs(n), NEW b \in Bigs(n)
  PROVE  bi_compare_var_std(a, b)
           = IF Value(a) = Value(b) THEN 0 ELSE IF Value(a) > Value(b) THEN 1 ELSE -1
<1> DEFINE different == {i \in 1..n : a[i] # b[i]}
           top == CHOOSE i \in different : \A j \in different : j <= i
<1>0. Len(a) = n /\ Value(a) \in Nat /\ Value(b) \in Nat
  BY BigWords, ValueIsNat
<1>1. bi_compare_var_std(a, b) = IF different = {} THEN 0 ELSE IF a[top] > b[top] THEN 1 ELSE -1
  BY <1>0 DEF bi_compare_var_std
<1>2. CASE different = {}
  <2>1. \A i \in 1..n : a[i] = b[i]
    BY <1>2
  <2>2. a = b
    BY <2>1 DEF Bigs
  <2> QED BY <1>0, <1>1, <1>2, <2>2
<1>3. CASE different # {}
  <2>1. \E i \in different : \A j \in different : j <= i
    BY <1>3, Highest
  <2>2. top \in different /\ \A j \in different : j <= top
    BY <2>1
  <2> HIDE DEF top
  <2>3. top \in 1..n /\ a[top] # b[top] /\ a[top] \in Int /\ b[top] \in Int
    <3>1. \A h \in 1..n : a[h] \in Nat /\ b[h] \in Nat
      BY BigWords
    <3> QED BY <2>2, <3>1
  <2>4. \A k \in top+1..n : a[k] = b[k] /\ b[k] = a[k]
    BY <2>2, <2>3
  <2>5. CASE a[top] > b[top]
    <3>1. b[top] < a[top]
      BY <2>3, <2>5
    <3>2. Value(b) < Value(a)
      BY <2>3, <2>4, <3>1, LessAt
    <3> QED BY <1>0, <1>1, <1>3, <2>5, <3>2
  <2>6. CASE ~ (a[top] > b[top])
    <3>1. a[top] < b[top]
      BY <2>3, <2>6
    <3>2. Value(a) < Value(b)
      BY <2>3, <2>4, <3>1, LessAt
    <3> QED BY <1>0, <1>1, <1>3, <2>6, <3>2
  <2> QED BY <2>5, <2>6
<1> QED BY <1>2, <1>3

-----------------------------------------------------------------------------
(* Sums, differences and negatives in the field: fp.c.                     *)
(* What holds a field element, reduced or not.                             *)
Elements == Bigs(BI_WORDS)
(* Sums, differences and comparisons of n words, by the routines the       *)
(* headers bind, are those of the numbers.                                 *)
ExactAt(n) ==
  \A a, b \in Bigs(n) :
    /\ LET s == bi_add_var(a, b) IN
       /\ s.res \in Bigs(n) /\ s.carry \in {0, 1}
       /\ Value(s.res) + PowerOf(Base, n) * s.carry = Value(a) + Value(b)
    /\ LET d == bi_subtract_var(a, b) IN
       /\ d.res \in Bigs(n) /\ d.carry \in {0, 1}
       /\ Value(d.res) - PowerOf(Base, n) * d.carry = Value(a) - Value(b)
    /\ bi_compare_var(a, b) = IF Value(a) = Value(b) THEN 0 ELSE IF Value(a) > Value(b) THEN 1 ELSE -1
ExactWords == \A n \in Nat : ExactAt(n)

(* Field elements are below R.                                             *)
LEMMA BigFacts ==
  /\ BI_WORDS \in Nat /\ R \in Nat /\ R > 0
  /\ \A a \in Elements : Value(a) \in Nat /\ Value(a) < R
<1>1. BI_WORDS \in Nat
  BY WordsAssumption
<1>2. R \in Nat /\ R > 0
  <2>1. Base \in Nat /\ Base >= 1
    BY BaseFacts
  <2>2. PowerOf(Base, BI_WORDS) \in Nat /\ PowerOf(Base, BI_WORDS) >= 1
    BY <1>1, <2>1, PowerLaws, PowerMonotone
  <2> QED BY <2>2 DEF R
<1>3. ASSUME NEW a \in Elements PROVE Value(a) \in Nat /\ Value(a) < R
  BY <1>1, ValueIsNat, ValueBound DEF R, Elements
<1> QED BY <1>1, <1>2, <1>3

(* A sum of two field elements, with the carry and without it.             *)
LEMMA SumCases ==
  ASSUME ExactWords, NEW a \in Elements, NEW b \in Elements
  PROVE  LET s == bi_add_var(a, b) IN
         /\ s.res \in Elements /\ Value(s.res) \in 0..R-1
         /\ \/ s.carry = 0 /\ Value(s.res) = Value(a) + Value(b)
            \/ s.carry = 1 /\ Value(s.res) = Value(a) + Value(b) - R
<1> DEFINE s == bi_add_var(a, b)
<1>1. s.res \in Elements /\ s.carry \in {0, 1} /\ Value(s.res) + R * s.carry = Value(a) + Value(b)
  BY BigFacts DEF ExactWords, ExactAt, Elements, R
<1> HIDE DEF s
<1>2. /\ Value(s.res) \in Nat /\ Value(s.res) < R /\ Value(a) \in Nat /\ Value(b) \in Nat /\ R \in Nat
  BY <1>1, BigFacts
<1>3. CASE s.carry = 0
  BY <1>1, <1>2, <1>3 DEF s
<1>4. CASE s.carry = 1
  BY <1>1, <1>2, <1>4 DEF s
<1> QED BY <1>1, <1>3, <1>4

(* A difference of two field elements, with the borrow and without it.     *)
LEMMA DifferenceCases ==
  ASSUME ExactWords, NEW a \in Elements, NEW b \in Elements
  PROVE  LET d == bi_subtract_var(a, b) IN
         /\ d.res \in Elements /\ Value(d.res) \in 0..R-1
         /\ \/ d.carry = 0 /\ Value(d.res) = Value(a) - Value(b)
            \/ d.carry = 1 /\ Value(d.res) = Value(a) - Value(b) + R
<1> DEFINE s == bi_subtract_var(a, b)
<1>1. s.res \in Elements /\ s.carry \in {0, 1} /\ Value(s.res) - R * s.carry = Value(a) - Value(b)
  BY BigFacts DEF ExactWords, ExactAt, Elements, R
<1> HIDE DEF s
<1>2. /\ Value(s.res) \in Nat /\ Value(s.res) < R /\ Value(a) \in Nat /\ Value(b) \in Nat /\ R \in Nat
  BY <1>1, BigFacts
<1>3. CASE s.carry = 0
  BY <1>1, <1>2, <1>3 DEF s
<1>4. CASE s.carry = 1
  BY <1>1, <1>2, <1>4 DEF s
<1> QED BY <1>1, <1>3, <1>4

(* What the sign of a comparison says of two field elements.               *)
LEMMA CompareCases ==
  ASSUME ExactWords, NEW a \in Elements, NEW b \in Elements
  PROVE  /\ bi_compare_var(a, b) >= 0 <=> Value(a) >= Value(b)
         /\ bi_compare_var(a, b) > 0 <=> Value(a) > Value(b)
         /\ bi_compare_var(a, b) = 0 <=> Value(a) = Value(b)
<1>1. bi_compare_var(a, b) = IF Value(a) = Value(b) THEN 0 ELSE IF Value(a) > Value(b) THEN 1 ELSE -1
  BY BigFacts DEF ExactWords, ExactAt, Elements, R
<1>2. Value(a) \in Nat /\ Value(b) \in Nat
  BY BigFacts
<1> QED BY <1>1, <1>2

(* fp_add_std gives the sum modulo any modulus, in the range of the field, *)
(* even when the modulus fills its highest word and the sum of two         *)
(* elements overflows the words: one subtraction is enough, and its borrow *)
(* cancels the carry.                                                      *)
THEOREM FieldSumsAreReduced ==
  ASSUME ExactWords, NEW mod \in Elements, NEW a \in Elements, NEW b \in Elements,
         Value(a) < Value(mod), Value(b) < Value(mod)
  PROVE  LET r == fp_add_std(a, b, mod) IN
         r \in Elements /\ Value(r) = (Value(a) + Value(b)) % Value(mod)
<1> DEFINE s == bi_add_var(a, b)
           d == bi_subtract_var(s.res, mod)
<1>1. PICK x \in Nat, y \in Nat, p \in Nat, B \in Nat :
        /\ x = Value(a) /\ y = Value(b) /\ p = Value(mod) /\ B = R
        /\ x < p /\ y < p /\ p < B
  BY BigFacts
<1>2. /\ s.res \in Elements /\ Value(s.res) \in 0..B-1
      /\ \/ s.carry = 0 /\ Value(s.res) = x + y
         \/ s.carry = 1 /\ Value(s.res) = x + y - B
  BY <1>1, SumCases
<1> HIDE DEF s
<1>3. /\ d.res \in Elements /\ Value(d.res) \in 0..B-1
      /\ \/ d.carry = 0 /\ Value(d.res) = Value(s.res) - p
         \/ d.carry = 1 /\ Value(d.res) = Value(s.res) - p + B
  BY <1>1, <1>2, DifferenceCases
<1>4. bi_compare_var(s.res, mod) >= 0 <=> Value(s.res) >= p
  BY <1>1, <1>2, CompareCases
<1> HIDE DEF d
<1>5. fp_add_std(a, b, mod) = IF s.carry = 1 \/ Value(s.res) >= p THEN d.res ELSE s.res
  BY <1>4 DEF fp_add_std, s, d
<1>6. (x + y) % p = IF x + y < p THEN x + y ELSE x + y - p
  BY <1>1
<1>7. CASE s.carry = 1 \/ Value(s.res) >= p
  <2>1. Value(d.res) = x + y - p /\ ~ (x + y < p)
    BY <1>1, <1>2, <1>3, <1>7
  <2> QED BY <1>1, <1>3, <1>5, <1>6, <1>7, <2>1
<1>8. CASE ~ (s.carry = 1 \/ Value(s.res) >= p)
  <2>1. Value(s.res) = x + y /\ x + y < p
    BY <1>1, <1>2, <1>8
  <2> QED BY <1>1, <1>2, <1>5, <1>6, <1>8, <2>1
<1> QED BY <1>7, <1>8

(* fp_sub_std gives the difference modulo any modulus, in the range of the *)
(* field.                                                                  *)
THEOREM FieldDifferencesAreReduced ==
  ASSUME ExactWords, NEW mod \in Elements, NEW a \in Elements, NEW b \in Elements,
         Value(a) < Value(mod), Value(b) < Value(mod)
  PROVE  LET r == fp_sub_std(a, b, mod) IN
         r \in Elements /\ Value(r) = (Value(a) - Value(b)) % Value(mod)
<1> DEFINE d == bi_subtract_var(a, b)
           s == bi_add_var(d.res, mod)
<1>1. PICK x \in Nat, y \in Nat, p \in Nat, B \in Nat :
        /\ x = Value(a) /\ y = Value(b) /\ p = Value(mod) /\ B = R
        /\ x < p /\ y < p /\ p < B
  BY BigFacts
<1>2. /\ d.res \in Elements /\ Value(d.res) \in 0..B-1
      /\ \/ d.carry = 0 /\ Value(d.res) = x - y
         \/ d.carry = 1 /\ Value(d.res) = x - y + B
  BY <1>1, DifferenceCases
<1> HIDE DEF d
<1>3. /\ s.res \in Elements /\ Value(s.res) \in 0..B-1
      /\ \/ s.carry = 0 /\ Value(s.res) = Value(d.res) + p
         \/ s.carry = 1 /\ Value(s.res) = Value(d.res) + p - B
  BY <1>1, <1>2, SumCases
<1> HIDE DEF s
<1>4. fp_sub_std(a, b, mod) = IF d.carry = 1 THEN s.res ELSE d.res
  BY DEF fp_sub_std, s, d
<1>5. (x - y) % p = IF x >= y THEN x - y ELSE x - y + p
  <2>1. x \in 0..p-1 /\ y \in 0..p-1 /\ p \in Nat /\ p > 0
    BY <1>1
  <2> QED BY <2>1
<1>6. CASE d.carry = 1
  <2>1. Value(s.res) = x - y + p /\ ~ (x >= y)
    BY <1>1, <1>2, <1>3, <1>6
  <2> QED BY <1>1, <1>3, <1>4, <1>5, <1>6, <2>1
<1>7. CASE d.carry # 1
  <2>1. Value(d.res) = x - y /\ x >= y
    BY <1>1, <1>2, <1>7
  <2> QED BY <1>1, <1>2, <1>4, <1>5, <1>7, <2>1
<1> QED BY <1>6, <1>7

(* Words that are all zero stand for zero.                                 *)
LEMMA ZeroValue ==
  ASSUME NEW n \in Nat
  PROVE  Zeros(n) \in Bigs(n) /\ Value(Zeros(n)) = 0
<1>1. Zeros(n) \in Bigs(n)
  BY BaseFacts DEF Zeros, Bigs, Word
<1>2. PICK v \in [0..n -> Nat] : /\ v[0] = 0 /\ \A i \in 1..n : v[i] = Zeros(n)[n+1-i] + Base * v[i-1]
                                 /\ Value(Zeros(n)) = v[n]
  BY <1>1, ValueDef
<1> DEFINE T == {i \in 0..n : v[i] = 0}
<1>3. 0 \in T
  BY <1>2
<1>4. ASSUME NEW i \in 1..n, i - 1 \in T PROVE i \in T
  <2>1. Zeros(n)[n+1-i] = 0
    BY DEF Zeros
  <2> QED BY <1>2, <1>4, <2>1, BaseFacts
<1> HIDE DEF T
<1>5. \A i \in 0..n : i \in T
  BY <1>3, <1>4, UpTo
<1> QED BY <1>1, <1>2, <1>5 DEF T

(* fp_neg_std gives the negative modulo any modulus; zero stays zero and   *)
(* does not become the modulus.                                            *)
THEOREM FieldNegativesAreReduced ==
  ASSUME ExactWords, NEW mod \in Elements, NEW a \in Elements, Value(a) < Value(mod)
  PROVE  LET r == fp_neg_std(a, mod) IN
         r \in Elements /\ Value(r) = (-Value(a)) % Value(mod)
<1> DEFINE d == bi_subtract_var(mod, a)
<1>1. PICK x \in Nat, p \in Nat, B \in Nat :
        x = Value(a) /\ p = Value(mod) /\ B = R /\ x < p /\ p < B
  BY BigFacts
<1>2. /\ d.res \in Elements /\ Value(d.res) \in 0..B-1
      /\ \/ d.carry = 0 /\ Value(d.res) = p - x
         \/ d.carry = 1 /\ Value(d.res) = p - x + B
  BY <1>1, DifferenceCases
<1> HIDE DEF d
<1>3. bi_compare_var(a, Zeros(BI_WORDS)) # 0 <=> x # 0
  BY <1>1, ZeroValue, BigFacts, CompareCases DEF Elements
<1>4. fp_neg_std(a, mod) = IF x # 0 THEN d.res ELSE a
  BY <1>3 DEF fp_neg_std, d
<1>5. (-x) % p = IF x = 0 THEN 0 ELSE p - x
  BY <1>1
<1>6. Value(d.res) = p - x
  BY <1>1, <1>2
<1> QED BY <1>1, <1>2, <1>4, <1>5, <1>6

-----------------------------------------------------------------------------
(* Products: bi.c.                                                         *)
(* The C build: the headers bind the routines of bi.c.                     *)
StandardWords ==
  \A a, b : /\ bi_add_var(a, b) = bi_add_var_std(a, b)
            /\ bi_subtract_var(a, b) = bi_subtract_var_std(a, b)
            /\ bi_compare_var(a, b) = bi_compare_var_std(a, b)
            /\ bi_multiply_var(a, b) = bi_multiply_var_std(a, b)

(* When the headers bind the routines of bi.c, words are added, subtracted *)
(* and compared exactly.                                                   *)
LEMMA HeadersAreExact ==
  ASSUME StandardWords
  PROVE  ExactWords
<1> SUFFICES ASSUME NEW n \in Nat, NEW a \in Bigs(n), NEW b \in Bigs(n)
             PROVE  /\ LET s == bi_add_var(a, b) IN
                       /\ s.res \in Bigs(n) /\ s.carry \in {0, 1}
                       /\ Value(s.res) + PowerOf(Base, n) * s.carry = Value(a) + Value(b)
                    /\ LET d == bi_subtract_var(a, b) IN
                       /\ d.res \in Bigs(n) /\ d.carry \in {0, 1}
                       /\ Value(d.res) - PowerOf(Base, n) * d.carry = Value(a) - Value(b)
                    /\ bi_compare_var(a, b)
                         = IF Value(a) = Value(b) THEN 0 ELSE IF Value(a) > Value(b) THEN 1 ELSE -1
  BY DEF ExactWords, ExactAt
<1> DEFINE s == bi_add_var(a, b)
<1>1. s = bi_add_carry_var(a, b, 0)
  BY DEF bi_add_var_std, StandardWords
<1>2. /\ s.res \in Bigs(n) /\ s.carry \in {0, 1}
      /\ Value(s.res) + PowerOf(Base, n) * s.carry = Value(a) + Value(b) + 0
  BY <1>1, SumsAreExact, 0 \in {0, 1}
<1>3. Value(a) \in Nat /\ Value(b) \in Nat
  BY ValueIsNat
<1> HIDE DEF s
<1>4. Value(s.res) + PowerOf(Base, n) * s.carry = Value(a) + Value(b)
  BY <1>2, <1>3
<1>5. bi_subtract_var(a, b) = bi_subtract_var_std(a, b) /\ bi_compare_var(a, b) = bi_compare_var_std(a, b)
  BY DEF StandardWords
<1> QED BY <1>2, <1>4, <1>5, DifferencesAreExact, ComparisonsAreExact DEF s

(* A sum of the bound routine at one length.                               *)
LEMMA SumAt ==
  ASSUME ExactWords, NEW n \in Nat, NEW a \in Bigs(n), NEW b \in Bigs(n)
  PROVE  LET s == bi_add_var(a, b) IN
         /\ s.res \in Bigs(n) /\ s.carry \in {0, 1}
         /\ Value(s.res) + PowerOf(Base, n) * s.carry = Value(a) + Value(b)
BY DEF ExactWords, ExactAt

(* A difference of the bound routine at one length.                        *)
LEMMA DifferenceAt ==
  ASSUME ExactWords, NEW n \in Nat, NEW a \in Bigs(n), NEW b \in Bigs(n)
  PROVE  LET d == bi_subtract_var(a, b) IN
         /\ d.res \in Bigs(n) /\ d.carry \in {0, 1}
         /\ Value(d.res) - PowerOf(Base, n) * d.carry = Value(a) - Value(b)
BY DEF ExactWords, ExactAt

(* A single word as a big integer.                                         *)
LEMMA OneWord ==
  ASSUME NEW x \in Word
  PROVE  <<x>> \in Bigs(1) /\ Value(<<x>>) = x
<1>1. <<x>> \in Bigs(1)
  BY DEF Bigs
<1>2. PICK v \in [0..1 -> Nat] : /\ v[0] = 0 /\ \A i \in 1..1 : v[i] = <<x>>[1+1-i] + Base * v[i-1]
                                 /\ Value(<<x>>) = v[1]
  BY <1>1, ValueDef, 1 \in Nat
<1>3. v[1] = x + Base * 0
  <2>1. 1 \in 1..1 /\ 1 - 1 = 0 /\ 1 + 1 - 1 = 1 /\ <<x>>[1] = x
    OBVIOUS
  <2> QED BY <1>2, <2>1
<1>4. x \in Int /\ Base \in Int
  BY BaseFacts DEF Word
<1> QED BY <1>1, <1>2, <1>3, <1>4

(* One word of a product: the word already there, a product of two words   *)
(* and a carry fit together in two words.                                  *)
LEMMA MultiplyWord ==
  ASSUME NEW x \in Word, NEW y \in Word, NEW w \in Word, NEW c \in Word
  PROVE  LET sum == x + w * y + c IN
         /\ sum % Base \in Word /\ sum \div Base \in Word
         /\ sum = (sum % Base) + Base * (sum \div Base)
<1>1. PICK B \in Nat : B = Base /\ B >= 2
  BY BaseFacts
<1>2. x \in 0..B-1 /\ y \in 0..B-1 /\ w \in 0..B-1 /\ c \in 0..B-1
  BY <1>1 DEF Word
<1>3. w * y \in Nat /\ w * y <= (B - 1) * (B - 1)
  <2>1. w * y \in Nat
    BY <1>2
  <2>2. w * (B - 1 - y) >= 0 /\ (B - 1 - w) * (B - 1) >= 0
    BY <1>1, <1>2
  <2>3. w * (B - 1 - y) = w * (B - 1) - w * y
    BY <1>2
  <2>4. (B - 1 - w) * (B - 1) = (B - 1) * (B - 1) - w * (B - 1)
    BY <1>2
  <2>5. PICK p \in Int, q \in Int, z \in Int : p = w * y /\ q = w * (B - 1) /\ z = (B - 1) * (B - 1)
    BY <1>2
  <2> QED BY <2>1, <2>2, <2>3, <2>4, <2>5
<1>4. (B - 1) * (B - 1) = B * B - 2 * B + 1
  BY <1>1
<1> DEFINE sum == x + w * y + c
<1>5. sum \in Nat /\ sum <= B * B - 1
  <2>1. PICK p \in Int, z \in Int : p = w * y /\ z = B * B
    BY <1>2
  <2>2. p \in Nat /\ p <= z - 2 * B + 1
    BY <1>3, <1>4, <2>1
  <2> QED BY <1>2, <2>1, <2>2
<1> HIDE DEF sum
<1>6. /\ sum % B \in 0..B-1 /\ sum \div B \in Nat
      /\ sum = B * (sum \div B) + (sum % B)
  BY <1>1, <1>5
<1>7. sum \div B <= B - 1
  <2>1. PICK k \in Nat, m \in Nat : k = sum \div B /\ m = sum % B
    BY <1>6
  <2>2. B * k <= B * B - 1
    BY <1>5, <1>6, <2>1
  <2>3. ~ (k >= B)
    <3>1. ASSUME k >= B PROVE FALSE
      <4>1. B * (k - B) >= 0
        BY <1>1, <2>1, <3>1
      <4>2. B * (k - B) = B * k - B * B
        OBVIOUS
      <4> QED BY <2>2, <4>1, <4>2
    <3> QED BY <3>1
  <2> QED BY <1>1, <2>1, <2>3
<1> QED BY <1>1, <1>6, <1>7 DEF sum, Word

(* The inner loop of bi_multiply_var adds the product of a big integer and *)
(* a word.                                                                 *)
LEMMA MultiplyingLoop ==
  ASSUME NEW m \in Nat, NEW a \in Bigs(m), NEW b \in Bigs(m), NEW w \in Word
  PROVE  LET Sum(j, c) == a[j] + w * b[j] + c
             row == WordLoop(m, LAMBDA j, c : Sum(j, c) % Base,
                                LAMBDA j, c : Sum(j, c) \div Base)
         IN /\ row.res \in Bigs(m) /\ row.carry \in Word
            /\ Value(a) + w * Value(b) = Value(row.res) + PowerOf(Base, m) * row.carry
<1> DEFINE Sum(j, c) == a[j] + w * b[j] + c
           out == [j \in 1..m |-> [c \in Word |-> Sum(j, c) % Base]]
           car == [j \in 1..m |-> [c \in Word |-> Sum(j, c) \div Base]]
           row == CarryLoop(0, m, out, car)
<1>0. 0 \in Word
  BY BaseFacts DEF Word
<1>1. ASSUME NEW j \in 1..m, NEW c \in Word
      PROVE  /\ Sum(j, c) % Base \in Word /\ Sum(j, c) \div Base \in Word
             /\ Sum(j, c) = (Sum(j, c) % Base) + Base * (Sum(j, c) \div Base)
  <2>1. a[j] \in Word /\ b[j] \in Word
    BY BigWords
  <2> QED BY <2>1, MultiplyWord
<1>2. out \in LoopFunctions(m) /\ car \in LoopFunctions(m)
  <2> HIDE DEF Sum
  <2> QED BY <1>1 DEF LoopFunctions
<1>3. ASSUME NEW j \in 1..m, NEW c \in Word
      PROVE  a[j] + w * b[j] + c = out[j][c] + Base * car[j][c]
  <2>1. out[j][c] = Sum(j, c) % Base /\ car[j][c] = Sum(j, c) \div Base
    OBVIOUS
  <2> HIDE DEF out, car
  <2> QED BY <1>1, <2>1
<1>4. WordLoop(m, LAMBDA j, c : Sum(j, c) % Base, LAMBDA j, c : Sum(j, c) \div Base) = row
  BY DEF WordLoop, WordLoopFrom
<1> HIDE DEF Sum, out, car
<1>5. LoopResult(row, m, 0, out, car)
  BY <1>0, <1>2, LoopWords
<1> HIDE DEF row
<1>6. row.res \in Bigs(m) /\ row.carry \in Word
  BY <1>5 DEF LoopResult
<1>7. PICK c \in [0..m -> Word] :
        /\ c[0] = 0 /\ c[m] = row.carry
        /\ \A j \in 1..m : row.res[j] = out[j][c[j-1]] /\ c[j] = car[j][c[j-1]]
  BY <1>5 DEF LoopResult
<1>8. ASSUME NEW j \in 1..m PROVE a[j] + w * b[j] + c[j-1] = row.res[j] + Base * c[j]
  <2>1. c[j-1] \in Word
    OBVIOUS
  <2> QED BY <1>3, <1>7, <2>1
<1>9. c \in [0..m -> Int] /\ w \in Int
  BY BaseFacts DEF Word
<1>10. Value(a) + w * Value(b) + c[0] = Value(row.res) + PowerOf(Base, m) * c[m]
  BY <1>6, <1>8, <1>9, ChainProduct
<1>11. Value(a) + w * Value(b) \in Int
  <2>1. Value(a) \in Int /\ Value(b) \in Int
    BY ValueIsNat
  <2>2. w * Value(b) \in Int
    BY <1>9, <2>1
  <2> QED BY <2>1, <2>2
<1>12. Value(a) + w * Value(b) + 0 = Value(a) + w * Value(b)
  BY <1>11
<1>13. Value(a) + w * Value(b) = Value(row.res) + PowerOf(Base, m) * row.carry
  BY <1>7, <1>10, <1>12
<1> QED BY <1>4, <1>6, <1>13 DEF Sum

(* u is s with t above it.                                                 *)
Joins(u, n, s, m, t) ==
  u \in Bigs(n + m) /\ (\A k \in 1..n : u[k] = s[k]) /\ (\A k \in 1..m : u[n+k] = t[k])

(* Two big integers in a row join.                                         *)
LEMMA ConcatJoins ==
  ASSUME NEW n \in Nat, NEW m \in Nat, NEW s \in Bigs(n), NEW t \in Bigs(m)
  PROVE  Joins(s \o t, n, s, m, t)
BY ConcatWords, ZenonT(30) DEF Joins

(* A big integer is cut at place f into a lower and a higher one.          *)
LEMMA CutValue ==
  ASSUME NEW n \in Nat, NEW a \in Bigs(n), NEW f \in 0..n
  PROVE  /\ SubSeq(a, 1, f) \in Bigs(f) /\ SubSeq(a, f + 1, n) \in Bigs(n - f) /\ n - f \in Nat
         /\ a = SubSeq(a, 1, f) \o SubSeq(a, f + 1, n)
         /\ Value(a) = Value(SubSeq(a, 1, f)) + PowerOf(Base, f) * Value(SubSeq(a, f + 1, n))
<1> DEFINE lo == SubSeq(a, 1, f)
           hi == SubSeq(a, f + 1, n)
<1>0. f \in Nat /\ n - f \in Nat /\ f - 1 + 1 = f /\ n - (f + 1) + 1 = n - f /\ f + (n - f) = n
  OBVIOUS
<1>1. lo \in Bigs(f) /\ \A k \in 1..f : lo[k] = a[k]
  <2>1. /\ lo \in Bigs(f - 1 + 1) /\ \A k \in 1..f-1+1 : lo[k] = a[1 + k - 1]
    BY SubWords, 1 \in Nat
  <2>2. \A k \in 1..f : 1 + k - 1 = k
    OBVIOUS
  <2> HIDE DEF lo
  <2> QED BY <1>0, <2>1, <2>2
<1>2. hi \in Bigs(n - f) /\ \A k \in 1..n-f : hi[k] = a[f + k]
  <2>1. /\ hi \in Bigs(n - (f + 1) + 1) /\ \A k \in 1..n-(f+1)+1 : hi[k] = a[f + 1 + k - 1]
    BY SubWords, <1>0, f + 1 \in Nat
  <2>2. \A k \in 1..n-f : f + 1 + k - 1 = f + k
    OBVIOUS
  <2> HIDE DEF hi
  <2> QED BY <1>0, <2>1, <2>2
<1> HIDE DEF lo, hi
<1>3. /\ lo \o hi \in Bigs(n)
      /\ (\A k \in 1..f : (lo \o hi)[k] = lo[k]) /\ (\A k \in 1..n-f : (lo \o hi)[f+k] = hi[k])
  <2>1. PICK m \in Nat : m = n - f /\ f + m = n
    BY <1>0
  <2>2. hi \in Bigs(m)
    BY <1>2, <2>1
  <2>3. /\ lo \o hi \in Bigs(f + m)
        /\ (\A k \in 1..f : (lo \o hi)[k] = lo[k]) /\ (\A k \in 1..m : (lo \o hi)[f+k] = hi[k])
    <3>1. f \in Nat /\ m \in Nat /\ lo \in Bigs(f) /\ hi \in Bigs(m)
      BY <1>1, <2>2
    <3>2. Joins(lo \o hi, f, lo, m, hi)
      BY <3>1, ConcatJoins
    <3>3. PICK u : u = lo \o hi
      OBVIOUS
    <3> QED BY <3>2, <3>3 DEF Joins
  <2> QED BY <2>1, <2>3
<1>4. ASSUME NEW k \in 1..n PROVE (lo \o hi)[k] = a[k]
  <2>1. CASE k <= f
    <3>1. k \in 1..f
      BY <2>1
    <3> QED BY <1>1, <1>3, <3>1
  <2>2. CASE ~ (k <= f)
    <3>1. k - f \in 1..n-f /\ f + (k - f) = k
      BY <2>2
    <3> QED BY <1>2, <1>3, <3>1
  <2> QED BY <2>1, <2>2
<1>5. a = lo \o hi
  <2>1. a \in [1..n -> Word] /\ lo \o hi \in [1..n -> Word]
    BY <1>3 DEF Bigs
  <2>2. PICK u : u = lo \o hi
    OBVIOUS
  <2> QED BY <1>4, <2>1, <2>2
<1>6. Value(lo \o hi) = Value(lo) + PowerOf(Base, f) * Value(hi)
  BY <1>0, <1>1, <1>2, ValueConcat
<1> QED BY <1>0, <1>1, <1>2, <1>5, <1>6 DEF lo, hi

(* What is above the last word in use is zero.                             *)
LEMMA ZeroAbove ==
  ASSUME NEW n \in Nat, NEW a \in Bigs(n), NEW f \in 0..n, \A k \in f+1..n : a[k] = 0
  PROVE  SubSeq(a, f + 1, n) = Zeros(n - f)
<1>1. /\ SubSeq(a, f + 1, n) \in Bigs(n - (f + 1) + 1)
      /\ \A k \in 1..n-(f+1)+1 : SubSeq(a, f + 1, n)[k] = a[f + 1 + k - 1]
  BY SubWords, f + 1 \in Nat
<1>2. n - (f + 1) + 1 = n - f
  OBVIOUS
<1>3. \A k \in 1..n-f : f + 1 + k - 1 \in f+1..n
  OBVIOUS
<1>4. \A k \in 1..n-f : SubSeq(a, f + 1, n)[k] = 0
  BY <1>1, <1>2, <1>3
<1> QED BY <1>1, <1>2, <1>4 DEF Bigs, Zeros

(* A word is a natural number.                                             *)
LEMMA WordInt ==
  ASSUME NEW x \in Word
  PROVE  x \in Nat
BY BaseFacts DEF Word

(* The powers of the base are positive.                                    *)
LEMMA PowerNat ==
  ASSUME NEW n \in Nat
  PROVE  PowerOf(Base, n) \in Nat /\ PowerOf(Base, n) >= 1
<1>1. Base \in Nat /\ Base >= 1
  BY BaseFacts
<1> QED BY <1>1, PowerLaws, PowerMonotone

(* u is pre, with res and the carry c above it, and g words that are zero. *)
RowParts(u, e, m, g, pre, res, c) ==
  /\ u \in Bigs(e + m + 1 + g)
  /\ Value(u) = Value(pre) + PowerOf(Base, e) * (Value(res) + PowerOf(Base, m) * c)
  /\ \A k \in e+m+2..e+m+1+g : u[k] = 0

(* The parts that a turn of the outer loop of bi_multiply_var puts in a    *)
(* row: what lies below the row, the row, its carry and the zeros above.   *)
LEMMA RowValue ==
  ASSUME NEW e \in Nat, NEW m \in Nat, NEW g \in Nat, NEW pre \in Bigs(e), NEW res \in Bigs(m), NEW c \in Word
  PROVE  RowParts(pre \o res \o <<c>> \o Zeros(g), e, m, g, pre, res, c)
<1>1. PICK n1 \in Nat, n2 \in Nat : n1 = e + m /\ n2 = n1 + 1
  OBVIOUS
<1>2. PICK x : x = pre \o res
  OBVIOUS
<1>3. x \in Bigs(n1) /\ Value(x) = Value(pre) + PowerOf(Base, e) * Value(res)
  BY <1>1, <1>2, ValueConcat
<1>4. PICK y : y = x \o <<c>>
  OBVIOUS
<1>5. y \in Bigs(n2) /\ Value(y) = Value(x) + PowerOf(Base, n1) * c
  <2>1. <<c>> \in Bigs(1) /\ Value(<<c>>) = c /\ 1 \in Nat
    BY OneWord
  <2>2. PICK z : z = <<c>>
    OBVIOUS
  <2>3. y \in Bigs(n1 + 1) /\ Value(y) = Value(x) + PowerOf(Base, n1) * Value(z)
    BY <1>3, <1>4, <2>1, <2>2, ValueConcat
  <2> QED BY <1>1, <2>1, <2>2, <2>3
<1>6. PICK u : u = y \o Zeros(g)
  OBVIOUS
<1>7. u \in Bigs(n2 + g) /\ Value(u) = Value(y) + PowerOf(Base, n2) * 0
  <2>1. PICK z : z = Zeros(g) /\ z \in Bigs(g) /\ Value(z) = 0
    BY ZeroValue
  <2>2. u \in Bigs(n2 + g) /\ Value(u) = Value(y) + PowerOf(Base, n2) * Value(z)
    BY <1>5, <1>6, <2>1, ValueConcat
  <2> QED BY <2>1, <2>2
<1>8. ASSUME NEW k \in e+m+2..e+m+1+g PROVE u[k] = 0
  <2>1. Joins(u, n2, y, g, Zeros(g))
    BY <1>5, <1>6, ZeroValue, ConcatJoins
  <2>2. PICK h \in 1..g : k = n2 + h
    <3>1. k - n2 \in 1..g /\ k = n2 + (k - n2)
      BY <1>1
    <3> QED BY <3>1
  <2>3. Zeros(g)[h] = 0
    BY DEF Zeros
  <2> QED BY <2>1, <2>2, <2>3 DEF Joins
<1>9. Value(u) = Value(pre) + PowerOf(Base, e) * (Value(res) + PowerOf(Base, m) * c)
  <2>1. PICK vp \in Int, vr \in Int, pe \in Int, pm \in Int, d \in Int :
          vp = Value(pre) /\ vr = Value(res) /\ pe = PowerOf(Base, e) /\ pm = PowerOf(Base, m) /\ d = c
    <3>1. Value(pre) \in Int /\ Value(res) \in Int /\ c \in Int
      BY ValueIsNat, WordInt
    <3>2. PowerOf(Base, e) \in Int /\ PowerOf(Base, m) \in Int
      BY PowerNat
    <3> QED BY <3>1, <3>2
  <2>2. PowerOf(Base, n1) = pe * pm
    BY <1>1, <2>1, PowerAdd, BaseFacts
  <2>3. Value(y) = vp + pe * vr + (pe * pm) * d
    BY <1>3, <1>5, <2>1, <2>2
  <2>4. PowerOf(Base, n2) \in Int
    BY PowerLaws, BaseFacts
  <2>5. Value(u) = Value(y)
    <3>1. Value(y) \in Int
      BY <1>5, ValueIsNat
    <3> QED BY <1>7, <2>4, <3>1
  <2>6. vp + pe * vr + (pe * pm) * d = vp + pe * (vr + pm * d)
    OBVIOUS
  <2> QED BY <2>1, <2>3, <2>5, <2>6
<1>10. u = pre \o res \o <<c>> \o Zeros(g)
  BY <1>2, <1>4, <1>6
<1>11. n2 + g = e + m + 1 + g
  BY <1>1
<1> QED BY <1>7, <1>8, <1>9, <1>10, <1>11 DEF RowParts

(* q is r with w times b added from place i on; above the row it is zero.  *)
RowResult(q, r, n, i, w, b, m) ==
  /\ q \in Bigs(n)
  /\ Value(q) = Value(r) + PowerOf(Base, i - 1) * (w * Value(b))
  /\ \A k \in i+m+1..n : q[k] = 0

(* One turn of the outer loop of bi_multiply_var adds the row to the       *)
(* product so far; the word that takes the last carry was not in use, so   *)
(* it may be assigned and not added.                                       *)
LEMMA RowsAreExact ==
  ASSUME NEW n \in Nat, NEW m \in Nat, NEW i \in 1..n, i + m <= n, NEW r \in Bigs(n), NEW b \in Bigs(m),
         NEW w \in Word, \A k \in i+m..n : r[k] = 0
  PROVE  RowResult(MultiplyRow(r, i, w, b), r, n, i, w, b, m)
<1>1. PICK e \in Nat, g \in Nat, l \in Nat : e = i - 1 /\ g = n - (i + m) /\ l = n - e
                                            /\ e \in 0..n /\ i + m \in 0..n /\ m \in 0..l /\ e + 1 = i
  OBVIOUS
<1> DEFINE pre == SubSeq(r, 1, e)
           tail == SubSeq(r, e + 1, n)
           mid == SubSeq(tail, 1, m)
           high == SubSeq(tail, m + 1, l)
<1>2. /\ pre \in Bigs(e) /\ tail \in Bigs(l)
      /\ Value(r) = Value(pre) + PowerOf(Base, e) * Value(tail)
  BY <1>1, CutValue
<1>3. \A k \in 1..l : tail[k] = r[e + k]
  <2>1. n - (e + 1) + 1 = l /\ \A k \in 1..l : e + 1 + k - 1 = e + k
    BY <1>1
  <2>2. \A k \in 1..n-(e+1)+1 : SubSeq(r, e + 1, n)[k] = r[e + 1 + k - 1]
    BY <1>1, SubWords, e + 1 \in Nat
  <2> QED BY <2>1, <2>2
<1> HIDE DEF tail
<1>4. /\ mid \in Bigs(m)
      /\ Value(tail) = Value(mid) + PowerOf(Base, m) * Value(high)
  BY <1>1, <1>2, CutValue
<1>5. ASSUME NEW k \in 1..m PROVE mid[k] = r[i + k - 1]
  <2>1. \A h \in 1..m-1+1 : SubSeq(tail, 1, m)[h] = tail[1 + h - 1]
    BY <1>1, <1>2, SubWords, 1 \in Nat
  <2>2. 1 + k - 1 = k /\ k \in 1..m-1+1 /\ k \in 1..l /\ e + k = i + k - 1
    BY <1>1
  <2> QED BY <1>3, <2>1, <2>2
<1>6. Value(high) = 0
  <2>1. \A k \in m+1..l : tail[k] = 0
    <3> TAKE k \in m+1..l
    <3>1. k \in 1..l /\ e + k \in i+m..n
      BY <1>1
    <3> QED BY <1>3, <3>1
  <2>2. high = Zeros(l - m) /\ l - m \in Nat
    BY <1>1, <1>2, <2>1, ZeroAbove
  <2> QED BY <2>2, ZeroValue
<1> HIDE DEF pre, mid, high
<1> DEFINE Sum(j, c) == mid[j] + w * b[j] + c
           row == WordLoop(m, LAMBDA j, c : Sum(j, c) % Base,
                              LAMBDA j, c : Sum(j, c) \div Base)
<1>7. /\ row.res \in Bigs(m) /\ row.carry \in Word
      /\ Value(mid) + w * Value(b) = Value(row.res) + PowerOf(Base, m) * row.carry
  BY <1>4, MultiplyingLoop
<1>8. MultiplyRow(r, i, w, b) = pre \o row.res \o <<row.carry>> \o Zeros(g)
  <2> DEFINE Sum0(j, c) == r[i + j - 1] + w * b[j] + c
             row0 == WordLoop(m, LAMBDA j, c : Sum0(j, c) % Base,
                                 LAMBDA j, c : Sum0(j, c) \div Base)
  <2>1. Len(b) = m /\ Len(r) = n
    BY BigWords
  <2>2. row0 = row
    BY <1>5 DEF WordLoop, WordLoopFrom
  <2>3. SubSeq(r, i + m + 1, n) = Zeros(g)
    <3>1. \A k \in i+m+1..n : r[k] = 0
      OBVIOUS
    <3>2. PICK f \in 0..n : f = i + m
      BY <1>1
    <3>3. SubSeq(r, f + 1, n) = Zeros(n - f)
      BY <3>1, <3>2, ZeroAbove
    <3> QED BY <1>1, <3>2, <3>3
  <2>4. MultiplyRow(r, i, w, b) = SubSeq(r, 1, i - 1) \o row0.res \o <<row0.carry>> \o SubSeq(r, i + m + 1, n)
    BY <2>1 DEF MultiplyRow
  <2> HIDE DEF row0, row
  <2> QED BY <1>1, <2>2, <2>3, <2>4 DEF pre
<1> HIDE DEF row
<1>9. PICK q : q = pre \o row.res \o <<row.carry>> \o Zeros(g)
  OBVIOUS
<1>10. /\ q \in Bigs(e + m + 1 + g)
       /\ Value(q) = Value(pre) + PowerOf(Base, e) * (Value(row.res) + PowerOf(Base, m) * row.carry)
       /\ \A k \in e+m+2..e+m+1+g : q[k] = 0
  <2>1. PICK res \in Bigs(m), c \in Word : res = row.res /\ c = row.carry
    BY <1>7
  <2>2. RowParts(pre \o res \o <<c>> \o Zeros(g), e, m, g, pre, res, c)
    BY <1>2, RowValue
  <2>3. q = pre \o res \o <<c>> \o Zeros(g)
    BY <1>9, <2>1
  <2> QED BY <2>1, <2>2, <2>3 DEF RowParts
<1>11. e + m + 1 + g = n /\ e + m + 2 = i + m + 1
  BY <1>1
<1>12. Value(q) = Value(r) + PowerOf(Base, i - 1) * (w * Value(b))
  <2>1. Value(tail) = Value(mid)
    <3>1. Value(mid) \in Int /\ PowerOf(Base, m) \in Int
      BY <1>4, ValueIsNat, PowerLaws, BaseFacts
    <3> QED BY <1>4, <1>6, <3>1
  <2>2. PICK vp \in Int, vm \in Int, pe \in Int, wb \in Int :
          vp = Value(pre) /\ vm = Value(mid) /\ pe = PowerOf(Base, e) /\ wb = w * Value(b)
    <3>1. Value(pre) \in Int /\ Value(mid) \in Int /\ PowerOf(Base, e) \in Int /\ Value(b) \in Int /\ w \in Int
      BY <1>2, <1>4, ValueIsNat, PowerNat, WordInt
    <3>2. w * Value(b) \in Int
      BY <3>1
    <3> QED BY <3>1, <3>2
  <2>3. Value(q) = vp + pe * (vm + wb)
    BY <1>7, <1>10, <2>2
  <2>4. Value(r) = vp + pe * vm
    BY <1>2, <2>1, <2>2
  <2>5. vp + pe * (vm + wb) = (vp + pe * vm) + pe * wb
    OBVIOUS
  <2> QED BY <1>1, <2>2, <2>3, <2>4, <2>5
<1> QED BY <1>8, <1>9, <1>10, <1>11, <1>12 DEF RowResult

(* q is the product of a and b.                                            *)
IsProduct(q, a, b, n, m) == q \in Bigs(n + m) /\ Value(q) = Value(a) * Value(b)

(* bi_multiply_var multiplies: the words of the result, as many as those   *)
(* of both operands together, are the product, for operands of any         *)
(* lengths.                                                                *)
THEOREM ProductsAreExact ==
  ASSUME NEW n \in Nat, NEW m \in Nat, NEW a \in Bigs(n), NEW b \in Bigs(m)
  PROVE  IsProduct(bi_multiply_var_std(a, b), a, b, n, m)
<1> DEFINE X == Bigs(n + m)
           Row(r, i) == MultiplyRow(r, i, a[i], b)
           Is(f) == f = [i \in 0..n |-> IF i = 0 THEN Zeros(n + m) ELSE Row(f[i-1], i)]
           rows == CHOOSE f : Is(f)
           Inv(q, i) == /\ q \in X
                        /\ Value(q) = Value(SubSeq(a, 1, i)) * Value(b)
                        /\ \A k \in i+m+1..n+m : q[k] = 0
<1>0. Len(a) = n /\ Len(b) = m /\ n + m \in Nat
  BY BigWords
<1>1. bi_multiply_var_std(a, b) = rows[n]
  BY <1>0 DEF bi_multiply_var_std
<1>2. Inv(Zeros(n + m), 0)
  <2>1. SubSeq(a, 1, 0) \in Bigs(0)
    BY CutValue, 0 \in 0..n
  <2>2. Value(SubSeq(a, 1, 0)) = 0
    <3>1. Value(SubSeq(a, 1, 0)) \in Nat /\ Value(SubSeq(a, 1, 0)) < PowerOf(Base, 0)
      BY <2>1, ValueIsNat, ValueBound, 0 \in Nat
    <3>2. PowerOf(Base, 0) = 1
      BY BaseFacts, PowerLaws, 0 \in Nat
    <3> QED BY <3>1, <3>2
  <2>3. Value(Zeros(n + m)) = 0 /\ Zeros(n + m) \in X
    BY <1>0, ZeroValue
  <2>4. \A k \in 0+m+1..n+m : Zeros(n + m)[k] = 0
    BY DEF Zeros
  <2>5. Value(b) \in Int
    BY ValueIsNat
  <2>6. Value(Zeros(n + m)) = Value(SubSeq(a, 1, 0)) * Value(b)
    BY <2>2, <2>3, <2>5
  <2> QED BY <2>3, <2>4, <2>6
<1>3. ASSUME NEW i \in 1..n, NEW q, Inv(q, i - 1) PROVE Inv(Row(q, i), i)
  <2>1. PICK w \in Word : w = a[i]
    BY BigWords
  <2>2. PICK N \in Nat : N = n + m
    BY <1>0
  <2>3. i \in 1..N /\ i + m <= N /\ i - 1 \in Nat /\ i \in 0..n /\ i - 1 \in 0..n /\ i - 1 \in 0..i /\ i \in Nat
    BY <2>2
  <2>4. \A k \in i+m..N : q[k] = 0
    <3>1. i - 1 + m + 1 = i + m
      OBVIOUS
    <3> QED BY <1>3, <2>2, <3>1
  <2>5. q \in Bigs(N)
    BY <1>3, <2>2
  <2>6. RowResult(MultiplyRow(q, i, w, b), q, N, i, w, b, m)
    BY <2>3, <2>4, <2>5, RowsAreExact
  <2>7. PICK z : z = Row(q, i)
    OBVIOUS
  <2>8. /\ z \in X /\ Value(z) = Value(q) + PowerOf(Base, i - 1) * (w * Value(b))
        /\ \A k \in i+m+1..n+m : z[k] = 0
    BY <2>1, <2>2, <2>6, <2>7 DEF RowResult
  <2>9. Value(SubSeq(a, 1, i)) = Value(SubSeq(a, 1, i - 1)) + PowerOf(Base, i - 1) * w
    <3>1. PICK e \in Nat, l \in Nat : e = i - 1 /\ e \in 0..n /\ l = n - e
      BY <2>3
    <3> DEFINE lo == SubSeq(a, 1, e)
               up == SubSeq(a, 1, i)
    <3>2. lo \in Bigs(e) /\ up \in Bigs(i)
      BY <2>3, <3>1, CutValue
    <3>3. /\ \A k \in 1..e : lo[k] = a[k]
          /\ \A k \in 1..i : up[k] = a[k]
      <4>1. \A k \in 1..e-1+1 : SubSeq(a, 1, e)[k] = a[1 + k - 1]
        BY <3>1, SubWords, 1 \in Nat
      <4>2. \A k \in 1..i-1+1 : SubSeq(a, 1, i)[k] = a[1 + k - 1]
        BY <2>3, SubWords, 1 \in Nat
      <4>3. e - 1 + 1 = e /\ i - 1 + 1 = i /\ \A k \in 1..n : 1 + k - 1 = k
        BY <3>1
      <4>4. 1..e \subseteq 1..n /\ 1..i \subseteq 1..n
        BY <3>1
      <4> QED BY <4>1, <4>2, <4>3, <4>4
    <3> HIDE DEF lo, up
    <3>4. PICK t : t = <<w>>
      OBVIOUS
    <3>5. t \in Bigs(1) /\ Value(t) = w
      BY <3>4, OneWord
    <3>6. Joins(lo \o t, e, lo, 1, t)
      BY <3>2, <3>5, ConcatJoins, 1 \in Nat
    <3>7. PICK u : u = lo \o t
      OBVIOUS
    <3>8. u \in Bigs(e + 1) /\ (\A k \in 1..e : u[k] = lo[k]) /\ u[e+1] = t[1]
      <4>1. 1 \in 1..1
        OBVIOUS
      <4> QED BY <3>6, <3>7, <4>1 DEF Joins
    <3>9. \A k \in 1..i : u[k] = up[k]
      <4> TAKE k \in 1..i
      <4>1. CASE k = i
        <5>1. u[k] = w
          BY <3>1, <3>4, <3>8, <4>1
        <5> QED BY <2>1, <3>3, <4>1, <5>1
      <4>2. CASE k # i
        <5>1. k \in 1..e
          BY <3>1, <4>2
        <5> QED BY <3>3, <3>8, <5>1
      <4> QED BY <4>1, <4>2
    <3>10. u \in Bigs(i)
      BY <3>1, <3>8
    <3>11. u = up
      <4>1. u \in [1..i -> Word] /\ up \in [1..i -> Word]
        BY <3>2, <3>10 DEF Bigs
      <4> QED BY <3>9, <4>1
    <3>12. Value(lo \o t) = Value(lo) + PowerOf(Base, e) * Value(t)
      BY <3>2, <3>5, ValueConcat, 1 \in Nat
    <3>13. Value(up) = Value(lo) + PowerOf(Base, e) * w
      BY <3>5, <3>7, <3>11, <3>12
    <3> QED BY <3>1, <3>13 DEF lo, up
  <2>10. PICK s \in Int, p \in Int, v \in Int, x \in Int :
           s = Value(SubSeq(a, 1, i - 1)) /\ p = PowerOf(Base, i - 1) /\ v = Value(b) /\ x = w
    <3>1. PICK e \in Nat : e = i - 1 /\ e \in 0..n
      BY <2>3
    <3>2. SubSeq(a, 1, e) \in Bigs(e)
      BY <3>1, CutValue
    <3>3. Value(SubSeq(a, 1, e)) \in Int /\ PowerOf(Base, e) \in Int /\ Value(b) \in Int /\ w \in Int
      BY <3>1, <3>2, ValueIsNat, PowerNat, WordInt
    <3> QED BY <3>1, <3>3
  <2>11. Value(z) = s * v + p * (x * v)
    BY <1>3, <2>8, <2>10
  <2>12. s * v + p * (x * v) = (s + p * x) * v
    OBVIOUS
  <2>13. Value(z) = Value(SubSeq(a, 1, i)) * Value(b)
    BY <2>9, <2>10, <2>11, <2>12
  <2> QED BY <2>7, <2>8, <2>13
<1> HIDE DEF Inv
<1>4. ASSUME NEW i \in 1..n, NEW q, Inv(q, i - 1) PROVE Row(q, i) \in X
  BY <1>3, <1>4 DEF Inv
<1> DEFINE step == [s \in Nat \X X |-> IF s[1] \in 1..n /\ Inv(s[2], s[1] - 1) THEN Row(s[2], s[1]) ELSE Zeros(n + m)]
<1>5. step \in Steps(X)
  <2>1. Zeros(n + m) \in X
    BY <1>0, ZeroValue
  <2> HIDE DEF Row, X
  <2>2. \A s \in Nat \X X : step[s] \in X
    BY <1>4, <2>1
  <2> QED BY <2>2 DEF Steps
<1>6. ASSUME NEW i \in 1..n, NEW q \in X, Inv(q, i - 1) PROVE step[<<i, q>>] = Row(q, i)
  <2> HIDE DEF Row, X
  <2>1. <<i, q>> \in Nat \X X
    OBVIOUS
  <2> QED BY <1>6, <2>1
<1> HIDE DEF step, Row, rows
<1>7. PICK f : Iterates(f, n, X, Zeros(n + m), step)
  <2>1. Zeros(n + m) \in X
    BY <1>0, ZeroValue
  <2> HIDE DEF X
  <2> QED BY <1>5, <2>1, IteratesExist
<1>8. f \in [0..n -> X] /\ f[0] = Zeros(n + m) /\ \A i \in 1..n : f[i] = step[<<i, f[i-1]>>]
  BY <1>7 DEF Iterates
<1>9. \A i \in 0..n : Inv(f[i], i)
  <2> DEFINE T == {i \in 0..n : Inv(f[i], i)}
  <2>1. 0 \in T
    BY <1>2, <1>8
  <2>2. ASSUME NEW i \in 1..n, i - 1 \in T PROVE i \in T
    <3>1. Inv(f[i-1], i - 1) /\ f[i-1] \in X
      BY <1>8, <2>2
    <3>2. f[i] = Row(f[i-1], i)
      BY <1>6, <1>8, <3>1
    <3> QED BY <1>3, <3>1, <3>2
  <2> HIDE DEF T
  <2>3. \A i \in 0..n : i \in T
    BY <2>1, <2>2, UpTo
  <2> QED BY <2>3 DEF T
<1>10. Is(f)
  <2>1. ASSUME NEW i \in 1..n PROVE f[i] = Row(f[i-1], i)
    <3>1. i - 1 \in 0..n
      OBVIOUS
    <3>2. Inv(f[i-1], i - 1) /\ f[i-1] \in X
      BY <1>8, <1>9, <3>1
    <3> QED BY <1>6, <1>8, <3>2
  <2> HIDE DEF X
  <2> QED BY <1>8, <2>1
<1>11. Is(rows)
  BY <1>10 DEF rows
<1>12. \A i \in 0..n : Inv(rows[i], i)
  <2> DEFINE T == {i \in 0..n : Inv(rows[i], i)}
  <2>1. rows[0] = Zeros(n + m) /\ \A i \in 1..n : rows[i] = Row(rows[i-1], i)
    BY <1>11
  <2>2. 0 \in T
    BY <1>2, <2>1
  <2>3. ASSUME NEW i \in 1..n, i - 1 \in T PROVE i \in T
    <3>1. Inv(rows[i-1], i - 1)
      BY <2>3
    <3> QED BY <1>3, <2>1, <3>1
  <2> HIDE DEF T
  <2>4. \A i \in 0..n : i \in T
    BY <2>2, <2>3, UpTo
  <2> QED BY <2>4 DEF T
<1>13. Inv(rows[n], n)
  BY <1>12
<1>14. SubSeq(a, 1, n) = a
  <2>1. a \in Seq(Word) /\ Len(a) = n
    BY DEF Bigs
  <2> QED BY <2>1
<1> QED BY <1>1, <1>13, <1>14 DEF Inv, IsProduct

(* Products by the routine the headers bind are those of the numbers.      *)
ExactProducts ==
  \A n, m \in Nat : \A a \in Bigs(n), b \in Bigs(m) : IsProduct(bi_multiply_var(a, b), a, b, n, m)

(* The routines that the headers bind in the C build meet the contract of  *)
(* the theorems below, so these hold of the program and not only of        *)
(* routines that happen to be exact.                                       *)
THEOREM StandardWordsAreExact ==
  ASSUME StandardWords
  PROVE  ExactWords /\ ExactProducts
<1>1. ASSUME NEW n \in Nat, NEW m \in Nat, NEW a \in Bigs(n), NEW b \in Bigs(m)
      PROVE  IsProduct(bi_multiply_var(a, b), a, b, n, m)
  <2>1. bi_multiply_var(a, b) = bi_multiply_var_std(a, b)
    BY DEF StandardWords
  <2> QED BY <2>1, ProductsAreExact
<1>2. ExactProducts
  BY <1>1 DEF ExactProducts
<1> QED BY <1>2, HeadersAreExact

-----------------------------------------------------------------------------
(* Montgomery's reduction and product: fp.c; the product of fp2.c.         *)
(* A big integer between zeros.                                            *)
LEMMA ShiftedValue ==
  ASSUME NEW e \in Nat, NEW m \in Nat, NEW g \in Nat, NEW x \in Bigs(m)
  PROVE  /\ Zeros(e) \o x \o Zeros(g) \in Bigs(e + m + g)
         /\ Value(Zeros(e) \o x \o Zeros(g)) = PowerOf(Base, e) * Value(x)
<1>1. PICK n1 \in Nat : n1 = e + m
  OBVIOUS
<1>2. PICK ze : ze = Zeros(e) /\ ze \in Bigs(e) /\ Value(ze) = 0
  BY ZeroValue
<1>3. PICK zg : zg = Zeros(g) /\ zg \in Bigs(g) /\ Value(zg) = 0
  BY ZeroValue
<1>4. PICK y : y = ze \o x
  OBVIOUS
<1>5. y \in Bigs(n1) /\ Value(y) = 0 + PowerOf(Base, e) * Value(x)
  BY <1>1, <1>2, <1>4, ValueConcat
<1>6. PICK u : u = y \o zg
  OBVIOUS
<1>7. u \in Bigs(n1 + g) /\ Value(u) = Value(y) + PowerOf(Base, n1) * 0
  BY <1>3, <1>5, <1>6, ValueConcat
<1>8. PICK pe \in Int, pn \in Int, vx \in Int : pe = PowerOf(Base, e) /\ pn = PowerOf(Base, n1) /\ vx = Value(x)
  BY PowerNat, ValueIsNat
<1>9. Value(u) = pe * vx
  BY <1>5, <1>7, <1>8
<1> QED BY <1>1, <1>2, <1>3, <1>4, <1>6, <1>7, <1>8, <1>9

(* The high words of a multiple of a power of the base.                    *)
LEMMA HighValue ==
  ASSUME NEW n \in Nat, NEW a \in Bigs(n), NEW f \in 0..n, NEW z \in Nat, Value(a) = PowerOf(Base, f) * z
  PROVE  Value(SubSeq(a, f + 1, n)) = z
<1>1. /\ SubSeq(a, 1, f) \in Bigs(f) /\ SubSeq(a, f + 1, n) \in Bigs(n - f) /\ n - f \in Nat
      /\ Value(a) = Value(SubSeq(a, 1, f)) + PowerOf(Base, f) * Value(SubSeq(a, f + 1, n))
  BY CutValue
<1>2. PICK p \in Nat, lo \in Nat, hi \in Nat :
        /\ p = PowerOf(Base, f) /\ lo = Value(SubSeq(a, 1, f)) /\ hi = Value(SubSeq(a, f + 1, n))
        /\ lo < p
  <2>1. f \in Nat
    OBVIOUS
  <2>2. Value(SubSeq(a, 1, f)) \in Nat /\ Value(SubSeq(a, 1, f)) < PowerOf(Base, f)
    BY <1>1, <2>1, ValueIsNat, ValueBound
  <2>3. Value(SubSeq(a, f + 1, n)) \in Nat /\ PowerOf(Base, f) \in Nat
    BY <1>1, <2>1, ValueIsNat, PowerNat
  <2> QED BY <2>2, <2>3
<1>3. hi * p + lo = z * p + 0
  <2>1. lo + p * hi = p * z
    BY <1>1, <1>2
  <2>2. p * hi = hi * p /\ p * z = z * p
    OBVIOUS
  <2> QED BY <2>1, <2>2
<1>4. lo \in 0..(p-1) /\ 0 \in 0..(p-1) /\ p > 0
  BY <1>2
<1>5. (hi * p + lo) \div p = hi /\ (z * p + 0) \div p = z
  BY <1>4, QuotientAndRest
<1> QED BY <1>2, <1>3, <1>5

(* The lowest word that is not known to be zero.                           *)
LEMMA LowestWord ==
  ASSUME NEW n \in Nat, NEW a \in Bigs(n), NEW i \in 1..n, NEW z \in Nat, Value(a) = PowerOf(Base, i - 1) * z
  PROVE  \E y \in Nat : z = a[i] + Base * y
<1>1. PICK f \in Nat, l \in Nat : f = i - 1 /\ f \in 0..n /\ l = n - f /\ 1 \in 0..l /\ i = f + 1
  OBVIOUS
<1>2. PICK h \in Bigs(l) : h = SubSeq(a, f + 1, n) /\ Value(h) = z
  <2>1. SubSeq(a, f + 1, n) \in Bigs(n - f)
    BY <1>1, CutValue
  <2>2. Value(SubSeq(a, f + 1, n)) = z
    BY <1>1, HighValue
  <2> QED BY <1>1, <2>1, <2>2
<1>3. h[1] = a[i]
  <2>1. \A k \in 1..n-(f+1)+1 : SubSeq(a, f + 1, n)[k] = a[f + 1 + k - 1]
    BY <1>1, SubWords, f + 1 \in Nat
  <2>2. 1 \in 1..n-(f+1)+1 /\ f + 1 + 1 - 1 = i
    BY <1>1
  <2> QED BY <1>2, <2>1, <2>2
<1>4. /\ SubSeq(h, 1, 1) \in Bigs(1) /\ SubSeq(h, 1 + 1, l) \in Bigs(l - 1) /\ l - 1 \in Nat
      /\ Value(h) = Value(SubSeq(h, 1, 1)) + PowerOf(Base, 1) * Value(SubSeq(h, 1 + 1, l))
  BY <1>1, CutValue
<1>5. PowerOf(Base, 1) = Base
  <2>1. PowerOf(Base, 0) = 1 /\ PowerOf(Base, 0 + 1) = Base * PowerOf(Base, 0)
    BY BaseFacts, PowerLaws, 0 \in Nat
  <2> QED BY <2>1, BaseFacts
<1>6. Value(SubSeq(h, 1, 1)) = a[i]
  <2>1. h \in Seq(Word) /\ Len(h) = l /\ l >= 1 /\ h[1] \in Word
    BY <1>1 DEF Bigs
  <2>2. \A k \in 1..1-1+1 : SubSeq(h, 1, 1)[k] = h[1 + k - 1]
    BY <1>1, SubWords, 1 \in Nat
  <2>3. 1 \in 1..1-1+1 /\ 1 + 1 - 1 = 1
    OBVIOUS
  <2>4. PICK u : u = SubSeq(h, 1, 1)
    OBVIOUS
  <2>5. u[1] = h[1] /\ u \in [1..1 -> Word]
    BY <1>4, <2>2, <2>3, <2>4 DEF Bigs
  <2>6. u = <<h[1]>>
    BY <2>5
  <2> QED BY <1>3, <2>1, <2>4, <2>6, OneWord
<1>7. Value(SubSeq(h, 1 + 1, l)) \in Nat
  BY <1>4, ValueIsNat
<1> QED BY <1>2, <1>4, <1>5, <1>6, <1>7

(* One row of MontyRows.                                                   *)
MontyRow(s, i, mod, n0) ==
  LET mp == bi_multiply_var(mod, <<(s.res[i] * n0) % Base>>)
      sum == bi_add_var(s.res, Zeros(i - 1) \o mp \o Zeros(BI_WORDS - i))
  IN [res |-> sum.res, over |-> s.over + sum.carry]
(* The states of the rows: a double-length number, and what was carried    *)
(* out of it.                                                              *)
Doubles == [res : Bigs(2 * BI_WORDS), over : Nat]
(* After i rows: the i lowest words are zero, and a multiple of the        *)
(* modulus less than the i-th power of the base was added.                 *)
MontyInv(s, i, t, p) ==
  /\ s \in Doubles
  /\ \E z \in Nat, k \in 0..PowerOf(Base, i) - 1 :
       /\ Value(s.res) = PowerOf(Base, i) * z
       /\ Value(s.res) + PowerOf(Base, 2 * BI_WORDS) * s.over = Value(t) + p * k

(* A row of the reduction makes one more low word zero and adds a multiple *)
(* of the modulus: the word m that the code picks is the one for which the *)
(* lowest word vanishes.                                                   *)
LEMMA MontyRowInv ==
  ASSUME ExactWords, ExactProducts, NEW i \in 1..BI_WORDS, NEW mod \in Elements, NEW t \in Bigs(2 * BI_WORDS),
         NEW n0 \in Nat, (n0 * Value(mod) + 1) % Base = 0,
         NEW s, MontyInv(s, i - 1, t, Value(mod))
  PROVE  MontyInv(MontyRow(s, i, mod, n0), i, t, Value(mod))
<1>1. PICK n \in Nat, N \in Nat, e \in Nat, g \in Nat, h \in Nat :
        /\ n = BI_WORDS /\ N = 2 * BI_WORDS /\ e = i - 1 /\ g = n - i /\ h = N - i /\ i \in 1..N
        /\ e + (n + 1) + g = N /\ i + h = N /\ i \in Nat /\ e + 1 = i
  BY BigFacts
<1>2. PICK z \in Nat, k \in Nat :
        /\ k \in 0..PowerOf(Base, e) - 1
        /\ Value(s.res) = PowerOf(Base, e) * z
        /\ Value(s.res) + PowerOf(Base, N) * s.over = Value(t) + Value(mod) * k
  BY <1>1 DEF MontyInv
<1>3. s.res \in Bigs(N) /\ s.over \in Nat
  BY <1>1 DEF MontyInv, Doubles
<1>4. PICK y \in Nat : z = s.res[i] + Base * y
  BY <1>1, <1>2, <1>3, LowestWord
<1>5. PICK d \in Word : d = s.res[i]
  BY <1>1, <1>3, BigWords
<1>6. PICK w \in Word : w = (d * n0) % Base
  <2>1. d \in Nat /\ Base \in Nat /\ Base > 0
    BY WordInt, BaseFacts
  <2>2. d * n0 \in Nat
    BY <2>1
  <2>3. (d * n0) % Base \in 0..Base - 1
    BY <2>1, <2>2
  <2> QED BY <2>3 DEF Word
<1>7. PICK mp \in Bigs(n + 1) : mp = bi_multiply_var(mod, <<w>>) /\ Value(mp) = Value(mod) * w
  <2>1. PICK u : u = <<w>> /\ u \in Bigs(1) /\ Value(u) = w
    BY OneWord
  <2>2. IsProduct(bi_multiply_var(mod, u), mod, u, n, 1)
    BY <1>1, <2>1, 1 \in Nat DEF ExactProducts, Elements
  <2> QED BY <2>1, <2>2 DEF IsProduct
<1>8. PICK x \in Bigs(N) : x = Zeros(e) \o mp \o Zeros(g) /\ Value(x) = PowerOf(Base, e) * Value(mp)
  <2>1. PICK m \in Nat : m = n + 1 /\ e + m + g = N
    BY <1>1
  <2>2. mp \in Bigs(m) /\ e \in Nat /\ g \in Nat
    BY <1>7, <2>1
  <2>3. PICK u : u = Zeros(e) \o mp \o Zeros(g)
    OBVIOUS
  <2>4. Zeros(e) \o mp \o Zeros(g) \in Bigs(e + m + g)
    BY <2>2, ShiftedValue
  <2>5. Value(Zeros(e) \o mp \o Zeros(g)) = PowerOf(Base, e) * Value(mp)
    BY <2>2, ShiftedValue
  <2> QED BY <2>1, <2>3, <2>4, <2>5
<1>9. PICK sum : sum = bi_add_var(s.res, x)
  OBVIOUS
<1>10. /\ sum.res \in Bigs(N) /\ sum.carry \in {0, 1}
       /\ Value(sum.res) + PowerOf(Base, N) * sum.carry = Value(s.res) + Value(x)
  BY <1>3, <1>8, <1>9, SumAt
<1>11. MontyRow(s, i, mod, n0) = [res |-> sum.res, over |-> s.over + sum.carry]
  BY <1>1, <1>5, <1>6, <1>7, <1>8, <1>9 DEF MontyRow
<1>12. PICK B \in Nat, Q \in Nat, H \in Nat, p \in Nat, T \in Nat, v \in Nat, o \in Nat, c \in Nat :
        /\ B = Base /\ B >= 2 /\ Q = PowerOf(Base, e) /\ Q >= 1 /\ H = PowerOf(Base, h)
        /\ p = Value(mod) /\ T = Value(t) /\ v = Value(sum.res) /\ o = s.over /\ c = sum.carry
  <2>1. Value(mod) \in Nat /\ Value(t) \in Nat /\ Value(sum.res) \in Nat
    <3>1. Value(t) \in Nat
      BY <1>1, ValueIsNat
    <3> QED BY <1>1, <1>10, <3>1, BigFacts, ValueIsNat
  <2>2. PowerOf(Base, e) \in Nat /\ PowerOf(Base, e) >= 1 /\ PowerOf(Base, h) \in Nat
    BY <1>1, PowerNat
  <2>3. s.over \in Nat /\ sum.carry \in Nat
    BY <1>3, <1>10
  <2> QED BY <2>1, <2>2, <2>3, BaseFacts
<1>13. PowerOf(Base, i) = B * Q /\ PowerOf(Base, N) = (B * Q) * H
  <2>1. PowerOf(Base, i) = B * Q
    BY <1>1, <1>12, PowerLaws
  <2>2. PowerOf(Base, N) = PowerOf(Base, i) * PowerOf(Base, h)
    BY <1>1, <1>12, PowerAdd
  <2> QED BY <1>12, <2>1, <2>2
<1>14. d \in Nat /\ w \in 0..B-1 /\ w = (d * n0) % B /\ (n0 * p + 1) % B = 0 /\ k \in 0..Q-1
  BY <1>2, <1>5, <1>6, <1>12, WordInt DEF Word
<1>15. PICK M \in Int : z + p * w = B * M
  <2>1. PICK j \in Int : n0 * p + 1 = B * j
    <3>1. n0 * p + 1 = B * ((n0 * p + 1) \div B) + ((n0 * p + 1) % B) /\ (n0 * p + 1) \div B \in Int
      BY <1>12
    <3> QED BY <1>14, <3>1
  <2>2. PICK l \in Int : d * n0 = B * l + w
    <3>1. d * n0 \in Nat
      BY <1>14
    <3>2. PICK u \in Nat : u = d * n0
      BY <3>1
    <3>3. u = B * (u \div B) + (u % B) /\ u \div B \in Int
      BY <1>12
    <3> QED BY <1>14, <3>2, <3>3
  <2>3. z = d + B * y
    BY <1>4, <1>5, <1>12
  <2>4. z + p * w = B * (d * j + y - p * l)
    <3>1. w = d * n0 - B * l
      BY <1>14, <2>2
    <3>2. p * w = d * (n0 * p) - B * (p * l)
      <4>1. p * (d * n0 - B * l) = d * (n0 * p) - B * (p * l)
        BY <1>14
      <4> QED BY <3>1, <4>1
    <3>3. n0 * p = B * j - 1
      BY <2>1
    <3>4. d * (B * j - 1) = B * (d * j) - d
      BY <1>14
    <3>5. B * (d * j + y - p * l) = B * (d * j) + B * y - B * (p * l)
      BY <1>14
    <3>6. PICK q1 \in Int, q2 \in Int, q3 \in Int, q4 \in Int :
            q1 = B * (d * j) /\ q2 = B * y /\ q3 = B * (p * l) /\ q4 = p * w
      BY <1>14
    <3>7. q4 = d * (B * j - 1) - q3
      <4>1. d * (n0 * p) = d * (B * j - 1)
        BY <3>3
      <4> QED BY <3>2, <3>6, <4>1
    <3>8. q4 = q1 - d - q3
      BY <3>4, <3>6, <3>7
    <3>9. B * (d * j + y - p * l) = q1 + q2 - q3
      BY <3>5, <3>6
    <3>10. z + q4 = q1 + q2 - q3
      <4>1. z = d + q2 /\ d \in Int
        BY <1>14, <2>3, <3>6
      <4> QED BY <3>8, <4>1
    <3> QED BY <3>6, <3>9, <3>10
  <2>5. d * j + y - p * l \in Int
    BY <1>14
  <2> QED BY <2>4, <2>5
<1>16. v + ((B * Q) * H) * c = Q * (B * M)
  <2>1. v + ((B * Q) * H) * c = Q * z + Q * (p * w)
    BY <1>2, <1>7, <1>8, <1>10, <1>12, <1>13
  <2>2. Q * z + Q * (p * w) = Q * (z + p * w)
    BY <1>14
  <2> QED BY <1>15, <2>1, <2>2
<1>17. v = (B * Q) * (M - H * c)
  <2>1. (B * Q) * (M - H * c) = Q * (B * M) - ((B * Q) * H) * c
    OBVIOUS
  <2>2. PICK q1 \in Int, q2 \in Int : q1 = Q * (B * M) /\ q2 = ((B * Q) * H) * c
    OBVIOUS
  <2> QED BY <1>16, <2>1, <2>2
<1>18. M - H * c \in Nat
  <2>1. PICK f \in Int : f = M - H * c
    OBVIOUS
  <2>2. PICK q \in Int : q = B * Q /\ q >= 1
    <3>1. B * Q >= 1
      BY <1>12
    <3> QED BY <3>1
  <2>3. q * f >= 0
    BY <1>17, <2>1, <2>2
  <2>4. ~ (f <= -1)
    <3>1. ASSUME f <= -1 PROVE FALSE
      <4>1. q * (-1 - f) >= 0
        BY <2>2, <3>1
      <4>2. q * (-1 - f) = -q - q * f
        OBVIOUS
      <4> QED BY <2>2, <2>3, <4>1, <4>2
    <3> QED BY <3>1
  <2> QED BY <2>1, <2>4
<1>19. k + Q * w \in 0..(B * Q - 1)
  <2>1. Q * w \in Nat /\ k + Q * w \in Nat
    BY <1>14
  <2>2. Q * (B - 1 - w) >= 0
    <3>1. B - 1 - w \in Nat
      BY <1>12, <1>14
    <3> QED BY <3>1
  <2>3. Q * (B - 1 - w) = B * Q - Q - Q * w
    <3>1. PICK x1 \in Int : x1 = w
      BY <1>14
    <3>2. Q * (B - 1 - x1) = B * Q - Q - Q * x1
      OBVIOUS
    <3> QED BY <3>1, <3>2
  <2>4. PICK q1 \in Int, q2 \in Int : q1 = Q * w /\ q2 = B * Q
    BY <1>14
  <2>5. q2 - Q - q1 >= 0 /\ k <= Q - 1 /\ k \in Int
    BY <1>14, <2>2, <2>3, <2>4
  <2>6. k + q1 <= q2 - 1
    BY <2>4, <2>5
  <2> QED BY <2>1, <2>4, <2>6
<1>20. v + ((B * Q) * H) * (o + c) = T + p * (k + Q * w)
  <2>1. v + ((B * Q) * H) * c = Q * z + Q * (p * w)
    BY <1>2, <1>7, <1>8, <1>10, <1>12, <1>13
  <2>2. Q * z + ((B * Q) * H) * o = T + p * k
    BY <1>2, <1>12, <1>13
  <2>3. ((B * Q) * H) * (o + c) = ((B * Q) * H) * o + ((B * Q) * H) * c
    OBVIOUS
  <2>4. p * (k + Q * w) = p * k + Q * (p * w)
    BY <1>14
  <2>5. PICK q1 \in Int, q2 \in Int, q3 \in Int, q4 \in Int, q5 \in Int :
          /\ q1 = ((B * Q) * H) * c /\ q2 = ((B * Q) * H) * o /\ q3 = Q * z /\ q4 = Q * (p * w) /\ q5 = p * k
    BY <1>14
  <2> QED BY <2>1, <2>2, <2>3, <2>4, <2>5
<1>21. PICK r : r = MontyRow(s, i, mod, n0)
  OBVIOUS
<1>22. r.res = sum.res /\ r.over = o + c /\ r \in Doubles
  <2>1. r = [res |-> sum.res, over |-> o + c]
    BY <1>11, <1>12, <1>21
  <2> QED BY <1>1, <1>10, <2>1 DEF Doubles
<1>23. PICK zz \in Nat, kk \in Nat : zz = M - H * c /\ kk = k + Q * w /\ kk \in 0..PowerOf(Base, i) - 1
  <2>1. k + Q * w \in Nat /\ k + Q * w \in 0..PowerOf(Base, i) - 1
    BY <1>13, <1>19
  <2> QED BY <1>18, <2>1
<1>24. Value(r.res) = PowerOf(Base, i) * zz
  BY <1>12, <1>13, <1>17, <1>22, <1>23
<1>25. Value(r.res) + PowerOf(Base, 2 * BI_WORDS) * r.over = Value(t) + Value(mod) * kk
  BY <1>1, <1>12, <1>13, <1>20, <1>22, <1>23
<1> QED BY <1>21, <1>22, <1>23, <1>24, <1>25 DEF MontyInv

(* What all rows leave: the high half and the count of carries, at most    *)
(* one.                                                                    *)
MontyResult(h, t, p) ==
  /\ h.hi \in Elements /\ h.over \in {0, 1}
  /\ \E k \in 0..R - 1 : R * (Value(h.hi) + R * h.over) = Value(t) + p * k

(* After the last row the low half is zero and is dropped.                 *)
LEMMA MontyEnd ==
  ASSUME NEW s, NEW t \in Bigs(2 * BI_WORDS), NEW mod \in Elements, MontyInv(s, BI_WORDS, t, Value(mod))
  PROVE  MontyResult([hi |-> SubSeq(s.res, BI_WORDS + 1, 2 * BI_WORDS), over |-> s.over], t, Value(mod))
<1>1. PICK n \in Nat, N \in Nat : n = BI_WORDS /\ N = 2 * BI_WORDS /\ N = n + n /\ n \in 0..N /\ N - n = n
  BY BigFacts
<1>2. PICK z \in Nat, k \in Nat :
        /\ k \in 0..PowerOf(Base, n) - 1
        /\ Value(s.res) = PowerOf(Base, n) * z
        /\ Value(s.res) + PowerOf(Base, N) * s.over = Value(t) + Value(mod) * k
  BY <1>1 DEF MontyInv
<1>3. s.res \in Bigs(N) /\ s.over \in Nat
  BY <1>1 DEF MontyInv, Doubles
<1>4. PICK h \in Elements : h = SubSeq(s.res, n + 1, N) /\ Value(h) = z
  <2>1. SubSeq(s.res, n + 1, N) \in Bigs(N - n)
    BY <1>1, <1>3, CutValue
  <2>2. Value(SubSeq(s.res, n + 1, N)) = z
    BY <1>1, <1>2, <1>3, HighValue
  <2> QED BY <1>1, <2>1, <2>2 DEF Elements
<1>5. PICK B \in Nat, p \in Nat, T \in Nat, o \in Nat :
        /\ B = R /\ B = PowerOf(Base, n) /\ PowerOf(Base, N) = B * B /\ B > 0
        /\ p = Value(mod) /\ p < B /\ T = Value(t) /\ T < B * B /\ o = s.over /\ z < B
  <2>1. R \in Nat /\ R > 0 /\ R = PowerOf(Base, n) /\ Value(mod) \in Nat /\ Value(mod) < R /\ z < R
    BY <1>1, <1>4, BigFacts DEF R
  <2>2. PowerOf(Base, N) = PowerOf(Base, n) * PowerOf(Base, n)
    BY <1>1, PowerAdd, BaseFacts
  <2>3. Value(t) \in Nat /\ Value(t) < PowerOf(Base, N)
    BY <1>1, ValueIsNat, ValueBound
  <2> QED BY <1>3, <2>1, <2>2, <2>3
<1>6. B * z + (B * B) * o = T + p * k /\ k <= B - 1
  BY <1>2, <1>5
<1>7. B * (z + B * o) = T + p * k
  <2>1. B * (z + B * o) = B * z + (B * B) * o
    OBVIOUS
  <2> QED BY <1>6, <2>1
<1>8. ~ (o >= 2)
  <2>1. ASSUME o >= 2 PROVE FALSE
    <3>1. (B * B) * (o - 2) >= 0
      <4>1. B * B \in Nat
        OBVIOUS
      <4>2. PICK q \in Nat : q = B * B
        BY <4>1
      <4>3. q * (o - 2) >= 0
        BY <2>1
      <4> QED BY <4>2, <4>3
    <3>2. p * (B - 1 - k) >= 0 /\ (B - p) * (B - 1) >= 0
      BY <1>5, <1>6
    <3>3. p * (B - 1 - k) = p * (B - 1) - p * k /\ (B - p) * (B - 1) = B * B - B - p * (B - 1)
      OBVIOUS
    <3>4. (B * B) * (o - 2) = (B * B) * o - 2 * (B * B)
      OBVIOUS
    <3>5. PICK q1 \in Int, q2 \in Int, q3 \in Int, q4 \in Int, q5 \in Int :
            q1 = B * B /\ q2 = (B * B) * o /\ q3 = p * (B - 1) /\ q4 = p * k /\ q5 = B * z
      OBVIOUS
    <3>6. q5 >= 0
      BY <3>5
    <3>7. q2 >= 2 * q1 /\ q4 <= q3 /\ q3 <= q1 - B
      BY <3>1, <3>2, <3>3, <3>4, <3>5
    <3>8. q5 + q2 = T + q4 /\ T < q1
      BY <1>5, <1>6, <3>5
    <3> QED BY <1>5, <3>6, <3>7, <3>8
  <2> QED BY <2>1
<1>9. o \in {0, 1}
  BY <1>8
<1>10. \E kk \in 0..R-1 : R * (Value(h) + R * o) = Value(t) + Value(mod) * kk
  <2>1. k \in 0..R-1
    BY <1>5, <1>6
  <2>2. R * (Value(h) + R * o) = Value(t) + Value(mod) * k
    BY <1>4, <1>5, <1>7
  <2> QED BY <2>1, <2>2
<1>11. PICK x : x = [hi |-> SubSeq(s.res, BI_WORDS + 1, 2 * BI_WORDS), over |-> s.over]
  OBVIOUS
<1>12. x.hi = h /\ x.over = o
  BY <1>1, <1>4, <1>5, <1>11
<1> QED BY <1>9, <1>10, <1>11, <1>12 DEF MontyResult

(* All rows of the reduction: R times what they leave, with the carries    *)
(* they count, is the argument plus a multiple of the modulus less than R. *)
LEMMA MontyReduces ==
  ASSUME ExactWords, ExactProducts, NEW mod \in Elements, NEW t \in Bigs(2 * BI_WORDS),
         NEW n0 \in Nat, (n0 * Value(mod) + 1) % Base = 0
  PROVE  MontyResult(MontyRows(t, mod, n0), t, Value(mod))
<1> DEFINE n == BI_WORDS
           start == [res |-> t, over |-> 0]
           Is(f) == f = [i \in 0..n |-> IF i = 0 THEN start ELSE MontyRow(f[i-1], i, mod, n0)]
           rows == CHOOSE f : Is(f)
           Inv(q, i) == MontyInv(q, i, t, Value(mod))
           Out == [hi |-> SubSeq(rows[n].res, BI_WORDS + 1, 2 * BI_WORDS), over |-> rows[n].over]
<1>0. n \in Nat
  BY BigFacts
<1>1. MontyRows(t, mod, n0) = Out
  BY DEF MontyRows, MontyRow
<1>2. Inv(start, 0)
  <2>1. 2 * BI_WORDS \in Nat /\ Value(t) \in Nat /\ Value(mod) \in Nat
    BY <1>0, ValueIsNat, BigFacts
  <2>2. start \in Doubles /\ start.res = t /\ start.over = 0
    BY DEF Doubles
  <2>3. PowerOf(Base, 0) = 1 /\ PowerOf(Base, 2 * BI_WORDS) \in Nat
    BY <2>1, BaseFacts, PowerLaws, PowerNat, 0 \in Nat
  <2>4. 0 \in 0..PowerOf(Base, 0) - 1
    BY <2>3
  <2>5. Value(t) = PowerOf(Base, 0) * Value(t)
    BY <2>1, <2>3
  <2>6. Value(t) + PowerOf(Base, 2 * BI_WORDS) * 0 = Value(t) + Value(mod) * 0
    BY <2>1, <2>3
  <2> QED BY <2>1, <2>2, <2>4, <2>5, <2>6 DEF MontyInv
<1>3. ASSUME NEW i \in 1..n, NEW q, Inv(q, i - 1) PROVE Inv(MontyRow(q, i, mod, n0), i)
  BY <1>3, MontyRowInv
<1> HIDE DEF Inv, start, rows
<1>4. ASSUME NEW i \in 0..n, NEW q, Inv(q, i) PROVE q \in Doubles
  BY <1>4 DEF Inv, MontyInv
<1> DEFINE step == [s \in Nat \X Doubles |->
                      IF s[1] \in 1..n /\ Inv(s[2], s[1] - 1) THEN MontyRow(s[2], s[1], mod, n0) ELSE start]
<1>5. step \in Steps(Doubles)
  <2>1. start \in Doubles
    BY <1>0, <1>2, <1>4
  <2>2. ASSUME NEW i \in 1..n, NEW q, Inv(q, i - 1) PROVE MontyRow(q, i, mod, n0) \in Doubles
    BY <1>0, <1>3, <1>4, <2>2
  <2>3. \A s \in Nat \X Doubles : step[s] \in Doubles
    BY <2>1, <2>2
  <2> QED BY <2>3 DEF Steps
<1>6. ASSUME NEW i \in 1..n, NEW q \in Doubles, Inv(q, i - 1) PROVE step[<<i, q>>] = MontyRow(q, i, mod, n0)
  <2>1. <<i, q>> \in Nat \X Doubles
    BY <1>0
  <2> QED BY <1>6, <2>1
<1> HIDE DEF step
<1>7. PICK f : Iterates(f, n, Doubles, start, step)
  <2>1. start \in Doubles
    BY <1>0, <1>2, <1>4
  <2> QED BY <1>0, <1>5, <2>1, IteratesExist
<1>8. f \in [0..n -> Doubles] /\ f[0] = start /\ \A i \in 1..n : f[i] = step[<<i, f[i-1]>>]
  BY <1>7 DEF Iterates
<1>9. \A i \in 0..n : Inv(f[i], i)
  <2> DEFINE T == {i \in 0..n : Inv(f[i], i)}
  <2>1. 0 \in T
    BY <1>0, <1>2, <1>8
  <2>2. ASSUME NEW i \in 1..n, i - 1 \in T PROVE i \in T
    <3>1. Inv(f[i-1], i - 1) /\ f[i-1] \in Doubles
      BY <1>8, <2>2
    <3>2. f[i] = MontyRow(f[i-1], i, mod, n0)
      BY <1>6, <1>8, <3>1
    <3> QED BY <1>3, <3>1, <3>2
  <2> HIDE DEF T
  <2>3. \A i \in 0..n : i \in T
    BY <1>0, <2>1, <2>2, UpTo
  <2> QED BY <2>3 DEF T
<1>10. Is(f)
  <2>1. ASSUME NEW i \in 1..n PROVE f[i] = MontyRow(f[i-1], i, mod, n0)
    <3>1. i - 1 \in 0..n
      BY <1>0
    <3>2. Inv(f[i-1], i - 1) /\ f[i-1] \in Doubles
      BY <1>8, <1>9, <3>1
    <3> QED BY <1>6, <1>8, <3>2
  <2> QED BY <1>0, <1>8, <2>1
<1>11. Is(rows)
  BY <1>10 DEF rows
<1>12. \A i \in 0..n : Inv(rows[i], i)
  <2> DEFINE T == {i \in 0..n : Inv(rows[i], i)}
  <2>1. rows[0] = start /\ \A i \in 1..n : rows[i] = MontyRow(rows[i-1], i, mod, n0)
    BY <1>0, <1>11
  <2>2. 0 \in T
    BY <1>0, <1>2, <2>1
  <2>3. ASSUME NEW i \in 1..n, i - 1 \in T PROVE i \in T
    <3>1. Inv(rows[i-1], i - 1)
      BY <2>3
    <3> QED BY <1>3, <2>1, <3>1
  <2> HIDE DEF T
  <2>4. \A i \in 0..n : i \in T
    BY <1>0, <2>2, <2>3, UpTo
  <2> QED BY <2>4 DEF T
<1>13. Inv(rows[n], n)
  BY <1>0, <1>12
<1>14. MontyResult(Out, t, Value(mod))
  BY <1>13, MontyEnd DEF Inv
<1> QED BY <1>1, <1>14

(* What a double-length t stands for after a lazy subtraction: a number    *)
(* above the range of the reduction is a negative one, modulo R^2.         *)
Signed(t, p) == IF Value(t) < p * R THEN Value(t) ELSE Value(t) - R * R
(* The arguments that fp_rdc_monty_std reduces.                            *)
Reducible(t, p) == Value(t) < p * R \/ Value(t) >= R * R - p * R

(* Equal modulo p.                                                         *)
Congruent(x, y, p) == \E m \in Int : x = y + p * m

(* fp_rdc_monty_std divides by R modulo the modulus and gives an element   *)
(* in the range of the field: for every argument below p R and also for a  *)
(* negative one, left by a lazy subtraction and standing above R^2 - p R.  *)
(* It uses no sign: the borrow of one subtraction and the carry of one     *)
(* addition tell the three cases apart, for a modulus up to a third of R.  *)
(* The modulus of the code has 254 of 256 bits.                            *)
THEOREM MontyReductionIsExact ==
  ASSUME ExactWords, ExactProducts, NEW mod \in Elements, NEW t \in Bigs(2 * BI_WORDS),
         NEW n0 \in Nat, (n0 * Value(mod) + 1) % Base = 0,
         3 * Value(mod) <= R, Reducible(t, Value(mod))
  PROVE  LET r == fp_rdc_monty_std(t, mod, n0) IN
         /\ r \in Elements /\ Value(r) < Value(mod)
         /\ Congruent(R * Value(r), Signed(t, Value(mod)), Value(mod))
<1>1. PICK h : h = MontyRows(t, mod, n0) /\ MontyResult(h, t, Value(mod))
  BY MontyReduces
<1>2. PICK hi \in Elements, o \in {0, 1}, k \in Nat :
        /\ hi = h.hi /\ o = h.over /\ k \in 0..R-1
        /\ R * (Value(hi) + R * o) = Value(t) + Value(mod) * k
  BY <1>1, BigFacts DEF MontyResult
<1> DEFINE minus == bi_subtract_var(hi, mod)
           plus == bi_add_var(hi, mod)
<1>3. PICK B \in Nat, p \in Nat, T \in Nat, z \in Nat :
        /\ B = R /\ B > 0 /\ p = Value(mod) /\ p < B /\ 3 * p <= B /\ T = Value(t) /\ z = Value(hi) /\ z < B
        /\ T < B * B
  <2>1. R \in Nat /\ R > 0 /\ Value(mod) \in Nat /\ Value(mod) < R /\ Value(hi) \in Nat /\ Value(hi) < R
    BY BigFacts
  <2>2. Value(t) \in Nat /\ Value(t) < R * R
    <3>1. PICK n \in Nat, N \in Nat : n = BI_WORDS /\ N = 2 * BI_WORDS /\ N = n + n
      BY BigFacts
    <3>2. PowerOf(Base, N) = PowerOf(Base, n) * PowerOf(Base, n)
      BY <3>1, PowerAdd, BaseFacts
    <3> QED BY <3>1, <3>2, ValueIsNat, ValueBound DEF R
  <2> QED BY <2>1, <2>2
<1>4. /\ minus.res \in Elements /\ Value(minus.res) \in 0..B-1
      /\ \/ minus.carry = 0 /\ Value(minus.res) = z - p
         \/ minus.carry = 1 /\ Value(minus.res) = z - p + B
  BY <1>3, DifferenceCases
<1>5. /\ plus.res \in Elements /\ Value(plus.res) \in 0..B-1
      /\ \/ plus.carry = 0 /\ Value(plus.res) = z + p
         \/ plus.carry = 1 /\ Value(plus.res) = z + p - B
  BY <1>3, SumCases
<1>6. fp_rdc_monty_std(t, mod, n0)
        = IF minus.carry = 1 THEN hi ELSE IF plus.carry = 1 THEN plus.res ELSE minus.res
  BY <1>1, <1>2 DEF fp_rdc_monty_std
<1> HIDE DEF minus, plus
<1>7. PICK r : r = fp_rdc_monty_std(t, mod, n0)
  OBVIOUS
<1> USE DEF Congruent
<1>8. B * (z + B * o) = T + p * k /\ k <= B - 1
  BY <1>2, <1>3
<1>9. PICK pk \in Nat, pB \in Nat, BB \in Nat : pk = p * k /\ pB = p * B /\ BB = B * B
  OBVIOUS
<1>10. pk <= pB - p
  <2>1. p * (B - 1 - k) >= 0
    BY <1>8
  <2>2. p * (B - 1 - k) = pB - p - pk
    BY <1>9
  <2> QED BY <2>1, <2>2
<1>11. ASSUME NEW x \in Int, NEW y \in Int, B * x < B * y PROVE x < y
  <2>1. ASSUME ~ (x < y) PROVE FALSE
    <3>1. B * (x - y) >= 0
      BY <2>1
    <3>2. B * (x - y) = B * x - B * y
      OBVIOUS
    <3>3. PICK q1 \in Int, q2 \in Int : q1 = B * x /\ q2 = B * y
      OBVIOUS
    <3> QED BY <1>11, <3>1, <3>2, <3>3
  <2> QED BY <2>1
<1>12. CASE Value(t) < Value(mod) * R
  <2>1. T < pB /\ Signed(t, Value(mod)) = T
    BY <1>3, <1>9, <1>12 DEF Signed
  <2>2. PICK x \in Int : x = z + B * o
    BY <1>2
  <2>3. x < 2 * p
    <3>1. B * x < B * (2 * p)
      <4>1. B * (2 * p) = 2 * pB
        BY <1>9
      <4> QED BY <1>3, <1>8, <1>9, <1>10, <2>1, <2>2, <4>1
    <3> QED BY <1>11, <3>1
  <2>4. o = 0 /\ x = z
    <3>1. CASE o = 1
      <4>1. x = z + B
        BY <2>2, <3>1
      <4> QED BY <1>3, <2>3, <4>1
    <3>2. CASE o = 0
      BY <2>2, <3>2
    <3> QED BY <3>1, <3>2
  <2>5. B * z = T + p * k
    BY <1>8, <2>2, <2>4
  <2>6. CASE z < p
    <3>1. r = hi
      BY <1>3, <1>4, <1>6, <1>7, <2>6
    <3>2. R * Value(r) = Signed(t, Value(mod)) + Value(mod) * k
      BY <1>3, <2>1, <2>5, <3>1
    <3> QED BY <1>3, <1>7, <2>6, <3>1, <3>2
  <2>7. CASE ~ (z < p)
    <3>1. minus.carry = 0 /\ plus.carry = 0
      BY <1>3, <1>4, <1>5, <2>3, <2>4, <2>7
    <3>2. r = minus.res /\ Value(r) = z - p
      BY <1>4, <1>6, <1>7, <3>1
    <3>3. B * (z - p) = T + p * (k - B)
      <4>1. B * (z - p) = B * z - pB /\ p * (k - B) = pk - pB
        BY <1>9
      <4>2. B * z = T + pk
        BY <1>9, <2>5
      <4>3. PICK q1 \in Int, q2 \in Int, q3 \in Int : q1 = B * (z - p) /\ q2 = p * (k - B) /\ q3 = B * z
        OBVIOUS
      <4> QED BY <4>1, <4>2, <4>3
    <3>4. R * Value(r) = Signed(t, Value(mod)) + Value(mod) * (k - B)
      BY <1>3, <2>1, <3>2, <3>3
    <3>5. k - B \in Int /\ Value(r) < Value(mod)
      BY <1>3, <2>3, <2>4, <3>2
    <3> QED BY <1>4, <1>7, <3>2, <3>4, <3>5
  <2> QED BY <2>6, <2>7
<1>13. CASE ~ (Value(t) < Value(mod) * R)
  <2>1. T >= BB - pB /\ Signed(t, Value(mod)) = T - BB
    BY <1>3, <1>9, <1>13 DEF Signed, Reducible
  <2>2. PICK x \in Int : x = z + B * o
    BY <1>2
  <2>3. x >= B - p
    <3>1. B * (B - p - 1) < B * x
      <4>1. B * (B - p - 1) = BB - pB - B
        BY <1>9
      <4> QED BY <1>3, <1>8, <1>9, <2>1, <2>2, <4>1
    <3> QED BY <1>11, <3>1
  <2>4. x < B + p
    <3>1. B * x < B * (B + p)
      <4>1. B * (B + p) = BB + pB
        BY <1>9
      <4> QED BY <1>3, <1>8, <1>9, <1>10, <2>2, <4>1
    <3> QED BY <1>11, <3>1
  <2>5. B * x = T + pk
    BY <1>8, <1>9, <2>2
  <2>6. CASE o = 1
    <3>1. x = z + B /\ z < p
      BY <2>2, <2>4, <2>6
    <3>2. r = hi
      BY <1>3, <1>4, <1>6, <1>7, <3>1
    <3>3. B * z = T - BB + pk
      <4>1. B * (z + B) = B * z + BB
        BY <1>9
      <4>2. PICK q1 \in Int : q1 = B * z
        OBVIOUS
      <4> QED BY <2>5, <3>1, <4>1, <4>2
    <3>4. R * Value(r) = Signed(t, Value(mod)) + Value(mod) * k
      BY <1>3, <1>9, <2>1, <3>2, <3>3
    <3> QED BY <1>3, <1>7, <3>1, <3>2, <3>4
  <2>7. CASE o = 0
    <3>1. x = z
      BY <2>2, <2>7
    <3>2. minus.carry = 0
      BY <1>3, <1>4, <2>3, <3>1
    <3>3. plus.carry = 1 /\ Value(plus.res) = z + p - B
      BY <1>3, <1>5, <2>3, <3>1
    <3>4. r = plus.res
      BY <1>6, <1>7, <3>2, <3>3
    <3>5. B * (z + p - B) = T - BB + p * (k + B)
      <4>1. B * (z + p - B) = B * z + pB - BB /\ p * (k + B) = pk + pB
        BY <1>9
      <4>2. PICK q1 \in Int, q2 \in Int, q3 \in Int : q1 = B * (z + p - B) /\ q2 = p * (k + B) /\ q3 = B * z
        OBVIOUS
      <4> QED BY <2>5, <3>1, <4>1, <4>2
    <3>6. R * Value(r) = Signed(t, Value(mod)) + Value(mod) * (k + B)
      BY <1>3, <2>1, <3>3, <3>4, <3>5
    <3>7. k + B \in Int /\ Value(r) < Value(mod)
      BY <1>3, <3>3, <3>4
    <3> QED BY <1>5, <1>7, <3>4, <3>6, <3>7
  <2> QED BY <1>2, <2>6, <2>7
<1> QED BY <1>12, <1>13

(* A double-length number is below R^2.                                    *)
LEMMA Squares ==
  R * R \in Nat /\ PowerOf(Base, 2 * BI_WORDS) = R * R
<1>1. PICK n \in Nat, N \in Nat : n = BI_WORDS /\ N = 2 * BI_WORDS /\ N = n + n
  BY BigFacts
<1>2. PowerOf(Base, N) = PowerOf(Base, n) * PowerOf(Base, n)
  BY <1>1, PowerAdd, BaseFacts
<1>3. PICK B \in Nat : B = R
  BY BigFacts
<1>4. B * B \in Nat
  OBVIOUS
<1> QED BY <1>1, <1>2, <1>3, <1>4 DEF R

(* fp_mul_monty_twostep_std is Montgomery's product, reduced, for any two  *)
(* reduced elements.                                                       *)
THEOREM MontyProductIsExact ==
  ASSUME ExactWords, ExactProducts, NEW mod \in Elements, NEW n0 \in Nat, (n0 * Value(mod) + 1) % Base = 0,
         3 * Value(mod) <= R,
         NEW a \in Elements, NEW b \in Elements, Value(a) < Value(mod), Value(b) < Value(mod)
  PROVE  LET r == fp_mul_monty_twostep_std(a, b, mod, n0) IN
         /\ r \in Elements /\ Value(r) < Value(mod)
         /\ Congruent(R * Value(r), Value(a) * Value(b), Value(mod))
<1>1. PICK n \in Nat : n = BI_WORDS /\ n + n = 2 * BI_WORDS
  BY BigFacts
<1>2. PICK t \in Bigs(2 * BI_WORDS) : t = bi_multiply_var(a, b) /\ Value(t) = Value(a) * Value(b)
  <2>1. IsProduct(bi_multiply_var(a, b), a, b, n, n)
    BY <1>1 DEF ExactProducts, Elements
  <2> QED BY <1>1, <2>1 DEF IsProduct
<1>3. PICK x \in Nat, y \in Nat, p \in Nat, B \in Nat :
        x = Value(a) /\ y = Value(b) /\ p = Value(mod) /\ B = R /\ x < p /\ y < p /\ p < B
  BY BigFacts
<1>4. x * y < p * B
  <2>1. x * (p - 1 - y) >= 0 /\ (p - 1 - x) * (p - 1) >= 0 /\ p * (B - p) >= 0
    BY <1>3
  <2>2. /\ x * (p - 1 - y) = x * (p - 1) - x * y
        /\ (p - 1 - x) * (p - 1) = p * p - 2 * p + 1 - x * (p - 1)
        /\ p * (B - p) = p * B - p * p
    OBVIOUS
  <2>3. PICK q1 \in Int, q2 \in Int, q3 \in Int, q4 \in Int :
          q1 = x * (p - 1) /\ q2 = x * y /\ q3 = p * p /\ q4 = p * B
    OBVIOUS
  <2>4. q2 <= q1 /\ q1 <= q3 - 2 * p + 1 /\ q3 <= q4 /\ p >= 1
    BY <1>3, <2>1, <2>2, <2>3
  <2> QED BY <2>3, <2>4
<1>5. Reducible(t, Value(mod)) /\ Signed(t, Value(mod)) = Value(a) * Value(b)
  BY <1>2, <1>3, <1>4 DEF Reducible, Signed
<1>6. PICK r : r = fp_rdc_monty_std(t, mod, n0)
  OBVIOUS
<1>7. r \in Elements /\ Value(r) < Value(mod) /\ Congruent(R * Value(r), Signed(t, Value(mod)), Value(mod))
  BY <1>5, <1>6, MontyReductionIsExact
<1>8. fp_mul_monty_twostep_std(a, b, mod, n0) = r
  BY <1>2, <1>6 DEF fp_mul_monty_twostep_std
<1> QED BY <1>5, <1>7, <1>8

(* Products of lesser numbers are less.                                    *)
LEMMA ProductBelow ==
  ASSUME NEW x \in Nat, NEW y \in Nat, NEW p \in Nat, NEW q \in Nat, x < p, y < q
  PROVE  x * y < p * q /\ x * y \in Nat
<1>1. x * (q - 1 - y) >= 0 /\ (p - 1 - x) * q >= 0
  OBVIOUS
<1>2. x * (q - 1 - y) = x * q - x - x * y /\ (p - 1 - x) * q = p * q - q - x * q
  OBVIOUS
<1>3. PICK q1 \in Int, q2 \in Int, q3 \in Int : q1 = x * q /\ q2 = x * y /\ q3 = p * q
  OBVIOUS
<1>4. q2 <= q1 - x /\ q1 <= q3 - q
  BY <1>1, <1>2, <1>3
<1>5. x * y \in Nat
  OBVIOUS
<1> QED BY <1>3, <1>4, <1>5

(* fp2_mul_lazy multiplies in the quadratic extension: three products of   *)
(* unreduced sums, subtractions that may go below zero, and only then two  *)
(* reductions, and still both coefficients are exact and reduced.          *)
THEOREM ExtensionProductIsExact ==
  ASSUME ExactWords, ExactProducts, NEW mod \in Elements, NEW n0 \in Nat, (n0 * Value(mod) + 1) % Base = 0,
         3 * Value(mod) <= R,
         NEW a1 \in Elements, NEW a2 \in Elements, NEW b1 \in Elements, NEW b2 \in Elements,
         \A e \in {a1, a2, b1, b2} : Value(e) < Value(mod)
  PROVE  LET r == fp2_mul_lazy(<<a1, a2>>, <<b1, b2>>, mod, n0) IN
         /\ r[1] \in Elements /\ Value(r[1]) < Value(mod)
         /\ r[2] \in Elements /\ Value(r[2]) < Value(mod)
         /\ Congruent(R * Value(r[1]), Value(a1) * Value(b1) - Value(a2) * Value(b2), Value(mod))
         /\ Congruent(R * Value(r[2]), Value(a1) * Value(b2) + Value(a2) * Value(b1), Value(mod))
<1>1. PICK n \in Nat, N \in Nat : n = BI_WORDS /\ N = 2 * BI_WORDS /\ n + n = N
  BY BigFacts
<1>2. PICK p \in Nat, B \in Nat, BB \in Nat, pB \in Nat :
        /\ p = Value(mod) /\ B = R /\ p < B /\ 3 * p <= B /\ BB = B * B /\ pB = p * B
        /\ BB = R * R /\ BB = PowerOf(Base, N) /\ pB = Value(mod) * R
  BY <1>1, BigFacts, Squares
<1>3. PICK x1 \in Nat, x2 \in Nat, y1 \in Nat, y2 \in Nat :
        /\ x1 = Value(a1) /\ x2 = Value(a2) /\ y1 = Value(b1) /\ y2 = Value(b2)
        /\ x1 < p /\ x2 < p /\ y1 < p /\ y2 < p
  BY <1>2, BigFacts
<1>4. ASSUME NEW u \in Elements, NEW v \in Elements
      PROVE  bi_multiply_var(u, v) \in Bigs(N) /\ Value(bi_multiply_var(u, v)) = Value(u) * Value(v)
  <2>1. IsProduct(bi_multiply_var(u, v), u, v, n, n)
    BY <1>1 DEF ExactProducts, Elements
  <2> QED BY <1>1, <2>1 DEF IsProduct
<1>5. ASSUME NEW u \in Elements, NEW v \in Elements, Value(u) < p, Value(v) < p
      PROVE  bi_add_var(u, v).res \in Elements /\ Value(bi_add_var(u, v).res) = Value(u) + Value(v)
  <2>1. PICK s : s = bi_add_var(u, v)
    OBVIOUS
  <2>2. /\ s.res \in Elements /\ Value(s.res) \in 0..R-1
        /\ \/ s.carry = 0 /\ Value(s.res) = Value(u) + Value(v)
           \/ s.carry = 1 /\ Value(s.res) = Value(u) + Value(v) - R
    BY <2>1, SumCases
  <2>3. Value(u) \in Nat /\ Value(v) \in Nat
    BY BigFacts
  <2> QED BY <1>2, <1>5, <2>1, <2>2, <2>3
<1> DEFINE d2 == bi_multiply_var(a2, b2)
           sa == bi_add_var(a1, a2).res
           sb == bi_add_var(b1, b2).res
           d1 == bi_multiply_var(sa, sb)
           d0 == bi_multiply_var(a1, b1)
           Minus(x, y) == bi_subtract_var(x, y).res
           t1 == Minus(d0, d2)
           u2 == Minus(d1, d0)
           t2 == Minus(u2, d2)
           r1 == fp_rdc_monty_std(t1, mod, n0)
           r2 == fp_rdc_monty_std(t2, mod, n0)
<1>6. fp2_mul_lazy(<<a1, a2>>, <<b1, b2>>, mod, n0) = <<r1, r2>>
  BY DEF fp2_mul_lazy
<1>7. d2 \in Bigs(N) /\ Value(d2) = x2 * y2 /\ d0 \in Bigs(N) /\ Value(d0) = x1 * y1
  BY <1>3, <1>4
<1>8. sa \in Elements /\ Value(sa) = x1 + x2 /\ sb \in Elements /\ Value(sb) = y1 + y2
  BY <1>3, <1>5
<1> HIDE DEF sa, sb
<1>9. d1 \in Bigs(N) /\ Value(d1) = (x1 + x2) * (y1 + y2)
  BY <1>4, <1>8
<1> HIDE DEF d0, d1, d2
<1>10. ASSUME NEW u \in Bigs(N), NEW v \in Bigs(N)
       PROVE  /\ Minus(u, v) \in Bigs(N) /\ Value(Minus(u, v)) \in 0..BB-1
              /\ \/ Value(Minus(u, v)) = Value(u) - Value(v)
                 \/ Value(Minus(u, v)) = Value(u) - Value(v) + BB
  <2>1. PICK d : d = bi_subtract_var(u, v)
    OBVIOUS
  <2>2. /\ d.res \in Bigs(N) /\ d.carry \in {0, 1}
        /\ Value(d.res) - PowerOf(Base, N) * d.carry = Value(u) - Value(v)
    BY <2>1, DifferenceAt
  <2>3. Value(d.res) \in Nat /\ Value(d.res) < BB /\ Value(u) \in Nat /\ Value(v) \in Nat
    BY <1>2, <2>2, ValueIsNat, ValueBound
  <2>4. CASE d.carry = 0
    BY <1>2, <2>1, <2>2, <2>3, <2>4
  <2>5. CASE d.carry = 1
    BY <1>2, <2>1, <2>2, <2>3, <2>5
  <2> QED BY <2>2, <2>4, <2>5
<1>11. /\ t1 \in Bigs(N) /\ Value(t1) \in 0..BB-1
       /\ Value(t1) = x1 * y1 - x2 * y2 \/ Value(t1) = x1 * y1 - x2 * y2 + BB
  BY <1>7, <1>10
<1>12. PICK q11 \in Nat, q12 \in Nat, q21 \in Nat, q22 \in Nat, pp \in Nat :
         /\ q11 = x1 * y1 /\ q12 = x1 * y2 /\ q21 = x2 * y1 /\ q22 = x2 * y2 /\ pp = p * p
         /\ q11 < pp /\ q12 < pp /\ q21 < pp /\ q22 < pp /\ 3 * pp <= pB /\ 3 * pB <= BB
  <2>1. p * p \in Nat
    OBVIOUS
  <2>2. /\ x1 * y1 < p * p /\ x1 * y1 \in Nat /\ x1 * y2 < p * p /\ x1 * y2 \in Nat
        /\ x2 * y1 < p * p /\ x2 * y1 \in Nat /\ x2 * y2 < p * p /\ x2 * y2 \in Nat
    BY <1>3, ProductBelow
  <2>3. 3 * (p * p) <= p * B
    <3>1. p * (B - 3 * p) >= 0
      BY <1>2
    <3>2. p * (B - 3 * p) = p * B - 3 * (p * p)
      OBVIOUS
    <3> QED BY <3>1, <3>2
  <2>4. 3 * (p * B) <= B * B
    <3>1. (B - 3 * p) * B >= 0
      BY <1>2
    <3>2. (B - 3 * p) * B = B * B - 3 * (p * B)
      OBVIOUS
    <3> QED BY <3>1, <3>2
  <2>5. PICK pp \in Nat : pp = p * p
    BY <2>1
  <2>6. PICK f \in Nat : f = x1 * y1 /\ f < pp
    BY <2>2, <2>5
  <2>7. PICK g \in Nat : g = x1 * y2 /\ g < pp
    BY <2>2, <2>5
  <2>8. PICK h \in Nat : h = x2 * y1 /\ h < pp
    BY <2>2, <2>5
  <2>9. PICK k \in Nat : k = x2 * y2 /\ k < pp
    BY <2>2, <2>5
  <2>10. 3 * pp <= pB /\ 3 * pB <= BB
    BY <1>2, <2>3, <2>4, <2>5
  <2> QED BY <2>5, <2>6, <2>7, <2>8, <2>9, <2>10
<1> HIDE DEF t1, u2
<1>13. Reducible(t1, Value(mod)) /\ Signed(t1, Value(mod)) = x1 * y1 - x2 * y2
  <2>1. PICK T \in Int : T = Value(t1)
    BY <1>11
  <2>2. T \in 0..BB-1 /\ (T = q11 - q22 \/ T = q11 - q22 + BB)
    BY <1>11, <1>12, <2>1
  <2>3. CASE q11 >= q22
    <3>1. T = q11 - q22 /\ T < pB
      BY <1>12, <2>2, <2>3
    <3> QED BY <1>2, <1>12, <2>1, <3>1 DEF Reducible, Signed
  <2>4. CASE q11 < q22
    <3>1. T = q11 - q22 + BB /\ T >= BB - pB /\ ~ (T < pB)
      BY <1>12, <2>2, <2>4
    <3> QED BY <1>2, <1>12, <2>1, <3>1 DEF Reducible, Signed
  <2> QED BY <2>3, <2>4
<1>14. u2 \in Bigs(N) /\ Value(u2) = q12 + q21 + q22
  <2>1. /\ u2 \in Bigs(N) /\ Value(u2) \in 0..BB-1
        /\ Value(u2) = Value(d1) - Value(d0) \/ Value(u2) = Value(d1) - Value(d0) + BB
    BY <1>7, <1>9, <1>10 DEF u2
  <2>2. (x1 + x2) * (y1 + y2) = q11 + q12 + q21 + q22
    <3>1. (x1 + x2) * (y1 + y2) = x1 * y1 + x1 * y2 + x2 * y1 + x2 * y2
      OBVIOUS
    <3> QED BY <1>12, <3>1
  <2>3. Value(d1) - Value(d0) = q12 + q21 + q22
    BY <1>7, <1>9, <1>12, <2>2
  <2>4. q12 + q21 + q22 >= 0
    BY <1>12
  <2> QED BY <1>2, <2>1, <2>3, <2>4
<1>15. t2 \in Bigs(N) /\ Value(t2) = q12 + q21
  <2>1. /\ t2 \in Bigs(N) /\ Value(t2) \in 0..BB-1
        /\ Value(t2) = Value(u2) - Value(d2) \/ Value(t2) = Value(u2) - Value(d2) + BB
    BY <1>7, <1>10, <1>14
  <2>2. Value(u2) - Value(d2) = q12 + q21
    BY <1>7, <1>12, <1>14
  <2> QED BY <1>2, <1>12, <2>1, <2>2
<1> HIDE DEF t2
<1>16. Reducible(t2, Value(mod)) /\ Signed(t2, Value(mod)) = q12 + q21
  <2>1. Value(t2) < pB
    BY <1>12, <1>15
  <2> QED BY <1>2, <1>15, <2>1 DEF Reducible, Signed
<1>17. r1 \in Elements /\ Value(r1) < Value(mod) /\ Congruent(R * Value(r1), Signed(t1, Value(mod)), Value(mod))
  BY <1>1, <1>11, <1>13, MontyReductionIsExact
<1>18. r2 \in Elements /\ Value(r2) < Value(mod) /\ Congruent(R * Value(r2), Signed(t2, Value(mod)), Value(mod))
  BY <1>1, <1>15, <1>16, MontyReductionIsExact
<1> HIDE DEF r1, r2
<1>19. PICK r : r = <<r1, r2>>
  OBVIOUS
<1>20. r[1] = r1 /\ r[2] = r2
  BY <1>19
<1> QED BY <1>3, <1>6, <1>12, <1>13, <1>16, <1>17, <1>18, <1>19, <1>20

-----------------------------------------------------------------------------
(* Doubles, and the lazy routines of fp.c.                                 *)
(* One word of a shift to the left: twice the word and the bit from below, *)
(* and the bit that leaves it.                                             *)
LEMMA ShiftWord ==
  ASSUME NEW x \in Word, NEW c \in {0, 1}
  PROVE  /\ ((2 * x) % Base) + c \in Word
         /\ x \div (Base \div 2) \in {0, 1}
         /\ x + x + c = ((2 * x) % Base) + c + Base * (x \div (Base \div 2))
         /\ x \div (Base \div 2) = 1 <=> x >= Base \div 2
<1>1. PICK B \in Nat, H \in Nat : B = Base /\ H = Base \div 2 /\ B = 2 * H /\ H >= 1
  BY BaseFacts
<1>2. x \in 0..B-1 /\ x \in Nat
  BY <1>1 DEF Word
<1>3. CASE x < H
  <2>1. (2 * x) % B = 2 * x
    BY <1>1, <1>2, <1>3
  <2>2. x \div H = 0
    <3>1. 0 * H + x = x /\ x \in 0..(H-1) /\ H > 0
      BY <1>1, <1>2, <1>3
    <3> QED BY <3>1, QuotientAndRest
  <2> QED BY <1>1, <1>2, <1>3, <2>1, <2>2 DEF Word
<1>4. CASE ~ (x < H)
  <2>1. (2 * x) % B = 2 * x - B
    <3>1. 2 * x - B \in 0..(B-1) /\ 1 * B + (2 * x - B) = 2 * x /\ B > 0
      BY <1>1, <1>2, <1>4
    <3>2. PICK y \in 0..(B-1) : y = 2 * x - B
      BY <3>1
    <3>3. (1 * B + y) % B = y
      BY <3>1, QuotientAndRest
    <3> QED BY <3>1, <3>2, <3>3
  <2>2. x \div H = 1
    <3>1. x - H \in 0..(H-1) /\ 1 * H + (x - H) = x /\ H > 0
      BY <1>1, <1>2, <1>4
    <3>2. PICK y \in 0..(H-1) : y = x - H
      BY <3>1
    <3>3. (1 * H + y) \div H = 1
      BY <3>1, QuotientAndRest
    <3> QED BY <3>1, <3>2, <3>3
  <2> QED BY <1>1, <1>2, <1>4, <2>1, <2>2 DEF Word
<1> QED BY <1>3, <1>4

(* r is twice a, but for the bit that does not fit.                        *)
IsDouble(r, a, n) ==
  /\ r \in Bigs(n)
  /\ Value(r) = 2 * Value(a) - PowerOf(Base, n) * Bit(n > 0 /\ a[n] >= Base \div 2)

(* bi_shift_left_one_var doubles; the bit it loses is the highest bit of   *)
(* the operand.                                                            *)
LEMMA DoublesAreExact ==
  ASSUME NEW n \in Nat, NEW a \in Bigs(n)
  PROVE  IsDouble(bi_shift_left_one_var(a), a, n)
<1> DEFINE c == [i \in 0..n |-> IF i = 0 THEN 0 ELSE a[i] \div (Base \div 2)]
           r == [i \in 1..n |-> ((2 * a[i]) % Base) + IF i = 1 THEN 0 ELSE a[i-1] \div (Base \div 2)]
<1>0. bi_shift_left_one_var(a) = r /\ Len(a) = n
  BY BigWords DEF bi_shift_left_one_var
<1>1. ASSUME NEW i \in 1..n
      PROVE  a[i] \in Word /\ a[i] \div (Base \div 2) \in {0, 1}
  <2>1. a[i] \in Word
    BY BigWords
  <2>2. PICK x \in Word : x = a[i]
    BY <2>1
  <2>3. x \div (Base \div 2) \in {0, 1}
    BY ShiftWord, 0 \in {0, 1}
  <2> QED BY <2>1, <2>2, <2>3
<1>2. \A i \in 0..n : c[i] \in {0, 1}
  BY <1>1
<1>3. ASSUME NEW i \in 1..n
      PROVE  r[i] \in Word /\ a[i] + a[i] + c[i-1] = r[i] + Base * c[i]
  <2>1. PICK x \in Word, d \in {0, 1} : x = a[i] /\ d = c[i-1]
    <3>1. i - 1 \in 0..n
      OBVIOUS
    <3> QED BY <1>1, <1>2, <3>1
  <2>2. c[i] = x \div (Base \div 2)
    BY <2>1
  <2>3. r[i] = ((2 * x) % Base) + d
    <3>1. c[i-1] = IF i = 1 THEN 0 ELSE a[i-1] \div (Base \div 2)
      OBVIOUS
    <3>2. r[i] = ((2 * a[i]) % Base) + IF i = 1 THEN 0 ELSE a[i-1] \div (Base \div 2)
      OBVIOUS
    <3> HIDE DEF c, r
    <3> QED BY <2>1, <3>1, <3>2
  <2> HIDE DEF c, r
  <2> QED BY <2>1, <2>2, <2>3, ShiftWord, ZenonT(30)
<1>4. c[0] = 0 /\ (n > 0 => c[n] = Bit(a[n] >= Base \div 2))
  <2>1. ASSUME n > 0 PROVE c[n] = Bit(a[n] >= Base \div 2)
    <3>1. n \in 1..n
      BY <2>1
    <3>2. PICK x \in Word : x = a[n]
      BY <1>1, <3>1
    <3>3. x \div (Base \div 2) \in {0, 1} /\ (x \div (Base \div 2) = 1 <=> x >= Base \div 2)
      BY ShiftWord, 0 \in {0, 1}
    <3>4. c[n] = x \div (Base \div 2)
      BY <3>1, <3>2
    <3> HIDE DEF c
    <3> QED BY <3>2, <3>3, <3>4 DEF Bit
  <2> QED BY <2>1
<1>5. r \in Bigs(n)
  <2>1. \A i \in 1..n : r[i] \in Word
    BY <1>3
  <2> QED BY <2>1 DEF Bigs
<1>6. c \in [0..n -> Int]
  BY <1>2
<1>7. n = 0 => c[n] = Bit(n > 0 /\ a[n] >= Base \div 2)
  BY <1>4 DEF Bit
<1>8. n > 0 => c[n] = Bit(n > 0 /\ a[n] >= Base \div 2)
  <2>1. ASSUME n > 0 PROVE (n > 0 /\ a[n] >= Base \div 2) <=> (a[n] >= Base \div 2)
    BY <2>1
  <2> HIDE DEF c
  <2> QED BY <1>4, <2>1 DEF Bit
<1> HIDE DEF c, r
<1>9. Value(a) + Value(a) + c[0] = Value(r) + PowerOf(Base, n) * c[n]
  BY <1>3, <1>5, <1>6, ChainValue
<1>10. PICK x \in Int, y \in Int, p \in Int, d \in Int :
         x = Value(a) /\ y = Value(r) /\ p = PowerOf(Base, n) /\ d = c[n]
  BY <1>5, <1>6, ValueIsNat, PowerNat
<1>11. y = 2 * x - p * d
  <2>1. PICK q \in Int : q = p * d
    OBVIOUS
  <2>2. x + x + 0 = y + q
    BY <1>4, <1>9, <1>10, <2>1
  <2> QED BY <2>1, <2>2
<1>12. d = Bit(n > 0 /\ a[n] >= Base \div 2)
  BY <1>7, <1>8, <1>10
<1> QED BY <1>0, <1>5, <1>10, <1>11, <1>12 DEF IsDouble

(* fp_dbl_std doubles modulo an odd modulus and gives a reduced element.   *)
(* It compares with > where fp_add_std compares with >=, and that is       *)
(* enough because twice an element is even and never the modulus; the      *)
(* highest bit of the operand stands for the carry.                        *)
THEOREM FieldDoublesAreReduced ==
  ASSUME ExactWords, NEW mod \in Elements, Value(mod) % 2 = 1, NEW a \in Elements, Value(a) < Value(mod)
  PROVE  LET r == fp_dbl_std(a, mod) IN
         r \in Elements /\ Value(r) = (2 * Value(a)) % Value(mod)
<1> DEFINE r == bi_shift_left_one_var(a)
           d == bi_subtract_var(r, mod)
           top == a[BI_WORDS] >= Base \div 2
<1>1. PICK x \in Nat, p \in Nat, B \in Nat :
        x = Value(a) /\ p = Value(mod) /\ B = R /\ x < p /\ p < B /\ p % 2 = 1
  BY BigFacts
<1>2. BI_WORDS \in Nat /\ BI_WORDS > 0
  BY WordsAssumption
<1>3. IsDouble(r, a, BI_WORDS)
  BY <1>2, DoublesAreExact DEF Elements
<1>4. r \in Elements /\ Value(r) = 2 * x - B * Bit(top)
  <2>1. (BI_WORDS > 0 /\ top) <=> top
    BY <1>2
  <2> QED BY <1>1, <1>3, <2>1 DEF IsDouble, Elements, R, Bit
<1> HIDE DEF r
<1>5. Value(r) \in 0..B-1
  BY <1>1, <1>4, BigFacts
<1>6. /\ d.res \in Elements /\ Value(d.res) \in 0..B-1
      /\ \/ d.carry = 0 /\ Value(d.res) = Value(r) - p
         \/ d.carry = 1 /\ Value(d.res) = Value(r) - p + B
  BY <1>1, <1>4, DifferenceCases
<1>7. bi_compare_var(r, mod) > 0 <=> Value(r) > p
  BY <1>1, <1>4, CompareCases
<1> HIDE DEF d
<1>8. fp_dbl_std(a, mod) = IF Value(r) > p \/ top THEN d.res ELSE r
  BY <1>7 DEF fp_dbl_std, r, d
<1>9. (2 * x) % p = IF 2 * x < p THEN 2 * x ELSE 2 * x - p
  BY <1>1
<1>10. 2 * x # p
  BY <1>1
<1> HIDE DEF top
<1>11. CASE top
  <2>1. Value(r) = 2 * x - B
    BY <1>1, <1>4, <1>11 DEF Bit
  <2>2. Value(d.res) = 2 * x - p /\ ~ (2 * x < p)
    BY <1>1, <1>5, <1>6, <2>1
  <2> QED BY <1>1, <1>6, <1>8, <1>9, <1>11, <2>2
<1>12. CASE ~ top
  <2>1. Value(r) = 2 * x
    BY <1>1, <1>4, <1>12 DEF Bit
  <2>2. CASE 2 * x > p
    <3>1. Value(d.res) = 2 * x - p /\ ~ (2 * x < p)
      BY <1>1, <1>6, <2>1, <2>2
    <3> QED BY <1>1, <1>6, <1>8, <1>9, <2>1, <2>2, <3>1
  <2>3. CASE ~ (2 * x > p)
    <3>1. 2 * x < p
      BY <1>1, <1>10, <2>3
    <3> QED BY <1>1, <1>4, <1>8, <1>9, <1>12, <2>1, <2>3, <3>1
  <2> QED BY <2>2, <2>3
<1> QED BY <1>11, <1>12

(* The highest multiple of the modulus that fits in a field element.       *)
HighestMultiple(m, mod) ==
  m \in Elements /\ Value(m) + Value(mod) >= R /\ \E k \in Int : Value(m) = Value(mod) * k

(* fp_add_lazy, fp_sub_lazy and fp_neg_lazy, given words in any range and  *)
(* the highest multiple of the modulus that fits, give words congruent to  *)
(* the sum, the difference and the negative: after that multiple was       *)
(* subtracted or added a second overflow is mended by one modulus.         *)
THEOREM LazyFieldIsExact ==
  ASSUME ExactWords, NEW mod \in Elements, NEW m, HighestMultiple(m, mod), NEW a \in Elements, NEW b \in Elements
  PROVE  LET sum == fp_add_lazy(a, b, mod, m)
             difference == fp_sub_lazy(a, b, mod, m)
             negative == fp_neg_lazy(a, mod, m)
         IN /\ sum \in Elements /\ Congruent(Value(sum), Value(a) + Value(b), Value(mod))
            /\ difference \in Elements /\ Congruent(Value(difference), Value(a) - Value(b), Value(mod))
            /\ negative \in Elements /\ Congruent(Value(negative), -Value(a), Value(mod))
<1>2. m \in Elements
  BY DEF HighestMultiple
<1>1. PICK x \in Nat, y \in Nat, p \in Nat, B \in Nat, M \in Nat :
        /\ x = Value(a) /\ y = Value(b) /\ p = Value(mod) /\ B = R /\ M = Value(m)
        /\ x < B /\ y < B /\ p < B /\ M < B /\ M + p >= B
  BY <1>2, BigFacts DEF HighestMultiple
<1>0. PICK k \in Int : M = p * k
  BY <1>1 DEF HighestMultiple
<1>3. ASSUME NEW u \in Elements, NEW v \in Elements
      PROVE  LET s == bi_add_var(u, v) IN
             /\ s.res \in Elements /\ Value(s.res) \in 0..B-1
             /\ \/ s.carry = 0 /\ Value(s.res) = Value(u) + Value(v)
                \/ s.carry = 1 /\ Value(s.res) = Value(u) + Value(v) - B
  BY <1>1, SumCases
<1>4. ASSUME NEW u \in Elements, NEW v \in Elements
      PROVE  LET d == bi_subtract_var(u, v) IN
             /\ d.res \in Elements /\ Value(d.res) \in 0..B-1
             /\ \/ d.carry = 0 /\ Value(d.res) = Value(u) - Value(v)
                \/ d.carry = 1 /\ Value(d.res) = Value(u) - Value(v) + B
  BY <1>1, DifferenceCases
<1>5. ASSUME NEW v \in Int, NEW z \in Int, NEW j \in {0, 1, -1}, NEW i \in {0, 1, -1},
             v = z + j * M + i * p
      PROVE  Congruent(v, z, p)
  <2>1. PICK f \in Int : f = j * k + i
    OBVIOUS
  <2>2. j * M + i * p = p * f
    <3>1. p * (j * k + i) = j * (p * k) + i * p
      OBVIOUS
    <3> QED BY <1>0, <2>1, <3>1
  <2>3. PICK g \in Int : g = p * f
    OBVIOUS
  <2>4. v = z + p * f
    <3>1. j * M \in Int /\ i * p \in Int
      OBVIOUS
    <3> QED BY <1>5, <2>2, <3>1
  <2> QED BY <2>4 DEF Congruent
<1> HIDE DEF Congruent
<1>6. LET sum == fp_add_lazy(a, b, mod, m) IN sum \in Elements /\ Congruent(Value(sum), x + y, p)
  <2> DEFINE s == bi_add_var(a, b)
             d == bi_subtract_var(s.res, m)
             e == bi_subtract_var(d.res, mod)
  <2>1. /\ s.res \in Elements /\ Value(s.res) \in 0..B-1
        /\ \/ s.carry = 0 /\ Value(s.res) = x + y
           \/ s.carry = 1 /\ Value(s.res) = x + y - B
    BY <1>1, <1>3
  <2> HIDE DEF s
  <2>2. /\ d.res \in Elements /\ Value(d.res) \in 0..B-1
        /\ \/ d.carry = 0 /\ Value(d.res) = Value(s.res) - M
           \/ d.carry = 1 /\ Value(d.res) = Value(s.res) - M + B
    BY <1>1, <1>2, <1>4, <2>1
  <2> HIDE DEF d
  <2>3. /\ e.res \in Elements /\ Value(e.res) \in 0..B-1
        /\ \/ e.carry = 0 /\ Value(e.res) = Value(d.res) - p
           \/ e.carry = 1 /\ Value(e.res) = Value(d.res) - p + B
    BY <1>1, <1>4, <2>2
  <2> HIDE DEF e
  <2>4. fp_add_lazy(a, b, mod, m) = IF s.carry = 0 THEN s.res ELSE IF d.carry = 1 THEN d.res ELSE e.res
    BY DEF fp_add_lazy, s, d, e
  <2>5. CASE s.carry = 0
    <3>1. Value(s.res) = (x + y) + 0 * M + 0 * p
      BY <2>1, <2>5
    <3>2. Congruent(Value(s.res), x + y, p)
      BY <1>5, <2>1, <3>1
    <3> QED BY <2>1, <2>4, <2>5, <3>2
  <2>6. CASE s.carry = 1 /\ d.carry = 1
    <3>1. Value(d.res) = x + y - M
      BY <1>1, <2>1, <2>2, <2>6
    <3>2. Value(d.res) = (x + y) + (-1) * M + 0 * p
      BY <3>1
    <3>3. Congruent(Value(d.res), x + y, p)
      BY <1>5, <2>2, <3>2
    <3> QED BY <2>2, <2>4, <2>6, <3>3
  <2>7. CASE s.carry = 1 /\ d.carry = 0
    <3>1. Value(e.res) = x + y - M - p
      BY <1>1, <2>1, <2>2, <2>3, <2>7
    <3>2. Value(e.res) = (x + y) + (-1) * M + (-1) * p
      BY <3>1
    <3>3. Congruent(Value(e.res), x + y, p)
      BY <1>5, <2>3, <3>2
    <3> QED BY <2>3, <2>4, <2>7, <3>3
  <2> QED BY <2>1, <2>2, <2>5, <2>6, <2>7
<1>7. LET difference == fp_sub_lazy(a, b, mod, m) IN
      difference \in Elements /\ Congruent(Value(difference), x - y, p)
  <2> DEFINE d == bi_subtract_var(a, b)
             s == bi_add_var(d.res, m)
             e == bi_add_var(s.res, mod)
  <2>1. /\ d.res \in Elements /\ Value(d.res) \in 0..B-1
        /\ \/ d.carry = 0 /\ Value(d.res) = x - y
           \/ d.carry = 1 /\ Value(d.res) = x - y + B
    BY <1>1, <1>4
  <2> HIDE DEF d
  <2>2. /\ s.res \in Elements /\ Value(s.res) \in 0..B-1
        /\ \/ s.carry = 0 /\ Value(s.res) = Value(d.res) + M
           \/ s.carry = 1 /\ Value(s.res) = Value(d.res) + M - B
    BY <1>1, <1>2, <1>3, <2>1
  <2> HIDE DEF s
  <2>3. /\ e.res \in Elements /\ Value(e.res) \in 0..B-1
        /\ \/ e.carry = 0 /\ Value(e.res) = Value(s.res) + p
           \/ e.carry = 1 /\ Value(e.res) = Value(s.res) + p - B
    BY <1>1, <1>3, <2>2
  <2> HIDE DEF e
  <2>4. fp_sub_lazy(a, b, mod, m) = IF d.carry = 0 THEN d.res ELSE IF s.carry = 1 THEN s.res ELSE e.res
    BY DEF fp_sub_lazy, s, d, e
  <2>5. CASE d.carry = 0
    <3>1. Value(d.res) = (x - y) + 0 * M + 0 * p
      BY <2>1, <2>5
    <3>2. Congruent(Value(d.res), x - y, p)
      BY <1>5, <2>1, <3>1
    <3> QED BY <2>1, <2>4, <2>5, <3>2
  <2>6. CASE d.carry = 1 /\ s.carry = 1
    <3>1. Value(s.res) = x - y + M
      BY <1>1, <2>1, <2>2, <2>6
    <3>2. Value(s.res) = (x - y) + 1 * M + 0 * p
      BY <3>1
    <3>3. Congruent(Value(s.res), x - y, p)
      BY <1>5, <2>2, <3>2
    <3> QED BY <2>2, <2>4, <2>6, <3>3
  <2>7. CASE d.carry = 1 /\ s.carry = 0
    <3>1. Value(e.res) = x - y + M + p
      BY <1>1, <2>1, <2>2, <2>3, <2>7
    <3>2. Value(e.res) = (x - y) + 1 * M + 1 * p
      BY <3>1
    <3>3. Congruent(Value(e.res), x - y, p)
      BY <1>5, <2>3, <3>2
    <3> QED BY <2>3, <2>4, <2>7, <3>3
  <2> QED BY <2>1, <2>2, <2>5, <2>6, <2>7
<1>8. LET negative == fp_neg_lazy(a, mod, m) IN negative \in Elements /\ Congruent(Value(negative), -x, p)
  <2> DEFINE d == bi_subtract_var(m, a)
             e == bi_add_var(d.res, mod)
  <2>1. /\ d.res \in Elements /\ Value(d.res) \in 0..B-1
        /\ \/ d.carry = 0 /\ Value(d.res) = M - x
           \/ d.carry = 1 /\ Value(d.res) = M - x + B
    BY <1>1, <1>2, <1>4
  <2> HIDE DEF d
  <2>2. /\ e.res \in Elements /\ Value(e.res) \in 0..B-1
        /\ \/ e.carry = 0 /\ Value(e.res) = Value(d.res) + p
           \/ e.carry = 1 /\ Value(e.res) = Value(d.res) + p - B
    BY <1>1, <1>3, <2>1
  <2> HIDE DEF e
  <2>3. bi_compare_var(a, Zeros(BI_WORDS)) = 0 <=> x = 0
    BY <1>1, ZeroValue, BigFacts, CompareCases DEF Elements
  <2>4. fp_neg_lazy(a, mod, m) = IF x = 0 THEN a ELSE IF d.carry = 1 THEN e.res ELSE d.res
    BY <2>3 DEF fp_neg_lazy, d, e
  <2>5. CASE x = 0
    <3>1. Value(a) = (-x) + 0 * M + 0 * p
      BY <1>1, <2>5
    <3>2. Congruent(Value(a), -x, p)
      BY <1>1, <1>5, <3>1
    <3> QED BY <2>4, <2>5, <3>2
  <2>6. CASE x # 0 /\ d.carry = 1
    <3>1. Value(e.res) = M - x + p
      BY <1>1, <2>1, <2>2, <2>6
    <3>2. Value(e.res) = (-x) + 1 * M + 1 * p
      BY <3>1
    <3>3. Congruent(Value(e.res), -x, p)
      BY <1>5, <2>2, <3>2
    <3> QED BY <2>2, <2>4, <2>6, <3>3
  <2>7. CASE x # 0 /\ d.carry = 0
    <3>1. Value(d.res) = (-x) + 1 * M + 0 * p
      BY <2>1, <2>7
    <3>2. Congruent(Value(d.res), -x, p)
      BY <1>5, <2>1, <3>1
    <3> QED BY <2>1, <2>4, <2>7, <3>2
  <2> QED BY <2>1, <2>5, <2>6, <2>7
<1> QED BY <1>1, <1>6, <1>7, <1>8

(* fp_mul_monty_twostep_lazy multiplies words in any range: what overflows *)
(* is mended by one subtraction of the highest multiple of the modulus,    *)
(* and the result is congruent to Montgomery's product.                    *)
THEOREM LazyProductIsExact ==
  ASSUME ExactWords, ExactProducts, NEW mod \in Elements, NEW n0 \in Nat, (n0 * Value(mod) + 1) % Base = 0,
         NEW m, HighestMultiple(m, mod), NEW a \in Elements, NEW b \in Elements
  PROVE  LET r == fp_mul_monty_twostep_lazy(a, b, mod, n0, m) IN
         r \in Elements /\ Congruent(R * Value(r), Value(a) * Value(b), Value(mod))
<1>1. PICK n \in Nat : n = BI_WORDS /\ n + n = 2 * BI_WORDS
  BY BigFacts
<1>2. PICK t \in Bigs(2 * BI_WORDS) : t = bi_multiply_var(a, b) /\ Value(t) = Value(a) * Value(b)
  <2>1. IsProduct(bi_multiply_var(a, b), a, b, n, n)
    BY <1>1 DEF ExactProducts, Elements
  <2> QED BY <1>1, <2>1 DEF IsProduct
<1>3. PICK h : h = MontyRows(t, mod, n0) /\ MontyResult(h, t, Value(mod))
  BY MontyReduces
<1>4. PICK hi \in Elements, o \in {0, 1} : hi = h.hi /\ o = h.over
  BY <1>3 DEF MontyResult
<1>5. PICK x \in Nat, y \in Nat, p \in Nat, B \in Nat, v \in Nat :
        /\ x = Value(a) /\ y = Value(b) /\ p = Value(mod) /\ B = R /\ v = Value(hi)
        /\ x < B /\ y < B /\ p < B /\ v < B
  BY BigFacts
<1>6. PICK k \in Nat : k <= B - 1 /\ B * (v + B * o) = x * y + p * k
  <2>1. PICK k \in 0..R - 1 : R * (Value(h.hi) + R * h.over) = Value(t) + Value(mod) * k
    BY <1>3 DEF MontyResult
  <2>2. k \in Nat /\ k <= B - 1
    BY <1>5, <2>1
  <2> QED BY <1>2, <1>4, <1>5, <2>1, <2>2
<1>7. PICK r : r = fp_mul_monty_twostep_lazy(a, b, mod, n0, m)
  OBVIOUS
<1>8. r = IF o > 0 THEN bi_subtract_var(hi, m).res ELSE hi
  BY <1>2, <1>3, <1>4, <1>7 DEF fp_mul_monty_twostep_lazy, fp_rdc_monty_lazy
<1>9. CASE o = 0
  <2>1. r = hi
    BY <1>8, <1>9
  <2>2. B * v = x * y + p * k
    BY <1>6, <1>9
  <2>3. Congruent(B * v, x * y, p)
    <3>1. k \in Int
      OBVIOUS
    <3> QED BY <2>2, <3>1 DEF Congruent
  <2> QED BY <1>5, <1>7, <2>1, <2>3
<1>10. CASE o = 1
  <2>1. B * v + B * B = x * y + p * k
    <3>1. B * (v + B) = B * v + B * B
      OBVIOUS
    <3>2. v + B * o = v + B
      BY <1>10
    <3> QED BY <1>6, <3>1, <3>2
  <2>2. x * y <= B * B - 2 * B + 1
    <3>1. x * (B - 1 - y) >= 0 /\ (B - 1 - x) * (B - 1) >= 0
      BY <1>5
    <3>2. /\ x * (B - 1 - y) = x * B - x - x * y
          /\ (B - 1 - x) * (B - 1) = B * B - 2 * B + 1 - x * B + x
      OBVIOUS
    <3>3. PICK q1 \in Int, q2 \in Int, q3 \in Int : q1 = x * B /\ q2 = x * y /\ q3 = B * B
      OBVIOUS
    <3> QED BY <3>1, <3>2, <3>3
  <2>3. p * k <= p * B - p
    <3>1. p * (B - 1 - k) >= 0
      BY <1>6
    <3>2. p * (B - 1 - k) = p * B - p - p * k
      OBVIOUS
    <3>3. PICK q1 \in Int, q2 \in Int : q1 = p * B /\ q2 = p * k
      OBVIOUS
    <3> QED BY <3>1, <3>2, <3>3
  <2>4. B * v < p * B
    <3>1. PICK q1 \in Int, q2 \in Int, q3 \in Int, q4 \in Int, q5 \in Int :
            q1 = B * v /\ q2 = B * B /\ q3 = x * y /\ q4 = p * k /\ q5 = p * B
      OBVIOUS
    <3>2. B >= 1
      BY <1>5
    <3> QED BY <2>1, <2>2, <2>3, <3>1, <3>2
  <2>5. v < p
    <3>1. ASSUME v >= p PROVE FALSE
      <4>1. B * (v - p) >= 0
        BY <3>1
      <4>2. B * (v - p) = B * v - p * B
        OBVIOUS
      <4>3. PICK q1 \in Int, q5 \in Int : q1 = B * v /\ q5 = p * B
        OBVIOUS
      <4> QED BY <2>4, <4>1, <4>2, <4>3
    <3> QED BY <3>1
  <2>6. PICK M \in Nat, j \in Int : M = Value(m) /\ M + p >= B /\ M = p * j /\ m \in Elements
    <3>1. m \in Elements
      BY DEF HighestMultiple
    <3> QED BY <1>5, <3>1, BigFacts DEF HighestMultiple
  <2>7. v < M
    <3>1. p * j > 0
      BY <1>5, <2>6
    <3>2. j >= 1
      <4>1. ASSUME ~ (j >= 1) PROVE FALSE
        <5>1. p * (0 - j) >= 0
          BY <4>1
        <5>2. p * (0 - j) = 0 - p * j
          OBVIOUS
        <5> QED BY <3>1, <5>1, <5>2
      <4> QED BY <4>1
    <3>3. p * j >= p
      BY <3>2, AtLeastItself
    <3> QED BY <2>5, <2>6, <3>3
  <2>8. PICK d : d = bi_subtract_var(hi, m)
    OBVIOUS
  <2>9. d.res \in Elements /\ Value(d.res) = v - M + B
    <3>1. /\ d.res \in Elements /\ Value(d.res) \in 0..R-1
          /\ \/ d.carry = 0 /\ Value(d.res) = Value(hi) - Value(m)
             \/ d.carry = 1 /\ Value(d.res) = Value(hi) - Value(m) + R
      BY <2>6, <2>8, DifferenceCases
    <3>2. v - M < 0
      BY <2>6, <2>7
    <3> QED BY <1>5, <2>6, <3>1, <3>2
  <2>10. r = d.res
    BY <1>8, <1>10, <2>8
  <2>11. B * (v - M + B) = x * y + p * (k - B * j)
    <3>1. B * (v - M + B) = B * v - B * M + B * B /\ p * (k - B * j) = p * k - p * (B * j)
      OBVIOUS
    <3>2. B * (p * j) = p * (B * j)
      OBVIOUS
    <3>3. B * M = p * (B * j)
      BY <2>6, <3>2
    <3>4. PICK q1 \in Int, q2 \in Int, q3 \in Int, q4 \in Int, q5 \in Int :
            q1 = B * v /\ q2 = B * B /\ q3 = x * y /\ q4 = p * k /\ q5 = p * (B * j)
      OBVIOUS
    <3> QED BY <2>1, <3>1, <3>3, <3>4
  <2>12. Congruent(B * (v - M + B), x * y, p)
    <3>1. k - B * j \in Int
      OBVIOUS
    <3> QED BY <2>11, <3>1 DEF Congruent
  <2> QED BY <1>5, <1>7, <2>9, <2>10, <2>12
<1> QED BY <1>9, <1>10

-----------------------------------------------------------------------------
(* Halves.                                                                 *)
(* One word of a shift to the right.                                       *)
LEMMA HalfWord ==
  ASSUME NEW x \in Word, NEW c \in {0, 1}
  PROVE  /\ (x \div 2) + c * (Base \div 2) \in Word
         /\ x % 2 \in {0, 1}
         /\ 2 * ((x \div 2) + c * (Base \div 2)) + (x % 2) = x + Base * c
         /\ (x * (Base \div 2)) % Base = (x % 2) * (Base \div 2)
<1>1. PICK B \in Nat, H \in Nat : B = Base /\ H = Base \div 2 /\ B = 2 * H /\ H >= 1
  BY BaseFacts
<1>2. PICK q \in Int, e \in Int : q = x \div 2 /\ e = x % 2 /\ x = 2 * q + e /\ e \in {0, 1} /\ x \in 0..B-1
  BY <1>1 DEF Word
<1>3. q >= 0 /\ q <= H - 1
  BY <1>1, <1>2
<1>4. q + c * H \in 0..B-1 /\ 2 * (q + c * H) + e = x + B * c
  <2>1. CASE c = 0
    BY <1>1, <1>2, <1>3, <2>1
  <2>2. CASE c = 1
    BY <1>1, <1>2, <1>3, <2>2
  <2> QED BY <2>1, <2>2
<1>5. (x * H) % B = e * H
  <2>1. x * H = q * B + e * H
    <3>1. (2 * q + e) * H = q * (2 * H) + e * H
      OBVIOUS
    <3> QED BY <1>1, <1>2, <3>1
  <2>2. e * H \in 0..(B-1)
    <3>1. CASE e = 0
      BY <1>1, <3>1
    <3>2. CASE e = 1
      BY <1>1, <3>2
    <3> QED BY <1>2, <3>1, <3>2
  <2>3. PICK y \in 0..(B-1) : y = e * H
    BY <2>2
  <2>4. B > 0 /\ (q * B + y) % B = y
    BY <1>1, <1>2, QuotientAndRest
  <2> QED BY <2>1, <2>3, <2>4
<1> QED BY <1>1, <1>2, <1>4, <1>5 DEF Word

(* Words shifted to the right by one bit, with a bit that comes in above.  *)
Halved(a, top) ==
  [i \in 1..Len(a) |-> (a[i] \div 2) + (IF i < Len(a) THEN a[i+1] % 2 ELSE top) * (Base \div 2)]

LEMMA HalvesAreExact ==
  ASSUME NEW n \in Nat, n > 0, NEW a \in Bigs(n), NEW top \in {0, 1}
  PROVE  /\ Halved(a, top) \in Bigs(n)
         /\ a[1] % 2 \in {0, 1}
         /\ 2 * Value(Halved(a, top)) + (a[1] % 2) = Value(a) + PowerOf(Base, n) * top
<1> DEFINE c == [i \in 0..n |-> IF i < n THEN a[i+1] % 2 ELSE top]
           r == [i \in 1..n |-> (a[i] \div 2) + (IF i < n THEN a[i+1] % 2 ELSE top) * (Base \div 2)]
<1>0. Halved(a, top) = r /\ Len(a) = n
  BY BigWords DEF Halved
<1>1. ASSUME NEW i \in 1..n PROVE a[i] \in Word /\ a[i] % 2 \in {0, 1}
  <2>1. PICK x \in Word : x = a[i]
    BY BigWords
  <2>2. x % 2 \in {0, 1}
    BY HalfWord, 0 \in {0, 1}
  <2> QED BY <2>1, <2>2
<1>2. \A i \in 0..n : c[i] \in {0, 1}
  <2>1. ASSUME NEW i \in 0..n, i < n PROVE c[i] \in {0, 1}
    <3>1. i + 1 \in 1..n
      BY <2>1
    <3> QED BY <1>1, <2>1, <3>1
  <2> QED BY <2>1
<1>3. ASSUME NEW i \in 1..n
      PROVE  r[i] \in Word /\ r[i] + r[i] + c[i-1] = a[i] + Base * c[i]
  <2>1. PICK x \in Word, d \in {0, 1} : x = a[i] /\ d = c[i]
    <3>1. i \in 0..n
      OBVIOUS
    <3> QED BY <1>1, <1>2, <3>1
  <2>2. c[i-1] = x % 2
    <3>1. i - 1 \in 0..n /\ i - 1 < n /\ i - 1 + 1 = i
      OBVIOUS
    <3> QED BY <2>1, <3>1
  <2>3. r[i] = (x \div 2) + d * (Base \div 2)
    <3>1. c[i] = IF i < n THEN a[i+1] % 2 ELSE top
      OBVIOUS
    <3>2. r[i] = (a[i] \div 2) + (IF i < n THEN a[i+1] % 2 ELSE top) * (Base \div 2)
      OBVIOUS
    <3> HIDE DEF c, r
    <3> QED BY <2>1, <3>1, <3>2
  <2> HIDE DEF c, r
  <2>4. PICK h \in Int : h = (x \div 2) + d * (Base \div 2)
    BY HalfWord DEF Word
  <2>5. h \in Word /\ 2 * h + (x % 2) = x + Base * d
    BY <2>4, HalfWord
  <2> QED BY <2>1, <2>2, <2>3, <2>4, <2>5
<1>4. c[0] = a[1] % 2 /\ c[n] = top
  OBVIOUS
<1>5. r \in Bigs(n)
  <2>1. \A i \in 1..n : r[i] \in Word
    BY <1>3
  <2> QED BY <2>1 DEF Bigs
<1>6. c \in [0..n -> Int]
  BY <1>2
<1>7. a[1] % 2 \in {0, 1}
  BY <1>1
<1> HIDE DEF c, r
<1>8. Value(r) + Value(r) + c[0] = Value(a) + PowerOf(Base, n) * c[n]
  BY <1>3, <1>5, <1>6, ChainValue
<1>9. PICK x \in Int : x = Value(r)
  BY <1>5, ValueIsNat
<1> QED BY <1>0, <1>4, <1>5, <1>7, <1>8, <1>9

(* bi_shift_right_one_var moves the words by one bit; no bit comes in.     *)
LEMMA ShiftRightOne ==
  ASSUME NEW n \in Nat, n > 0, NEW a \in Bigs(n)
  PROVE  bi_shift_right_one_var(a) = Halved(a, 0)
<1>1. PICK w \in Nat : w = BITS_PER_WORD /\ w >= 2
  BY WordsAssumption
<1>2. 1 \div w = 0 /\ 1 % w = 1
  BY <1>1
<1>3. PowerOf(2, 1) = 2 /\ PowerOf(2, w - 1) = Base \div 2
  <2>1. PowerOf(2, 0) = 1 /\ PowerOf(2, 0 + 1) = 2 * PowerOf(2, 0)
    BY PowerLaws, 0 \in Nat, 2 \in Nat
  <2>2. PowerOf(2, w - 1) \in Nat /\ PowerOf(2, w - 1 + 1) = 2 * PowerOf(2, w - 1)
    <3>1. w - 1 \in Nat
      BY <1>1
    <3> QED BY <3>1, PowerLaws, 2 \in Nat
  <2>3. w - 1 + 1 = w /\ Base = PowerOf(2, w)
    BY <1>1 DEF Base
  <2>4. Base = 2 * PowerOf(2, w - 1)
    BY <2>2, <2>3
  <2> QED BY <2>1, <2>2, <2>4
<1> DEFINE Entry(i) == IF i + 0 <= Len(a) THEN a[i + 0] ELSE 0
<1>4. bi_shift_right_one_var(a)
        = [i \in 1..Len(a) |-> (Entry(i) \div 2) + ((Entry(i + 1) * (Base \div 2)) % Base)]
  BY <1>1, <1>2, <1>3 DEF bi_shift_right_one_var, bi_shift_right_var
<1>5. ASSUME NEW i \in 1..n
      PROVE  (Entry(i) \div 2) + ((Entry(i + 1) * (Base \div 2)) % Base)
               = (a[i] \div 2) + (IF i < n THEN a[i+1] % 2 ELSE 0) * (Base \div 2)
  <2>1. Len(a) = n /\ Entry(i) = a[i]
    BY BigWords
  <2>2. CASE i < n
    <3>1. Entry(i + 1) = a[i + 1]
      BY <2>1, <2>2
    <3>2. PICK x \in Word : x = a[i + 1]
      <4>1. i + 1 \in 1..n
        BY <2>2
      <4> QED BY <4>1, BigWords
    <3>3. (x * (Base \div 2)) % Base = (x % 2) * (Base \div 2)
      BY HalfWord, 0 \in {0, 1}
    <3> HIDE DEF Entry
    <3> QED BY <2>1, <2>2, <3>1, <3>2, <3>3
  <2>3. CASE ~ (i < n)
    <3>1. Entry(i + 1) = 0
      BY <2>1, <2>3
    <3>2. PICK B \in Nat, H \in Nat : B = Base /\ H = Base \div 2 /\ B >= 2
      BY BaseFacts
    <3>3. (0 * H) % B = 0 /\ 0 * H = 0
      BY <3>2
    <3> HIDE DEF Entry
    <3> QED BY <2>1, <2>3, <3>1, <3>2, <3>3
  <2> QED BY <2>2, <2>3
<1>6. Len(a) = n
  BY BigWords
<1> HIDE DEF Entry
<1> QED BY <1>4, <1>5, <1>6 DEF Halved

(* The lowest word tells whether a number is even.                         *)
LEMMA Parity ==
  ASSUME NEW n \in Nat, n > 0, NEW a \in Bigs(n)
  PROVE  Value(a) % 2 = a[1] % 2
<1>1. /\ Halved(a, 0) \in Bigs(n) /\ a[1] % 2 \in {0, 1}
      /\ 2 * Value(Halved(a, 0)) + (a[1] % 2) = Value(a) + PowerOf(Base, n) * 0
  BY HalvesAreExact, 0 \in {0, 1}
<1>2. PICK x \in Int, y \in Int, e \in {0, 1}, B \in Int :
        x = Value(a) /\ y = Value(Halved(a, 0)) /\ e = a[1] % 2 /\ B = PowerOf(Base, n)
  BY <1>1, ValueIsNat, PowerNat
<1>3. 2 * y + e = x
  BY <1>1, <1>2
<1>4. x % 2 = e
  BY <1>3
<1> QED BY <1>2, <1>4

(* fp_hlv_std halves modulo an odd modulus and gives a reduced element: an *)
(* odd element is made even by the modulus, and the carry of that sum      *)
(* comes back as the highest bit.                                          *)
THEOREM FieldHalvesAreReduced ==
  ASSUME ExactWords, NEW mod \in Elements, Value(mod) % 2 = 1, NEW a \in Elements, Value(a) < Value(mod)
  PROVE  LET r == fp_hlv_std(a, mod) IN
         r \in Elements /\ Value(r) < Value(mod) /\ (2 * Value(r)) % Value(mod) = Value(a)
<1> DEFINE r == fp_hlv_std(a, mod)
<1>1. PICK n \in Nat : n = BI_WORDS /\ n > 0
  BY WordsAssumption
<1>2. PICK x \in Nat, p \in Nat, B \in Nat :
        x = Value(a) /\ p = Value(mod) /\ B = R /\ x < p /\ p < B /\ p % 2 = 1
  BY BigFacts
<1>3. a \in Bigs(n) /\ mod \in Bigs(n) /\ B = PowerOf(Base, n)
  BY <1>1, <1>2 DEF Elements, R
<1>4. x % 2 = a[1] % 2
  BY <1>1, <1>2, <1>3, Parity
<1>5. CASE a[1] % 2 = 0
  <2>1. r = Halved(a, 0)
    BY <1>1, <1>3, <1>5, ShiftRightOne DEF fp_hlv_std
  <2>2. r \in Bigs(n) /\ 2 * Value(r) + (a[1] % 2) = Value(a) + PowerOf(Base, n) * 0
    BY <1>1, <1>3, <2>1, HalvesAreExact, 0 \in {0, 1}
  <2> HIDE DEF r
  <2>3. PICK y \in Nat : y = Value(r)
    BY <2>2, ValueIsNat
  <2>4. 2 * y = x
    BY <1>2, <1>3, <1>5, <2>2, <2>3
  <2>5. y < p /\ (2 * y) % p = x
    BY <1>2, <2>4
  <2>6. r \in Elements
    BY <1>1, <2>2 DEF Elements
  <2> QED BY <1>2, <2>3, <2>5, <2>6 DEF r
<1>6. CASE a[1] % 2 # 0
  <2>1. PICK s : s = bi_add_var(a, mod)
    OBVIOUS
  <2>2. /\ s.res \in Elements /\ Value(s.res) \in 0..B-1 /\ s.carry \in {0, 1}
        /\ Value(s.res) + B * s.carry = x + p
    <3>1. /\ s.res \in Elements /\ Value(s.res) \in 0..R-1
          /\ \/ s.carry = 0 /\ Value(s.res) = Value(a) + Value(mod)
             \/ s.carry = 1 /\ Value(s.res) = Value(a) + Value(mod) - R
      BY <2>1, SumCases
    <3> QED BY <1>2, <3>1
  <2>3. PICK t \in Bigs(n), o \in {0, 1} : t = s.res /\ o = s.carry
    BY <1>1, <2>2 DEF Elements
  <2> DEFINE h == bi_shift_right_one_var(t)
  <2>4. r = [i \in 1..BI_WORDS |-> h[i] + IF i = BI_WORDS THEN o * (Base \div 2) ELSE 0]
    BY <1>6, <2>1, <2>3 DEF fp_hlv_std
  <2>5. h = Halved(t, 0) /\ Len(t) = n
    BY <1>1, <2>3, ShiftRightOne, BigWords
  <2>6. ASSUME NEW i \in 1..n
        PROVE  h[i] + (IF i = n THEN o * (Base \div 2) ELSE 0)
                 = (t[i] \div 2) + (IF i < n THEN t[i+1] % 2 ELSE o) * (Base \div 2)
    <3>1. h[i] = (t[i] \div 2) + (IF i < n THEN t[i+1] % 2 ELSE 0) * (Base \div 2)
      BY <2>5 DEF Halved
    <3>2. PICK H \in Int, u \in Int : H = Base \div 2 /\ u = t[i] \div 2
      <4>1. t[i] \in Nat
        BY <2>3, BigWords
      <4> QED BY <4>1, BaseFacts
    <3> HIDE DEF h
    <3>3. CASE i < n
      <4>1. PICK v \in Int : v = (t[i+1] % 2) * H
        <5>1. t[i+1] \in Nat
          BY <1>1, <2>3, <3>3, BigWords
        <5> QED BY <5>1, <3>2
      <4>2. h[i] = u + v /\ i # n
        BY <3>1, <3>2, <3>3, <4>1
      <4> QED BY <3>2, <3>3, <4>1, <4>2
    <3>4. CASE ~ (i < n)
      <4>1. i = n /\ h[i] = u + 0 * H /\ 0 * H = 0
        BY <3>1, <3>2, <3>4
      <4>2. h[i] = u
        BY <3>2, <4>1
      <4> QED BY <3>2, <3>4, <4>1, <4>2
    <3> QED BY <3>3, <3>4
  <2> HIDE DEF h
  <2>7. r = Halved(t, o)
    <3> HIDE DEF r
    <3> QED BY <1>1, <2>4, <2>5, <2>6 DEF Halved
  <2>8. r \in Bigs(n) /\ t[1] % 2 \in {0, 1} /\ 2 * Value(r) + (t[1] % 2) = Value(t) + PowerOf(Base, n) * o
    BY <1>1, <2>3, <2>7, HalvesAreExact
  <2> HIDE DEF r
  <2>9. PICK y \in Nat, e \in {0, 1}, w \in Int : y = Value(r) /\ e = t[1] % 2 /\ w = B * o
    BY <1>2, <2>8, ValueIsNat
  <2>10. 2 * y + e = x + p
    BY <1>3, <2>2, <2>3, <2>8, <2>9
  <2>11. x % 2 = 1
    BY <1>2, <1>4, <1>6
  <2>12. e = 0
    BY <1>2, <2>10, <2>11
  <2>13. 2 * y = x + p /\ y < p
    BY <1>2, <2>10, <2>12
  <2>14. (2 * y) % p = x
    <3>1. PICK z \in 0..(p-1) : z = x
      BY <1>2
    <3>2. (1 * p + z) % p = z
      <4>1. p > 0 /\ p \in Nat /\ 1 \in Int
        BY <1>2
      <4> QED BY <4>1, QuotientAndRest
    <3> QED BY <2>13, <3>1, <3>2
  <2>15. r \in Elements
    BY <1>1, <2>8 DEF Elements
  <2> QED BY <1>2, <2>9, <2>13, <2>14, <2>15 DEF r
<1> QED BY <1>5, <1>6

-----------------------------------------------------------------------------
(* There and back, and the product by one multiple of the modulus.         *)
(* Big integers of one length are equal when their values are.             *)
LEMMA SameWords ==
  ASSUME NEW n \in Nat, NEW a \in Bigs(n), NEW b \in Bigs(n), Value(a) = Value(b)
  PROVE  a = b
<1> DEFINE different == {i \in 1..n : a[i] # b[i]}
           top == CHOOSE i \in different : \A j \in different : j <= i
<1>1. bi_compare_var_std(a, b) = 0 /\ Len(a) = n
  BY ComparisonsAreExact, BigWords
<1>2. bi_compare_var_std(a, b) = IF different = {} THEN 0 ELSE IF a[top] > b[top] THEN 1 ELSE -1
  BY <1>1 DEF bi_compare_var_std
<1>3. different = {}
  BY <1>1, <1>2
<1> QED BY <1>3 DEF Bigs

(* Numbers below p that are equal modulo p are equal.                      *)
LEMMA Unique ==
  ASSUME NEW p \in Nat, NEW x \in Nat, NEW y \in Nat, x < p, y < p, Congruent(x, y, p)
  PROVE  x = y
<1>1. PICK m \in Int : x = y + p * m
  BY DEF Congruent
<1>2. ~ (m >= 1)
  <2>1. ASSUME m >= 1 PROVE FALSE
    <3>1. p * m >= p
      BY <2>1, AtLeastItself
    <3> QED BY <1>1, <3>1
  <2> QED BY <2>1
<1>3. ~ (m <= -1)
  <2>1. ASSUME m <= -1 PROVE FALSE
    <3>1. -m \in Int /\ -m >= 1
      BY <2>1
    <3>2. p * (-m) >= p
      BY <3>1, AtLeastItself
    <3>3. p * (-m) = - (p * m)
      OBVIOUS
    <3>4. PICK q \in Int : q = p * m
      OBVIOUS
    <3> QED BY <1>1, <3>2, <3>3, <3>4
  <2> QED BY <2>1
<1>4. m = 0
  BY <1>2, <1>3
<1> QED BY <1>1, <1>4

(* p divides d.                                                           *)
IsMultiple(d, p) == \E m \in Int : d = p * m

(* A factor Base, and so every power of it, can be divided out modulo p:   *)
(* n0 says that Base has an inverse.                                       *)
LEMMA PowerCancels ==
  ASSUME NEW p \in Nat, NEW n0 \in Nat, (n0 * p + 1) % Base = 0, NEW i \in Nat,
         NEW d \in Int, NEW k \in Int, PowerOf(Base, i) * d = p * k
  PROVE  IsMultiple(d, p)
<1>1. PICK B \in Nat, q \in Int : B = Base /\ B >= 2 /\ q = (n0 * p + 1) \div Base /\ n0 * p + 1 = B * q
  <2>1. Base \in Nat /\ Base >= 2
    BY BaseFacts
  <2>2. PICK y \in Int : y = n0 * p + 1
    OBVIOUS
  <2>3. y = Base * (y \div Base) + (y % Base) /\ y \div Base \in Int
    BY <2>1, <2>2
  <2> QED BY <2>1, <2>2, <2>3
<1>2. ASSUME NEW e \in Int, NEW m \in Int, B * e = p * m PROVE \E z \in Int : e = p * z
  <2>1. e = p * (q * m - n0 * e)
    <3>1. (B * q) * e = q * (B * e) /\ q * (p * m) = p * (q * m)
      OBVIOUS
    <3>2. (n0 * p + 1) * e = p * (n0 * e) + e
      OBVIOUS
    <3>3. p * (q * m - n0 * e) = p * (q * m) - p * (n0 * e)
      OBVIOUS
    <3>4. (B * q) * e = (n0 * p + 1) * e
      BY <1>1
    <3>5. (B * q) * e = p * (q * m)
      BY <1>2, <3>1
    <3>6. PICK u \in Int, v \in Int : u = p * (q * m) /\ v = p * (n0 * e)
      OBVIOUS
    <3>7. u = v + e
      BY <3>2, <3>4, <3>5, <3>6
    <3> QED BY <3>3, <3>6, <3>7
  <2>2. q * m - n0 * e \in Int
    BY <1>1
  <2> QED BY <2>1, <2>2
<1> DEFINE T == {j \in 0..i : \A e \in Int : IsMultiple(PowerOf(Base, j) * e, p) => IsMultiple(e, p)}
<1>3. 0 \in T
  <2>1. PowerOf(Base, 0) = 1
    BY <1>1, PowerLaws, 0 \in Nat
  <2>2. \A e \in Int : PowerOf(Base, 0) * e = e
    BY <2>1
  <2> QED BY <2>2
<1>4. ASSUME NEW j \in 1..i, j - 1 \in T PROVE j \in T
  <2>1. PICK P \in Int : P = PowerOf(Base, j - 1) /\ PowerOf(Base, j) = B * P
    <3>1. j - 1 \in Nat /\ j - 1 + 1 = j
      OBVIOUS
    <3>2. PowerOf(Base, j - 1) \in Nat /\ PowerOf(Base, j - 1 + 1) = Base * PowerOf(Base, j - 1)
      BY <1>1, <3>1, PowerLaws
    <3> QED BY <1>1, <3>1, <3>2
  <2>2. ASSUME NEW e \in Int, IsMultiple(PowerOf(Base, j) * e, p)
        PROVE  IsMultiple(e, p)
    <3>0. PICK m \in Int : PowerOf(Base, j) * e = p * m
      BY <2>2 DEF IsMultiple
    <3>1. (B * P) * e = B * (P * e)
      OBVIOUS
    <3>2. PICK f \in Int : f = P * e
      OBVIOUS
    <3>3. B * f = p * m
      BY <2>1, <3>0, <3>1, <3>2
    <3>4. PICK z \in Int : f = p * z
      BY <1>2, <3>3
    <3>5. PowerOf(Base, j - 1) * e = p * z
      BY <2>1, <3>2, <3>4
    <3>6. IsMultiple(PowerOf(Base, j - 1) * e, p)
      BY <3>5 DEF IsMultiple
    <3> QED BY <1>4, <3>6
  <2> QED BY <2>2
<1> HIDE DEF T
<1>5. i \in 0..i /\ \A j \in 0..i : j \in T
  BY <1>3, <1>4, UpTo
<1>6. i \in T
  BY <1>5
<1>7. IsMultiple(PowerOf(Base, i) * d, p)
  BY DEF IsMultiple
<1> QED BY <1>6, <1>7 DEF T

(* The product that the headers bind is the one in two steps.              *)
StandardProduct ==
  \A a, b, mod, n0 : fp_mul_monty_var(a, b, mod, n0) = fp_mul_monty_twostep_std(a, b, mod, n0)

(* An element is carried into Montgomery's domain by the square of R, is   *)
(* there R times itself, and comes back unchanged.                         *)
THEOREM DomainReturns ==
  ASSUME ExactWords, ExactProducts, StandardProduct,
         NEW mod \in Elements, NEW n0 \in Nat, (n0 * Value(mod) + 1) % Base = 0, 1 < Value(mod), 3 * Value(mod) <= R,
         NEW r2 \in Elements, Value(r2) < Value(mod), Congruent(Value(r2), R * R, Value(mod)),
         NEW a \in Elements, Value(a) < Value(mod)
  PROVE  LET inside == fp_to_montgomery(a, mod, n0, r2) IN
         /\ inside \in Elements /\ Value(inside) < Value(mod)
         /\ Congruent(Value(inside), R * Value(a), Value(mod))
         /\ fp_from_montgomery(inside, mod, n0) = a
<1>1. PICK p \in Nat, B \in Nat, x \in Nat, s \in Nat :
        /\ p = Value(mod) /\ B = R /\ x = Value(a) /\ s = Value(r2) /\ x < p /\ p < B /\ 3 * p <= B
  BY BigFacts
<1>2. PICK n \in Nat : n = BI_WORDS /\ n > 1 /\ B = PowerOf(Base, n)
  BY <1>1, WordsAssumption DEF R
<1>3. PICK c \in Int : s = B * B + p * c
  BY <1>1 DEF Congruent
<1>4. PICK i : i = fp_to_montgomery(a, mod, n0, r2)
  OBVIOUS
<1>5. i = fp_mul_monty_twostep_std(a, r2, mod, n0)
  BY <1>4 DEF StandardProduct, fp_to_montgomery
<1>6. i \in Elements /\ Value(i) < Value(mod) /\ Congruent(R * Value(i), Value(a) * Value(r2), Value(mod))
  BY <1>5, MontyProductIsExact
<1>7. PICK y \in Nat, k \in Int : y = Value(i) /\ y < p /\ B * y = x * s + p * k
  BY <1>1, <1>6, BigFacts DEF Congruent
<1>8. \E m \in Int : y - B * x = p * m
  <2>1. B * (y - B * x) = p * (k + x * c)
    <3>1. B * (y - B * x) = B * y - x * (B * B) /\ x * (B * B + p * c) = x * (B * B) + p * (x * c)
      OBVIOUS
    <3>2. p * (k + x * c) = p * k + p * (x * c)
      OBVIOUS
    <3>3. PICK u1 \in Int, u2 \in Int, u3 \in Int, u4 \in Int :
            u1 = B * y /\ u2 = x * (B * B) /\ u3 = p * (x * c) /\ u4 = p * k
      OBVIOUS
    <3>4. u1 = u2 + u3 + u4
      BY <1>3, <1>7, <3>1, <3>3
    <3> QED BY <3>1, <3>2, <3>3, <3>4
  <2>2. PICK d \in Int, e \in Int : d = y - B * x /\ e = k + x * c /\ B * d = p * e
    BY <2>1
  <2>3. (n0 * p + 1) % Base = 0 /\ PowerOf(Base, n) * d = p * e
    BY <1>1, <1>2, <2>2
  <2>4. IsMultiple(d, p)
    BY <2>3, PowerCancels
  <2> QED BY <2>2, <2>4 DEF IsMultiple
<1>9. PICK m \in Int : y - B * x = p * m
  BY <1>8
<1>10. Congruent(Value(i), R * Value(a), Value(mod))
  <2>1. PICK q \in Int, w \in Int : q = B * x /\ w = p * m
    OBVIOUS
  <2>2. y = q + w
    BY <1>9, <2>1
  <2> QED BY <1>1, <1>7, <2>1, <2>2 DEF Congruent
<1>11. bi_one \in Elements /\ Value(bi_one) = 1
  <2>1. bi_one = <<1>> \o Zeros(n - 1)
    BY <1>2 DEF bi_one, Zeros, Bit
  <2>2. <<1>> \in Bigs(1) /\ n - 1 \in Nat /\ 1 \in Nat /\ 0 \in Nat
    <3>1. 1 \in Word
      BY BaseFacts DEF Word
    <3> QED BY <1>2, <3>1 DEF Bigs
  <2>3. /\ Zeros(0) \o <<1>> \o Zeros(n - 1) \in Bigs(0 + 1 + (n - 1))
        /\ Value(Zeros(0) \o <<1>> \o Zeros(n - 1)) = PowerOf(Base, 0) * Value(<<1>>)
    <3>1. PICK g \in Nat : g = n - 1
      BY <2>2
    <3>2. PICK w \in Bigs(1) : w = <<1>>
      BY <2>2
    <3>3. /\ Zeros(0) \o w \o Zeros(g) \in Bigs(0 + 1 + g)
          /\ Value(Zeros(0) \o w \o Zeros(g)) = PowerOf(Base, 0) * Value(w)
      <4>1. PICK e \in Nat, h \in Nat : e = 0 /\ h = 1
        OBVIOUS
      <4>2. w \in Bigs(h)
        BY <4>1
      <4>3. /\ Zeros(e) \o w \o Zeros(g) \in Bigs(e + h + g)
            /\ Value(Zeros(e) \o w \o Zeros(g)) = PowerOf(Base, e) * Value(w)
        <5>1. Zeros(e) \o w \o Zeros(g) \in Bigs(e + h + g)
          BY <4>2, e \in Nat /\ g \in Nat /\ h \in Nat, ShiftedValue
        <5>2. Value(Zeros(e) \o w \o Zeros(g)) = PowerOf(Base, e) * Value(w)
          BY <4>2, e \in Nat /\ g \in Nat /\ h \in Nat, ShiftedValue
        <5> QED BY <5>1, <5>2
      <4> QED BY <4>1, <4>3
    <3> QED BY <3>1, <3>2, <3>3
  <2>4. Zeros(0) \o <<1>> = <<1>>
    BY DEF Zeros
  <2>5. PowerOf(Base, 0) = 1
    BY BaseFacts, PowerLaws, 0 \in Nat
  <2>6. Value(<<1>>) = 1
    BY OneWord, BaseFacts DEF Word
  <2>7. bi_one \in Bigs(0 + 1 + (n - 1)) /\ Value(bi_one) = PowerOf(Base, 0) * Value(<<1>>)
    BY <2>1, <2>3, <2>4
  <2>8. 0 + 1 + (n - 1) = n
    BY <1>2
  <2> QED BY <1>2, <2>5, <2>6, <2>7, <2>8 DEF Elements
<1>12. PICK f : f = fp_from_montgomery(i, mod, n0)
  OBVIOUS
<1>13. f = fp_mul_monty_twostep_std(i, bi_one, mod, n0)
  BY <1>12 DEF StandardProduct, fp_from_montgomery
<1>15. f \in Elements /\ Value(f) < Value(mod) /\ Congruent(R * Value(f), Value(i) * Value(bi_one), Value(mod))
  BY <1>1, <1>6, <1>11, <1>13, MontyProductIsExact
<1>16. PICK z \in Nat, l \in Int : z = Value(f) /\ z < p /\ B * z = y * 1 + p * l
  BY <1>1, <1>7, <1>11, <1>15, BigFacts DEF Congruent
<1>17. \E g \in Int : z - x = p * g
  <2>1. B * (z - x) = p * (m + l)
    <3>1. B * (z - x) = B * z - B * x /\ p * (m + l) = p * m + p * l
      OBVIOUS
    <3>2. PICK u1 \in Int, u2 \in Int, u3 \in Int, u4 \in Int :
            u1 = B * z /\ u2 = B * x /\ u3 = p * m /\ u4 = p * l
      OBVIOUS
    <3>3. u1 = y + u4 /\ y - u2 = u3
      BY <1>9, <1>16, <3>2
    <3> QED BY <3>1, <3>2, <3>3
  <2>2. PICK d \in Int, e \in Int : d = z - x /\ e = m + l /\ B * d = p * e
    BY <2>1
  <2>3. (n0 * p + 1) % Base = 0 /\ PowerOf(Base, n) * d = p * e
    BY <1>1, <1>2, <2>2
  <2>4. IsMultiple(d, p)
    BY <2>3, PowerCancels
  <2> QED BY <2>2, <2>4 DEF IsMultiple
<1>18. Congruent(z, x, p)
  <2>1. PICK g \in Int : z - x = p * g
    BY <1>17
  <2>2. z = x + p * g
    <3>1. PICK w \in Int : w = p * g
      OBVIOUS
    <3> QED BY <2>1, <3>1
  <2> QED BY <2>2 DEF Congruent
<1>19. z = x
  BY <1>1, <1>16, <1>18, Unique
<1>20. f = a
  BY <1>1, <1>2, <1>15, <1>16, <1>19, SameWords DEF Elements
<1> QED BY <1>4, <1>6, <1>10, <1>12, <1>20

(* A number of twice the length, cut in the middle.                        *)
LEMMA LowHalf ==
  ASSUME NEW t \in Bigs(2 * BI_WORDS)
  PROVE  /\ SubSeq(t, 1, BI_WORDS) \in Elements /\ SubSeq(t, BI_WORDS + 1, 2 * BI_WORDS) \in Elements
         /\ Value(t) = Value(SubSeq(t, 1, BI_WORDS)) + R * Value(SubSeq(t, BI_WORDS + 1, 2 * BI_WORDS))
<1>1. PICK n \in Nat, N \in Nat : n = BI_WORDS /\ N = 2 * BI_WORDS /\ N = n + n /\ n \in 0..N /\ N - n = n
  BY BigFacts
<1>2. t \in Bigs(N)
  BY <1>1
<1>3. /\ SubSeq(t, 1, n) \in Bigs(n) /\ SubSeq(t, n + 1, N) \in Bigs(N - n)
      /\ Value(t) = Value(SubSeq(t, 1, n)) + PowerOf(Base, n) * Value(SubSeq(t, n + 1, N))
  BY <1>1, <1>2, CutValue
<1> QED BY <1>1, <1>3 DEF Elements, R

(* fp_mul_monty_std, with one multiple of the modulus for all words, is    *)
(* Montgomery's product for every odd modulus: the low half of the sum is  *)
(* zero, the carry out of the high half is mended by one subtraction.      *)
THEOREM WholeMontyIsExact ==
  ASSUME ExactWords, ExactProducts, NEW mod \in Elements,
         NEW n0 \in Elements, (Value(n0) * Value(mod) + 1) % R = 0,
         NEW a \in Elements, NEW b \in Elements, Value(a) < Value(mod), Value(b) < Value(mod)
  PROVE  LET r == fp_mul_monty_std(a, b, mod, n0) IN
         /\ r \in Elements /\ Value(r) < Value(mod)
         /\ Congruent(R * Value(r), Value(a) * Value(b), Value(mod))
<1>1. PICK n \in Nat, N \in Nat : n = BI_WORDS /\ N = 2 * BI_WORDS /\ n + n = N
  BY BigFacts
<1>2. PICK x \in Nat, y \in Nat, p \in Nat, B \in Nat, z \in Nat :
        /\ x = Value(a) /\ y = Value(b) /\ p = Value(mod) /\ B = R /\ z = Value(n0)
        /\ x < p /\ y < p /\ p < B /\ z < B
  BY BigFacts
<1>3. ASSUME NEW u \in Elements, NEW v \in Elements
      PROVE  bi_multiply_var(u, v) \in Bigs(N) /\ Value(bi_multiply_var(u, v)) = Value(u) * Value(v)
  <2>1. IsProduct(bi_multiply_var(u, v), u, v, n, n)
    BY <1>1 DEF ExactProducts, Elements
  <2> QED BY <1>1, <2>1 DEF IsProduct
<1>4. PICK t \in Bigs(N) : t = bi_multiply_var(a, b) /\ Value(t) = x * y
  BY <1>2, <1>3
<1>5. PICK T \in Nat : T = x * y
  OBVIOUS
<1>6. PICK lo \in Elements, hi \in Elements :
        /\ lo = SubSeq(t, 1, BI_WORDS) /\ Value(t) = Value(lo) + R * Value(hi)
  BY <1>1, <1>4, LowHalf
<1>7. PICK w \in Bigs(N + n) : w = bi_multiply_var(t, n0) /\ Value(w) = T * z
  <2>1. IsProduct(bi_multiply_var(t, n0), t, n0, N, n)
    BY <1>1, <1>4 DEF ExactProducts, Elements
  <2> QED BY <1>2, <1>4, <1>5, <2>1 DEF IsProduct
<1>8. PICK m \in Elements, h \in Nat : m = SubSeq(w, 1, BI_WORDS) /\ T * z = Value(m) + B * h
  <2>1. N + n \in Nat /\ n \in 0..N + n
    BY <1>1
  <2>2. /\ SubSeq(w, 1, n) \in Bigs(n) /\ SubSeq(w, n + 1, N + n) \in Bigs(N + n - n) /\ N + n - n \in Nat
        /\ Value(w) = Value(SubSeq(w, 1, n)) + PowerOf(Base, n) * Value(SubSeq(w, n + 1, N + n))
    BY <2>1, <1>7, CutValue
  <2>3. Value(SubSeq(w, n + 1, N + n)) \in Nat
    BY <2>2, ValueIsNat
  <2>4. B = PowerOf(Base, n)
    BY <1>1, <1>2 DEF R
  <2> QED BY <1>1, <1>7, <2>2, <2>3, <2>4 DEF Elements
<1>9. PICK k \in Nat : k = Value(m) /\ k < B
  BY <1>2, BigFacts
<1>10. PICK q \in Bigs(N) : q = bi_multiply_var(m, mod) /\ Value(q) = k * p
  BY <1>2, <1>3, <1>9
<1>11. PICK s \in Bigs(N), c \in {0, 1} : /\ s = bi_add_var(t, q).res /\ c = bi_add_var(t, q).carry
                                         /\ Value(s) + B * B * c = T + k * p
  <2>1. LET e == bi_add_var(t, q) IN
        /\ e.res \in Bigs(N) /\ e.carry \in {0, 1}
        /\ Value(e.res) + PowerOf(Base, N) * e.carry = Value(t) + Value(q)
    BY <1>4, <1>10 DEF ExactWords, ExactAt
  <2>2. PowerOf(Base, N) = B * B
    BY <1>1, <1>2, Squares
  <2> QED BY <1>4, <1>5, <1>10, <2>1, <2>2
<1>12. PICK low \in Elements, high \in Elements :
         /\ low = SubSeq(s, 1, BI_WORDS) /\ high = SubSeq(s, BI_WORDS + 1, 2 * BI_WORDS)
         /\ Value(s) = Value(low) + R * Value(high)
  BY <1>1, <1>11, LowHalf
<1>13. PICK l \in Nat, v \in Nat : l = Value(low) /\ v = Value(high) /\ l < B /\ v < B
  BY <1>2, BigFacts
<1>14. PICK g \in Nat : z * p + 1 = B * g
  <2>1. PICK e \in Nat : e = z * p + 1
    OBVIOUS
  <2>2. B > 0 /\ e % B = 0
    BY <1>2, <2>1
  <2>3. e = B * (e \div B) + (e % B) /\ e \div B \in Nat
    BY <2>2
  <2> QED BY <2>1, <2>2, <2>3
<1>15. l + B * (v + B * c) = T + k * p
  <2>1. B * (v + B * c) = B * v + B * B * c
    OBVIOUS
  <2>2. Value(s) = l + B * v
    BY <1>2, <1>12, <1>13
  <2>3. PICK u1 \in Int, u2 \in Int, u3 \in Int : u1 = B * v /\ u2 = B * B * c /\ u3 = k * p
    OBVIOUS
  <2>4. Value(s) + u2 = T + u3
    BY <1>11, <2>3
  <2> QED BY <2>1, <2>2, <2>3, <2>4
<1>16. l = 0
  <2>1. T + k * p = B * (T * g - h * p)
    <3>1. T * (B * g) = B * (T * g) /\ T * (z * p + 1) = (T * z) * p + T
      OBVIOUS
    <3>2. (k + B * h) * p = k * p + B * (h * p) /\ B * (T * g - h * p) = B * (T * g) - B * (h * p)
      OBVIOUS
    <3>3. (T * z) * p = (k + B * h) * p
      BY <1>8, <1>9
    <3>4. T * (z * p + 1) = T * (B * g)
      BY <1>14
    <3>5. PICK u1 \in Int, u2 \in Int, u3 \in Int : u1 = B * (T * g) /\ u2 = k * p /\ u3 = B * (h * p)
      OBVIOUS
    <3>6. PICK u4 \in Int : u4 = (T * z) * p
      OBVIOUS
    <3>7. u1 = u4 + T /\ u4 = u2 + u3
      BY <3>1, <3>2, <3>3, <3>4, <3>5, <3>6
    <3>8. T + u2 = u1 - u3
      BY <3>7
    <3> QED BY <3>2, <3>5, <3>8
  <2>2. PICK d \in Int : d = T * g - h * p - (v + B * c)
    OBVIOUS
  <2>3. l = B * d
    <3>1. PICK e \in Int, f \in Int : e = T * g - h * p /\ f = v + B * c
      OBVIOUS
    <3>2. B * (e - f) = B * e - B * f
      OBVIOUS
    <3>3. PICK u1 \in Int, u2 \in Int, u3 \in Int : u1 = B * e /\ u2 = B * f /\ u3 = k * p
      OBVIOUS
    <3>4. l + u2 = T + u3 /\ T + u3 = u1
      BY <1>15, <2>1, <3>1, <3>3
    <3> QED BY <2>2, <3>1, <3>2, <3>3, <3>4
  <2>4. ~ (d >= 1)
    <3>1. ASSUME d >= 1 PROVE FALSE
      <4>1. B * d >= B
        BY <3>1, AtLeastItself
      <4> QED BY <1>13, <2>3, <4>1
    <3> QED BY <3>1
  <2>5. ~ (d <= -1)
    <3>1. ASSUME d <= -1 PROVE FALSE
      <4>1. -d \in Int /\ -d >= 1
        BY <3>1
      <4>2. B * (-d) >= B
        BY <4>1, AtLeastItself
      <4>3. B * (-d) = - (B * d)
        OBVIOUS
      <4>4. PICK u \in Int : u = B * d
        OBVIOUS
      <4> QED BY <1>2, <1>13, <2>3, <4>2, <4>3, <4>4
    <3> QED BY <3>1
  <2>6. d = 0
    BY <2>4, <2>5
  <2> QED BY <2>3, <2>6
<1>17. PICK V \in Nat : V = v + B * c
  <2>1. B * c \in Nat
    OBVIOUS
  <2> QED BY <2>1
<1>18. B * V = x * y + p * k
  <2>1. k * p = p * k
    OBVIOUS
  <2> QED BY <1>5, <1>15, <1>16, <1>17, <2>1
<1>19. V < 2 * p
  <2>1. T < p * B
    <3>1. x * y < p * p /\ p * p <= p * B
      <4>1. x * y < p * p
        BY <1>2, ProductBelow
      <4>2. p * (B - p) >= 0 /\ p * (B - p) = p * B - p * p
        BY <1>2
      <4>3. PICK u1 \in Int, u2 \in Int : u1 = p * B /\ u2 = p * p
        OBVIOUS
      <4>4. u2 <= u1
        BY <4>2, <4>3
      <4> QED BY <4>1, <4>3, <4>4
    <3>2. PICK u1 \in Int, u2 \in Int, u3 \in Int : u1 = p * B /\ u2 = p * p /\ u3 = x * y
      OBVIOUS
    <3> QED BY <1>5, <3>1, <3>2
  <2>2. p * k < p * B
    <3>1. p >= 1 /\ B - k >= 1
      BY <1>2, <1>9
    <3>2. p * (B - k) >= p /\ p * (B - k) = p * B - p * k
      BY <3>1, AtLeastItself
    <3>3. PICK u1 \in Int, u2 \in Int : u1 = p * B /\ u2 = p * k
      OBVIOUS
    <3> QED BY <3>1, <3>2, <3>3
  <2>3. ASSUME V >= 2 * p PROVE FALSE
    <3>1. B * (V - 2 * p) >= 0
      BY <2>3
    <3>2. B * (V - 2 * p) = B * V - 2 * (p * B)
      OBVIOUS
    <3>3. PICK u1 \in Int, u2 \in Int, u3 \in Int : u1 = p * B /\ u2 = p * k /\ u3 = B * V
      OBVIOUS
    <3>4. u3 = T + u2
      BY <1>5, <1>18, <3>3
    <3> QED BY <2>1, <2>2, <3>1, <3>2, <3>3, <3>4
  <2> QED BY <2>3
<1>20. PICK e : e = bi_subtract_var(high, mod)
  OBVIOUS
<1>21. PICK once \in Elements : once = (IF c = 1 THEN e.res ELSE high) /\ Value(once) < B
                               /\ (Value(once) = V \/ Value(once) = V - p)
  <2>1. /\ e.res \in Elements /\ Value(e.res) \in 0..B-1
        /\ \/ e.carry = 0 /\ Value(e.res) = v - p
           \/ e.carry = 1 /\ Value(e.res) = v - p + B
    <3>1. /\ e.res \in Elements /\ Value(e.res) \in 0..R-1
          /\ \/ e.carry = 0 /\ Value(e.res) = Value(high) - Value(mod)
             \/ e.carry = 1 /\ Value(e.res) = Value(high) - Value(mod) + R
      BY <1>20, DifferenceCases
    <3> QED BY <1>2, <1>13, <3>1
  <2>2. CASE c = 0
    <3>1. V = v
      BY <1>17, <2>2
    <3> QED BY <1>13, <2>2, <3>1
  <2>3. CASE c = 1
    <3>1. V = v + B
      BY <1>17, <2>3
    <3>2. v - p < 0
      BY <1>2, <1>19, <3>1
    <3>3. Value(e.res) = V - p /\ Value(e.res) < B
      BY <2>1, <3>1, <3>2
    <3> QED BY <2>1, <2>3, <3>3
  <2> QED BY <2>2, <2>3
<1>22. PICK f : f = bi_subtract_var(once, mod)
  OBVIOUS
<1>23. PICK r : r = fp_mul_monty_std(a, b, mod, n0)
  OBVIOUS
<1>24. r = IF bi_compare_var(once, mod) >= 0 THEN f.res ELSE once
  <2>1. PICK sum : sum = bi_add_var(t, q)
    OBVIOUS
  <2>2. once = IF sum.carry = 1 THEN bi_subtract_var(SubSeq(sum.res, BI_WORDS + 1, 2 * BI_WORDS), mod).res
               ELSE SubSeq(sum.res, BI_WORDS + 1, 2 * BI_WORDS)
    BY <1>11, <1>12, <1>20, <1>21, <2>1
  <2>3. r = LET s1 == bi_add_var(t, bi_multiply_var(m, mod))
                u == SubSeq(s1.res, BI_WORDS + 1, 2 * BI_WORDS)
                o == IF s1.carry = 1 THEN bi_subtract_var(u, mod).res ELSE u
            IN IF bi_compare_var(o, mod) >= 0 THEN bi_subtract_var(o, mod).res ELSE o
    <3>1. t = bi_multiply_var(a, b) /\ m = SubSeq(bi_multiply_var(t, n0), 1, BI_WORDS)
      BY <1>4, <1>7, <1>8
    <3>2. r = LET t1 == bi_multiply_var(a, b)
                  m1 == SubSeq(bi_multiply_var(t1, n0), 1, BI_WORDS)
                  s1 == bi_add_var(t1, bi_multiply_var(m1, mod))
                  u == SubSeq(s1.res, BI_WORDS + 1, 2 * BI_WORDS)
                  o == IF s1.carry = 1 THEN bi_subtract_var(u, mod).res ELSE u
              IN IF bi_compare_var(o, mod) >= 0 THEN bi_subtract_var(o, mod).res ELSE o
      BY <1>23, Zenon DEF fp_mul_monty_std
    <3>3. r = LET m1 == SubSeq(bi_multiply_var(t, n0), 1, BI_WORDS)
                  s1 == bi_add_var(t, bi_multiply_var(m1, mod))
                  u == SubSeq(s1.res, BI_WORDS + 1, 2 * BI_WORDS)
                  o == IF s1.carry = 1 THEN bi_subtract_var(u, mod).res ELSE u
              IN IF bi_compare_var(o, mod) >= 0 THEN bi_subtract_var(o, mod).res ELSE o
      BY <3>1, <3>2, Zenon
    <3> QED BY <3>1, <3>3, Zenon
  <2>4. r = LET o == IF sum.carry = 1 THEN bi_subtract_var(SubSeq(sum.res, BI_WORDS + 1, 2 * BI_WORDS), mod).res
                     ELSE SubSeq(sum.res, BI_WORDS + 1, 2 * BI_WORDS)
            IN IF bi_compare_var(o, mod) >= 0 THEN bi_subtract_var(o, mod).res ELSE o
    BY <1>10, <2>1, <2>3, Zenon
  <2> QED BY <1>22, <2>2, <2>4, Zenon
<1>25. PICK o \in Nat : o = Value(once) /\ o < B /\ (o = V \/ o = V - p)
  BY <1>21, BigFacts
<1>26. /\ f.res \in Elements
       /\ \/ f.carry = 0 /\ Value(f.res) = o - p
          \/ f.carry = 1 /\ Value(f.res) = o - p + B
       /\ Value(f.res) \in 0..B-1
  <2>1. /\ f.res \in Elements /\ Value(f.res) \in 0..R-1
        /\ \/ f.carry = 0 /\ Value(f.res) = Value(once) - Value(mod)
           \/ f.carry = 1 /\ Value(f.res) = Value(once) - Value(mod) + R
    BY <1>22, DifferenceCases
  <2> QED BY <1>2, <1>25, <2>1
<1>27. bi_compare_var(once, mod) >= 0 <=> o >= p
  BY <1>2, <1>25, CompareCases
<1>28. r \in Elements /\ Value(r) < p /\ (Value(r) = V \/ Value(r) = V - p)
  <2>1. CASE o >= p
    <3>1. o = V
      BY <1>19, <1>25, <2>1
    <3>2. Value(f.res) = o - p
      BY <1>25, <1>26, <2>1
    <3>3. r = f.res
      BY <1>24, <1>27, <2>1
    <3> QED BY <1>19, <1>26, <3>1, <3>2, <3>3
  <2>2. CASE ~ (o >= p)
    <3>1. r = once
      BY <1>24, <1>27, <2>2
    <3> QED BY <1>2, <1>21, <1>25, <2>2, <3>1
  <2> QED BY <2>1, <2>2
<1>29. Congruent(B * Value(r), x * y, p)
  <2>1. CASE Value(r) = V
    <3>1. k \in Int /\ B * Value(r) = x * y + p * k
      BY <1>18, <2>1
    <3> QED BY <3>1 DEF Congruent
  <2>2. CASE Value(r) = V - p
    <3>1. B * (V - p) = B * V - p * B /\ p * (k - B) = p * k - p * B
      OBVIOUS
    <3>2. PICK u1 \in Int, u2 \in Int, u3 \in Int, u4 \in Int : u1 = p * B /\ u2 = p * k /\ u3 = B * V /\ u4 = x * y
      OBVIOUS
    <3>3. B * (V - p) = x * y + p * (k - B)
      BY <1>18, <3>1, <3>2
    <3>4. k - B \in Int /\ B * Value(r) = x * y + p * (k - B)
      BY <2>2, <3>3
    <3> QED BY <3>4 DEF Congruent
  <2> QED BY <1>28, <2>1, <2>2
<1> QED BY <1>2, <1>23, <1>28, <1>29

-----------------------------------------------------------------------------
(* Barrett's estimate over the integers: the number is D*h + l, the        *)
(* quotient of D*E by the modulus is mu, the estimate that of h*mu by E.   *)
Estimated(D, h, l, q, p) ==
  0 <= (D * h + l) - q * p /\ (D * h + l) - q * p < 3 * p

(* The estimate is at most two multiples too small.                        *)
LEMMA BarrettEstimate ==
  ASSUME NEW D \in Nat, NEW E \in Nat, E > 0, NEW p \in Nat, D <= p, p > 0,
         NEW mu \in Nat, NEW s \in Nat, s < p, D * E = p * mu + s,
         NEW h \in Nat, h < E, NEW l \in Nat, l < D,
         NEW q \in Nat, NEW t \in Nat, t < E, h * mu = E * q + t
  PROVE  Estimated(D, h, l, q, p)
<1>1. PICK z \in Int : z = D * h - q * p
  OBVIOUS
<1>2. E * z = h * s + t * p
  <2>1. E * (D * h - q * p) = (D * E) * h - (E * q) * p
    OBVIOUS
  <2>2. (p * mu + s) * h = (h * mu) * p + h * s
    OBVIOUS
  <2>3. (h * mu - t) * p = (h * mu) * p - t * p
    OBVIOUS
  <2>4. E * q = h * mu - t
    <3>1. PICK u \in Int, v \in Int : u = h * mu /\ v = E * q
      OBVIOUS
    <3> QED BY <3>1
  <2>5. E * z = (p * mu + s) * h - (h * mu - t) * p
    BY <1>1, <2>1, <2>4
  <2>6. PICK u \in Int, v \in Int, w \in Int : u = (h * mu) * p /\ v = h * s /\ w = t * p
    OBVIOUS
  <2> QED BY <2>2, <2>3, <2>5, <2>6
<1>3. PICK u \in Int, v \in Int, w \in Int : u = h * s /\ v = t * p /\ w = E * p
  OBVIOUS
<1>4. 0 <= u /\ u < w
  <2>1. h * s < E * p /\ h * s \in Nat
    BY ProductBelow
  <2> QED BY <1>3, <2>1
<1>5. 0 <= v /\ v < w
  <2>1. (E - t) * p >= 1 * p
    <3>1. p * (E - t) >= p
      BY AtLeastItself
    <3>2. p * (E - t) = (E - t) * p
      OBVIOUS
    <3> QED BY <3>1, <3>2
  <2>2. (E - t) * p = E * p - t * p
    OBVIOUS
  <2>3. t * p >= 0
    OBVIOUS
  <2> QED BY <1>3, <2>1, <2>2, <2>3
<1>6. E * z >= 0 /\ E * z < 2 * w
  BY <1>2, <1>3, <1>4, <1>5
<1>7. z >= 0
  <2>1. ASSUME z < 0 PROVE FALSE
    <3>1. E * (0 - z) >= E
      BY <2>1, AtLeastItself
    <3>2. E * (0 - z) = 0 - E * z
      OBVIOUS
    <3>3. PICK y \in Int : y = E * z
      OBVIOUS
    <3> QED BY <1>6, <3>1, <3>2, <3>3
  <2> QED BY <2>1
<1>8. z < 2 * p
  <2>1. ASSUME z >= 2 * p PROVE FALSE
    <3>1. E * (z - 2 * p) >= 0
      BY <2>1
    <3>2. E * (z - 2 * p) = E * z - 2 * (E * p)
      OBVIOUS
    <3>3. PICK y \in Int : y = E * z
      OBVIOUS
    <3> QED BY <1>3, <1>6, <3>1, <3>2, <3>3
  <2> QED BY <2>1
<1>9. PICK y \in Int, x \in Int : y = D * h /\ x = q * p
  OBVIOUS
<1> QED BY <1>1, <1>7, <1>8, <1>9 DEF Estimated

(* A carry stands for nothing or for the number above the words.           *)
LEMMA CarryCases ==
  ASSUME NEW W \in Nat, NEW c \in {0, 1}
  PROVE  (c = 0 /\ W * c = 0) \/ (c = 1 /\ W * c = W)
OBVIOUS

(* The rest of a number below three times the modulus.                     *)
LEMMA RestBelow ==
  ASSUME NEW p \in Nat, NEW v \in Nat
  PROVE  /\ v < p => v % p = v
         /\ p <= v /\ v < 2 * p => v % p = v - p
         /\ 2 * p <= v /\ v < 3 * p => v % p = v - 2 * p
<1>1. ASSUME v < p PROVE v % p = v
  BY <1>1
<1>2. ASSUME p <= v, v < 2 * p PROVE v % p = v - p
  <2>1. PICK w \in 0..p-1 : w = v - p
    BY <1>2
  <2>2. (1 * p + w) % p = w
    BY <1>2, QuotientAndRest
  <2>3. v = 1 * p + w
    BY <2>1
  <2> QED BY <2>1, <2>2, <2>3
<1>3. ASSUME 2 * p <= v, v < 3 * p PROVE v % p = v - 2 * p
  <2>1. PICK w \in 0..p-1 : w = v - 2 * p
    BY <1>3
  <2>2. (2 * p + w) % p = w
    BY <1>3, QuotientAndRest
  <2>3. v = 2 * p + w
    BY <2>1
  <2> QED BY <2>1, <2>2, <2>3
<1> QED BY <1>1, <1>2, <1>3

(* A number below three times the modulus, reduced by at most two of its   *)
(* subtractions, as the borrows of the two tell.                           *)
TwiceReduced(a0, m) ==
  LET a1 == bi_subtract_var(a0, m)
      a2 == bi_subtract_var(a1.res, m)
  IN IF a2.carry = 1 THEN a1.res ELSE IF a1.carry = 0 THEN a2.res ELSE a0

(* TODO                                                                    *)
LEMMA TwoSubtractions ==
  ASSUME ExactWords, NEW n \in Nat, NEW a0 \in Bigs(n), NEW m \in Bigs(n), NEW v \in Nat, NEW p \in Nat,
         v = Value(a0), p = Value(m), v < 3 * p, 3 * p <= PowerOf(Base, n)
  PROVE  TwiceReduced(a0, m) \in Bigs(n) /\ Value(TwiceReduced(a0, m)) = v % p
<1>1. PICK W \in Nat : W = PowerOf(Base, n)
  BY PowerNat
<1>2. PICK a1 : a1 = bi_subtract_var(a0, m)
  OBVIOUS
<1>3. PICK a2 : a2 = bi_subtract_var(a1.res, m)
  OBVIOUS
<1>4. /\ a1.res \in Bigs(n) /\ a1.carry \in {0, 1} /\ Value(a1.res) - W * a1.carry = v - p
  BY <1>1, <1>2, DifferenceAt
<1>5. /\ a2.res \in Bigs(n) /\ a2.carry \in {0, 1} /\ Value(a2.res) - W * a2.carry = Value(a1.res) - p
  BY <1>1, <1>3, <1>4, DifferenceAt
<1>6. PICK v1 \in Nat, v2 \in Nat : v1 = Value(a1.res) /\ v2 = Value(a2.res) /\ v1 < W /\ v2 < W
  BY <1>1, <1>4, <1>5, ValueIsNat, ValueBound
<1>7. /\ (a1.carry = 0 /\ v1 = v - p) \/ (a1.carry = 1 /\ v1 = v - p + W)
      /\ (a2.carry = 0 /\ v2 = v1 - p) \/ (a2.carry = 1 /\ v2 = v1 - p + W)
  <2>1. \A c \in {0, 1} : (c = 0 /\ W * c = 0) \/ (c = 1 /\ W * c = W)
    BY CarryCases
  <2>2. (a1.carry = 0 /\ v1 = v - p) \/ (a1.carry = 1 /\ v1 = v - p + W)
    <3>1. PICK c \in {0, 1}, u \in Int : c = a1.carry /\ u = W * c
      BY <1>4
    <3>2. v1 - u = v - p
      BY <1>4, <1>6, <3>1
    <3> QED BY <2>1, <3>1, <3>2
  <2>3. (a2.carry = 0 /\ v2 = v1 - p) \/ (a2.carry = 1 /\ v2 = v1 - p + W)
    <3>1. PICK c \in {0, 1}, u \in Int : c = a2.carry /\ u = W * c
      BY <1>5
    <3>2. v2 - u = v1 - p
      BY <1>5, <1>6, <3>1
    <3> QED BY <2>1, <3>1, <3>2
  <2> QED BY <2>2, <2>3
<1>8. p > 0 /\ 3 * p <= W
  BY <1>1
<1> DEFINE chosen == IF a2.carry = 1 THEN a1.res ELSE IF a1.carry = 0 THEN a2.res ELSE a0
<1>9. \/ chosen = a0 /\ v < p
      \/ chosen = a1.res /\ v1 = v - p /\ p <= v /\ v < 2 * p
      \/ chosen = a2.res /\ v2 = v - 2 * p /\ 2 * p <= v
  BY <1>6, <1>7, <1>8
<1> HIDE DEF chosen
<1>a. chosen = IF a2.carry = 1 THEN a1.res ELSE IF a1.carry = 0 THEN a2.res ELSE a0
  BY DEF chosen
<1>b. TwiceReduced(a0, m) = chosen
  BY <1>2, <1>3, Zenon DEF TwiceReduced, chosen
<1>10. CASE chosen = a0 /\ v < p
  <2>1. v % p = v
    BY <1>10, RestBelow
  <2> QED BY <1>b, <1>10, <2>1
<1>11. CASE chosen = a1.res /\ v1 = v - p /\ p <= v /\ v < 2 * p
  <2>1. v % p = v - p
    BY <1>11, RestBelow
  <2> QED BY <1>b, <1>4, <1>6, <1>11, <2>1
<1>12. CASE chosen = a2.res /\ v2 = v - 2 * p /\ 2 * p <= v
  <2>1. v % p = v - 2 * p
    BY <1>12, RestBelow
  <2> QED BY <1>b, <1>5, <1>6, <1>12, <2>1
<1> QED BY <1>9, <1>10, <1>11, <1>12

(* Quotient and rest by a positive number.                                 *)
LEMMA Divided ==
  ASSUME NEW p \in Nat, p > 0, NEW x \in Int
  PROVE  x \div p \in Int /\ x % p \in 0..p-1 /\ x = p * (x \div p) + (x % p)
<1>1. x % p \in 0..p-1
  OBVIOUS
<1>2. x = p * (x \div p) + (x % p)
  OBVIOUS
<1> QED BY <1>1, <1>2

(* A multiple of the modulus more leaves the rest.                         *)
LEMMA SameRest ==
  ASSUME NEW p \in Nat, p > 0, NEW x \in Int, NEW y \in Int, Congruent(x, y, p)
  PROVE  x % p = y % p
<1>1. PICK k \in Int : x = y + p * k
  BY DEF Congruent
<1>2. PICK q \in Int, r \in 0..p-1 : q = y \div p /\ r = y % p /\ y = p * q + r
  BY Divided
<1>3. p * q + p * k = (q + k) * p
  OBVIOUS
<1>4. x = (q + k) * p + r
  BY <1>1, <1>2, <1>3
<1>5. ((q + k) * p + r) % p = r
  BY QuotientAndRest
<1> QED BY <1>2, <1>4, <1>5

(* A zero word on top.                                                     *)
LEMMA ZeroOnTop ==
  ASSUME NEW n \in Nat, NEW a \in Bigs(n)
  PROVE  Append(a, 0) \in Bigs(n + 1) /\ Value(Append(a, 0)) = Value(a)
<1>1. 0 \in Word
  BY BaseFacts DEF Word
<1>2. <<0>> \in Bigs(1) /\ Value(<<0>>) = 0
  BY <1>1, OneWord
<1>3. a \o <<0>> \in Bigs(n + 1) /\ Value(a \o <<0>>) = Value(a) + PowerOf(Base, n) * 0
  BY <1>2, ValueConcat
<1>4. PICK W \in Nat, v \in Nat : W = PowerOf(Base, n) /\ v = Value(a)
  BY PowerNat, ValueIsNat
<1>5. v + W * 0 = v
  OBVIOUS
<1>6. Append(a, 0) = a \o <<0>>
  <2>1. a \in Seq(Word)
    BY BigLen
  <2> QED BY <2>1
<1> QED BY <1>3, <1>4, <1>5, <1>6

(* A word has at least two bits.                                           *)
LEMMA FourInWord == Base >= 4
<1>1. PICK k \in Nat : BITS_PER_WORD = k + 2
  <2>1. BITS_PER_WORD \in Nat /\ BITS_PER_WORD >= 2
    BY WordsAssumption
  <2>2. BITS_PER_WORD - 2 \in Nat /\ BITS_PER_WORD = (BITS_PER_WORD - 2) + 2
    BY <2>1
  <2> QED BY <2>2
<1>2. /\ PowerOf(2, k) \in Nat /\ PowerOf(2, k) >= 1 /\ PowerOf(2, k + 1) = 2 * PowerOf(2, k)
      /\ PowerOf(2, (k + 1) + 1) = 2 * PowerOf(2, k + 1)
  BY PowerLaws, PowerMonotone
<1>3. (k + 1) + 1 = BITS_PER_WORD
  BY <1>1
<1> QED BY <1>2, <1>3 DEF Base

(* The powers that Barrett's reduction divides by.                         *)
BarrettPowers(D, E) ==
  /\ D = PowerOf(Base, BI_WORDS - 1) /\ E = PowerOf(Base, BI_WORDS + 1)
  /\ D * E = R * R /\ D >= 1 /\ 4 * R <= E

(* These powers of the base multiply as they should.                       *)
LEMMA BarrettPowersAre ==
  \E D, E \in Nat : BarrettPowers(D, E)
<1>1. PICK n \in Nat : n = BI_WORDS /\ n - 1 \in Nat /\ (n - 1) + (n + 1) = 2 * n
  BY WordsAssumption
<1>2. PICK D \in Nat, E \in Nat : D = PowerOf(Base, n - 1) /\ E = PowerOf(Base, n + 1) /\ D >= 1
  <2>1. PowerOf(Base, n - 1) \in Nat /\ PowerOf(Base, n - 1) >= 1
    BY <1>1, PowerNat
  <2>2. PowerOf(Base, n + 1) \in Nat
    BY <1>1, PowerNat
  <2> QED BY <2>1, <2>2
<1>3. PowerOf(Base, (n - 1) + (n + 1)) = D * E
  BY <1>1, <1>2, BaseFacts, PowerAdd
<1>4. D * E = R * R
  BY <1>1, <1>3, Squares
<1>5. E = Base * R /\ R \in Nat
  <2>1. PowerOf(Base, n + 1) = Base * PowerOf(Base, n)
    BY BaseFacts, PowerLaws
  <2> QED BY <1>1, <1>2, <2>1, BigFacts DEF R
<1>6. 4 * R <= E
  <2>1. PICK B \in Nat, r \in Nat : B = Base /\ r = R /\ B >= 4
    BY <1>5, BaseFacts, FourInWord
  <2>2. r * (B - 4) >= 0
    BY <2>1
  <2>3. r * (B - 4) = B * r - 4 * r
    OBVIOUS
  <2>4. PICK y \in Int : y = B * r
    OBVIOUS
  <2> QED BY <1>5, <2>1, <2>2, <2>3, <2>4
<1> QED BY <1>1, <1>2, <1>4, <1>6 DEF BarrettPowers

(* Of two numbers below E that differ by a multiple of it.                 *)
LEMMA SameBelow ==
  ASSUME NEW E \in Nat, NEW x \in Nat, NEW y \in Nat, x < E, y < E, NEW k \in Int, x = y + E * k
  PROVE  x = y
<1>1. k \in Int /\ x = y + E * k
  OBVIOUS
<1>2. Congruent(x, y, E)
  BY <1>1 DEF Congruent
<1> QED BY <1>2, Unique

(* A product of n and m words, without its lowest f words and cut to them. *)
LEMMA ProductParts ==
  ASSUME ExactProducts, NEW n \in Nat, NEW m \in Nat, NEW a \in Bigs(n), NEW b \in Bigs(m), NEW f \in 0..n+m
  PROVE  LET q == bi_multiply_var(a, b) IN
         /\ SubSeq(q, 1, f) \in Bigs(f) /\ SubSeq(q, f + 1, n + m) \in Bigs((n + m) - f)
         /\ Value(a) * Value(b) = Value(SubSeq(q, 1, f)) + PowerOf(Base, f) * Value(SubSeq(q, f + 1, n + m))
<1>1. IsProduct(bi_multiply_var(a, b), a, b, n, m)
  BY DEF ExactProducts
<1>2. PICK q \in Bigs(n + m) : q = bi_multiply_var(a, b) /\ Value(q) = Value(a) * Value(b)
  BY <1>1 DEF IsProduct
<1>3. n + m \in Nat
  OBVIOUS
<1>4. /\ SubSeq(q, 1, f) \in Bigs(f) /\ SubSeq(q, f + 1, n + m) \in Bigs((n + m) - f)
      /\ Value(q) = Value(SubSeq(q, 1, f)) + PowerOf(Base, f) * Value(SubSeq(q, f + 1, n + m))
  BY <1>3, CutValue
<1> QED BY <1>2, <1>4, Zenon

(* What Barrett's reduction leaves before its two subtractions.            *)
BarrettRest(a, mod, mu) ==
  LET n == BI_WORDS + 1
      q == bi_multiply_var(SubSeq(a, BI_WORDS, 2 * BI_WORDS), mu)
      qp == bi_multiply_var(SubSeq(q, n + 1, 2 * n), mod)
  IN bi_subtract_var(SubSeq(a, 1, n), SubSeq(qp, 1, n)).res
(* It is the number without some multiple of the modulus, and below three  *)
(* times the modulus.                                                      *)
BarrettLeaves(r, a, p) ==
  /\ r \in Bigs(BI_WORDS + 1) /\ Congruent(Value(r), Value(a), p) /\ Value(r) < 3 * p

(* Barrett's estimate leaves such a rest: the number is below the square of*)
(* R, and the words that the estimate leaves out are below the modulus.    *)
LEMMA BarrettRestIs ==
  ASSUME ExactWords, ExactProducts, NEW mod \in Elements, Value(mod) >= PowerOf(Base, BI_WORDS - 1),
         NEW mu \in Bigs(BI_WORDS + 1), Value(mu) = (R * R) \div Value(mod),
         NEW a \in Bigs(2 * BI_WORDS)
  PROVE  BarrettLeaves(BarrettRest(a, mod, mu), a, Value(mod))
<1>1. PICK D \in Nat, E \in Nat : BarrettPowers(D, E)
  BY BarrettPowersAre
<1>2. PICK N \in Nat : N = BI_WORDS /\ N >= 1
  BY WordsAssumption
<1>3. PICK n \in Nat : n = N + 1 /\ n = BI_WORDS + 1
  BY <1>2
<1>4. PICK p \in Nat : p = Value(mod) /\ p >= D /\ p > 0 /\ p < R /\ R \in Nat /\ R > 0
  BY <1>1, BigFacts DEF BarrettPowers
<1>5. PICK M \in Nat : M = Value(mu)
  BY <1>3, ValueIsNat
<1>6. PICK s \in Nat : s < p /\ D * E = p * M + s
  <2>1. R * R \in Nat
    BY Squares
  <2>2. (R * R) % p \in 0..p-1 /\ R * R = p * ((R * R) \div p) + ((R * R) % p)
    BY <1>4, <2>1, Divided
  <2>3. PICK s \in Nat : s = (R * R) % p /\ s < p
    BY <2>2
  <2> QED BY <1>1, <1>4, <1>5, <2>2, <2>3 DEF BarrettPowers
<1>7. PICK h \in Nat, l \in Nat :
        /\ h = Value(SubSeq(a, BI_WORDS, 2 * BI_WORDS)) /\ SubSeq(a, BI_WORDS, 2 * BI_WORDS) \in Bigs(n)
        /\ Value(a) = D * h + l /\ l < D /\ h < E
  <2>1. N - 1 \in 0..2*N /\ (N - 1) + 1 = N /\ 2 * N - (N - 1) = n /\ N - 1 \in Nat /\ 2 * N \in Nat
    BY <1>2, <1>3
  <2>2. /\ SubSeq(a, 1, N - 1) \in Bigs(N - 1) /\ SubSeq(a, (N - 1) + 1, 2 * N) \in Bigs(2 * N - (N - 1))
        /\ Value(a) = Value(SubSeq(a, 1, N - 1)) + PowerOf(Base, N - 1) * Value(SubSeq(a, (N - 1) + 1, 2 * N))
    BY <1>2, <2>1, CutValue
  <2>3. PICK h \in Nat : h = Value(SubSeq(a, N, 2 * N)) /\ h < PowerOf(Base, n)
    BY <2>1, <2>2, ValueIsNat, ValueBound
  <2>4. PICK l \in Nat : l = Value(SubSeq(a, 1, N - 1)) /\ l < PowerOf(Base, N - 1)
    BY <2>1, <2>2, ValueIsNat, ValueBound
  <2>5. D = PowerOf(Base, N - 1) /\ E = PowerOf(Base, n)
    BY <1>1, <1>2, <1>3 DEF BarrettPowers
  <2>6. Value(a) = l + D * h
    BY <2>1, <2>2, <2>3, <2>4, <2>5
  <2>7. Value(a) = D * h + l
    <3>1. PICK u \in Int : u = D * h
      OBVIOUS
    <3> QED BY <2>6, <3>1
  <2> QED BY <1>2, <2>1, <2>2, <2>3, <2>4, <2>5, <2>7
<1>8. PICK q : q = bi_multiply_var(SubSeq(a, BI_WORDS, 2 * BI_WORDS), mu)
  OBVIOUS
<1>9. PICK e \in Nat, t \in Nat :
        /\ e = Value(SubSeq(q, n + 1, 2 * n)) /\ SubSeq(q, n + 1, 2 * n) \in Bigs(n)
        /\ h * M = E * e + t /\ t < E
  <2>1. n \in 0..n+n /\ (n + n) - n = n /\ n + n = 2 * n /\ mu \in Bigs(n)
    BY <1>3
  <2>2. /\ SubSeq(q, 1, n) \in Bigs(n) /\ SubSeq(q, n + 1, n + n) \in Bigs((n + n) - n)
        /\ h * M = Value(SubSeq(q, 1, n)) + PowerOf(Base, n) * Value(SubSeq(q, n + 1, n + n))
    BY <1>5, <1>7, <1>8, <2>1, ProductParts
  <2>3. PICK e \in Nat : e = Value(SubSeq(q, n + 1, 2 * n))
    BY <2>1, <2>2, ValueIsNat
  <2>4. PICK t \in Nat : t = Value(SubSeq(q, 1, n)) /\ t < PowerOf(Base, n)
    BY <2>2, ValueIsNat, ValueBound
  <2>5. E = PowerOf(Base, n)
    BY <1>1, <1>3 DEF BarrettPowers
  <2>6. h * M = t + E * e
    BY <2>1, <2>2, <2>3, <2>4, <2>5
  <2>7. h * M = E * e + t
    <3>1. PICK u \in Int : u = E * e
      OBVIOUS
    <3> QED BY <2>6, <3>1
  <2> QED BY <2>1, <2>2, <2>3, <2>4, <2>5, <2>7
<1>10. 0 <= (D * h + l) - e * p /\ (D * h + l) - e * p < 3 * p
  <2>1. D <= p /\ E > 0 /\ h < E /\ l < D /\ s < p /\ t < E
    <3>1. E > 0
      BY <1>1, <1>4 DEF BarrettPowers
    <3> QED BY <1>4, <1>6, <1>7, <1>9, <3>1
  <2>2. Estimated(D, h, l, e, p)
    BY <1>4, <1>6, <1>9, <2>1, BarrettEstimate
  <2> QED BY <2>2 DEF Estimated
<1>11. PICK qp : qp = bi_multiply_var(SubSeq(q, n + 1, 2 * n), mod)
  OBVIOUS
<1>12. PICK low \in Nat, top \in Nat :
        /\ low = Value(SubSeq(qp, 1, n)) /\ SubSeq(qp, 1, n) \in Bigs(n)
        /\ e * p = low + E * top
  <2>1. n \in 0..n+N /\ (n + N) - n = N /\ mod \in Bigs(N)
    BY <1>2, <1>3 DEF Elements
  <2>2. /\ SubSeq(qp, 1, n) \in Bigs(n) /\ SubSeq(qp, n + 1, n + N) \in Bigs((n + N) - n)
        /\ e * p = Value(SubSeq(qp, 1, n)) + PowerOf(Base, n) * Value(SubSeq(qp, n + 1, n + N))
    BY <1>4, <1>9, <1>11, <2>1, ProductParts
  <2>3. Value(SubSeq(qp, n + 1, n + N)) \in Nat /\ Value(SubSeq(qp, 1, n)) \in Nat
    BY <2>1, <2>2, ValueIsNat
  <2>5. E = PowerOf(Base, n)
    BY <1>1, <1>3 DEF BarrettPowers
  <2> QED BY <2>2, <2>3, <2>5
<1>13. PICK alow \in Nat, atop \in Nat :
        /\ alow = Value(SubSeq(a, 1, n)) /\ SubSeq(a, 1, n) \in Bigs(n)
        /\ Value(a) = alow + E * atop
  <2>1. n \in 0..2*N /\ 2 * N \in Nat /\ 2 * N - n \in Nat /\ a \in Bigs(2 * N)
    BY <1>2, <1>3, WordsAssumption
  <2>2. /\ SubSeq(a, 1, n) \in Bigs(n) /\ SubSeq(a, n + 1, 2 * N) \in Bigs(2 * N - n)
        /\ Value(a) = Value(SubSeq(a, 1, n)) + PowerOf(Base, n) * Value(SubSeq(a, n + 1, 2 * N))
    BY <2>1, CutValue
  <2>3. Value(SubSeq(a, n + 1, 2 * N)) \in Nat /\ Value(SubSeq(a, 1, n)) \in Nat
    BY <2>1, <2>2, ValueIsNat
  <2>5. E = PowerOf(Base, n)
    BY <1>1, <1>3 DEF BarrettPowers
  <2> QED BY <2>2, <2>3, <2>5
<1>14. PICK d : d = bi_subtract_var(SubSeq(a, 1, n), SubSeq(qp, 1, n))
  OBVIOUS
<1>15. PICK v \in Nat, c \in {0, 1} :
         d.res \in Bigs(n) /\ v = Value(d.res) /\ v < E /\ v - E * c = alow - low
  <2>1. d.res \in Bigs(n) /\ d.carry \in {0, 1} /\ Value(d.res) - PowerOf(Base, n) * d.carry = alow - low
    BY <1>12, <1>13, <1>14, DifferenceAt
  <2>2. Value(d.res) \in Nat /\ Value(d.res) < PowerOf(Base, n)
    BY <2>1, ValueIsNat, ValueBound
  <2>5. E = PowerOf(Base, n)
    BY <1>1, <1>3 DEF BarrettPowers
  <2> QED BY <2>1, <2>2, <2>5
<1>16. PICK z \in Nat : z = Value(a) - e * p /\ z < 3 * p
  <2>1. PICK u \in Int, w \in Int : u = D * h /\ w = e * p
    OBVIOUS
  <2> QED BY <1>7, <1>10, <2>1
<1>17. z < E
  BY <1>1, <1>4, <1>16 DEF BarrettPowers
<1>18. z = v + E * (atop - top - c)
  <2>1. E * (atop - top - c) = E * atop - E * top - E * c
    OBVIOUS
  <2>2. PICK u \in Int, w \in Int, y \in Int : u = E * atop /\ w = E * top /\ y = E * c
    OBVIOUS
  <2> QED BY <1>12, <1>13, <1>15, <1>16, <2>1, <2>2
<1>19. z = v
  <2>1. atop - top - c \in Int
    OBVIOUS
  <2> QED BY <1>15, <1>17, <1>18, <2>1, SameBelow
<1>20. Congruent(v, Value(a), p)
  <2>1. v = Value(a) + p * (-e)
    <3>1. p * (-e) = - (e * p)
      OBVIOUS
    <3>2. PICK w \in Int : w = e * p
      OBVIOUS
    <3> QED BY <1>13, <1>16, <1>19, <3>1, <3>2
  <2>2. -e \in Int
    OBVIOUS
  <2> QED BY <2>1, <2>2 DEF Congruent
<1>21. BarrettRest(a, mod, mu) = d.res
  BY <1>3, <1>8, <1>11, <1>14, Zenon DEF BarrettRest
<1> QED BY <1>3, <1>4, <1>15, <1>16, <1>19, <1>20, <1>21 DEF BarrettLeaves

(* Barrett's reduction and the product that uses it: for every number of   *)
(* two lengths and every modulus whose highest word is not zero, two       *)
(* subtractions are enough, and the borrows say which of three numbers is  *)
(* the rest.                                                               *)
THEOREM BarrettIsExact ==
  ASSUME ExactWords, ExactProducts, NEW mod \in Elements, Value(mod) >= PowerOf(Base, BI_WORDS - 1),
         NEW mu \in Bigs(BI_WORDS + 1), Value(mu) = (R * R) \div Value(mod)
  PROVE  /\ \A a \in Bigs(2 * BI_WORDS) :
              LET r == fp_rdc_2l_std(a, mod, mu) IN r \in Elements /\ Value(r) = Value(a) % Value(mod)
         /\ \A a, b \in Elements :
              LET r == fp_mul_std(a, b, mod, mu) IN
              r \in Elements /\ Value(r) = (Value(a) * Value(b)) % Value(mod)
<1>1. ASSUME NEW a \in Bigs(2 * BI_WORDS)
      PROVE  /\ fp_rdc_2l_std(a, mod, mu) \in Elements
             /\ Value(fp_rdc_2l_std(a, mod, mu)) = Value(a) % Value(mod)
  <2>1. PICK D \in Nat, E \in Nat : BarrettPowers(D, E)
    BY BarrettPowersAre
  <2>2. PICK N \in Nat : N = BI_WORDS /\ N + 1 = BI_WORDS + 1
    BY WordsAssumption
  <2>3. PICK p \in Nat : p = Value(mod) /\ p > 0 /\ p < R /\ R \in Nat /\ 3 * p <= E
    BY <2>1, BigFacts DEF BarrettPowers
  <2>4. PICK r \in Bigs(N + 1), v \in Nat :
          r = BarrettRest(a, mod, mu) /\ v = Value(r) /\ v < 3 * p /\ Congruent(v, Value(a), p)
    <3>1. BarrettLeaves(BarrettRest(a, mod, mu), a, p)
      BY <2>3, BarrettRestIs
    <3>2. BarrettRest(a, mod, mu) \in Bigs(N + 1)
      BY <2>2, <3>1 DEF BarrettLeaves
    <3>3. Value(BarrettRest(a, mod, mu)) \in Nat
      BY <3>2, ValueIsNat
    <3> QED BY <3>1, <3>2, <3>3 DEF BarrettLeaves
  <2>5. PICK m \in Bigs(N + 1) : m = Append(mod, 0) /\ Value(m) = p
    BY <2>2, <2>3, ZeroOnTop DEF Elements
  <2>6. PICK w \in Bigs(N + 1) : w = TwiceReduced(r, m) /\ Value(w) = v % p
    <3>1. N + 1 \in Nat /\ 3 * p <= PowerOf(Base, N + 1)
      BY <2>1, <2>2, <2>3 DEF BarrettPowers
    <3> QED BY <2>4, <2>5, <3>1, TwoSubtractions
  <2>7. v % p = Value(a) % p /\ v % p \in Nat /\ v % p < p
    <3>1. 2 * BI_WORDS \in Nat
      BY <2>2
    <3>2. Value(a) \in Nat
      BY <3>1, ValueIsNat
    <3>3. v % p = Value(a) % p
      <4>1. PICK x \in Int : x = Value(a)
        BY <3>2
      <4>2. Congruent(v, x, p)
        BY <2>4, <4>1
      <4>3. v % p = x % p
        <5>1. v \in Int /\ p > 0 /\ p \in Nat
          BY <2>3
        <5> QED BY <4>2, <5>1, SameRest, Zenon
      <4> QED BY <4>1, <4>3
    <3>4. v % p \in 0..p-1
      BY <2>3, Divided
    <3> QED BY <2>3, <3>3, <3>4
  <2>8. SubSeq(w, 1, N) \in Bigs(N) /\ Value(SubSeq(w, 1, N)) = v % p
    <3>1. N \in 0..N+1 /\ N + 1 \in Nat /\ (N + 1) - N = 1
      OBVIOUS
    <3>2. /\ SubSeq(w, 1, N) \in Bigs(N) /\ SubSeq(w, N + 1, N + 1) \in Bigs((N + 1) - N)
          /\ Value(w) = Value(SubSeq(w, 1, N)) + PowerOf(Base, N) * Value(SubSeq(w, N + 1, N + 1))
      BY <3>1, CutValue
    <3>3. PICK x \in Nat, y \in Nat : x = Value(SubSeq(w, 1, N)) /\ y = Value(SubSeq(w, N + 1, N + 1))
      BY <3>1, <3>2, ValueIsNat
    <3>4. PICK B \in Nat : B = R /\ B = PowerOf(Base, N)
      BY <2>2, <2>3 DEF R
    <3>5. v % p = x + B * y /\ v % p < B
      BY <2>3, <2>6, <2>7, <3>2, <3>3, <3>4
    <3>6. ~ (y >= 1)
      <4>1. ASSUME y >= 1 PROVE FALSE
        <5>1. B * y >= B
          BY <4>1, AtLeastItself
        <5>2. PICK u \in Int : u = B * y
          OBVIOUS
        <5> QED BY <3>5, <5>1, <5>2
      <4> QED BY <4>1
    <3>7. B * 0 = 0 /\ y = 0
      BY <3>6
    <3> QED BY <3>2, <3>3, <3>5, <3>7
  <2>9. fp_rdc_2l_std(a, mod, mu) = SubSeq(w, 1, N)
    <3>1. fp_rdc_2l_std(a, mod, mu) = SubSeq(TwiceReduced(BarrettRest(a, mod, mu), Append(mod, 0)), 1, BI_WORDS)
      BY Zenon DEF fp_rdc_2l_std, TwiceReduced, BarrettRest
    <3> QED BY <2>2, <2>4, <2>5, <2>6, <3>1, Zenon
  <2> QED BY <2>2, <2>3, <2>7, <2>8, <2>9 DEF Elements
<1>2. ASSUME NEW a \in Elements, NEW b \in Elements
      PROVE  /\ fp_mul_std(a, b, mod, mu) \in Elements
             /\ Value(fp_mul_std(a, b, mod, mu)) = (Value(a) * Value(b)) % Value(mod)
  <2>1. PICK n \in Nat : n = BI_WORDS /\ n + n = 2 * BI_WORDS
    BY BigFacts
  <2>2. PICK t \in Bigs(2 * BI_WORDS) : t = bi_multiply_var(a, b) /\ Value(t) = Value(a) * Value(b)
    <3>1. IsProduct(bi_multiply_var(a, b), a, b, n, n)
      BY <2>1 DEF ExactProducts, Elements
    <3> QED BY <2>1, <3>1 DEF IsProduct
  <2>3. fp_mul_std(a, b, mod, mu) = fp_rdc_2l_std(t, mod, mu)
    BY <2>2 DEF fp_mul_std
  <2> QED BY <1>1, <2>2, <2>3
<1> QED BY <1>1, <1>2

-----------------------------------------------------------------------------
(* A loop whose state stays, turn by turn, in the sets of inv.             *)
LoopFrom(f, n, x0, op, inv) ==
  /\ f[0] = x0 /\ (\A i \in 0..n : f[i] \in inv[i])
  /\ \A i \in 1..n : f[i] = op[<<i, f[i-1]>>]

(* Such a loop runs if it starts in the first set and each turn leads from *)
(* one set to the next.                                                    *)
LEMMA LoopExists ==
  ASSUME NEW n \in Nat, NEW X, NEW inv \in [0..n -> SUBSET X], NEW x0, x0 \in inv[0], NEW op,
         \A i \in 1..n : \A x \in inv[i-1] : op[<<i, x>>] \in inv[i]
  PROVE  \E f : f \in [0..n -> X] /\ LoopFrom(f, n, x0, op, inv)
<1> DEFINE step == [t \in Nat \X X |-> IF t[1] \in 1..n /\ t[2] \in inv[t[1]-1] THEN op[t] ELSE x0]
<1>1. (\A i \in 0..n : inv[i] \subseteq X) /\ x0 \in X /\ 0 \in 0..n
  OBVIOUS
<1>2. step \in Steps(X)
  <2>1. ASSUME NEW t \in Nat \X X, t[1] \in 1..n, t[2] \in inv[t[1]-1] PROVE op[t] \in X
    <3>1. t = <<t[1], t[2]>> /\ t[1] \in 0..n
      BY <2>1
    <3>2. op[<<t[1], t[2]>>] \in inv[t[1]]
      BY <2>1
    <3> QED BY <1>1, <3>1, <3>2
  <2>2. \A t \in Nat \X X : step[t] \in X
    BY <1>1, <2>1
  <2> QED BY <2>2 DEF Steps
<1>3. ASSUME NEW i \in 1..n, NEW x \in inv[i-1] PROVE step[<<i, x>>] = op[<<i, x>>]
  <2>1. i - 1 \in 0..n /\ i \in Nat
    OBVIOUS
  <2>2. x \in X
    BY <1>1, <2>1
  <2>3. <<i, x>> \in Nat \X X /\ <<i, x>>[1] = i /\ <<i, x>>[2] = x
    BY <2>1, <2>2
  <2> QED BY <2>3, Zenon
<1> HIDE DEF step
<1>4. PICK f : f \in [0..n -> X] /\ f[0] = x0 /\ \A i \in 1..n : f[i] = step[<<i, f[i-1]>>]
  <2>1. PICK f : Iterates(f, n, X, x0, step)
    BY <1>1, <1>2, IteratesExist
  <2> QED BY <2>1, Zenon DEF Iterates
<1> DEFINE T == {i \in 0..n : f[i] \in inv[i]}
<1>5. 0 \in T
  BY <1>1, <1>4
<1>6. ASSUME NEW i \in 1..n, i - 1 \in T PROVE i \in T /\ f[i] = op[<<i, f[i-1]>>]
  <2>1. f[i-1] \in inv[i-1] /\ i \in 0..n
    BY <1>6
  <2>2. f[i] = op[<<i, f[i-1]>>]
    BY <1>3, <1>4, <2>1
  <2> QED BY <2>1, <2>2
<1>7. \A i \in 0..n : i \in T
  <2> HIDE DEF T
  <2> QED BY <1>5, <1>6, UpTo
<1>8. \A i \in 1..n : f[i] = op[<<i, f[i-1]>>]
  <2> TAKE i \in 1..n
  <2>1. i - 1 \in 0..n
    OBVIOUS
  <2> QED BY <1>6, <1>7, <2>1
<1>9. \A i \in 0..n : f[i] \in inv[i]
  BY <1>7
<1> QED BY <1>4, <1>8, <1>9, Zenon DEF LoopFrom

(* What is so at the start and stays so at each turn is so at the end.     *)
LEMMA LoopStays ==
  ASSUME NEW n \in Nat, NEW w, NEW inv, w[0] \in inv[0],
         \A i \in 1..n : w[i-1] \in inv[i-1] => w[i] \in inv[i]
  PROVE  \A i \in 0..n : w[i] \in inv[i]
<1> DEFINE T == {i \in 0..n : w[i] \in inv[i]}
<1>1. 0 \in T
  OBVIOUS
<1>2. ASSUME NEW i \in 1..n, i - 1 \in T PROVE i \in T
  BY <1>2
<1> HIDE DEF T
<1>3. \A i \in 0..n : i \in T
  BY <1>1, <1>2, UpTo
<1> QED BY <1>3 DEF T

(* Repeated subtraction: as long as the modulus fits, at most Base times.  *)
LEMMA BaseTimes ==
  ASSUME NEW p \in Nat, p >= PowerOf(Base, BI_WORDS - 1)
  PROVE  R <= Base * p
<1>1. PICK n \in Nat : n + 1 = BI_WORDS /\ n = BI_WORDS - 1
  <2>1. BI_WORDS - 1 \in Nat /\ (BI_WORDS - 1) + 1 = BI_WORDS
    BY WordsAssumption
  <2> QED BY <2>1
<1>2. PICK D \in Nat, B \in Nat : D = PowerOf(Base, n) /\ B = Base /\ PowerOf(Base, n + 1) = B * D
  <2>1. Base \in Nat
    BY BaseFacts
  <2>2. PowerOf(Base, n) \in Nat /\ PowerOf(Base, n + 1) = Base * PowerOf(Base, n)
    BY <2>1, PowerLaws
  <2> QED BY <2>1, <2>2
<1>3. B * (p - D) >= 0 /\ B * (p - D) = B * p - B * D
  BY <1>1, <1>2
<1>4. PICK u \in Int, v \in Int : u = B * p /\ v = B * D
  OBVIOUS
<1> QED BY <1>1, <1>2, <1>3, <1>4 DEF R

(* One turn of fp_rdc_std.                                                 *)
Subtracted(s, mod) == IF bi_compare_var(s, mod) >= 0 THEN bi_subtract_var(s, mod).res ELSE s
(* After i turns the modulus was taken away i times, or does not fit.      *)
Leaves(s, i, a, p) ==
  /\ s \in Elements
  /\ \E q \in Nat : Value(a) = Value(s) + p * q /\ (Value(s) < p \/ q = i)

(* One turn more: either the modulus is taken away once more, or nothing is*)
(* left to do.                                                             *)
LEMMA SubtractedOnce ==
  ASSUME ExactWords, NEW mod \in Elements, NEW a \in Elements, NEW i \in Nat, NEW s, Leaves(s, i, a, Value(mod))
  PROVE  Leaves(Subtracted(s, mod), i + 1, a, Value(mod))
<1>1. PICK p \in Nat, x \in Nat, y \in Nat : p = Value(mod) /\ x = Value(a) /\ y = Value(s) /\ s \in Elements
  BY BigFacts DEF Leaves
<1>2. PICK q \in Nat : x = y + p * q /\ (y < p \/ q = i)
  BY <1>1 DEF Leaves
<1>3. CASE y < p
  <2>1. Subtracted(s, mod) = s
    BY <1>1, <1>3, CompareCases DEF Subtracted
  <2> QED BY <1>1, <1>2, <1>3, <2>1 DEF Leaves
<1>4. CASE ~ (y < p)
  <2>1. Subtracted(s, mod) = bi_subtract_var(s, mod).res
    BY <1>1, <1>4, CompareCases DEF Subtracted
  <2>2. PICK d : d = bi_subtract_var(s, mod)
    OBVIOUS
  <2>3. d.res \in Elements /\ Value(d.res) = y - p
    <3>1. /\ d.res \in Elements /\ Value(d.res) \in 0..R-1
          /\ \/ d.carry = 0 /\ Value(d.res) = Value(s) - Value(mod)
             \/ d.carry = 1 /\ Value(d.res) = Value(s) - Value(mod) + R
      BY <1>1, <2>2, DifferenceCases
    <3>2. R \in Nat
      BY BigFacts
    <3> QED BY <1>1, <1>4, <3>1, <3>2
  <2>4. x = (y - p) + p * (q + 1) /\ q + 1 = i + 1 /\ q + 1 \in Nat
    <3>1. p * (q + 1) = p * q + p
      OBVIOUS
    <3>2. PICK u \in Int : u = p * q
      OBVIOUS
    <3> QED BY <1>2, <1>4, <3>1, <3>2
  <2> QED BY <1>1, <2>1, <2>2, <2>3, <2>4 DEF Leaves
<1> QED BY <1>3, <1>4

(* fp_rdc_std, which subtracts the modulus as long as it fits, leaves the  *)
(* rest: Base turns are enough, since the modulus fills the highest word.  *)
THEOREM RepeatedSubtractionIsExact ==
  ASSUME ExactWords, NEW mod \in Elements, Value(mod) >= PowerOf(Base, BI_WORDS - 1), NEW a \in Elements
  PROVE  fp_rdc_std(a, mod) \in Elements /\ Value(fp_rdc_std(a, mod)) = Value(a) % Value(mod)
<1>1. PICK n \in Nat, p \in Nat, x \in Nat : n = Base /\ p = Value(mod) /\ x = Value(a)
  BY BaseFacts, BigFacts
<1> DEFINE Is(f) == f = [i \in 0..n |-> IF i = 0 THEN a ELSE Subtracted(f[i-1], mod)]
           inv == [i \in 0..n |-> {s \in Elements : Leaves(s, i, a, p)}]
           op == [t \in (0..n) \X Elements |-> Subtracted(t[2], mod)]
           w == CHOOSE f : Is(f)
<1>2. fp_rdc_std(a, mod) = w[n]
  BY <1>1, Zenon DEF fp_rdc_std, Subtracted
<1>3. Leaves(a, 0, a, p)
  <2>1. x = x + p * 0
    BY <1>1
  <2> QED BY <1>1, <2>1 DEF Leaves
<1>4. ASSUME NEW i \in 1..n, NEW s, Leaves(s, i - 1, a, p) PROVE Leaves(Subtracted(s, mod), i, a, p)
  <2>1. PICK j \in Nat : j = i - 1 /\ j + 1 = i
    <3>1. i - 1 \in Nat /\ (i - 1) + 1 = i
      BY <1>1
    <3> QED BY <3>1
  <2>2. Leaves(Subtracted(s, mod), j + 1, a, Value(mod))
    BY <1>1, <1>4, <2>1, SubtractedOnce
  <2> QED BY <1>1, <2>1, <2>2
<1>5. inv \in [0..n -> SUBSET Elements] /\ a \in inv[0]
  BY <1>1, <1>3
<1>6. ASSUME NEW i \in 1..n, NEW s \in inv[i-1] PROVE op[<<i, s>>] \in inv[i] /\ op[<<i, s>>] = Subtracted(s, mod)
  <2>1. i \in 0..n /\ i - 1 \in 0..n
    BY <1>1
  <2>2. s \in Elements /\ Leaves(s, i - 1, a, p)
    BY <1>6, <2>1
  <2>3. <<i, s>> \in (0..n) \X Elements /\ <<i, s>>[2] = s
    BY <2>1, <2>2
  <2>4. op[<<i, s>>] = Subtracted(s, mod)
    BY <2>3
  <2>5. Leaves(Subtracted(s, mod), i, a, p)
    BY <1>4, <2>2
  <2>6. Subtracted(s, mod) \in Elements
    BY <2>5 DEF Leaves
  <2> HIDE DEF op
  <2> QED BY <2>1, <2>4, <2>5, <2>6
<1>7. PICK f : f \in [0..n -> Elements] /\ LoopFrom(f, n, a, op, inv)
  <2> HIDE DEF inv, op
  <2>1. \A i \in 1..n : \A s \in inv[i-1] : op[<<i, s>>] \in inv[i]
    BY <1>6
  <2>2. \E f : f \in [0..n -> Elements] /\ LoopFrom(f, n, a, op, inv)
    BY <1>1, <1>5, <2>1, LoopExists
  <2> QED BY <2>2
<1>8. Is(f)
  <2>1. f[0] = a /\ (\A i \in 0..n : f[i] \in inv[i]) /\ \A i \in 1..n : f[i] = op[<<i, f[i-1]>>]
    BY <1>7 DEF LoopFrom
  <2> HIDE DEF inv, op
  <2>2. ASSUME NEW i \in 0..n PROVE f[i] = IF i = 0 THEN a ELSE Subtracted(f[i-1], mod)
    <3>1. CASE i = 0
      BY <2>1, <3>1
    <3>2. CASE i # 0
      <4>1. i \in 1..n /\ i - 1 \in 0..n
        BY <1>1, <3>2
      <4>2. f[i] = op[<<i, f[i-1]>>] /\ f[i-1] \in inv[i-1]
        BY <2>1, <4>1
      <4>3. op[<<i, f[i-1]>>] = Subtracted(f[i-1], mod)
        BY <1>6, <4>1, <4>2
      <4> QED BY <3>2, <4>2, <4>3, Zenon
    <3> QED BY <3>1, <3>2
  <2> QED BY <1>7, <2>2
<1>9. Is(w)
  BY <1>8
<1>10. Leaves(w[n], n, a, p)
  <2>1. w[0] = a /\ \A i \in 1..n : w[i] = Subtracted(w[i-1], mod)
    <3> HIDE DEF w
    <3>1. w = [i \in 0..n |-> IF i = 0 THEN a ELSE Subtracted(w[i-1], mod)]
      BY <1>9
    <3> HIDE DEF Is
    <3>2. 0 \in 0..n /\ \A i \in 1..n : i \in 0..n /\ i # 0
      BY <1>1
    <3>3. w[0] = a
      BY <3>1, <3>2
    <3>4. ASSUME NEW i \in 1..n PROVE w[i] = Subtracted(w[i-1], mod)
      <4>1. i \in 0..n /\ i # 0
        BY <3>2
      <4>2. w[i] = IF i = 0 THEN a ELSE Subtracted(w[i-1], mod)
        BY <3>1, <4>1
      <4> QED BY <4>1, <4>2
    <3> QED BY <3>3, <3>4
  <2>2. w[0] \in inv[0]
    BY <1>5, <2>1
  <2>3. ASSUME NEW i \in 1..n, w[i-1] \in inv[i-1] PROVE w[i] \in inv[i]
    <3>1. w[i] = Subtracted(w[i-1], mod)
      BY <2>1
    <3> HIDE DEF w, inv, op
    <3>2. op[<<i, w[i-1]>>] \in inv[i] /\ op[<<i, w[i-1]>>] = Subtracted(w[i-1], mod)
      BY <1>6, <2>3
    <3> QED BY <3>1, <3>2
  <2>4. n \in 0..n
    BY <1>1
  <2> HIDE DEF w
  <2>5. w[n] \in inv[n]
    <3> HIDE DEF inv
    <3>1. \A i \in 0..n : w[i] \in inv[i]
      BY <1>1, <2>2, <2>3, LoopStays
    <3> QED BY <2>4, <3>1
  <2> QED BY <2>4, <2>5
<1> HIDE DEF w
<1>11. PICK y \in Nat, q \in Nat : y = Value(w[n]) /\ w[n] \in Elements /\ x = y + p * q /\ (y < p \/ q = n)
  <2>1. w[n] \in Elements /\ Value(w[n]) \in Nat
    BY <1>10, BigFacts DEF Leaves
  <2> QED BY <1>1, <1>10, <2>1 DEF Leaves
<1>12. y < p
  <2>1. SUFFICES ASSUME ~ (y < p) PROVE FALSE
    OBVIOUS
  <2>2. R <= n * p /\ x < R /\ R \in Nat
    BY <1>1, BaseTimes, BigFacts
  <2>3. p * q = n * p
    BY <1>11, <2>1
  <2>4. PICK u \in Nat : u = p * q
    OBVIOUS
  <2> QED BY <1>11, <2>1, <2>2, <2>3, <2>4
<1>13. x % p = y
  <2>1. p > 0
    BY <1>11, <1>12
  <2> QED BY <1>11, <1>12, <2>1, QuotientAndRest
<1> QED BY <1>1, <1>2, <1>11, <1>13

-----------------------------------------------------------------------------
(* Quotient and rest are what the parts of a number say.                   *)
LEMMA QuotientIs ==
  ASSUME NEW B \in Nat, B > 0, NEW q \in Int, NEW r \in 0..B-1, NEW x, x = B * q + r
  PROVE  x \div B = q /\ x % B = r
<1>1. x = q * B + r
  OBVIOUS
<1> QED BY <1>1, QuotientAndRest

(* Dividing twice is dividing by the product.                              *)
LEMMA DivTwice ==
  ASSUME NEW A \in Nat, A > 0, NEW B \in Nat, B > 0, NEW x \in Nat
  PROVE  A * B \in Nat /\ A * B > 0 /\ x \div A \in Nat /\ (x \div A) \div B = x \div (A * B)
<1>1. PICK q \in Int, r \in 0..A-1 : q = x \div A /\ x = A * q + r
  BY Divided
<1>2. PICK z \in Int, c \in 0..B-1 : z = q \div B /\ q = B * z + c
  BY Divided
<1>3. PICK C \in Nat : C = A * B /\ C > 0
  BY ProductBelow, 0 < A, 0 < B
<1>4. x = C * z + (A * c + r)
  <2>1. A * (B * z + c) = (A * B) * z + A * c
    OBVIOUS
  <2>2. A * q = A * (B * z + c)
    BY <1>2
  <2>3. PICK u \in Int, v \in Int, w \in Int : u = A * q /\ v = (A * B) * z /\ w = A * c
    OBVIOUS
  <2> QED BY <1>1, <1>3, <2>1, <2>2, <2>3
<1>5. A * c + r \in 0..C-1
  <2>1. A * (B - 1 - c) >= 0 /\ A * c >= 0 /\ A * (B - 1 - c) = A * B - A - A * c
    OBVIOUS
  <2>2. PICK u \in Int, v \in Int : u = A * B /\ v = A * c
    OBVIOUS
  <2> QED BY <1>1, <1>3, <2>1, <2>2
<1>6. x \div C = z
  <2>1. PICK s \in 0..C-1 : s = A * c + r
    BY <1>5
  <2> QED BY <1>3, <1>4, <2>1, QuotientIs
<1>7. q >= 0
  <2>1. SUFFICES ASSUME q < 0 PROVE FALSE
    OBVIOUS
  <2>2. A * (0 - q) >= A /\ A * (0 - q) = 0 - A * q
    BY <2>1, AtLeastItself
  <2>3. PICK u \in Int : u = A * q
    OBVIOUS
  <2> QED BY <1>1, <2>2, <2>3
<1> QED BY <1>1, <1>2, <1>3, <1>6, <1>7

(* Powers of two.                                                          *)
LEMMA TwoPower ==
  ASSUME NEW n \in Nat
  PROVE  PowerOf(2, n) \in Nat /\ PowerOf(2, n) > 0 /\ PowerOf(2, n + 1) = 2 * PowerOf(2, n)
<1>1. 2 \in Nat /\ 2 >= 1
  OBVIOUS
<1>2. PowerOf(2, n) >= 1
  BY <1>1, PowerMonotone
<1>3. PowerOf(2, n) \in Nat /\ PowerOf(2, n + 1) = 2 * PowerOf(2, n)
  BY <1>1, PowerLaws
<1> QED BY <1>2, <1>3

(* Powers of two multiply by adding their exponents.                       *)
LEMMA TwoPowerAdd ==
  ASSUME NEW n \in Nat, NEW m \in Nat
  PROVE  PowerOf(2, n + m) = PowerOf(2, n) * PowerOf(2, m)
<1>1. 2 \in Nat
  OBVIOUS
<1> QED BY <1>1, PowerAdd

(* The powers of the base are powers of two.                               *)
LEMMA BasePower ==
  ASSUME NEW n \in Nat
  PROVE  BITS_PER_WORD * n \in Nat /\ PowerOf(Base, n) = PowerOf(2, BITS_PER_WORD * n)
<1>0. PICK w \in Nat : w = BITS_PER_WORD /\ Base = PowerOf(2, w)
  BY WordsAssumption DEF Base
<1> DEFINE S == {k \in Nat : PowerOf(Base, k) = PowerOf(2, w * k)}
<1>1. 0 \in S
  <2>1. PowerOf(Base, 0) = 1 /\ PowerOf(2, 0) = 1
    <3>1. 2 \in Nat /\ 0 \in Nat /\ Base \in Nat
      BY BaseFacts
    <3>2. PowerOf(2, 0) = 1
      BY <3>1, PowerLaws
    <3>3. PowerOf(Base, 0) = 1
      BY <3>1, PowerLaws
    <3> QED BY <3>2, <3>3
  <2>2. w * 0 = 0
    BY <1>0
  <2> QED BY <2>1, <2>2
<1>2. ASSUME NEW k \in S PROVE k + 1 \in S
  <2>1. k \in Nat /\ w * k \in Nat /\ w * (k + 1) = w * k + w
    BY <1>0
  <2>2. PowerOf(Base, k + 1) = Base * PowerOf(Base, k) /\ PowerOf(Base, k) = PowerOf(2, w * k)
    BY <2>1, BaseFacts, PowerLaws
  <2>3. PICK e \in Nat : e = w * k /\ w * (k + 1) = e + w
    BY <2>1
  <2>4. PowerOf(2, e + w) = PowerOf(2, e) * PowerOf(2, w) /\ PowerOf(2, e) \in Nat /\ PowerOf(2, w) \in Nat
    BY <1>0, <2>3, TwoPowerAdd, TwoPower
  <2>5. PICK x \in Nat, y \in Nat : x = PowerOf(2, e) /\ y = PowerOf(2, w)
    BY <2>4
  <2>6. PowerOf(Base, k + 1) = y * x
    BY <1>0, <2>2, <2>3, <2>5
  <2>7. y * x = x * y
    OBVIOUS
  <2> QED BY <2>1, <2>3, <2>4, <2>5, <2>6, <2>7
<1>3. S = Nat
  <2> HIDE DEF S
  <2> QED BY <1>1, <1>2, Induct DEF S
<1> QED BY <1>0, <1>3

(* A part of a word above k bits and below them.                           *)
LEMMA WordParts ==
  ASSUME NEW k \in 0..BITS_PER_WORD-1
  PROVE  /\ BITS_PER_WORD - k \in Nat /\ PowerOf(2, k) \in Nat /\ PowerOf(2, BITS_PER_WORD - k) \in Nat
         /\ PowerOf(2, k) > 0 /\ PowerOf(2, BITS_PER_WORD - k) > 0
         /\ Base = PowerOf(2, k) * PowerOf(2, BITS_PER_WORD - k)
<1>1. PICK w \in Nat : w = BITS_PER_WORD /\ Base = PowerOf(2, w)
  BY WordsAssumption DEF Base
<1>2. PICK e \in Nat : e = BITS_PER_WORD - k /\ k \in Nat /\ w = k + e
  <2>1. BITS_PER_WORD - k \in Nat /\ k \in Nat /\ w = k + (BITS_PER_WORD - k)
    BY <1>1
  <2> QED BY <2>1
<1>3. PowerOf(2, k + e) = PowerOf(2, k) * PowerOf(2, e)
  BY <1>2, TwoPowerAdd
<1>4. PowerOf(2, k) \in Nat /\ PowerOf(2, k) > 0
  BY <1>2, TwoPower
<1>5. PowerOf(2, e) \in Nat /\ PowerOf(2, e) > 0
  BY <1>2, TwoPower
<1> QED BY <1>1, <1>2, <1>3, <1>4, <1>5

(* A word and what of the next word comes down to it when both are shifted *)
(* by k bits.                                                              *)
ShiftedDown(x, y, k) ==
  (x \div PowerOf(2, k)) + ((y * PowerOf(2, BITS_PER_WORD - k)) % Base)

(* A word shifted down, with the low bits of the word above it on top.     *)
LEMMA ShiftDown ==
  ASSUME NEW k \in 0..BITS_PER_WORD-1, NEW x \in Word, NEW y \in Word
  PROVE  /\ ShiftedDown(x, y, k) \in Word
         /\ PowerOf(2, k) * ShiftedDown(x, y, k) + (x % PowerOf(2, k)) = x + Base * (y % PowerOf(2, k))
<1>1. PICK B \in Nat, P \in Nat, Q \in Nat :
        B = Base /\ P = PowerOf(2, k) /\ Q = PowerOf(2, BITS_PER_WORD - k) /\ B = P * Q /\ P > 0 /\ Q > 0 /\ B > 0
  BY WordParts, BaseFacts
<1>2. PICK d \in Int, l \in 0..P-1 : d = x \div P /\ l = x % P /\ x = P * d + l /\ x \in 0..B-1
  <2>1. x \in Int /\ x \in 0..B-1
    BY <1>1 DEF Word
  <2> QED BY <1>1, <2>1, Divided
<1>3. PICK g \in Int, m \in 0..P-1 : g = y \div P /\ m = y % P /\ y = P * g + m
  <2>1. y \in Int
    BY <1>1 DEF Word
  <2>2. y \div P \in Int /\ y % P \in 0..P-1 /\ y = P * (y \div P) + (y % P)
    BY <1>1, <2>1, Divided
  <2> QED BY <2>2
<1>4. (y * Q) % B = m * Q /\ m * Q \in 0..B-Q
  <2>1. (P * g + m) * Q = (P * Q) * g + m * Q
    OBVIOUS
  <2>2. m * Q >= 0 /\ (P - 1 - m) * Q >= 0 /\ (P - 1 - m) * Q = P * Q - Q - m * Q
    OBVIOUS
  <2>3. PICK u \in Int, v \in Int : u = m * Q /\ v = y * Q
    <3>1. y \in Int
      BY <1>1 DEF Word
    <3> QED BY <3>1
  <2>4. u \in 0..B-1 /\ v = B * g + u /\ u \in 0..B-Q
    <3>1. B * g = (P * Q) * g
      BY <1>1
    <3>2. PICK e \in Int : e = B * g
      OBVIOUS
    <3>3. v = (P * g + m) * Q
      BY <1>3, <2>3
    <3> QED BY <1>1, <2>1, <2>2, <2>3, <3>1, <3>2, <3>3
  <2>5. v % B = u
    BY <1>1, <2>4, QuotientIs
  <2> QED BY <2>3, <2>4, <2>5
<1>5. d \in 0..Q-1
  <2>1. d >= 0
    <3>1. SUFFICES ASSUME d < 0 PROVE FALSE
      OBVIOUS
    <3>2. P * (0 - d) >= P /\ P * (0 - d) = 0 - P * d
      BY <3>1, AtLeastItself
    <3>3. PICK u \in Int : u = P * d
      OBVIOUS
    <3> QED BY <1>2, <3>2, <3>3
  <2>2. d < Q
    <3>1. SUFFICES ASSUME d >= Q PROVE FALSE
      OBVIOUS
    <3>2. P * (d - Q) >= 0 /\ P * (d - Q) = P * d - P * Q
      BY <3>1
    <3>3. PICK u \in Int, v \in Int : u = P * d /\ v = P * Q
      OBVIOUS
    <3> QED BY <1>1, <1>2, <3>2, <3>3
  <2> QED BY <2>1, <2>2
<1>6. ShiftedDown(x, y, k) = d + m * Q
  BY <1>1, <1>2, <1>4 DEF ShiftedDown
<1>7. PICK u \in Int : u = m * Q
  OBVIOUS
<1>8. d + u \in 0..B-1
  BY <1>1, <1>4, <1>5, <1>7
<1>9. P * (d + u) + l = x + B * m
  <2>1. P * (d + u) = P * d + P * u
    OBVIOUS
  <2>2. P * (m * Q) = (P * Q) * m
    OBVIOUS
  <2>3. P * u = B * m
    BY <1>1, <1>7, <2>2
  <2>4. PICK v \in Int, e \in Int, f \in Int : v = P * d /\ e = P * u /\ f = B * m
    OBVIOUS
  <2> QED BY <1>2, <2>1, <2>3, <2>4
<1> QED BY <1>1, <1>2, <1>3, <1>6, <1>7, <1>8, <1>9 DEF Word

(* All words shifted by k bits.                                            *)
ShiftedBits(s, k) ==
  [i \in 1..Len(s) |-> ShiftedDown(s[i], IF i < Len(s) THEN s[i+1] ELSE 0, k)]

(* Shifting all words down by less than a word divides by the power of two.*)
LEMMA BitShift ==
  ASSUME NEW n \in Nat, NEW s \in Bigs(n), NEW k \in 0..BITS_PER_WORD-1
  PROVE  ShiftedBits(s, k) \in Bigs(n) /\ Value(ShiftedBits(s, k)) = Value(s) \div PowerOf(2, k)
<1> DEFINE r == ShiftedBits(s, k)
           Next(i) == IF i < n THEN s[i+1] ELSE 0
           zero == Zeros(n)
<1>1. Len(s) = n /\ \A i \in 1..n : s[i] \in Word
  BY BigWords
<1>2. PICK B \in Nat, P \in Nat : B = Base /\ P = PowerOf(2, k) /\ P > 0 /\ 0 \in Word /\ 1 \in Nat /\ P <= B
  <2>1. Base \in Nat /\ 0 \in Word
    BY BaseFacts DEF Word
  <2>2. PICK Q \in Nat : Base = PowerOf(2, k) * Q /\ Q > 0 /\ PowerOf(2, k) \in Nat /\ PowerOf(2, k) > 0
    BY WordParts
  <2>3. PICK P \in Nat : P = PowerOf(2, k)
    BY <2>2
  <2>4. P * Q >= P
    BY <2>2, AtLeastItself
  <2> QED BY <2>1, <2>2, <2>3, <2>4
<1>3. \A i \in 0..n : (IF i < n THEN s[i+1] ELSE 0) \in Word
  <2> TAKE i \in 0..n
  <2>1. i < n => i + 1 \in 1..n
    OBVIOUS
  <2> QED BY <1>1, <1>2, <2>1
<1>4. ASSUME NEW i \in 1..n
      PROVE r[i] \in Word /\ P * r[i] + (s[i] % P) = s[i] + B * ((IF i < n THEN s[i+1] ELSE 0) % P)
  <2>1. PICK y \in Word : y = IF i < n THEN s[i+1] ELSE 0
    <3>1. i \in 0..n
      OBVIOUS
    <3> QED BY <1>3, <3>1
  <2>2. r[i] = ShiftedDown(s[i], y, k)
    BY <1>1, <2>1 DEF ShiftedBits
  <2>3. s[i] \in Word
    BY <1>1
  <2> HIDE DEF r
  <2>4. /\ ShiftedDown(s[i], y, k) \in Word
        /\ PowerOf(2, k) * ShiftedDown(s[i], y, k) + (s[i] % PowerOf(2, k)) = s[i] + Base * (y % PowerOf(2, k))
    BY <2>3, ShiftDown
  <2> QED BY <1>2, <2>1, <2>2, <2>4, Zenon
<1>5. r \in Bigs(n)
  <2>1. r = [i \in 1..n |-> ShiftedDown(s[i], IF i < Len(s) THEN s[i+1] ELSE 0, k)]
    BY <1>1 DEF ShiftedBits
  <2>2. \A i \in 1..n : r[i] \in Word
    BY <1>4
  <2> HIDE DEF r
  <2> QED BY <2>1, <2>2 DEF Bigs
<1>6. zero \in Bigs(n) /\ Value(zero) = 0 /\ \A i \in 1..n : zero[i] = 0
  BY ZeroValue DEF Zeros
<1>7. PICK c \in [0..n -> Int] : /\ c = [i \in 0..n |-> (IF i < n THEN s[i+1] ELSE 0) % P]
                                 /\ \A i \in 0..n : c[i] \in 0..P-1
  <2> DEFINE f == [i \in 0..n |-> (IF i < n THEN s[i+1] ELSE 0) % P]
  <2>1. ASSUME NEW i \in 0..n PROVE f[i] \in 0..P-1 /\ f[i] \in Int
    <3>1. PICK y \in Int : y = IF i < n THEN s[i+1] ELSE 0
      BY <1>2, <1>3, BaseFacts DEF Word
    <3>2. y % P \in 0..P-1
      BY <1>2
    <3> QED BY <3>1, <3>2
  <2>2. f \in [0..n -> Int]
    BY <2>1
  <2> QED BY <2>1, <2>2
<1>8. ASSUME NEW i \in 1..n PROVE zero[i] + P * r[i] + c[i-1] = s[i] + B * c[i]
  <2>1. i - 1 \in 0..n /\ i \in 0..n /\ i - 1 < n /\ i - 1 + 1 = i
    OBVIOUS
  <2>2. c[i-1] = s[i] % P /\ c[i] = (IF i < n THEN s[i+1] ELSE 0) % P
    BY <1>7, <2>1
  <2>3. P * r[i] + (s[i] % P) = s[i] + B * ((IF i < n THEN s[i+1] ELSE 0) % P)
    BY <1>4
  <2>4. r[i] \in Int
    BY <1>4, BaseFacts DEF Word
  <2> HIDE DEF r, zero
  <2>5. PICK x \in Int, u \in Int, v \in Int : x = r[i] /\ u = c[i-1] /\ v = c[i]
    BY <2>1, <2>4
  <2>6. P * x + u = s[i] + B * v
    BY <2>2, <2>3, <2>5
  <2>7. PICK y \in Int : y = P * x
    OBVIOUS
  <2>8. zero[i] = 0
    BY <1>6
  <2> QED BY <2>5, <2>6, <2>7, <2>8
<1> HIDE DEF r, zero
<1>9. Value(zero) + P * Value(r) + c[0] = Value(s) + PowerOf(Base, n) * c[n]
  <2>1. \A i \in 1..n : zero[i] + P * r[i] + c[i-1] = s[i] + Base * c[i]
    BY <1>2, <1>8
  <2>2. P \in Int
    OBVIOUS
  <2> QED BY <1>5, <1>6, <2>1, <2>2, ChainProduct
<1>10. c[n] = 0 /\ c[0] \in 0..P-1
  <2>1. c[n] = (IF n < n THEN s[n+1] ELSE 0) % P
    BY <1>7
  <2>2. 0 % P = 0
    BY <1>2
  <2> QED BY <1>7, <2>1, <2>2
<1>11. PICK x \in Nat, v \in Nat, W \in Nat, e \in 0..P-1 :
         x = Value(r) /\ v = Value(s) /\ W = PowerOf(Base, n) /\ e = c[0]
  BY <1>5, <1>10, ValueIsNat, PowerNat
<1>12. v = P * x + e
  <2>1. P * x + e = v + W * 0
    BY <1>6, <1>9, <1>10, <1>11
  <2>2. W * 0 = 0
    OBVIOUS
  <2>3. PICK u \in Int : u = P * x
    OBVIOUS
  <2> QED BY <2>1, <2>2, <2>3
<1>13. v \div P = x
  BY <1>2, <1>11, <1>12, QuotientIs
<1> QED BY <1>2, <1>5, <1>11, <1>13 DEF r

(* The words from place k on, and zeros for those that are gone.           *)
LEMMA WordShift ==
  ASSUME NEW n \in Nat, NEW a \in Bigs(n), NEW k \in 0..n
  PROVE  LET s == SubSeq(a, k + 1, n) \o Zeros(k) IN
         /\ s \in Bigs(n) /\ Value(s) = Value(a) \div PowerOf(Base, k)
         /\ \A i \in 1..n : s[i] = IF i + k <= n THEN a[i + k] ELSE 0
<1>1. PICK m \in Nat : m = n - k /\ k \in Nat /\ m + k = n
  <2>1. n - k \in Nat /\ k \in Nat /\ (n - k) + k = n
    OBVIOUS
  <2> QED BY <2>1
<1>2. PICK l \in Bigs(k), h \in Bigs(m) : /\ l = SubSeq(a, 1, k) /\ h = SubSeq(a, k + 1, n)
                                           /\ Value(a) = Value(l) + PowerOf(Base, k) * Value(h)
  <2>1. /\ SubSeq(a, 1, k) \in Bigs(k) /\ SubSeq(a, k + 1, n) \in Bigs(n - k)
        /\ Value(a) = Value(SubSeq(a, 1, k)) + PowerOf(Base, k) * Value(SubSeq(a, k + 1, n))
    BY CutValue
  <2> QED BY <1>1, <2>1
<1>3. PICK o \in Bigs(k) : o = Zeros(k) /\ Value(o) = 0 /\ \A i \in 1..k : o[i] = 0
  <2>1. k \in Nat
    BY <1>1
  <2>2. Zeros(k) \in Bigs(k) /\ Value(Zeros(k)) = 0
    BY <2>1, ZeroValue
  <2> QED BY <2>2 DEF Zeros
<1>4. PICK s : s = h \o o /\ s \in Bigs(m + k) /\ Value(s) = Value(h) + PowerOf(Base, m) * Value(o)
  <2>1. k \in Nat
    BY <1>1
  <2>2. h \o o \in Bigs(m + k) /\ Value(h \o o) = Value(h) + PowerOf(Base, m) * Value(o)
    BY <2>1, ValueConcat
  <2> QED BY <2>2
<1>5. PICK P \in Nat, x \in Nat, y \in Nat, z \in Nat, W \in Nat :
        P = PowerOf(Base, k) /\ x = Value(l) /\ y = Value(h) /\ z = Value(a) /\ W = PowerOf(Base, m) /\ x < P
  BY <1>1, <1>2, PowerNat, ValueIsNat, ValueBound
<1>6. Value(s) = y
  <2>1. W * 0 = 0
    OBVIOUS
  <2> QED BY <1>3, <1>4, <1>5, <2>1
<1>7. z \div P = y
  <2>1. z = P * y + x /\ x \in 0..P-1 /\ P > 0
    <3>1. PICK u \in Int : u = P * y
      OBVIOUS
    <3>2. z = x + u
      BY <1>2, <1>5, <3>1
    <3> QED BY <1>5, <3>1, <3>2
  <2> QED BY <1>5, <2>1, QuotientIs
<1>8. ASSUME NEW i \in 1..n PROVE s[i] = IF i + k <= n THEN a[i + k] ELSE 0
  <2>1. (\A j \in 1..m : s[j] = h[j]) /\ \A j \in 1..k : s[m+j] = o[j]
    <3>1. k \in Nat
      BY <1>1
    <3>2. Joins(h \o o, m, h, k, o)
      BY <3>1, ConcatJoins
    <3> QED BY <1>4, <3>2 DEF Joins
  <2>2. CASE i + k <= n
    <3>1. i \in 1..m /\ k + 1 >= 1 /\ k + 1 <= n + 1 /\ k + 1 \in Nat /\ n - (k + 1) + 1 = m /\ k + 1 + i - 1 = i + k
      BY <1>1, <2>2
    <3>2. \A j \in 1..n-(k+1)+1 : SubSeq(a, k + 1, n)[j] = a[(k + 1) + j - 1]
      <4>1. k + 1 >= 1 /\ k + 1 <= n + 1
        BY <3>1
      <4>2. /\ SubSeq(a, k + 1, n) \in Bigs(n - (k + 1) + 1)
            /\ \A j \in 1..n-(k+1)+1 : SubSeq(a, k + 1, n)[j] = a[(k + 1) + j - 1]
        BY <4>1, SubWords, k + 1 \in Nat
      <4> QED BY <4>2
    <3>3. h[i] = a[(k + 1) + i - 1]
      BY <1>2, <3>1, <3>2
    <3> QED BY <2>1, <2>2, <3>1, <3>3
  <2>3. CASE ~ (i + k <= n)
    <3>1. PICK j \in 1..k : i = m + j
      <4>1. i - m \in 1..k /\ i = m + (i - m)
        BY <1>1, <2>3
      <4> QED BY <4>1
    <3> QED BY <1>3, <2>1, <2>3, <3>1
  <2> QED BY <2>2, <2>3
<1>9. s = SubSeq(a, k + 1, n) \o Zeros(k) /\ s \in Bigs(n) /\ Value(s) = Value(a) \div PowerOf(Base, k)
  BY <1>1, <1>2, <1>3, <1>4, <1>5, <1>6, <1>7
<1> QED BY <1>8, <1>9, Zenon

(* bi_shift_right divides by a power of two, for every distance up to the  *)
(* whole number.                                                           *)
THEOREM ShiftsAreExact ==
  ASSUME NEW n \in Nat, NEW a \in Bigs(n), NEW right \in 0..BITS_PER_WORD * n
  PROVE  LET r == bi_shift_right_var(a, right) IN
         r \in Bigs(n) /\ Value(r) = Value(a) \div PowerOf(2, right)
<1>1. PICK w \in Nat : w = BITS_PER_WORD /\ w > 0
  BY WordsAssumption
<1>2. PICK q \in Int, k \in 0..w-1 : q = right \div w /\ k = right % w /\ right = w * q + k
  <2>1. right \in Int
    BY <1>1
  <2>2. right \div w \in Int /\ right % w \in 0..w-1 /\ right = w * (right \div w) + (right % w)
    BY <1>1, <2>1, Divided
  <2> QED BY <2>2
<1>3. q \in 0..n /\ right \in Nat /\ k \in Nat
  <2>1. right \in Nat /\ right <= w * n
    BY <1>1
  <2>2. PICK u \in Int, v \in Int : u = w * q /\ v = w * n
    OBVIOUS
  <2>3. q >= 0
    <3>1. SUFFICES ASSUME q < 0 PROVE FALSE
      OBVIOUS
    <3>2. w * (0 - q) >= w /\ w * (0 - q) = 0 - w * q
      BY <1>1, <3>1, AtLeastItself
    <3> QED BY <1>2, <2>1, <2>2, <3>2
  <2>4. q <= n
    <3>1. SUFFICES ASSUME q > n PROVE FALSE
      OBVIOUS
    <3>2. w * (q - n) >= w /\ w * (q - n) = w * q - w * n
      BY <1>1, <3>1, AtLeastItself
    <3> QED BY <1>1, <1>2, <2>1, <2>2, <3>2
  <2> QED BY <1>2, <2>1, <2>3, <2>4
<1>4. PICK s \in Bigs(n) : /\ Value(s) = Value(a) \div PowerOf(Base, q)
                           /\ \A i \in 1..n : s[i] = IF i + q <= n THEN a[i + q] ELSE 0
  BY <1>3, WordShift
<1>5. bi_shift_right_var(a, right) = ShiftedBits(s, k)
  <2>1. Len(a) = n /\ Len(s) = n
    BY BigWords
  <2> DEFINE Moved(i) == IF i + q <= Len(a) THEN a[i + q] ELSE 0
  <2>2. ASSUME NEW i \in 1..n
        PROVE  Moved(i) = s[i] /\ Moved(i + 1) = IF i < Len(s) THEN s[i+1] ELSE 0
    <3>1. Moved(i) = s[i]
      BY <1>4, <2>1
    <3>2. CASE i < n
      <4>1. i + 1 \in 1..n
        BY <3>2
      <4> QED BY <1>4, <2>1, <3>1, <3>2, <4>1
    <3>3. CASE ~ (i < n)
      <4>1. ~ (i + 1 + q <= n)
        BY <1>3, <3>3
      <4> QED BY <2>1, <3>1, <3>3, <4>1
    <3> QED BY <3>2, <3>3
  <2>3. bi_shift_right_var(a, right)
          = [i \in 1..n |-> (Moved(i) \div PowerOf(2, k)) + ((Moved(i + 1) * PowerOf(2, BITS_PER_WORD - k)) % Base)]
    BY <1>1, <1>2, <2>1 DEF bi_shift_right_var
  <2> HIDE DEF Moved
  <2>4. ShiftedBits(s, k)
          = [i \in 1..n |-> (Moved(i) \div PowerOf(2, k)) + ((Moved(i + 1) * PowerOf(2, BITS_PER_WORD - k)) % Base)]
    BY <2>1, <2>2 DEF ShiftedBits, ShiftedDown
  <2> QED BY <2>3, <2>4
<1>6. k \in 0..BITS_PER_WORD-1
  BY <1>1
<1>7. ShiftedBits(s, k) \in Bigs(n) /\ Value(ShiftedBits(s, k)) = Value(s) \div PowerOf(2, k)
  BY <1>6, BitShift
<1>8. (Value(a) \div PowerOf(Base, q)) \div PowerOf(2, k) = Value(a) \div PowerOf(2, right)
  <2>1. PICK x \in Nat, A \in Nat, B \in Nat : x = Value(a) /\ A = PowerOf(Base, q) /\ B = PowerOf(2, k) /\ A > 0 /\ B > 0
    <3>1. q \in Nat
      BY <1>3
    <3>2. Value(a) \in Nat
      BY ValueIsNat
    <3>3. PowerOf(Base, q) \in Nat /\ PowerOf(Base, q) > 0
      BY <3>1, PowerNat
    <3>4. PowerOf(2, k) \in Nat /\ PowerOf(2, k) > 0
      BY <1>3, TwoPower
    <3> QED BY <3>2, <3>3, <3>4
  <2>2. (x \div A) \div B = x \div (A * B)
    BY <2>1, DivTwice
  <2>3. PICK e \in Nat : e = w * q /\ A = PowerOf(2, e) /\ right = e + k
    BY <1>1, <1>2, <1>3, <2>1, BasePower
  <2>4. PowerOf(2, e + k) = PowerOf(2, e) * PowerOf(2, k)
    BY <1>3, <2>3, TwoPowerAdd
  <2> QED BY <2>1, <2>2, <2>3, <2>4
<1> QED BY <1>4, <1>5, <1>7, <1>8

-----------------------------------------------------------------------------
(* A word has an even number of bits: its base is one above a multiple of  *)
(* three.                                                                  *)
LEMMA BaseByThree ==
  \E h \in Nat : 3 * h = 2 * (Base - 1) /\ (2 * (Base - 1)) \div 3 = h
<1> DEFINE S == {k \in Nat : \E j \in Nat : PowerOf(2, 2 * k) = 3 * j + 1}
<1>1. 0 \in S
  <2>1. PowerOf(2, 0) = 1
    <3>1. 2 \in Nat /\ 0 \in Nat
      OBVIOUS
    <3> QED BY <3>1, PowerLaws
  <2>2. 2 * 0 = 0 /\ 1 = 3 * 0 + 1
    OBVIOUS
  <2> QED BY <2>1, <2>2
<1>2. ASSUME NEW k \in S PROVE k + 1 \in S
  <2>1. PICK j \in Nat : PowerOf(2, 2 * k) = 3 * j + 1
    OBVIOUS
  <2>2. PICK e \in Nat : e = 2 * k /\ 2 * (k + 1) = e + 1 + 1 /\ e + 1 \in Nat
    OBVIOUS
  <2>3. PowerOf(2, e + 1) = 2 * PowerOf(2, e)
    BY <2>2, TwoPower
  <2>4. PowerOf(2, e + 1 + 1) = 2 * PowerOf(2, e + 1)
    BY <2>2, TwoPower
  <2>5. PowerOf(2, 2 * (k + 1)) = 3 * (4 * j + 1) + 1 /\ 4 * j + 1 \in Nat
    BY <2>1, <2>2, <2>3, <2>4
  <2>6. PICK m \in Nat : m = 4 * j + 1
    BY <2>5
  <2>7. PowerOf(2, 2 * (k + 1)) = 3 * m + 1 /\ k + 1 \in Nat
    BY <2>5, <2>6
  <2> QED BY <2>7
<1>3. S = Nat
  <2> HIDE DEF S
  <2> QED BY <1>1, <1>2, Induct DEF S
<1>4. PICK w \in Nat : w = BITS_PER_WORD /\ w % 2 = 0
  BY WordsAssumption
<1>5. PICK k \in Nat : w = 2 * k
  <2>1. w \div 2 \in Nat /\ w = 2 * (w \div 2)
    BY <1>4
  <2> QED BY <2>1
<1>6. PICK j \in Nat : Base = 3 * j + 1
  <2>1. k \in S
    <3> HIDE DEF S
    <3> QED BY <1>3
  <2>2. PICK j \in Nat : PowerOf(2, 2 * k) = 3 * j + 1
    BY <2>1
  <2> QED BY <1>4, <1>5, <2>2 DEF Base
<1>7. 2 * j \in Nat /\ 3 * (2 * j) = 2 * (Base - 1) /\ (2 * (Base - 1)) \div 3 = 2 * j
  BY <1>6
<1> QED BY <1>7

(* The number 1 in n words.                                                *)
LEMMA OneValue ==
  ASSUME NEW n \in Nat, n > 0
  PROVE  LET r == [i \in 1..n |-> Bit(i = 1)] IN r \in Bigs(n) /\ Value(r) = 1
<1> DEFINE r == [i \in 1..n |-> Bit(i = 1)]
<1>1. r \in Bigs(n)
  BY BaseFacts DEF Bigs, Word, Bit
<1>2. PICK z \in Bigs(n) : Value(z) = 0 /\ \A i \in 1..n : z[i] = 0
  <2>1. Zeros(n) \in Bigs(n) /\ Value(Zeros(n)) = 0
    BY ZeroValue
  <2> QED BY <2>1 DEF Zeros
<1>3. PICK c \in [0..n -> Int] : c = [i \in 0..n |-> Bit(i = 0)]
  <2>1. [i \in 0..n |-> Bit(i = 0)] \in [0..n -> Int]
    BY DEF Bit
  <2> QED BY <2>1
<1>4. ASSUME NEW i \in 1..n PROVE z[i] + z[i] + c[i-1] = r[i] + Base * c[i]
  <2>1. i - 1 \in 0..n /\ i \in 0..n /\ i # 0 /\ (i = 1 <=> i - 1 = 0)
    OBVIOUS
  <2>2. c[i] = 0 /\ c[i-1] = r[i] /\ r[i] \in Int
    BY <1>3, <2>1 DEF Bit
  <2>3. Base * 0 = 0
    BY BaseFacts
  <2> HIDE DEF r
  <2> QED BY <1>2, <2>2, <2>3
<1> HIDE DEF r
<1>5. Value(z) + Value(z) + c[0] = Value(r) + PowerOf(Base, n) * c[n]
  BY <1>1, <1>4, ChainValue
<1>6. c[0] = 1 /\ c[n] = 0
  BY <1>3 DEF Bit
<1>7. PICK v \in Nat, W \in Nat : v = Value(r) /\ W = PowerOf(Base, n)
  BY <1>1, ValueIsNat, PowerNat
<1>8. 0 + 0 + 1 = v + W * 0
  BY <1>2, <1>5, <1>6, <1>7
<1>9. W * 0 = 0
  OBVIOUS
<1> QED BY <1>1, <1>7, <1>8, <1>9 DEF r

(* The multiplier of bi_div3 is the inverse of 3 modulo the words.         *)
Inverse3(n) == [i \in 1..n |-> ((2 * (Base - 1)) \div 3) + Bit(i = 1)]

(* The words of bi_div3 are the inverse of three.                          *)
LEMMA InverseOfThree ==
  ASSUME NEW n \in Nat, n > 0
  PROVE  Inverse3(n) \in Bigs(n) /\ 3 * Value(Inverse3(n)) = 1 + 2 * PowerOf(Base, n)
<1>1. PICK h \in Nat, B \in Nat : B = Base /\ 3 * h = 2 * (B - 1) /\ (2 * (Base - 1)) \div 3 = h /\ B >= 4
  BY BaseByThree, BaseFacts, FourInWord
<1> DEFINE t == Inverse3(n)
           r == [i \in 1..n |-> Bit(i = 1)]
<1>2. t = [i \in 1..n |-> h + Bit(i = 1)]
  BY <1>1 DEF Inverse3
<1>3. h \in 0..B-1 /\ h + 1 \in 0..B-1
  BY <1>1
<1>4. t \in Bigs(n)
  <2> HIDE DEF t
  <2>1. \A i \in 1..n : h + Bit(i = 1) \in Word
    BY <1>1, <1>3 DEF Word, Bit
  <2> QED BY <1>2, <2>1 DEF Bigs
<1>5. PICK z \in Bigs(n) : Value(z) = 0 /\ \A i \in 1..n : z[i] = 0
  <2>1. Zeros(n) \in Bigs(n) /\ Value(Zeros(n)) = 0
    BY ZeroValue
  <2> QED BY <2>1 DEF Zeros
<1>6. r \in Bigs(n) /\ Value(r) = 1
  BY OneValue
<1>7. PICK c \in [0..n -> Int] : c = [i \in 0..n |-> 2 * (1 - Bit(i = 0))]
  <2>1. [i \in 0..n |-> 2 * (1 - Bit(i = 0))] \in [0..n -> Int]
    BY DEF Bit
  <2> QED BY <2>1
<1>8. ASSUME NEW i \in 1..n PROVE z[i] + 3 * t[i] + c[i-1] = r[i] + Base * c[i]
  <2>1. i - 1 \in 0..n /\ i \in 0..n /\ i # 0 /\ (i = 1 <=> i - 1 = 0)
    OBVIOUS
  <2>2. c[i] = 2 /\ c[i-1] = 2 * (1 - Bit(i = 1)) /\ r[i] = Bit(i = 1)
    BY <1>7, <2>1 DEF Bit
  <2>3. t[i] = h + Bit(i = 1)
    <3> HIDE DEF t
    <3> QED BY <1>2
  <2>4. Bit(i = 1) \in {0, 1}
    BY DEF Bit
  <2> HIDE DEF r, t
  <2>5. PICK b \in {0, 1} : b = Bit(i = 1)
    BY <2>4
  <2>6. t[i] = h + b /\ r[i] = b /\ c[i] = 2 /\ c[i-1] = 2 * (1 - b) /\ z[i] = 0
    BY <1>5, <2>2, <2>3, <2>5
  <2>7. 0 + 3 * (h + b) + 2 * (1 - b) = b + B * 2
    BY <1>1
  <2> QED BY <1>1, <2>6, <2>7
<1> HIDE DEF r, t
<1>9. Value(z) + 3 * Value(t) + c[0] = Value(r) + PowerOf(Base, n) * c[n]
  <2>1. 3 \in Int
    OBVIOUS
  <2>2. c \in [0..n -> Int]
    OBVIOUS
  <2> QED BY <1>4, <1>6, <1>8, <2>1, <2>2, ChainProduct
<1>10. c[0] = 0 /\ c[n] = 2
  BY <1>7 DEF Bit
<1>11. PICK v \in Nat, W \in Nat : v = Value(t) /\ W = PowerOf(Base, n)
  BY <1>4, ValueIsNat, PowerNat
<1> QED BY <1>4, <1>5, <1>6, <1>9, <1>10, <1>11 DEF t

(* bi_div3 divides what three divides.                                     *)
THEOREM ThirdsAreExact ==
  ASSUME ExactProducts, NEW n \in Nat, n > 0, NEW a \in Bigs(n), NEW z \in Nat, Value(a) = 3 * z
  PROVE  bi_div3_var(a) \in Bigs(n) /\ Value(bi_div3_var(a)) = z
<1>1. PICK t \in Bigs(n) : t = Inverse3(n) /\ 3 * Value(t) = 1 + 2 * PowerOf(Base, n)
  BY InverseOfThree
<1>2. PICK l : l = SubSeq(bi_multiply_var(a, t), 1, n)
  OBVIOUS
<1>3. bi_div3_var(a) = l
  <2>1. Len(a) = n
    BY BigWords
  <2> QED BY <1>1, <1>2, <2>1 DEF bi_div3_var, Inverse3
<1>4. PICK h : h = SubSeq(bi_multiply_var(a, t), n + 1, n + n)
  OBVIOUS
<1>5. n \in 0..n+n /\ (n + n) - n = n
  OBVIOUS
<1>6. l \in Bigs(n) /\ h \in Bigs(n) /\ Value(a) * Value(t) = Value(l) + PowerOf(Base, n) * Value(h)
  <2>1. LET q == bi_multiply_var(a, t) IN
        /\ SubSeq(q, 1, n) \in Bigs(n) /\ SubSeq(q, n + 1, n + n) \in Bigs((n + n) - n)
        /\ Value(a) * Value(t) = Value(SubSeq(q, 1, n)) + PowerOf(Base, n) * Value(SubSeq(q, n + 1, n + n))
    BY <1>5, ProductParts
  <2> QED BY <1>2, <1>4, <1>5, <2>1
<1>7. PICK x \in Nat, y \in Nat, v \in Nat, W \in Nat :
        x = Value(l) /\ y = Value(h) /\ v = Value(t) /\ W = PowerOf(Base, n) /\ x < W
  BY <1>6, ValueIsNat, ValueBound, PowerNat
<1>8. (3 * z) * v = x + W * y /\ 3 * v = 1 + 2 * W
  BY <1>1, <1>6, <1>7
<1>9. x = z + W * (2 * z - y) /\ 2 * z - y \in Int
  <2>1. (3 * z) * v = z * (3 * v) /\ z * (1 + 2 * W) = z + W * (2 * z) /\ W * (2 * z - y) = W * (2 * z) - W * y
    OBVIOUS
  <2>2. PICK u \in Int, e \in Int : u = W * (2 * z) /\ e = W * y
    OBVIOUS
  <2>3. z * (3 * v) = z * (1 + 2 * W)
    BY <1>8
  <2> QED BY <1>8, <2>1, <2>2, <2>3
<1>10. z < W
  <2>1. PICK b \in Nat : b = Value(a) /\ b < W
    BY <1>7, ValueIsNat, ValueBound
  <2> QED BY <2>1
<1>11. x = z
  BY <1>7, <1>9, <1>10, SameBelow
<1> QED BY <1>3, <1>6, <1>7, <1>11

-----------------------------------------------------------------------------
(* What a word says of the number from its place on.                       *)
LEMMA FromPlace ==
  ASSUME NEW n \in Nat, NEW a \in Bigs(n), NEW k \in Nat, k < n
  PROVE  \E y \in Nat : Value(a) \div PowerOf(Base, k) = a[k+1] + Base * y
<1>1. k \in 0..n /\ k + 1 \in 1..n /\ (k + 1) - 1 = k
  OBVIOUS
<1>2. PICK s \in Bigs(n) : /\ Value(s) = Value(a) \div PowerOf(Base, k)
                           /\ \A i \in 1..n : s[i] = IF i + k <= n THEN a[i + k] ELSE 0
  BY <1>1, WordShift
<1>3. s[1] = a[k+1]
  <2>1. 1 \in 1..n /\ 1 + k <= n /\ 1 + k = k + 1
    OBVIOUS
  <2>2. s[1] = IF 1 + k <= n THEN a[1 + k] ELSE 0
    BY <1>2, <2>1
  <2> QED BY <2>1, <2>2
<1>4. PICK v \in Nat : v = Value(s) /\ Value(s) = PowerOf(Base, 1 - 1) * v
  <2>1. PICK v \in Nat : v = Value(s)
    BY ValueIsNat
  <2>2. PowerOf(Base, 1 - 1) = 1
    <3>1. 1 - 1 = 0 /\ 0 \in Nat /\ Base \in Nat
      BY BaseFacts
    <3>2. PowerOf(Base, 0) = 1
      BY <3>1, PowerLaws
    <3> QED BY <3>1, <3>2
  <2>3. 1 * v = v
    OBVIOUS
  <2> QED BY <2>1, <2>2, <2>3
<1>5. \E y \in Nat : v = s[1] + Base * y
  <2>1. 1 \in 1..n
    OBVIOUS
  <2> QED BY <1>4, <2>1, LowestWord
<1> QED BY <1>2, <1>3, <1>4, <1>5

(* The place of a bit: its word and the bit in the word.                   *)
LEMMA BitPlace ==
  ASSUME NEW n \in Nat, NEW bit \in Nat, bit < n * BITS_PER_WORD
  PROVE  \E q \in Nat, k \in 0..BITS_PER_WORD-1 :
           q = bit \div BITS_PER_WORD /\ k = bit % BITS_PER_WORD /\ q < n /\ bit = BITS_PER_WORD * q + k
<1>1. PICK w \in Nat : w = BITS_PER_WORD /\ w > 0
  BY WordsAssumption
<1>2. PICK q \in Int, k \in 0..w-1 : q = bit \div w /\ k = bit % w /\ bit = w * q + k
  <2>2. bit \div w \in Int /\ bit % w \in 0..w-1 /\ bit = w * (bit \div w) + (bit % w)
    BY <1>1, Divided
  <2> QED BY <2>2
<1>3. q \in Nat /\ q < n
  <2>1. bit \in Nat /\ bit < w * n
    BY <1>1
  <2>2. PICK u \in Int, v \in Int : u = w * q /\ v = w * n
    OBVIOUS
  <2>3. q >= 0
    <3>1. SUFFICES ASSUME q < 0 PROVE FALSE
      OBVIOUS
    <3>2. w * (0 - q) >= w /\ w * (0 - q) = 0 - w * q
      BY <1>1, <3>1, AtLeastItself
    <3> QED BY <1>2, <2>1, <2>2, <3>2
  <2>4. q < n
    <3>1. SUFFICES ASSUME q >= n PROVE FALSE
      OBVIOUS
    <3>2. w * (q - n) >= 0 /\ w * (q - n) = w * q - w * n
      BY <1>1, <3>1
    <3> QED BY <1>1, <1>2, <2>1, <2>2, <3>2
  <2> QED BY <2>3, <2>4
<1> QED BY <1>1, <1>2, <1>3

(* What stands above some bits of a word does not change those bits.       *)
LEMMA SameBit ==
  ASSUME NEW k \in 0..BITS_PER_WORD-1, NEW x \in Nat, NEW y \in Nat
  PROVE  ((x + Base * y) \div PowerOf(2, k)) % 2 = (x \div PowerOf(2, k)) % 2
<1>1. PICK P \in Nat, Q \in Nat : P = PowerOf(2, k) /\ P > 0 /\ Base = P * (2 * Q)
  <2>1. PICK e \in Nat : BITS_PER_WORD - k = e + 1
    <3>1. BITS_PER_WORD - k - 1 \in Nat /\ BITS_PER_WORD - k = (BITS_PER_WORD - k - 1) + 1
      BY WordsAssumption
    <3> QED BY <3>1
  <2>2. PowerOf(2, e + 1) = 2 * PowerOf(2, e) /\ PowerOf(2, e) \in Nat
    BY TwoPower
  <2>3. PowerOf(2, k) \in Nat /\ PowerOf(2, k) > 0 /\ Base = PowerOf(2, k) * PowerOf(2, BITS_PER_WORD - k)
    BY WordParts
  <2> QED BY <2>1, <2>2, <2>3
<1>2. PICK d \in Int, r \in 0..P-1 : d = x \div P /\ x = P * d + r
  <2>1. x \in Int
    OBVIOUS
  <2>2. x \div P \in Int /\ x % P \in 0..P-1 /\ x = P * (x \div P) + (x % P)
    BY <1>1, <2>1, Divided
  <2> QED BY <2>2
<1>3. PICK z \in Nat : z = Q * y
  OBVIOUS
<1>4. x + Base * y = P * (d + 2 * z) + r
  <2>1. (P * (2 * Q)) * y = P * (2 * (Q * y)) /\ P * (d + 2 * z) = P * d + P * (2 * z)
    OBVIOUS
  <2>2. PICK u \in Int, v \in Int, f \in Int : u = P * d /\ v = P * (2 * z) /\ f = Base * y
    BY BaseFacts
  <2>3. f = v
    BY <1>1, <1>3, <2>1, <2>2
  <2> QED BY <1>2, <2>1, <2>2, <2>3
<1>5. (x + Base * y) \div P = d + 2 * z
  BY <1>1, <1>4, QuotientIs
<1>6. (d + 2 * z) % 2 = d % 2
  OBVIOUS
<1> QED BY <1>1, <1>2, <1>5, <1>6

(* bi_test_bit reads the bits of the number.                               *)
LEMMA BitOfValue ==
  ASSUME NEW n \in Nat, NEW a \in Bigs(n), NEW bit \in Nat
  PROVE  bi_test_bit_var(a, bit) <=> bit < n * BITS_PER_WORD /\ (Value(a) \div PowerOf(2, bit)) % 2 = 1
<1>1. Len(a) = n /\ \A i \in 1..n : a[i] \in Nat
  BY BigWords
<1>2. CASE ~ (bit < n * BITS_PER_WORD)
  BY <1>1, <1>2 DEF bi_test_bit_var
<1>3. CASE bit < n * BITS_PER_WORD
  <2>1. PICK q \in Nat, k \in 0..BITS_PER_WORD-1 :
          q = bit \div BITS_PER_WORD /\ k = bit % BITS_PER_WORD /\ q < n /\ bit = BITS_PER_WORD * q + k
    BY <1>3, BitPlace
  <2>2. PICK y \in Nat : Value(a) \div PowerOf(Base, q) = a[q+1] + Base * y
    BY <2>1, FromPlace
  <2>3. k \in Nat /\ q + 1 \in 1..n
    BY <2>1
  <2>4. PICK v \in Nat, A \in Nat, P \in Nat, x \in Nat :
          v = Value(a) /\ A = PowerOf(Base, q) /\ A > 0 /\ P = PowerOf(2, k) /\ P > 0 /\ x = a[q+1]
    <3>1. Value(a) \in Nat
      BY ValueIsNat
    <3>2. PowerOf(Base, q) \in Nat /\ PowerOf(Base, q) > 0
      BY PowerNat
    <3>3. PowerOf(2, k) \in Nat /\ PowerOf(2, k) > 0
      BY <2>3, TwoPower
    <3>4. a[q+1] \in Nat
      BY <1>1, <2>3
    <3> QED BY <3>1, <3>2, <3>3, <3>4
  <2>5. (v \div A) \div P = v \div (A * P)
    BY <2>4, DivTwice
  <2>6. PowerOf(2, bit) = A * P
    <3>1. PICK e \in Nat : e = BITS_PER_WORD * q /\ A = PowerOf(2, e)
      BY <2>4, BasePower
    <3>2. PowerOf(2, e + k) = PowerOf(2, e) * PowerOf(2, k)
      BY <2>3, <3>1, TwoPowerAdd
    <3> QED BY <2>1, <2>4, <3>1, <3>2
  <2>7. ((x + Base * y) \div P) % 2 = (x \div P) % 2
    BY <2>4, SameBit
  <2>8. (v \div PowerOf(2, bit)) % 2 = (x \div P) % 2
    BY <2>2, <2>4, <2>5, <2>6, <2>7
  <2>9. bi_test_bit_var(a, bit) <=> (x \div P) % 2 = 1
    BY <1>1, <1>3, <2>1, <2>4 DEF bi_test_bit_var
  <2> QED BY <1>3, <2>4, <2>8, <2>9
<1> QED BY <1>2, <1>3

(* The two powers of two around a number.                                  *)
LEMMA PowersAround ==
  ASSUME NEW n \in Nat, NEW v \in Nat, v > 0, v < PowerOf(2, n)
  PROVE  \E m \in Nat : m < n /\ PowerOf(2, m) <= v /\ v < PowerOf(2, m + 1)
<1> DEFINE S == {k \in Nat : v < PowerOf(2, k)}
<1>1. S \in SUBSET Nat /\ n \in S
  OBVIOUS
<1>2. PICK i \in S : \A j \in S : i <= j
  <2> HIDE DEF S
  <2> QED BY <1>1, Least
<1>3. i \in Nat /\ v < PowerOf(2, i) /\ i <= n
  BY <1>1, <1>2
<1>4. i # 0
  <2>1. SUFFICES ASSUME i = 0 PROVE FALSE
    OBVIOUS
  <2>2. 2 \in Nat /\ 0 \in Nat
    OBVIOUS
  <2>3. PowerOf(2, 0) = 1
    BY <2>2, PowerLaws
  <2> QED BY <1>3, <2>1, <2>3
<1>5. PICK m \in Nat : i = m + 1 /\ m < i
  <2>1. i - 1 \in Nat /\ i = (i - 1) + 1 /\ i - 1 < i
    BY <1>3, <1>4
  <2> QED BY <2>1
<1>6. ~ (v < PowerOf(2, m))
  <2>1. SUFFICES ASSUME v < PowerOf(2, m) PROVE FALSE
    OBVIOUS
  <2>2. m \in S
    BY <2>1
  <2>3. i <= m
    BY <1>2, <2>2
  <2> QED BY <1>3, <1>5, <2>3
<1>7. PowerOf(2, m) \in Nat
  BY TwoPower
<1> QED BY <1>3, <1>5, <1>6, <1>7

(* The bits of a number above the highest one are zero, that one is set.   *)
LEMMA BitsAbove ==
  ASSUME NEW m \in Nat, NEW v \in Nat, PowerOf(2, m) <= v, v < PowerOf(2, m + 1)
  PROVE  /\ (v \div PowerOf(2, m)) % 2 = 1 /\ v \div PowerOf(2, m) = 1
         /\ \A k \in Nat : m < k => (v \div PowerOf(2, k)) % 2 = 0 /\ v \div PowerOf(2, k) = 0
<1>1. PICK P \in Nat : P = PowerOf(2, m) /\ P > 0 /\ PowerOf(2, m + 1) = 2 * P
  BY TwoPower
<1>2. v = P * 1 + (v - P) /\ v - P \in 0..P-1
  BY <1>1
<1>3. v \div P = 1
  BY <1>1, <1>2, QuotientIs
<1>4. ASSUME NEW k \in Nat, m < k PROVE v \div PowerOf(2, k) = 0
  <2>1. PICK e \in Nat : k = (m + 1) + e
    <3>1. k - (m + 1) \in Nat /\ k = (m + 1) + (k - (m + 1))
      BY <1>4
    <3> QED BY <3>1
  <2>2. m + 1 \in Nat
    OBVIOUS
  <2>3. PICK Q \in Nat, E \in Nat : Q = PowerOf(2, m + 1) /\ E = PowerOf(2, e) /\ E > 0 /\ PowerOf(2, k) = Q * E
    <3>1. PowerOf(2, (m + 1) + e) = PowerOf(2, m + 1) * PowerOf(2, e)
      BY <2>2, TwoPowerAdd
    <3>2. PowerOf(2, m + 1) \in Nat
      BY <2>2, TwoPower
    <3>3. PowerOf(2, e) \in Nat /\ PowerOf(2, e) > 0
      BY TwoPower
    <3> QED BY <2>1, <3>1, <3>2, <3>3
  <2>4. Q * E >= Q
    BY <2>3, AtLeastItself
  <2>5. PICK F \in Nat : F = Q * E
    OBVIOUS
  <2>6. v < F /\ F > 0
    BY <2>3, <2>4, <2>5
  <2>7. v \div F = 0
    <3>1. v = F * 0 + v /\ v \in 0..F-1 /\ 0 \in Int
      BY <2>6
    <3> QED BY <2>6, <3>1, QuotientIs
  <2> QED BY <2>3, <2>5, <2>7
<1> QED BY <1>1, <1>3, <1>4

(* bi_get_msb finds the highest bit.                                       *)
THEOREM HighestBitIsFound ==
  ASSUME NEW n \in Nat, NEW a \in Bigs(n)
  PROVE  LET m == bi_get_msb_var(a) IN
         IF Value(a) = 0 THEN m = -1
         ELSE m \in 0..n * BITS_PER_WORD - 1 /\ PowerOf(2, m) <= Value(a) /\ Value(a) < PowerOf(2, m + 1)
<1>1. PICK v \in Nat, N \in Nat : v = Value(a) /\ N = n * BITS_PER_WORD /\ v < PowerOf(2, N)
  <2>1. Value(a) \in Nat /\ Value(a) < PowerOf(Base, n)
    BY ValueIsNat, ValueBound
  <2>2. BITS_PER_WORD * n \in Nat /\ PowerOf(Base, n) = PowerOf(2, BITS_PER_WORD * n)
    BY BasePower
  <2>3. BITS_PER_WORD * n = n * BITS_PER_WORD
    BY WordsAssumption
  <2> QED BY <2>1, <2>2, <2>3
<1> DEFINE bits == {k \in 0..N - 1 : bi_test_bit_var(a, k)}
           msb == bi_get_msb_var(a)
<1>2. msb = IF bits = {} THEN -1 ELSE CHOOSE k \in bits : \A j \in bits : j <= k
  <2>1. Len(a) = n
    BY BigWords
  <2> QED BY <1>1, <2>1 DEF bi_get_msb_var
<1>3. bits = {k \in 0..N - 1 : (v \div PowerOf(2, k)) % 2 = 1}
  <2>1. \A k \in 0..N-1 : k \in Nat /\ k < n * BITS_PER_WORD
    BY <1>1
  <2>2. \A k \in 0..N-1 : bi_test_bit_var(a, k) <=> (v \div PowerOf(2, k)) % 2 = 1
    BY <1>1, <2>1, BitOfValue
  <2> QED BY <2>2
<1> HIDE DEF msb, bits
<1>4. CASE v = 0
  <2>1. ASSUME NEW k \in 0..N-1 PROVE (v \div PowerOf(2, k)) % 2 = 0
    <3>1. PICK P \in Nat : P = PowerOf(2, k) /\ P > 0
      BY TwoPower
    <3>2. v = P * 0 + 0 /\ 0 \in 0..P-1
      BY <1>4, <3>1
    <3>3. v \div P = 0
      BY <3>1, <3>2, QuotientIs
    <3> QED BY <3>1, <3>3
  <2>2. bits = {}
    BY <1>3, <2>1
  <2> QED BY <1>1, <1>2, <1>4, <2>2 DEF msb
<1>5. CASE v # 0
  <2>1. PICK m \in Nat : m < N /\ PowerOf(2, m) <= v /\ v < PowerOf(2, m + 1)
    BY <1>1, <1>5, PowersAround
  <2>2. m \in bits
    <3>1. (v \div PowerOf(2, m)) % 2 = 1
      BY <2>1, BitsAbove
    <3> QED BY <1>3, <2>1, <3>1
  <2>3. ASSUME NEW k \in bits PROVE k <= m /\ k \in Int
    <3>1. k \in Nat /\ (v \div PowerOf(2, k)) % 2 = 1
      BY <1>3
    <3>2. m < k => (v \div PowerOf(2, k)) % 2 = 0
      BY <2>1, <3>1, BitsAbove
    <3> QED BY <3>1, <3>2
  <2>4. msb = m
    <3>1. \E k \in bits : \A j \in bits : j <= k
      BY <2>2, <2>3
    <3>2. msb \in bits /\ \A j \in bits : j <= msb
      BY <1>2, <2>2, <3>1
    <3>3. msb <= m /\ m <= msb /\ msb \in Int
      BY <2>2, <2>3, <3>2
    <3> QED BY <3>3
  <2>5. m \in 0..n * BITS_PER_WORD - 1
    BY <1>1, <2>1
  <2> QED BY <1>1, <1>5, <2>1, <2>4, <2>5 DEF msb
<1> QED BY <1>4, <1>5

(* A bit that bi_set_bit sets is set, and in a number that is zero alone.  *)
THEOREM SetBitsAreSet ==
  ASSUME NEW n \in Nat, NEW bit \in 0..n * BITS_PER_WORD - 1
  PROVE  /\ \A a \in Bigs(n) : bi_test_bit_var(bi_set_bit_var(a, bit), bit)
         /\ bi_set_bit_var(Zeros(n), bit) \in Bigs(n)
         /\ Value(bi_set_bit_var(Zeros(n), bit)) = PowerOf(2, bit)
<1>1. bit \in Nat /\ bit < n * BITS_PER_WORD
  BY WordsAssumption
<1>2. PICK q \in Nat, k \in 0..BITS_PER_WORD-1 :
        q = bit \div BITS_PER_WORD /\ k = bit % BITS_PER_WORD /\ q < n /\ bit = BITS_PER_WORD * q + k
  BY <1>1, BitPlace
<1>3. PICK P \in Nat : P = PowerOf(2, k) /\ P > 0 /\ P < Base
  <2>1. PICK Q \in Nat, e \in Nat : PowerOf(2, k) \in Nat /\ PowerOf(2, k) > 0 /\ Base = PowerOf(2, k) * (2 * Q) /\ Q > 0
    <3>1. PICK e \in Nat : BITS_PER_WORD - k = e + 1
      <4>1. BITS_PER_WORD - k - 1 \in Nat /\ BITS_PER_WORD - k = (BITS_PER_WORD - k - 1) + 1
        BY WordsAssumption
      <4> QED BY <4>1
    <3>2. PowerOf(2, e + 1) = 2 * PowerOf(2, e) /\ PowerOf(2, e) \in Nat /\ PowerOf(2, e) > 0
      BY TwoPower
    <3>3. PowerOf(2, k) \in Nat /\ PowerOf(2, k) > 0 /\ Base = PowerOf(2, k) * PowerOf(2, BITS_PER_WORD - k)
      BY WordParts
    <3> QED BY <3>1, <3>2, <3>3
  <2>2. PICK P \in Nat : P = PowerOf(2, k)
    BY <2>1
  <2>3. P * Q >= P /\ P * (2 * Q) = 2 * (P * Q)
    BY <2>1, AtLeastItself
  <2>4. PICK u \in Int : u = P * Q
    OBVIOUS
  <2> QED BY <2>1, <2>2, <2>3, <2>4
<1>4. q + 1 \in 1..n
  BY <1>2
<1>5. ASSUME NEW a \in Bigs(n) PROVE bi_test_bit_var(bi_set_bit_var(a, bit), bit)
  <2>1. Len(a) = n /\ a[q+1] \in Nat /\ a \in [1..n -> Word]
    BY <1>4, BigWords DEF Bigs
  <2>2. CASE bi_test_bit_var(a, bit)
    BY <2>2 DEF bi_set_bit_var
  <2>3. CASE ~ bi_test_bit_var(a, bit)
    <3>1. PICK b : b = [a EXCEPT ![q+1] = a[q+1] + P]
      OBVIOUS
    <3>2. bi_set_bit_var(a, bit) = b
      BY <1>1, <1>2, <1>3, <2>1, <2>3, <3>1 DEF bi_set_bit_var
    <3>3. b[q+1] = a[q+1] + P /\ Len(b) = n
      <4>1. b \in [1..n -> Nat] /\ b[q+1] = a[q+1] + P
        <5>1. a \in [1..n -> Nat]
          BY <2>1, BaseFacts DEF Word
        <5> QED BY <1>4, <2>1, <3>1, <5>1
      <4> QED BY <4>1
    <3>4. PICK x \in Nat : x = a[q+1]
      BY <2>1
    <3>5. (x \div P) % 2 # 1
      BY <1>1, <1>2, <1>3, <2>1, <2>3, <3>4 DEF bi_test_bit_var
    <3>6. PICK d \in Int, r \in 0..P-1 : d = x \div P /\ x = P * d + r
      <4>1. x \in Int
        OBVIOUS
      <4>2. x \div P \in Int /\ x % P \in 0..P-1 /\ x = P * (x \div P) + (x % P)
        BY <1>3, <4>1, Divided
      <4> QED BY <4>2
    <3>7. (x + P) \div P = d + 1
      <4>1. x + P = P * (d + 1) + r
        BY <3>6
      <4> QED BY <1>3, <3>6, <4>1, QuotientIs
    <3>8. ((x + P) \div P) % 2 = 1
      BY <3>5, <3>6, <3>7
    <3> QED BY <1>1, <1>2, <1>3, <3>2, <3>3, <3>4, <3>8 DEF bi_test_bit_var
  <2> QED BY <2>2, <2>3
<1> DEFINE b == [i \in 1..n |-> IF i = q + 1 THEN P ELSE 0]
           zero == Zeros(n)
<1>6. bi_set_bit_var(zero, bit) = b
  <2>1. Len(zero) = n /\ zero = [i \in 1..n |-> 0]
    BY DEF Zeros
  <2>2. ~ bi_test_bit_var(zero, bit)
    <3>1. zero[q+1] = 0
      BY <1>4, <2>1
    <3>2. 0 \div P = 0
      <4>1. 0 = P * 0 + 0 /\ 0 \in 0..P-1 /\ 0 \in Int
        BY <1>3
      <4> QED BY <1>3, <4>1, QuotientIs
    <3>3. 0 % 2 # 1
      OBVIOUS
    <3> QED BY <1>2, <1>3, <3>1, <3>2, <3>3 DEF bi_test_bit_var
  <2>3. [zero EXCEPT ![q+1] = zero[q+1] + P] = b
    <3> HIDE DEF zero
    <3> QED BY <1>3, <1>4, <2>1
  <2> HIDE DEF zero, b
  <2> QED BY <1>1, <1>2, <1>3, <2>1, <2>2, <2>3 DEF bi_set_bit_var
<1>7. b \in Bigs(n)
  <2>1. 0 \in Word /\ P \in Word
    BY <1>3, BaseFacts DEF Word
  <2> QED BY <2>1 DEF Bigs
<1>8. Value(b) = PowerOf(2, bit)
  <2>1. PICK z \in Bigs(n) : Value(z) = 0 /\ \A i \in 1..n : z[i] = 0
    <3>1. Zeros(n) \in Bigs(n) /\ Value(Zeros(n)) = 0
      BY ZeroValue
    <3> QED BY <3>1 DEF Zeros
  <2>2. PICK c \in [0..n -> Int] : c = [i \in 0..n |-> IF i <= q THEN P * PowerOf(Base, q - i) ELSE 0]
    <3>1. ASSUME NEW i \in 0..n, i <= q PROVE P * PowerOf(Base, q - i) \in Int
      <4>1. q - i \in Nat
        BY <3>1
      <4>2. PowerOf(Base, q - i) \in Nat
        BY <4>1, PowerNat
      <4> QED BY <4>2
    <3>2. [i \in 0..n |-> IF i <= q THEN P * PowerOf(Base, q - i) ELSE 0] \in [0..n -> Int]
      BY <3>1
    <3> QED BY <3>2
  <2>3. ASSUME NEW i \in 1..n PROVE z[i] + z[i] + c[i-1] = b[i] + Base * c[i]
    <3>1. i - 1 \in 0..n /\ i \in 0..n /\ (i - 1 <= q <=> i <= q + 1)
      BY <1>2
    <3>2. c[i] = (IF i <= q THEN P * PowerOf(Base, q - i) ELSE 0)
          /\ c[i-1] = (IF i - 1 <= q THEN P * PowerOf(Base, q - (i - 1)) ELSE 0)
      BY <2>2, <3>1
    <3>3. b[i] = (IF i = q + 1 THEN P ELSE 0) /\ z[i] = 0
      BY <2>1
    <3> HIDE DEF b
    <3>4. CASE i <= q
      <4>1. PICK e \in Nat : e = q - i /\ q - (i - 1) = e + 1 /\ i # q + 1
        <5>1. q - i \in Nat /\ q - (i - 1) = (q - i) + 1 /\ i # q + 1
          BY <3>4
        <5> QED BY <5>1
      <4>2. PICK B \in Nat, W \in Nat : B = Base /\ W = PowerOf(Base, e) /\ PowerOf(Base, e + 1) = B * W
        <5>1. Base \in Nat
          BY BaseFacts
        <5>2. PowerOf(Base, e) \in Nat /\ PowerOf(Base, e + 1) = Base * PowerOf(Base, e)
          BY <5>1, PowerLaws
        <5> QED BY <5>1, <5>2
      <4>3. c[i] = P * W /\ c[i-1] = P * (B * W) /\ b[i] = 0
        BY <3>1, <3>2, <3>3, <3>4, <4>1, <4>2
      <4>4. P * (B * W) = B * (P * W)
        OBVIOUS
      <4>5. PICK y \in Int, x \in Int : y = P * W /\ x = B * y
        OBVIOUS
      <4>6. c[i-1] = x /\ c[i] = y /\ b[i] = 0 /\ z[i] = 0 /\ Base * c[i] = x
        BY <3>3, <4>2, <4>3, <4>4, <4>5, Zenon
      <4> QED BY <4>6
    <3>5. CASE i = q + 1
      <4>1. q - (i - 1) = 0 /\ ~ (i <= q) /\ i - 1 <= q
        BY <3>5
      <4>2. PowerOf(Base, 0) = 1
        <5>1. 0 \in Nat /\ Base \in Nat
          BY BaseFacts
        <5> QED BY <5>1, PowerLaws
      <4>3. c[i] = 0 /\ c[i-1] = P /\ b[i] = P
        BY <3>2, <3>3, <3>5, <4>1, <4>2
      <4>4. Base * 0 = 0
        BY BaseFacts
      <4> QED BY <3>3, <4>3, <4>4
    <3>6. CASE i > q + 1
      <4>1. c[i] = 0 /\ c[i-1] = 0 /\ b[i] = 0
        BY <3>1, <3>2, <3>3, <3>6
      <4>4. Base * 0 = 0
        BY BaseFacts
      <4> QED BY <3>3, <4>1, <4>4
    <3> QED BY <3>4, <3>5, <3>6
  <2> HIDE DEF b
  <2>4. Value(z) + Value(z) + c[0] = Value(b) + PowerOf(Base, n) * c[n]
    BY <1>7, <2>3, ChainValue
  <2>5. PICK W \in Nat, v \in Nat, A \in Nat : W = PowerOf(Base, n) /\ v = Value(b) /\ A = PowerOf(Base, q)
    BY <1>7, ValueIsNat, PowerNat
  <2>6. c[n] = 0 /\ c[0] = P * A
    <3>1. n \in 0..n /\ 0 \in 0..n /\ ~ (n <= q) /\ 0 <= q /\ q - 0 = q
      BY <1>2
    <3> QED BY <2>2, <2>5, <3>1
  <2>7. v = P * A
    <3>1. 0 + 0 + P * A = v + W * 0 /\ W * 0 = 0
      BY <2>1, <2>4, <2>5, <2>6
    <3>2. PICK x \in Int : x = P * A
      OBVIOUS
    <3> QED BY <3>1, <3>2
  <2>8. PowerOf(2, bit) = A * P
    <3>1. PICK e \in Nat : e = BITS_PER_WORD * q /\ A = PowerOf(2, e)
      BY <2>5, BasePower
    <3>2. k \in Nat
      OBVIOUS
    <3>3. PowerOf(2, e + k) = PowerOf(2, e) * PowerOf(2, k)
      BY <3>1, <3>2, TwoPowerAdd
    <3> QED BY <1>2, <1>3, <3>1, <3>3
  <2>9. P * A = A * P
    OBVIOUS
  <2> QED BY <2>5, <2>7, <2>8, <2>9
<1> QED BY <1>5, <1>6, <1>7, <1>8

-----------------------------------------------------------------------------
(* Bytes of a word: the byte at 2^j is replaced.                           *)
WordByte(x, P, D) == (x \div P) % D
Replaced(x, P, D, value) == x + (value - WordByte(x, P, D)) * P

(* A number in three parts: above a byte, the byte, and below it.          *)
LEMMA ThreeParts ==
  ASSUME NEW x \in Nat, NEW P \in Nat, P > 0, NEW D \in Nat, D > 0
  PROVE  \E h \in Nat, b \in 0..D-1, l \in 0..P-1 :
           x = P * (D * h + b) + l /\ b = WordByte(x, P, D)
<1>1. PICK q \in Nat, l \in 0..P-1 : q = x \div P /\ x = P * q + l
  <2>1. x \in Int /\ x \div P \in Nat
    OBVIOUS
  <2>2. x \div P \in Int /\ x % P \in 0..P-1 /\ x = P * (x \div P) + (x % P)
    BY <2>1, Divided
  <2> QED BY <2>1, <2>2
<1>2. PICK h \in Nat, b \in 0..D-1 : b = q % D /\ q = D * h + b
  <2>1. q \in Int /\ q \div D \in Nat
    OBVIOUS
  <2>2. q \div D \in Int /\ q % D \in 0..D-1 /\ q = D * (q \div D) + (q % D)
    BY <2>1, Divided
  <2> QED BY <2>1, <2>2
<1> QED BY <1>1, <1>2 DEF WordByte

(* The three parts before and after.                                       *)
IsReplaced(x, P, D, value, y) ==
  /\ y \in Nat
  /\ \E h \in Nat, b \in 0..D-1, l \in 0..P-1 :
       x = P * (D * h + b) + l /\ b = WordByte(x, P, D) /\ y = P * (D * h + value) + l

(* A byte is put in: the parts below and above it stay.                    *)
LEMMA ReplacedParts ==
  ASSUME NEW x \in Nat, NEW P \in Nat, P > 0, NEW D \in Nat, D > 0, NEW value \in 0..D-1
  PROVE  IsReplaced(x, P, D, value, Replaced(x, P, D, value))
<1>1. PICK h \in Nat, b \in 0..D-1, l \in 0..P-1 : x = P * (D * h + b) + l /\ b = WordByte(x, P, D)
  BY ThreeParts
<1>2. P * (D * h + b) + l + (value - b) * P = P * (D * h + value) + l
  <2>1. PICK g \in Nat : g = D * h
    OBVIOUS
  <2>2. P * (g + b) = P * g + P * b /\ (value - b) * P = P * value - P * b /\ P * (g + value) = P * g + P * value
    OBVIOUS
  <2>3. PICK u \in Int, v \in Int, w \in Int : u = P * g /\ v = P * b /\ w = P * value
    OBVIOUS
  <2> QED BY <2>1, <2>2, <2>3
<1>3. Replaced(x, P, D, value) = P * (D * h + value) + l
  BY <1>1, <1>2 DEF Replaced
<1>4. P * (D * h + value) + l \in Nat
  <2>1. PICK g \in Nat : g = D * h
    OBVIOUS
  <2>2. PICK e \in Nat : e = g + value
    OBVIOUS
  <2>3. PICK f \in Nat : f = P * e
    OBVIOUS
  <2> QED BY <2>1, <2>2, <2>3
<1> QED BY <1>1, <1>3, <1>4 DEF IsReplaced

(* The byte that is replaced is the new one.                               *)
LEMMA ReplacedIs ==
  ASSUME NEW x \in Nat, NEW P \in Nat, P > 0, NEW D \in Nat, D > 0, NEW value \in 0..D-1
  PROVE  WordByte(Replaced(x, P, D, value), P, D) = value
<1>1. PICK h \in Nat, b \in 0..D-1, l \in 0..P-1, y \in Nat :
        y = Replaced(x, P, D, value) /\ y = P * (D * h + value) + l
  <2>1. IsReplaced(x, P, D, value, Replaced(x, P, D, value))
    BY ReplacedParts
  <2> QED BY <2>1 DEF IsReplaced
<1>2. PICK q \in Int : q = D * h + value
  OBVIOUS
<1>3. y \div P = q
  BY <1>1, <1>2, QuotientIs
<1>4. q % D = value
  BY <1>2, QuotientIs
<1> QED BY <1>1, <1>3, <1>4 DEF WordByte

(* A byte below it is not touched, and nor is a byte above it.             *)
Untouched(x, P, D, value, Q) == WordByte(Replaced(x, P, D, value), Q, D) = WordByte(x, Q, D)
(* P has a byte at Q below it.                                             *)
HasBelow(P, Q, D) == \E E \in Nat : E > 0 /\ P = (Q * D) * E

(* A byte below the one that is put in is untouched.                       *)
LEMMA ByteBelow ==
  ASSUME NEW x \in Nat, NEW P \in Nat, P > 0, NEW D \in Nat, D > 0, NEW value \in 0..D-1,
         NEW Q \in Nat, Q > 0, HasBelow(P, Q, D)
  PROVE  Untouched(x, P, D, value, Q)
<1>0. PICK E \in Nat : P = (Q * D) * E
  BY DEF HasBelow
<1>1. PICK h \in Nat, b \in 0..D-1, l \in 0..P-1, y \in Nat :
        x = P * (D * h + b) + l /\ y = Replaced(x, P, D, value) /\ y = P * (D * h + value) + l
  <2>1. IsReplaced(x, P, D, value, Replaced(x, P, D, value))
    BY ReplacedParts
  <2> QED BY <2>1 DEF IsReplaced
<1>2. PICK d \in Int, r \in 0..Q-1 : l = Q * d + r
  <2>1. l \in Int
    OBVIOUS
  <2>2. l \div Q \in Int /\ l % Q \in 0..Q-1 /\ l = Q * (l \div Q) + (l % Q)
    BY <2>1, Divided
  <2> QED BY <2>2
<1>3. ASSUME NEW e \in Nat PROVE ((P * e + l) \div Q) % D = d % D
  <2>1. P * e + l = Q * (D * (E * e) + d) + r
    <3>1. ((Q * D) * E) * e = Q * (D * (E * e)) /\ Q * (D * (E * e) + d) = Q * (D * (E * e)) + Q * d
      OBVIOUS
    <3>2. PICK u \in Int, v \in Int, w \in Int : u = Q * (D * (E * e)) /\ v = Q * d /\ w = P * e
      OBVIOUS
    <3>3. w = u
      BY <1>0, <3>1, <3>2
    <3> QED BY <1>2, <3>1, <3>2, <3>3
  <2>2. PICK f \in Int, g \in Int : f = E * e /\ g = D * f + d
    OBVIOUS
  <2>3. (P * e + l) \div Q = g
    <3>1. P * e + l = Q * g + r
      BY <2>1, <2>2
    <3> QED BY <3>1, QuotientIs
  <2>4. g % D = d % D
    <3>1. Congruent(g, d, D)
      BY <2>2 DEF Congruent
    <3> QED BY <3>1, SameRest
  <2> QED BY <2>3, <2>4
<1>4. D * h + b \in Nat /\ D * h + value \in Nat
  <2>1. PICK g \in Nat : g = D * h
    OBVIOUS
  <2> QED BY <2>1
<1>5. ((P * (D * h + b) + l) \div Q) % D = d % D /\ ((P * (D * h + value) + l) \div Q) % D = d % D
  BY <1>3, <1>4
<1> QED BY <1>1, <1>5 DEF WordByte, Untouched

(* A byte above the one that is put in is untouched.                       *)
LEMMA ByteAbove ==
  ASSUME NEW x \in Nat, NEW P \in Nat, P > 0, NEW D \in Nat, D > 0, NEW value \in 0..D-1,
         NEW Q \in Nat, HasBelow(Q, P, D)
  PROVE  Untouched(x, P, D, value, Q)
<1>0. PICK E \in Nat : E > 0 /\ Q = (P * D) * E
  BY DEF HasBelow
<1>1. PICK h \in Nat, b \in 0..D-1, l \in 0..P-1, y \in Nat :
        x = P * (D * h + b) + l /\ y = Replaced(x, P, D, value) /\ y = P * (D * h + value) + l
  <2>1. IsReplaced(x, P, D, value, Replaced(x, P, D, value))
    BY ReplacedParts
  <2> QED BY <2>1 DEF IsReplaced
<1>2. PICK F \in Nat : F = P * D /\ F > 0
  BY ProductBelow, 0 < P, 0 < D
<1>3. ASSUME NEW c \in 0..D-1 PROVE (P * (D * h + c) + l) \div Q = h \div E /\ P * (D * h + c) + l \in Nat
  <2>1. P * (D * h + c) = F * h + P * c
    <3>1. P * (D * h + c) = (P * D) * h + P * c
      OBVIOUS
    <3> QED BY <1>2, <3>1
  <2>2. P * c + l \in 0..F-1
    <3>1. P * (D - 1 - c) >= 0 /\ P * c >= 0 /\ P * (D - 1 - c) = P * D - P - P * c
      OBVIOUS
    <3>2. PICK u \in Int, v \in Int : u = P * D /\ v = P * c
      OBVIOUS
    <3> QED BY <1>2, <3>1, <3>2
  <2>3. PICK s \in 0..F-1, z \in Int : s = P * c + l /\ z = P * (D * h + c) + l
    <3>1. PICK e \in Int : e = D * h + c
      OBVIOUS
    <3>2. P * e + l \in Int
      OBVIOUS
    <3> QED BY <2>2, <3>1, <3>2
  <2>4. z = F * h + s
    <3>1. PICK u \in Int, v \in Int : u = F * h /\ v = P * c
      OBVIOUS
    <3> QED BY <2>1, <2>3, <3>1
  <2>5. z \div F = h
    <3>1. F > 0 /\ h \in Int
      BY <1>2
    <3> QED BY <2>4, <3>1, QuotientIs
  <2>6. z \in Nat
    <3>1. PICK u \in Nat : u = F * h
      OBVIOUS
    <3> QED BY <2>3, <2>4, <3>1
  <2>7. (z \div F) \div E = z \div (F * E)
    BY <1>0, <1>2, <2>6, DivTwice
  <2> QED BY <1>0, <1>2, <2>3, <2>5, <2>6, <2>7
<1>4. x \div Q = h \div E /\ y \div Q = h \div E
  BY <1>1, <1>3
<1> QED BY <1>1, <1>4 DEF WordByte, Untouched

(* A word stays a word.                                                    *)
LEMMA WordKept ==
  ASSUME NEW x \in Nat, NEW P \in Nat, P > 0, NEW D \in Nat, D > 0, NEW value \in 0..D-1,
         NEW E \in Nat, x < (P * D) * E
  PROVE  Replaced(x, P, D, value) \in Nat /\ Replaced(x, P, D, value) < (P * D) * E
<1>1. PICK h \in Nat, b \in 0..D-1, l \in 0..P-1, y \in Nat :
        x = P * (D * h + b) + l /\ y = Replaced(x, P, D, value) /\ y = P * (D * h + value) + l
  <2>1. IsReplaced(x, P, D, value, Replaced(x, P, D, value))
    BY ReplacedParts
  <2> QED BY <2>1 DEF IsReplaced
<1>2. PICK F \in Nat : F = P * D
  OBVIOUS
<1>3. ASSUME NEW c \in 0..D-1 PROVE P * (D * h + c) + l >= F * h /\ P * (D * h + c) + l <= F * h + F - 1
  <2>1. P * (D * h + c) = (P * D) * h + P * c
    OBVIOUS
  <2>2. P * (D - 1 - c) >= 0 /\ P * c >= 0 /\ P * (D - 1 - c) = P * D - P - P * c
    OBVIOUS
  <2>3. PICK u \in Int, v \in Int, w \in Int : u = P * c /\ v = F * h /\ w = P * (D * h + c)
    <3>1. PICK e \in Int : e = D * h + c
      OBVIOUS
    <3> QED BY <3>1
  <2>4. w = v + u
    BY <1>2, <2>1, <2>3
  <2>5. u >= 0 /\ u <= F - P
    BY <1>2, <2>2, <2>3
  <2> QED BY <2>3, <2>4, <2>5
<1>4. x >= F * h /\ y <= F * h + F - 1
  BY <1>1, <1>3
<1>5. h < E
  <2>1. SUFFICES ASSUME h >= E PROVE FALSE
    OBVIOUS
  <2>2. F * (h - E) >= 0 /\ F * (h - E) = F * h - F * E
    BY <2>1
  <2>3. PICK u \in Int, v \in Int : u = F * h /\ v = F * E
    OBVIOUS
  <2>4. x < v
    BY <1>2, <2>3
  <2> QED BY <1>4, <2>2, <2>3, <2>4
<1>6. F * (E - 1 - h) >= 0 /\ F * (E - 1 - h) = F * E - F - F * h
  BY <1>5
<1>7. PICK u \in Int, v \in Int : u = F * h /\ v = F * E
  OBVIOUS
<1>8. y < v
  BY <1>4, <1>6, <1>7
<1> QED BY <1>1, <1>2, <1>7, <1>8

(* The bytes of a word: eight bits of each power.                          *)
BytePlaces(m, D) ==
  /\ m = BytesPerWord /\ m > 0 /\ D = PowerOf(2, BITS_PER_BYTE) /\ D > 0
  /\ \A j \in 0..m-1 : LET P == PowerOf(2, j * BITS_PER_BYTE) IN
       P \in Nat /\ P > 0 /\ \E E \in Nat : Base = (P * D) * E
  /\ \A i, j \in 0..m-1 : i < j =>
       HasBelow(PowerOf(2, j * BITS_PER_BYTE), PowerOf(2, i * BITS_PER_BYTE), D)

(* The bytes of a word lie side by side.                                   *)
LEMMA BytePlacesAre ==
  \E m, D \in Nat : BytePlaces(m, D)
<1>1. PICK w \in Nat, d \in Nat : w = BITS_PER_WORD /\ d = BITS_PER_BYTE /\ w > 0 /\ d > 0 /\ w % d = 0
  BY WordsAssumption
<1>2. PICK m \in Nat : m = BytesPerWord /\ w = d * m /\ m > 0
  <2>1. w \in Int /\ w \div d \in Nat
    BY <1>1
  <2>2. w = d * (w \div d) + (w % d)
    BY <1>1, <2>1, Divided
  <2>3. PICK m \in Nat : m = w \div d
    BY <2>1
  <2>4. w = d * m
    BY <1>1, <2>2, <2>3
  <2>5. m # 0
    <3>1. d * 0 = 0
      OBVIOUS
    <3> QED BY <1>1, <2>4, <3>1
  <2> QED BY <1>1, <2>3, <2>4, <2>5 DEF BytesPerWord
<1>3. PICK D \in Nat : D = PowerOf(2, d) /\ D > 0
  BY TwoPower
<1>4. ASSUME NEW i \in Nat, NEW j \in Nat, i < j
      PROVE  /\ j * d \in Nat /\ i * d \in Nat /\ PowerOf(2, i * d) \in Nat /\ PowerOf(2, i * d) > 0
             /\ \E E \in Nat : E > 0 /\ PowerOf(2, j * d) = (PowerOf(2, i * d) * D) * E
  <2>1. PICK k \in Nat : j = i + 1 + k
    <3>1. j - i - 1 \in Nat /\ j = i + 1 + (j - i - 1)
      BY <1>4
    <3> QED BY <3>1
  <2>2. PICK x \in Nat, y \in Nat : x = i * d /\ y = k * d /\ j * d = (x + d) + y /\ x + d \in Nat
    <3>1. (i + 1 + k) * d = (i * d + d) + k * d
      OBVIOUS
    <3> QED BY <2>1, <3>1
  <2>3. PowerOf(2, x + d) = PowerOf(2, x) * PowerOf(2, d)
    BY TwoPowerAdd
  <2>4. PowerOf(2, (x + d) + y) = PowerOf(2, x + d) * PowerOf(2, y)
    BY <2>2, TwoPowerAdd
  <2>5. PowerOf(2, y) \in Nat /\ PowerOf(2, y) > 0
    BY TwoPower
  <2>6. PowerOf(2, x) \in Nat /\ PowerOf(2, x) > 0
    BY TwoPower
  <2>7. PICK X \in Nat, E \in Nat : X = PowerOf(2, x) /\ E = PowerOf(2, y) /\ X > 0 /\ E > 0
    BY <2>5, <2>6
  <2>8. PowerOf(2, j * d) = (X * D) * E
    BY <1>3, <2>2, <2>3, <2>4, <2>7
  <2>9. j * d \in Nat
    OBVIOUS
  <2> QED BY <2>2, <2>7, <2>8, <2>9
<1>5. ASSUME NEW j \in 0..m-1
      PROVE  LET P == PowerOf(2, j * d) IN P \in Nat /\ P > 0 /\ \E E \in Nat : Base = (P * D) * E
  <2>1. j \in Nat /\ j < m
    OBVIOUS
  <2>2. PICK E \in Nat : PowerOf(2, m * d) = (PowerOf(2, j * d) * D) * E
    BY <1>4, <2>1
  <2>3. PowerOf(2, j * d) \in Nat /\ PowerOf(2, j * d) > 0
    BY <1>4, <2>1
  <2>4. m * d = w
    BY <1>2
  <2> QED BY <1>1, <2>2, <2>3, <2>4 DEF Base
<1>6. ASSUME NEW i \in 0..m-1, NEW j \in 0..m-1, i < j
      PROVE HasBelow(PowerOf(2, j * d), PowerOf(2, i * d), D)
  <2>1. i \in Nat /\ j \in Nat
    OBVIOUS
  <2> QED BY <1>4, <1>6, <2>1 DEF HasBelow
<1>7. BytePlaces(m, D)
  <2>1. \A j \in 0..m-1 : LET P == PowerOf(2, j * BITS_PER_BYTE) IN
          P \in Nat /\ P > 0 /\ \E E \in Nat : Base = (P * D) * E
    BY <1>1, <1>5
  <2>2. \A i, j \in 0..m-1 : i < j =>
          HasBelow(PowerOf(2, j * BITS_PER_BYTE), PowerOf(2, i * BITS_PER_BYTE), D)
    <3> TAKE i \in 0..m-1
    <3> TAKE j \in 0..m-1
    <3>1. i < j => HasBelow(PowerOf(2, j * d), PowerOf(2, i * d), D)
      BY <1>6
    <3> QED BY <1>1, <3>1
  <2> QED BY <1>1, <1>2, <1>3, <2>1, <2>2, Zenon DEF BytePlaces
<1> QED BY <1>7

(* bi_set_byte sets one byte and leaves the others.                        *)
THEOREM BytesAreIndependent ==
  ASSUME NEW n \in Nat, NEW a \in Bigs(n), NEW index \in 0..BytesPerWord * n - 1,
         NEW value \in 0..PowerOf(2, BITS_PER_BYTE) - 1
  PROVE  LET c == bi_set_byte_var(a, index, value) IN
         /\ c \in Bigs(n)
         /\ \A i \in 0..BytesPerWord * n - 1 :
              bi_get_byte_var(c, i) = IF i = index THEN value ELSE bi_get_byte_var(a, i)
<1>1. PICK m \in Nat, D \in Nat : BytePlaces(m, D)
  BY BytePlacesAre
<1>2. /\ m = BytesPerWord /\ m > 0 /\ D = PowerOf(2, BITS_PER_BYTE) /\ D > 0
      /\ \A j \in 0..m-1 : LET P == PowerOf(2, j * BITS_PER_BYTE) IN
           P \in Nat /\ P > 0 /\ \E E \in Nat : Base = (P * D) * E
      /\ \A i, j \in 0..m-1 : i < j =>
           HasBelow(PowerOf(2, j * BITS_PER_BYTE), PowerOf(2, i * BITS_PER_BYTE), D)
  BY <1>1, Zenon DEF BytePlaces
<1>3. ASSUME NEW i \in 0..m * n - 1
      PROVE  i \div m + 1 \in 1..n /\ i % m \in 0..m-1 /\ i = m * (i \div m) + (i % m) /\ i \div m \in Nat
  <2>1. i \in Int /\ i < m * n /\ i \div m \in Nat
    BY <1>2
  <2>2. i \div m \in Int /\ i % m \in 0..m-1 /\ i = m * (i \div m) + (i % m)
    BY <1>2, <2>1, Divided
  <2>3. PICK q \in Nat, k \in 0..m-1 : q = i \div m /\ k = i % m /\ i = m * q + k
    BY <2>1, <2>2
  <2>4. q < n
    <3>1. SUFFICES ASSUME q >= n PROVE FALSE
      OBVIOUS
    <3>2. m * (q - n) >= 0 /\ m * (q - n) = m * q - m * n
      BY <3>1
    <3>3. PICK u \in Int, v \in Int : u = m * q /\ v = m * n
      OBVIOUS
    <3> QED BY <2>1, <2>3, <3>2, <3>3
  <2> QED BY <2>3, <2>4
<1>4. index \in 0..m * n - 1 /\ value \in 0..D-1
  BY <1>2
<1>5. PICK q \in 1..n, k \in 0..m-1 : q = index \div m + 1 /\ k = index % m /\ index = m * (q - 1) + k
  <2>1. index \div m + 1 \in 1..n /\ index % m \in 0..m-1 /\ index = m * (index \div m) + (index % m)
        /\ index \div m \in Nat
    BY <1>3, <1>4
  <2>2. PICK e \in Nat : e = index \div m
    BY <2>1
  <2>3. (e + 1) - 1 = e
    OBVIOUS
  <2> QED BY <2>1, <2>2, <2>3
<1>6. PICK P \in Nat, E \in Nat : P = PowerOf(2, k * BITS_PER_BYTE) /\ P > 0 /\ Base = (P * D) * E
  BY <1>2
<1>7. Len(a) = n /\ (\A i \in 1..n : a[i] \in Word /\ a[i] \in Nat) /\ a \in [1..n -> Word]
  BY BigWords DEF Bigs
<1>8. PICK x \in Nat : x = a[q] /\ x < (P * D) * E
  <2>1. a[q] \in Nat /\ a[q] < Base
    BY <1>7, BaseFacts DEF Word
  <2> QED BY <1>6, <2>1
<1>9. PICK y : y = Replaced(x, P, D, value)
  OBVIOUS
<1>10. bi_set_byte_var(a, index, value) = [a EXCEPT ![q] = y]
  <2>1. ByteAt(index) = P
    BY <1>2, <1>5, <1>6 DEF ByteAt
  <2>2. bi_get_byte_var(a, index) = WordByte(x, P, D)
    BY <1>2, <1>5, <1>8, <2>1 DEF bi_get_byte_var, WordByte
  <2>3. bi_set_byte_var(a, index, value) = [a EXCEPT ![q] = a[q] + (value - bi_get_byte_var(a, index)) * ByteAt(index)]
    BY <1>2, <1>5 DEF bi_set_byte_var
  <2> QED BY <1>8, <1>9, <2>1, <2>2, <2>3, Zenon DEF Replaced
<1>11. y \in Word
  <2>1. D > 0 /\ P > 0
    BY <1>2, <1>6
  <2>2. y \in Nat /\ y < (P * D) * E
    BY <1>4, <1>8, <1>9, <2>1, WordKept
  <2> QED BY <1>6, <2>2, BaseFacts DEF Word
<1>12. PICK c \in Bigs(n) : /\ c = bi_set_byte_var(a, index, value) /\ c[q] = y
                            /\ \A i \in 1..n : i # q => c[i] = a[i]
  <2>1. [a EXCEPT ![q] = y] \in [1..n -> Word]
    BY <1>7, <1>11
  <2> QED BY <1>7, <1>10, <2>1 DEF Bigs
<1>13. ASSUME NEW i \in 0..m * n - 1
       PROVE bi_get_byte_var(c, i) = IF i = index THEN value ELSE bi_get_byte_var(a, i)
  <2>1. PICK g \in 1..n, j \in 0..m-1 : g = i \div m + 1 /\ j = i % m /\ i = m * (g - 1) + j
    <3>1. i \div m + 1 \in 1..n /\ i % m \in 0..m-1 /\ i = m * (i \div m) + (i % m) /\ i \div m \in Nat
      BY <1>3
    <3>2. PICK e \in Nat : e = i \div m
      BY <3>1
    <3>3. (e + 1) - 1 = e
      OBVIOUS
    <3> QED BY <3>1, <3>2, <3>3
  <2>2. PICK Q \in Nat : Q = PowerOf(2, j * BITS_PER_BYTE) /\ Q > 0
    BY <1>2
  <2>3. bi_get_byte_var(a, i) = WordByte(a[g], Q, D) /\ bi_get_byte_var(c, i) = WordByte(c[g], Q, D)
    <3>1. ByteAt(i) = Q
      BY <1>2, <2>1, <2>2 DEF ByteAt
    <3> QED BY <1>2, <2>1, <3>1 DEF bi_get_byte_var, WordByte
  <2>4. CASE g # q
    <3>1. i # index
      <4>1. SUFFICES ASSUME i = index PROVE FALSE
        OBVIOUS
      <4> QED BY <1>5, <2>1, <2>4, <4>1
    <3> QED BY <1>12, <2>3, <2>4, <3>1
  <2>5. CASE g = q /\ j = k
    <3>1. i = index
      BY <1>5, <2>1, <2>5
    <3>2. Q = P
      BY <1>6, <2>2, <2>5
    <3>3. WordByte(Replaced(x, P, D, value), P, D) = value
      BY <1>2, <1>4, <1>6, ReplacedIs
    <3> QED BY <1>9, <1>12, <2>3, <2>5, <3>1, <3>2, <3>3
  <2>6. CASE g = q /\ j < k
    <3>1. i # index
      BY <1>5, <2>1, <2>6
    <3>2. HasBelow(P, Q, D)
      BY <1>2, <1>6, <2>2, <2>6
    <3>3. Untouched(x, P, D, value, Q)
      <4>1. D > 0 /\ P > 0 /\ Q > 0
        BY <1>2, <1>6, <2>2
      <4> QED BY <1>4, <3>2, <4>1, ByteBelow
    <3> QED BY <1>8, <1>9, <1>12, <2>3, <2>6, <3>1, <3>3 DEF Untouched
  <2>7. CASE g = q /\ k < j
    <3>1. i # index
      BY <1>5, <2>1, <2>7
    <3>2. HasBelow(Q, P, D)
      BY <1>2, <1>6, <2>2, <2>7
    <3>3. Untouched(x, P, D, value, Q)
      <4>1. D > 0 /\ P > 0 /\ Q > 0
        BY <1>2, <1>6, <2>2
      <4> QED BY <1>4, <3>2, <4>1, ByteAbove
    <3> QED BY <1>8, <1>9, <1>12, <2>3, <2>7, <3>1, <3>3 DEF Untouched
  <2> QED BY <2>4, <2>5, <2>6, <2>7
<1> QED BY <1>2, <1>12, <1>13

-----------------------------------------------------------------------------
(* The routines for one word, and for operands of different lengths, as    *)
(* loops of their own.                                                     *)
Padded(w, n) == [i \in 1..n |-> IF i = 1 THEN w ELSE 0]

(* A word with zeros above it keeps its value.                             *)
LEMMA PaddedValue ==
  ASSUME NEW n \in Nat, n > 0, NEW w \in Word
  PROVE  Padded(w, n) \in Bigs(n) /\ Value(Padded(w, n)) = w
<1> DEFINE r == Padded(w, n)
<1>1. w \in Nat /\ 0 \in Word
  BY WordInt, BaseFacts DEF Word
<1>2. r \in Bigs(n)
  BY <1>1 DEF Bigs, Padded
<1>3. PICK z \in Bigs(n) : Value(z) = 0 /\ \A i \in 1..n : z[i] = 0
  <2>1. Zeros(n) \in Bigs(n) /\ Value(Zeros(n)) = 0
    BY ZeroValue
  <2> QED BY <2>1 DEF Zeros
<1>4. PICK c \in [0..n -> Int] : c = [i \in 0..n |-> IF i = 0 THEN w ELSE 0]
  <2>1. [i \in 0..n |-> IF i = 0 THEN w ELSE 0] \in [0..n -> Int]
    BY <1>1
  <2> QED BY <2>1
<1>5. ASSUME NEW i \in 1..n PROVE z[i] + z[i] + c[i-1] = r[i] + Base * c[i]
  <2>1. i - 1 \in 0..n /\ i \in 0..n /\ i # 0 /\ (i = 1 <=> i - 1 = 0)
    OBVIOUS
  <2>2. c[i] = 0 /\ c[i-1] = r[i] /\ r[i] \in Int
    BY <1>1, <1>4, <2>1 DEF Padded
  <2>3. Base * 0 = 0
    BY BaseFacts
  <2> HIDE DEF r
  <2> QED BY <1>3, <2>2, <2>3
<1> HIDE DEF r
<1>6. Value(z) + Value(z) + c[0] = Value(r) + PowerOf(Base, n) * c[n]
  BY <1>2, <1>5, ChainValue
<1>7. c[0] = w /\ c[n] = 0
  BY <1>4
<1>8. PICK v \in Nat, W \in Nat : v = Value(r) /\ W = PowerOf(Base, n)
  BY <1>2, ValueIsNat, PowerNat
<1>9. 0 + 0 + w = v + W * 0
  BY <1>3, <1>6, <1>7, <1>8
<1>10. W * 0 = 0
  OBVIOUS
<1> QED BY <1>1, <1>2, <1>8, <1>9, <1>10 DEF r

(* Two summands of a word: the sum is cut exactly when it is below one.    *)
LEMMA AddOne ==
  ASSUME NEW x \in Word, NEW y \in Word
  PROVE  LET r == (x + y) % Base IN
         r \in Word /\ Bit(r < x) \in {0, 1} /\ x + y = r + Base * Bit(r < x)
<1>1. PICK B \in Nat : B = Base /\ B >= 2 /\ x \in 0..B-1 /\ y \in 0..B-1
  BY BaseFacts DEF Word
<1>2. CASE x + y < B
  <2>1. (x + y) % B = x + y
    BY <1>1, <1>2
  <2> QED BY <1>1, <1>2, <2>1 DEF Bit, Word
<1>3. CASE ~ (x + y < B)
  <2>1. (x + y) % B = x + y - B
    <3>1. PICK t \in Int, r \in 0..B-1 : t = x + y /\ r = t - B
      BY <1>1, <1>3
    <3>2. t = B * 1 + r /\ 1 \in Int /\ B > 0
      BY <1>1, <3>1
    <3>3. t % B = r
      BY <1>1, <3>2, QuotientIs
    <3>4. (x + y) % B = r
      BY <3>1, <3>3, Zenon
    <3> QED BY <1>1, <3>1, <3>4
  <2> QED BY <1>1, <1>3, <2>1 DEF Bit, Word
<1> QED BY <1>2, <1>3

(* One word less another and the borrow that it leaves.                    *)
LEMMA SubtractOne ==
  ASSUME NEW x \in Word, NEW y \in Word
  PROVE  LET r == (x - y) % Base IN
         r \in Word /\ Bit(x < y) \in {0, 1} /\ r + y = x + Base * Bit(x < y)
<1>1. PICK B \in Nat : B = Base /\ B >= 2 /\ x \in 0..B-1 /\ y \in 0..B-1
  BY BaseFacts DEF Word
<1>2. CASE x >= y
  <2>1. (x - y) % B = x - y
    BY <1>1, <1>2
  <2> QED BY <1>1, <1>2, <2>1 DEF Bit, Word
<1>3. CASE ~ (x >= y)
  <2>1. (x - y) % B = x - y + B
    <3>1. PICK t \in Int, r \in 0..B-1 : t = x - y /\ r = t + B
      BY <1>1, <1>3
    <3>2. t = B * (0 - 1) + r /\ 0 - 1 \in Int /\ B > 0
      BY <1>1, <3>1
    <3>3. t % B = r
      BY <1>1, <3>2, QuotientIs
    <3>4. (x - y) % B = r
      BY <3>1, <3>3, Zenon
    <3> QED BY <1>1, <3>1, <3>4
  <2> QED BY <1>1, <1>3, <2>1 DEF Bit, Word
<1> QED BY <1>2, <1>3

(* A loop whose carries are bits.                                          *)
BitLoop(r, n, cin, out, car) ==
  /\ r.res \in Bigs(n) /\ r.carry \in {0, 1}
  /\ \E c \in [0..n -> {0, 1}] :
       /\ c[0] = cin /\ c[n] = r.carry
       /\ \A i \in 1..n : r.res[i] = out[i][c[i-1]] /\ c[i] = car[i][c[i-1]]

(* A loop whose carry is a bit keeps a bit.                                *)
LEMMA BitLoops ==
  ASSUME NEW n \in Nat, NEW cin \in {0, 1}, NEW out \in LoopFunctions(n), NEW car \in LoopFunctions(n),
         \A i \in 1..n : \A c \in {0, 1} : car[i][c] \in {0, 1}
  PROVE  BitLoop(CarryLoop(cin, n, out, car), n, cin, out, car)
<1> DEFINE s == CarryLoop(cin, n, out, car)
<1>1. cin \in Word
  BY BaseFacts DEF Word
<1>2. LoopResult(s, n, cin, out, car)
  BY <1>1, LoopWords
<1> HIDE DEF s
<1>3. PICK c \in [0..n -> Word] :
        /\ c[0] = cin /\ c[n] = s.carry
        /\ \A i \in 1..n : s.res[i] = out[i][c[i-1]] /\ c[i] = car[i][c[i-1]]
  BY <1>2 DEF LoopResult
<1> DEFINE T == {i \in 0..n : c[i] \in {0, 1}}
<1>4. 0 \in T
  BY <1>3
<1>5. ASSUME NEW i \in 1..n, i - 1 \in T PROVE i \in T
  BY <1>3, <1>5
<1>6. \A i \in 0..n : i \in T
  <2> HIDE DEF T
  <2> QED BY <1>4, <1>5, UpTo
<1>7. c \in [0..n -> {0, 1}] /\ s.carry \in {0, 1}
  BY <1>3, <1>6
<1>8. s.res \in Bigs(n)
  BY <1>2 DEF LoopResult
<1> QED BY <1>3, <1>7, <1>8, Zenon DEF BitLoop, s

(* bi_add_word adds a word to a number.                                    *)
LEMMA WordSum ==
  ASSUME NEW n \in Nat, n > 0, NEW a \in Bigs(n), NEW b \in Word
  PROVE  LET s == bi_add_word_var(a, b) IN
         /\ s.res \in Bigs(n) /\ s.carry \in {0, 1}
         /\ Value(s.res) + PowerOf(Base, n) * s.carry = Value(a) + b
<1> DEFINE r(i, c) == (a[i] + IF i = 1 THEN b ELSE c) % Base
           out == [i \in 1..n |-> [c \in Word |-> r(i, c)]]
           car == [i \in 1..n |-> [c \in Word |-> Bit(r(i, c) < a[i])]]
<1>1. Len(a) = n /\ (\A i \in 1..n : a[i] \in Word /\ a[i] \in Nat) /\ {0, 1} \subseteq Word
  BY BigWords, BaseFacts DEF Word
<1>2. bi_add_word_var(a, b) = CarryLoop(0, n, out, car)
  BY <1>1 DEF bi_add_word_var, WordLoop, WordLoopFrom
<1>3. PICK d \in Bigs(n) : Value(d) = b /\ \A i \in 1..n : d[i] = IF i = 1 THEN b ELSE 0
  <2>1. Padded(b, n) \in Bigs(n) /\ Value(Padded(b, n)) = b
    BY PaddedValue
  <2> QED BY <2>1 DEF Padded
<1>4. ASSUME NEW i \in 1..n, NEW c \in Word
      PROVE  r(i, c) \in Word /\ Bit(r(i, c) < a[i]) \in {0, 1}
             /\ a[i] + (IF i = 1 THEN b ELSE c) = r(i, c) + Base * Bit(r(i, c) < a[i])
  <2>1. PICK y \in Word : y = IF i = 1 THEN b ELSE c
    OBVIOUS
  <2>2. a[i] \in Word
    BY <1>1
  <2>3. /\ (a[i] + y) % Base \in Word /\ Bit((a[i] + y) % Base < a[i]) \in {0, 1}
        /\ a[i] + y = ((a[i] + y) % Base) + Base * Bit((a[i] + y) % Base < a[i])
    BY <2>2, AddOne
  <2> QED BY <2>1, <2>3, Zenon
<1> HIDE DEF r
<1>5. out \in LoopFunctions(n) /\ car \in LoopFunctions(n)
  BY <1>1, <1>4 DEF LoopFunctions
<1>6. \A i \in 1..n : \A c \in {0, 1} : car[i][c] = Bit(r(i, c) < a[i]) /\ out[i][c] = r(i, c)
  BY <1>1
<1>7. \A i \in 1..n : \A c \in {0, 1} : car[i][c] \in {0, 1}
  BY <1>1, <1>4, <1>6
<1> HIDE DEF out, car
<1>8. PICK s : s = CarryLoop(0, n, out, car) /\ BitLoop(s, n, 0, out, car)
  <2>1. BitLoop(CarryLoop(0, n, out, car), n, 0, out, car)
    BY <1>5, <1>7, BitLoops
  <2> QED BY <2>1
<1>9. PICK c \in [0..n -> {0, 1}] :
        /\ c[0] = 0 /\ c[n] = s.carry
        /\ \A i \in 1..n : s.res[i] = out[i][c[i-1]] /\ c[i] = car[i][c[i-1]]
  BY <1>8 DEF BitLoop
<1>10. s.res \in Bigs(n) /\ s.carry \in {0, 1}
  BY <1>8 DEF BitLoop
<1>11. ASSUME NEW i \in 1..n PROVE a[i] + d[i] + c[i-1] = s.res[i] + Base * c[i]
  <2>1. PICK e \in {0, 1} : e = c[i-1] /\ e \in Word
    <3>1. i - 1 \in 0..n
      OBVIOUS
    <3> QED BY <1>1, <3>1
  <2>2. s.res[i] = r(i, e) /\ c[i] = Bit(r(i, e) < a[i])
    BY <1>6, <1>9, <2>1
  <2>3. a[i] + (IF i = 1 THEN b ELSE e) = r(i, e) + Base * Bit(r(i, e) < a[i])
    BY <1>4, <2>1
  <2>4. d[i] + e = IF i = 1 THEN b ELSE e
    <3>1. CASE i = 1
      <4>1. e = 0 /\ b \in Nat
        BY <1>9, <2>1, <3>1, WordInt
      <4> QED BY <1>3, <3>1, <4>1
    <3>2. CASE i # 1
      BY <1>3, <3>2
    <3> QED BY <3>1, <3>2
  <2>5. PICK x \in Int, y \in Int : x = a[i] /\ y = d[i]
    <3>1. d[i] \in Nat
      BY BigWords
    <3> QED BY <1>1, <3>1
  <2>6. x + (y + e) = s.res[i] + Base * c[i]
    BY <2>2, <2>3, <2>4, <2>5
  <2>7. x + y + e = x + (y + e)
    OBVIOUS
  <2> QED BY <2>1, <2>5, <2>6, <2>7
<1>12. c \in [0..n -> Int]
  OBVIOUS
<1>13. Value(a) + Value(d) + c[0] = Value(s.res) + PowerOf(Base, n) * c[n]
  BY <1>10, <1>11, <1>12, ChainValue
<1>14. Value(a) + Value(d) + c[0] = Value(a) + b
  <2>1. Value(a) \in Nat /\ b \in Nat
    BY ValueIsNat, WordInt
  <2> QED BY <1>3, <1>9, <2>1
<1> QED BY <1>2, <1>8, <1>9, <1>10, <1>13, <1>14

(* bi_subtract_word takes a word from a number whose lowest word borrows    *)
(* nothing.                                                                *)
LEMMA WordDifference ==
  ASSUME NEW n \in Nat, n > 0, NEW a \in Bigs(n), NEW b \in Word, b <= a[1]
  PROVE  LET d == bi_subtract_word_var(a, b) IN
         d.res \in Bigs(n) /\ d.carry = 0 /\ Value(d.res) = Value(a) - b
<1> DEFINE r(i, c) == (a[i] - IF i = 1 THEN b ELSE c) % Base
           car(i, c) == IF i = 1 THEN Bit(a[i] < b) ELSE Bit(r(i, c) = 0 /\ c = 1)
           outs == [i \in 1..n |-> [c \in Word |-> r(i, c)]]
           cars == [i \in 1..n |-> [c \in Word |-> car(i, c)]]
<1>1. Len(a) = n /\ (\A i \in 1..n : a[i] \in Word /\ a[i] \in Nat) /\ {0, 1} \subseteq Word
  BY BigWords, BaseFacts DEF Word
<1>2. bi_subtract_word_var(a, b) = CarryLoop(0, n, outs, cars)
  BY <1>1 DEF bi_subtract_word_var, WordLoop, WordLoopFrom
<1>3. PICK d \in Bigs(n) : Value(d) = b /\ \A i \in 1..n : d[i] = IF i = 1 THEN b ELSE 0
  <2>1. Padded(b, n) \in Bigs(n) /\ Value(Padded(b, n)) = b
    BY PaddedValue
  <2> QED BY <2>1 DEF Padded
<1>4. PICK B \in Nat : B = Base /\ B > 0 /\ b \in 0..B-1 /\ \A i \in 1..n : a[i] \in 0..B-1
  BY <1>1, BaseFacts DEF Word
<1>5. ASSUME NEW i \in 1..n
      PROVE  r(i, 0) + d[i] = a[i] /\ car(i, 0) = 0
  <2>1. PICK y \in 0..B-1 : y = d[i] /\ y = (IF i = 1 THEN b ELSE 0) /\ y <= a[i]
    BY <1>3, <1>4
  <2>2. PICK x \in 0..B-1 : x = a[i]
    BY <1>4
  <2>3. (x - y) % B = x - y
    <3>1. PICK z \in 0..B-1 : z = x - y
      BY <1>4, <2>1, <2>2
    <3>2. z % B = z
      BY <1>4
    <3> QED BY <3>1, <3>2
  <2>4. r(i, 0) = (x - y) % B
    BY <1>4, <2>1, <2>2
  <2>5. r(i, 0) + d[i] = a[i]
    BY <2>1, <2>2, <2>3, <2>4
  <2>6. car(i, 0) = 0
    <3>1. CASE i = 1
      <4>1. ~ (a[i] < b)
        BY <2>1, <2>2, <3>1
      <4> QED BY <3>1, <4>1 DEF Bit
    <3>2. CASE i # 1
      BY <3>2 DEF Bit
    <3> QED BY <3>1, <3>2
  <2> QED BY <2>5, <2>6
<1>6. ASSUME NEW i \in 1..n, NEW c \in Word PROVE r(i, c) \in Word /\ car(i, c) \in Word
  <2>1. PICK y \in Int : y = a[i] - IF i = 1 THEN b ELSE c
    <3>1. c \in Nat /\ b \in Nat
      BY WordInt
    <3> QED BY <1>1, <3>1
  <2>2. y % B \in 0..B-1
    BY <1>4
  <2>3. r(i, c) \in Word
    BY <1>4, <2>1, <2>2 DEF Word
  <2> HIDE DEF r
  <2> QED BY <1>1, <2>3 DEF Bit
<1> HIDE DEF r, car
<1>7. outs \in LoopFunctions(n) /\ cars \in LoopFunctions(n)
  BY <1>6 DEF LoopFunctions
<1>8. \A i \in 1..n : outs[i][0] = r(i, 0) /\ cars[i][0] = 0
  BY <1>1, <1>5
<1> HIDE DEF outs, cars
<1>9. PICK s : s = CarryLoop(0, n, outs, cars) /\ LoopResult(s, n, 0, outs, cars)
  <2>1. 0 \in Word
    BY <1>1
  <2>2. LoopResult(CarryLoop(0, n, outs, cars), n, 0, outs, cars)
    BY <1>7, <2>1, LoopWords
  <2> QED BY <2>2
<1>10. PICK c \in [0..n -> Word] :
        /\ c[0] = 0 /\ c[n] = s.carry
        /\ \A i \in 1..n : s.res[i] = outs[i][c[i-1]] /\ c[i] = cars[i][c[i-1]]
  BY <1>9 DEF LoopResult
<1>11. s.res \in Bigs(n)
  BY <1>9 DEF LoopResult
<1> DEFINE T == {i \in 0..n : c[i] = 0}
<1>12. 0 \in T
  BY <1>10
<1>13. ASSUME NEW i \in 1..n, i - 1 \in T PROVE i \in T
  BY <1>8, <1>10, <1>13
<1>14. \A i \in 0..n : i \in T
  <2> HIDE DEF T
  <2> QED BY <1>12, <1>13, UpTo
<1>15. PICK e \in [0..n -> Int] : \A i \in 0..n : e[i] = 0
  <2>1. [i \in 0..n |-> 0] \in [0..n -> Int]
    OBVIOUS
  <2> QED BY <2>1
<1>22. PICK w \in Bigs(n) : w = s.res
  BY <1>11
<1>16. ASSUME NEW i \in 1..n PROVE w[i] + d[i] + e[i-1] = a[i] + Base * e[i]
  <2>1. i - 1 \in 0..n /\ i \in 0..n
    OBVIOUS
  <2>2. w[i] = r(i, 0) /\ e[i-1] = 0 /\ e[i] = 0
    BY <1>8, <1>22, <1>10, <1>14, <1>15, <2>1
  <2>3. Base * 0 = 0 /\ a[i] \in Nat
    BY <1>1, BaseFacts
  <2> QED BY <1>5, <2>2, <2>3
<1>17. Value(w) + Value(d) + e[0] = Value(a) + PowerOf(Base, n) * e[n]
  BY <1>16, ChainValue
<1>18. PICK W \in Nat, v \in Nat, u \in Nat : W = PowerOf(Base, n) /\ v = Value(s.res) /\ u = Value(a)
  BY <1>11, PowerNat, ValueIsNat
<1>19. v + b + 0 = u + W * 0
  BY <1>3, <1>22, <1>15, <1>17, <1>18
<1>20. v = u - b
  BY <1>4, <1>19
<1>21. s.carry = 0
  BY <1>10, <1>14
<1> QED BY <1>2, <1>9, <1>11, <1>18, <1>20, <1>21, Zenon

(* bi_subtract_vl takes a number of one word from a longer one.            *)
LEMMA ShorterDifference ==
  ASSUME NEW n \in Nat, n > 0, NEW a \in Bigs(n), NEW b \in Word
  PROVE  LET d == bi_subtract_vl(a, <<b>>) IN
         /\ d.res \in Bigs(n) /\ d.carry \in {0, 1}
         /\ Value(d.res) + b = Value(a) + PowerOf(Base, n) * d.carry
<1> DEFINE y(i) == IF i <= 1 THEN b ELSE 0
           r(i) == (a[i] - y(i)) % Base
           out(i, c) == (r(i) - c) % Base
           car(i, c) == IF i <= 1 THEN Bit(a[i] < b + i - 1 \/ (r(i) = 0 /\ c = 1))
                        ELSE Bit(a[i] = 0 /\ c = 1)
           outs == [i \in 1..n |-> [c \in Word |-> out(i, c)]]
           cars == [i \in 1..n |-> [c \in Word |-> car(i, c)]]
<1>1. Len(a) = n /\ (\A i \in 1..n : a[i] \in Word /\ a[i] \in Nat) /\ {0, 1} \subseteq Word
  BY BigWords, BaseFacts DEF Word
<1>2. bi_subtract_vl(a, <<b>>) = CarryLoop(0, n, outs, cars)
  <2>1. Len(<<b>>) = 1 /\ <<b>>[1] = b
    OBVIOUS
  <2>2. ASSUME NEW i \in 1..n
        PROVE  (a[i] - IF i <= Len(<<b>>) THEN <<b>>[i] ELSE 0) % Base = r(i)
    BY <2>1
  <2> QED BY <1>1, <2>1, <2>2 DEF bi_subtract_vl, WordLoop, WordLoopFrom
<1>3. PICK d \in Bigs(n) : Value(d) = b /\ \A i \in 1..n : d[i] = y(i)
  <2>1. Padded(b, n) \in Bigs(n) /\ Value(Padded(b, n)) = b
    BY PaddedValue
  <2> QED BY <2>1 DEF Padded
<1>4. PICK B \in Nat : B = Base /\ B > 0 /\ b \in 0..B-1 /\ \A i \in 1..n : a[i] \in 0..B-1
  BY <1>1, BaseFacts DEF Word
<1>5. ASSUME NEW i \in 1..n, NEW c \in {0, 1}
      PROVE  car(i, c) \in {0, 1} /\ out(i, c) + d[i] + c = a[i] + Base * car(i, c)
  <2>1. PICK x \in Word, z \in Word : x = a[i] /\ z = y(i) /\ z = d[i]
    BY <1>1, <1>3
  <2>2. ((((x - z) % Base) - c) % Base) + z + c = x + Base * Bit(x < z \/ ((x - z) % Base = 0 /\ c = 1))
    BY SubtractWord
  <2>3. car(i, c) = Bit(x < z \/ ((x - z) % Base = 0 /\ c = 1))
    <3>1. CASE i = 1
      <4>1. b + i - 1 = b
        BY <1>4, <3>1
      <4> QED BY <2>1, <3>1, <4>1
    <3>2. CASE i > 1
      <4>1. z = 0 /\ x \in 0..B-1
        BY <1>4, <2>1, <3>2
      <4>2. (x - z) % B = x /\ ~ (x < z)
        BY <1>4, <4>1
      <4>3. car(i, c) = Bit(x = 0 /\ c = 1)
        BY <2>1, <3>2
      <4> QED BY <1>4, <4>2, <4>3 DEF Bit
    <3> QED BY <3>1, <3>2
  <2>4. out(i, c) = (((x - z) % Base) - c) % Base
    BY <2>1, Zenon
  <2>5. car(i, c) \in {0, 1}
    BY <2>3 DEF Bit
  <2> HIDE DEF out, car
  <2> QED BY <2>1, <2>2, <2>3, <2>4, <2>5, Zenon
<1>6. ASSUME NEW i \in 1..n, NEW c \in Word PROVE out(i, c) \in Word /\ car(i, c) \in Word
  <2>1. PICK x \in Int : x = a[i] - y(i)
    BY <1>1, <1>4
  <2>2. PICK w \in Int : w = (x % B) - c
    BY <1>4, WordInt
  <2>3. w % B \in 0..B-1
    BY <1>4
  <2>4. out(i, c) \in Word
    BY <1>4, <2>1, <2>2, <2>3 DEF Word
  <2> HIDE DEF out, r
  <2> QED BY <1>1, <2>4 DEF Bit
<1> HIDE DEF out, car
<1>7. outs \in LoopFunctions(n) /\ cars \in LoopFunctions(n)
  BY <1>6 DEF LoopFunctions
<1>8. \A i \in 1..n : \A c \in {0, 1} : outs[i][c] = out(i, c) /\ cars[i][c] = car(i, c)
  BY <1>1
<1> HIDE DEF outs, cars
<1>9. \A i \in 1..n : \A c \in {0, 1} :
        cars[i][c] \in {0, 1} /\ outs[i][c] + d[i] + c = a[i] + Base * cars[i][c]
  BY <1>5, <1>8
<1>10. LET s == CarryLoop(0, n, outs, cars) IN
       /\ s.res \in Bigs(n) /\ s.carry \in {0, 1}
       /\ Value(s.res) + Value(d) + 0 = Value(a) + PowerOf(Base, n) * s.carry
  BY <1>7, <1>9, SubtractingLoop
<1>11. PICK s : s = CarryLoop(0, n, outs, cars) /\ s.res \in Bigs(n) /\ s.carry \in {0, 1}
                /\ Value(s.res) + Value(d) + 0 = Value(a) + PowerOf(Base, n) * s.carry
  BY <1>10
<1>12. Value(s.res) + b = Value(a) + PowerOf(Base, n) * s.carry
  <2>1. Value(s.res) \in Nat /\ b \in Nat
    BY <1>11, ValueIsNat, WordInt
  <2> QED BY <1>3, <1>11, <2>1
<1> QED BY <1>2, <1>11, <1>12, Zenon

(* bi_compare_vl compares with a number of one word.                       *)
LEMMA ShorterComparison ==
  ASSUME ExactWords, NEW n \in Nat, n > 0, NEW a \in Bigs(n), NEW b \in Word
  PROVE  bi_compare_vl(a, <<b>>) = IF Value(a) = b THEN 0 ELSE IF Value(a) > b THEN 1 ELSE -1
<1>1. /\ Len(a) = n /\ Len(<<b>>) = 1 /\ 1 + 1 = 2
      /\ \A i \in 1..n : a[i] \in Nat
  BY BigWords
<1>2. bi_compare_vl(a, <<b>>) = IF \E i \in 2..n : a[i] # 0 THEN 1 ELSE bi_compare_var(SubSeq(a, 1, 1), <<b>>)
  BY <1>1 DEF bi_compare_vl
<1>3. PICK lo \in Bigs(1), hi \in Bigs(n - 1) :
        /\ lo = SubSeq(a, 1, 1) /\ hi = SubSeq(a, 2, n)
        /\ Value(a) = Value(lo) + PowerOf(Base, 1) * Value(hi)
  <2>1. 1 \in 0..n
    OBVIOUS
  <2> QED BY <1>1, <2>1, CutValue
<1>4. PICK x \in Nat, h \in Nat, v \in Nat, B \in Nat :
        x = Value(lo) /\ h = Value(hi) /\ v = Value(a) /\ B = Base /\ B >= 2 /\ b \in 0..B-1
  <2>1. n - 1 \in Nat /\ 1 \in Nat
    OBVIOUS
  <2> QED BY <2>1, ValueIsNat, BaseFacts DEF Word
<1>5. v = x + B * h
  <2>1. PowerOf(Base, 0) = 1 /\ PowerOf(Base, 0 + 1) = Base * PowerOf(Base, 0)
    BY BaseFacts, PowerLaws
  <2>2. 0 + 1 = 1 /\ Base * 1 = Base
    BY BaseFacts
  <2> QED BY <1>3, <1>4, <2>1, <2>2
<1>6. CASE \E i \in 2..n : a[i] # 0
  <2>1. PICK i \in 2..n : a[i] # 0
    BY <1>6
  <2>2. h # 0
    <3>1. SUFFICES ASSUME h = 0 PROVE FALSE
      OBVIOUS
    <3>2. Zeros(n - 1) \in Bigs(n - 1) /\ Value(Zeros(n - 1)) = 0 /\ n - 1 \in Nat
      BY ZeroValue
    <3>3. hi = Zeros(n - 1)
      BY <1>4, <3>1, <3>2, SameWords
    <3>4. hi[i - 1] = a[2 + (i - 1) - 1]
      <4>1. 2 \in Nat /\ 2 >= 1 /\ 2 <= n + 1 /\ n <= n /\ i - 1 \in 1..n-2+1
        BY <2>1
      <4>2. \A k \in 1..n-2+1 : SubSeq(a, 2, n)[k] = a[2 + k - 1]
        BY <4>1, SubWords
      <4> QED BY <1>3, <4>1, <4>2
    <3>5. 2 + (i - 1) - 1 = i /\ i - 1 \in 1..n-1
      BY <2>1
    <3>6. hi[i - 1] = 0
      BY <3>3, <3>5 DEF Zeros
    <3> QED BY <2>1, <3>4, <3>5, <3>6
  <2>3. v >= B
    <3>1. B * h >= B
      BY <1>4, <2>2, AtLeastItself
    <3>2. PICK m \in Int : m = B * h
      BY <1>4
    <3> QED BY <1>4, <1>5, <3>1, <3>2
  <2>4. v > b
    BY <1>4, <2>3
  <2> QED BY <1>2, <1>4, <1>6, <2>4
<1>7. CASE ~ \E i \in 2..n : a[i] # 0
  <2>1. h = 0
    <3>1. 1 \in 0..n /\ 1 + 1 = 2
      OBVIOUS
    <3>2. \A k \in 1 + 1..n : a[k] = 0
      BY <1>7, <3>1
    <3>3. SubSeq(a, 1 + 1, n) = Zeros(n - 1)
      BY <3>1, <3>2, ZeroAbove
    <3>4. Value(Zeros(n - 1)) = 0
      <4>1. n - 1 \in Nat
        OBVIOUS
      <4> QED BY <4>1, ZeroValue
    <3> QED BY <1>3, <1>4, <3>1, <3>3, <3>4
  <2>2. v = x
    <3>1. B * 0 = 0
      BY <1>4
    <3> QED BY <1>4, <1>5, <2>1, <3>1
  <2>3. <<b>> \in Bigs(1) /\ Value(<<b>>) = b
    BY OneWord
  <2>4. bi_compare_var(lo, <<b>>) = IF Value(lo) = Value(<<b>>) THEN 0 ELSE IF Value(lo) > Value(<<b>>) THEN 1 ELSE -1
    <3>1. ExactAt(1)
      BY DEF ExactWords
    <3> QED BY <2>3, <3>1 DEF ExactAt
  <2>5. bi_compare_var(lo, <<b>>) = IF v = b THEN 0 ELSE IF v > b THEN 1 ELSE -1
    BY <1>4, <2>2, <2>3, <2>4
  <2>6. bi_compare_vl(a, <<b>>) = bi_compare_var(lo, <<b>>)
    BY <1>2, <1>3, <1>7
  <2> QED BY <1>4, <2>5, <2>6, Zenon
<1> QED BY <1>6, <1>7

(* bi_multiply_word multiplies by one word.                                *)
LEMMA WordProduct ==
  ASSUME ExactProducts, NEW n \in Nat, NEW a \in Bigs(n), NEW b \in Word
  PROVE  /\ bi_multiply_word_var(a, b) \in Bigs(n + 1)
         /\ Value(bi_multiply_word_var(a, b)) = Value(a) * b
<1>1. <<b>> \in Bigs(1) /\ Value(<<b>>) = b /\ 1 \in Nat
  BY OneWord
<1>2. IsProduct(bi_multiply_var(a, <<b>>), a, <<b>>, n, 1)
  BY <1>1 DEF ExactProducts
<1> QED BY <1>1, <1>2 DEF IsProduct, bi_multiply_word_var

(* The words of a number, and the number of those words.                   *)
LEMMA BigValue ==
  ASSUME NEW n \in Nat, NEW v \in Nat, v < PowerOf(Base, n)
  PROVE  Big(v, n) \in Bigs(n) /\ Value(Big(v, n)) = v
<1> DEFINE r == Big(v, n)
<1>1. PICK B \in Nat : B = Base /\ B > 0
  BY BaseFacts
<1>2. ASSUME NEW i \in 0..n PROVE PowerOf(Base, i) \in Nat /\ PowerOf(Base, i) > 0 /\ v \div PowerOf(Base, i) \in Nat
  <2>1. PowerOf(Base, i) \in Nat /\ PowerOf(Base, i) >= 1
    BY PowerNat
  <2> QED BY <2>1
<1>3. PICK c \in [0..n -> Int] : \A i \in 0..n : c[i] = v \div PowerOf(Base, i) /\ c[i] \in Nat
  <2>1. [i \in 0..n |-> v \div PowerOf(Base, i)] \in [0..n -> Int]
    BY <1>2
  <2> QED BY <1>2, <2>1
<1>4. PICK z \in Bigs(n) : Value(z) = 0 /\ \A i \in 1..n : z[i] = 0
  <2>1. Zeros(n) \in Bigs(n) /\ Value(Zeros(n)) = 0
    BY ZeroValue
  <2> QED BY <2>1 DEF Zeros
<1>5. ASSUME NEW i \in 1..n PROVE r[i] \in Word /\ c[i-1] = r[i] + Base * c[i]
  <2>1. i - 1 \in 0..n /\ i \in 0..n /\ (i - 1) + 1 = i /\ i - 1 \in Nat
    OBVIOUS
  <2>2. PICK P \in Nat : P = PowerOf(Base, i - 1) /\ P > 0 /\ PowerOf(Base, i) = B * P
    <3>1. PowerOf(Base, (i - 1) + 1) = Base * PowerOf(Base, i - 1)
      BY <1>1, <2>1, PowerLaws
    <3>2. PowerOf(Base, i - 1) \in Nat /\ PowerOf(Base, i - 1) > 0
      BY <1>2, <2>1
    <3> QED BY <1>1, <2>1, <3>1, <3>2
  <2>3. PICK x \in Nat, y \in Nat : x = c[i-1] /\ y = c[i] /\ x = v \div P /\ y = v \div (P * B)
    <3>1. B * P = P * B
      OBVIOUS
    <3> QED BY <1>3, <2>1, <2>2, <3>1
  <2>4. x \div B = y
    BY <1>1, <2>2, <2>3, DivTwice
  <2>5. x \div B \in Int /\ x % B \in 0..B-1 /\ x = B * (x \div B) + (x % B)
    BY <1>1, Divided
  <2>6. r[i] = x % B
    BY <1>1, <2>2, <2>3 DEF Big
  <2> HIDE DEF r
  <2>7. PICK w \in 0..B-1 : w = r[i] /\ x = B * y + w
    BY <2>4, <2>5, <2>6
  <2>8. PICK u \in Int : u = B * y
    OBVIOUS
  <2>9. x = w + u
    BY <2>7, <2>8
  <2> QED BY <1>1, <2>3, <2>7, <2>8, <2>9 DEF Word
<1>6. r \in Bigs(n)
  <2>1. r = [i \in 1..n |-> (v \div PowerOf(Base, i - 1)) % Base]
    BY DEF Big
  <2>2. \A i \in 1..n : r[i] \in Word
    BY <1>5
  <2> HIDE DEF r
  <2> QED BY <2>1, <2>2 DEF Bigs
<1> HIDE DEF r
<1>7. ASSUME NEW i \in 1..n PROVE z[i] + z[i] + c[i-1] = r[i] + Base * c[i]
  <2>1. i - 1 \in 0..n
    OBVIOUS
  <2>2. 0 + 0 + c[i-1] = c[i-1]
    BY <1>3, <2>1
  <2> QED BY <1>4, <1>5, <2>2
<1>8. Value(z) + Value(z) + c[0] = Value(r) + PowerOf(Base, n) * c[n]
  BY <1>6, <1>7, ChainValue
<1>9. c[0] = v
  <2>1. PowerOf(Base, 0) = 1 /\ v \div 1 = v
    BY <1>1, PowerLaws
  <2>2. 0 \in 0..n
    OBVIOUS
  <2> QED BY <1>3, <2>1, <2>2
<1>10. c[n] = 0
  <2>1. PICK W \in Nat : W = PowerOf(Base, n) /\ v < W
    BY PowerNat
  <2>2. PICK r0 \in 0..W-1 : r0 = v /\ v = W * 0 + r0 /\ W > 0 /\ 0 \in Int
    BY <2>1
  <2>3. v \div W = 0
    BY <2>2, QuotientIs
  <2> QED BY <1>3, <2>1, <2>3
<1>11. PICK x \in Nat, W \in Nat : x = Value(r) /\ W = PowerOf(Base, n)
  BY <1>6, ValueIsNat, PowerNat
<1>12. 0 + 0 + v = x + W * 0
  BY <1>4, <1>8, <1>9, <1>10, <1>11
<1>13. W * 0 = 0
  OBVIOUS
<1> QED BY <1>6, <1>11, <1>12, <1>13 DEF r

(* The routines of bi.c return what integers return, for any numbers of    *)
(* BI_WORDS words.                                                         *)
THEOREM BigsAreIntegers ==
  ASSUME ExactWords, ExactProducts, NEW va \in 0..R-1, NEW vb \in 0..R-1
  PROVE  BigsAgree(va, vb)
<1> DEFINE n == BI_WORDS
           a == Big(va, BI_WORDS)
           b == Big(vb, BI_WORDS)
<1>1. n \in Nat /\ n > 0 /\ R \in Nat /\ R = PowerOf(Base, n) /\ va \in Nat /\ vb \in Nat
      /\ va < PowerOf(Base, n) /\ vb < PowerOf(Base, n)
  <2>1. BI_WORDS \in Nat /\ BI_WORDS > 0
    BY WordsAssumption
  <2>2. R \in Nat /\ R = PowerOf(Base, BI_WORDS)
    BY BigFacts DEF R
  <2> QED BY <2>1, <2>2
<1>2. a \in Bigs(n) /\ Value(a) = va /\ b \in Bigs(n) /\ Value(b) = vb
  BY <1>1, BigValue
<1>3. R \in Nat /\ BITS_PER_WORD \in Nat /\ BITS_PER_WORD > 0
  BY BigFacts, WordsAssumption
<1>4. vb < Base => vb \in Word
  BY <1>1, BaseFacts DEF Word
<1> HIDE DEF a, b
<1>5. LET sum == bi_add_var(a, b) IN Value(sum.res) + R * sum.carry = va + vb
  BY <1>1, <1>2, SumAt
<1>6. LET difference == bi_subtract_var(a, b) IN Value(difference.res) - R * difference.carry = va - vb
  BY <1>1, <1>2, DifferenceAt
<1>7. bi_compare_var(a, b) = IF va = vb THEN 0 ELSE IF va > vb THEN 1 ELSE -1
  <2>1. ExactAt(n)
    BY <1>1 DEF ExactWords
  <2> QED BY <1>2, <2>1 DEF ExactAt
<1>8. Value(bi_multiply_var(a, b)) = va * vb
  BY <1>1, <1>2 DEF ExactProducts, IsProduct
<1>9. vb <= BITS_PER_WORD * n => Value(bi_shift_right_var(a, vb)) = va \div PowerOf(2, vb)
  <2>1. SUFFICES ASSUME vb <= BITS_PER_WORD * n PROVE Value(bi_shift_right_var(a, vb)) = va \div PowerOf(2, vb)
    OBVIOUS
  <2>2. vb \in 0..BITS_PER_WORD * n
    <3>1. PICK k \in Nat : k = BITS_PER_WORD * n
      BY <1>1, <1>3
    <3> QED BY <1>1, <2>1, <3>1
  <2> QED BY <1>1, <1>2, <2>2, ShiftsAreExact
<1>10. Value(bi_shift_left_one_var(a)) = (2 * va) % R
  <2>1. IsDouble(bi_shift_left_one_var(a), a, n)
    BY <1>1, <1>2, DoublesAreExact
  <2>2. PICK e \in {0, 1}, x \in Nat : x = Value(bi_shift_left_one_var(a)) /\ x = 2 * va - R * e /\ x < R
    <3>1. bi_shift_left_one_var(a) \in Bigs(n)
      BY <2>1 DEF IsDouble
    <3>2. PICK x \in Nat : x = Value(bi_shift_left_one_var(a)) /\ x < R
      BY <1>1, <3>1, ValueIsNat, ValueBound
    <3>3. PICK e \in {0, 1} : e = Bit(n > 0 /\ a[n] >= Base \div 2)
      BY DEF Bit
    <3> QED BY <1>1, <1>2, <2>1, <3>2, <3>3 DEF IsDouble
  <2>3. PICK t \in Int, u \in Int : t = 2 * va /\ u = R * e
    BY <1>1
  <2>4. t = R * e + x /\ R > 0 /\ x \in 0..R-1 /\ e \in Int
    BY <1>1, <2>2, <2>3
  <2>5. t % R = x
    BY <1>1, <2>4, QuotientIs
  <2> QED BY <2>2, <2>3, <2>5
<1>11. va % 3 = 0 => Value(bi_div3_var(a)) = va \div 3
  <2>1. SUFFICES ASSUME va % 3 = 0 PROVE Value(bi_div3_var(a)) = va \div 3
    OBVIOUS
  <2>2. PICK z \in Nat : z = va \div 3 /\ va = 3 * z
    BY <1>1, <2>1
  <2> QED BY <1>1, <1>2, <2>2, ThirdsAreExact
<1>12. vb < Base =>
       LET s == bi_add_word_var(a, vb)
           d == bi_subtract_word_var(a, vb)
       IN /\ Value(s.res) + R * s.carry = va + vb
          /\ vb <= a[1] => Value(d.res) = va - vb /\ d.carry = 0
  <2>1. SUFFICES ASSUME vb < Base
        PROVE LET s == bi_add_word_var(a, vb)
                  d == bi_subtract_word_var(a, vb)
              IN /\ Value(s.res) + R * s.carry = va + vb
                 /\ vb <= a[1] => Value(d.res) = va - vb /\ d.carry = 0
    OBVIOUS
  <2>2. vb \in Word
    BY <1>4, <2>1
  <2>3. LET s == bi_add_word_var(a, vb) IN Value(s.res) + R * s.carry = va + vb
    BY <1>1, <1>2, <2>2, WordSum
  <2>4. vb <= a[1] => LET d == bi_subtract_word_var(a, vb) IN Value(d.res) = va - vb /\ d.carry = 0
    BY <1>1, <1>2, <2>2, WordDifference
  <2> QED BY <2>3, <2>4
<1>13. va > 0 => LET m == bi_get_msb_var(a) IN PowerOf(2, m) <= va /\ va < PowerOf(2, m + 1)
  <2>1. va > 0 => va # 0
    BY <1>1
  <2> QED BY <1>1, <1>2, <2>1, HighestBitIsFound
<1>14. \A c \in 0..1 : LET s == bi_add_carry_var(a, b, c) IN Value(s.res) + R * s.carry = va + vb + c
  <2> TAKE c \in 0..1
  <2>1. c \in {0, 1}
    OBVIOUS
  <2> QED BY <1>1, <1>2, <2>1, SumsAreExact
<1>15. vb < Base => /\ LET d == bi_subtract_vl(a, <<vb>>) IN
                       Value(d.res) - R * d.carry = va - vb
                    /\ bi_compare_vl(a, <<vb>>) = bi_compare_var(a, b)
                    /\ Value(bi_multiply_word_var(a, vb)) = va * vb
  <2>1. SUFFICES ASSUME vb < Base
        PROVE /\ LET d == bi_subtract_vl(a, <<vb>>) IN
                       Value(d.res) - R * d.carry = va - vb
              /\ bi_compare_vl(a, <<vb>>) = bi_compare_var(a, b)
              /\ Value(bi_multiply_word_var(a, vb)) = va * vb
    OBVIOUS
  <2>2. vb \in Word
    BY <1>4, <2>1
  <2>7. PICK d : d = bi_subtract_vl(a, <<vb>>) /\ d.res \in Bigs(n) /\ d.carry \in {0, 1}
                 /\ Value(d.res) + vb = Value(a) + PowerOf(Base, n) * d.carry
    <3>1. LET d == bi_subtract_vl(a, <<vb>>) IN
         /\ d.res \in Bigs(n) /\ d.carry \in {0, 1}
         /\ Value(d.res) + vb = Value(a) + PowerOf(Base, n) * d.carry
      BY <1>1, <1>2, <2>2, ShorterDifference
    <3> QED BY <3>1
  <2>3. PICK x \in Nat, e \in {0, 1} : x = Value(d.res) /\ e = d.carry /\ x + vb = va + R * e
    <3>1. Value(d.res) \in Nat
      BY <1>1, <2>7, ValueIsNat
    <3>2. Value(d.res) + vb = va + R * d.carry
      BY <1>1, <1>2, <2>7, Zenon
    <3> QED BY <2>7, <3>1, <3>2
  <2>4. x - R * e = va - vb
    <3>1. PICK u \in Int : u = R * e
      BY <1>1
    <3>2. x + vb = va + u
      BY <2>3, <3>1
    <3>3. x - u = va - vb
      BY <1>1, <3>2
    <3> QED BY <3>1, <3>3
  <2>5. bi_compare_vl(a, <<vb>>) = bi_compare_var(a, b)
    <3>1. bi_compare_vl(a, <<vb>>) = IF Value(a) = vb THEN 0 ELSE IF Value(a) > vb THEN 1 ELSE -1
      BY <1>1, <1>2, <2>2, ShorterComparison
    <3> QED BY <1>2, <1>7, <3>1
  <2>6. Value(bi_multiply_word_var(a, vb)) = va * vb
    BY <1>1, <1>2, <2>2, WordProduct
  <2> QED BY <2>3, <2>4, <2>5, <2>6, <2>7, Zenon
<1>16. BytesAgree(a, vb % (BytesPerWord * BI_WORDS), vb % PowerOf(2, BITS_PER_BYTE))
  <2>1. PICK m \in Nat, D \in Nat : m = BytesPerWord /\ m > 0 /\ D = PowerOf(2, BITS_PER_BYTE) /\ D > 0
    BY BytePlacesAre DEF BytePlaces
  <2>2. PICK k \in Nat : k = m * n /\ k > 0
    <3>1. m * n >= m
      BY <1>1, <2>1, AtLeastItself
    <3> QED BY <1>1, <2>1, <3>1
  <2>3. vb % k \in 0..k-1 /\ vb % D \in 0..D-1
    BY <1>1, <2>1, <2>2
  <2>4. PICK i \in 0..BytesPerWord * n - 1, w \in 0..PowerOf(2, BITS_PER_BYTE) - 1 :
          i = vb % (BytesPerWord * BI_WORDS) /\ w = vb % PowerOf(2, BITS_PER_BYTE)
    BY <2>1, <2>2, <2>3
  <2>5. LET c == bi_set_byte_var(a, i, w) IN
         \A j \in 0..BytesPerWord * n - 1 :
              bi_get_byte_var(c, j) = IF j = i THEN w ELSE bi_get_byte_var(a, j)
    BY <1>1, <1>2, BytesAreIndependent
  <2>6. BytesAgree(a, i, w)
    BY <2>5 DEF BytesAgree
  <2> QED BY <2>4, <2>6
<1>17. vb < BITS_PER_WORD * BI_WORDS => bi_test_bit_var(bi_set_bit_var(a, vb), vb)
  <2>1. SUFFICES ASSUME vb < BITS_PER_WORD * BI_WORDS PROVE bi_test_bit_var(bi_set_bit_var(a, vb), vb)
    OBVIOUS
  <2>2. vb \in 0..n * BITS_PER_WORD - 1
    <3>1. n * BITS_PER_WORD = BITS_PER_WORD * n
      BY <1>1, <1>3
    <3>2. PICK k \in Nat : k = BITS_PER_WORD * n
      BY <1>1, <1>3
    <3> QED BY <1>1, <2>1, <3>1, <3>2
  <2> QED BY <1>1, <1>2, <2>2, SetBitsAreSet
<1> QED BY <1>5, <1>6, <1>7, <1>8, <1>9, <1>10, <1>11, <1>12, <1>13, <1>14, <1>15, <1>16, <1>17, Zenon
        DEF BigsAgree, a, b
=============================================================================
