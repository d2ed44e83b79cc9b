------------------------- MODULE FunctionProofs --------------------------
(***************************************************************************)
(* What loops over bytes compute, for inputs of every length: the          *)
(* checksums of packets and files tell apart two that differ in one byte;  *)
(* a key, number or ticket written as text is read back unchanged.         *)
(*                                                                         *)
(* Then the tower Fp2, Fp4, Fp12 over a prime of any size: the products    *)
(* and squares that the code computes with fewer multiplications are the   *)
(* schoolbook ones.  The operations are done over the integers first and   *)
(* their residues taken last, which is what a chain of fp_ calls computes. *)
(***************************************************************************)
EXTENDS TowerValues, Formats, WordProofs

-----------------------------------------------------------------------------
(* amath.c: the checksums of packets and files.                            *)
(* What an unsigned char holds.                                            *)
Byte == 0..255
(* The polynomials of a checksum whose highest bit is top, as the code has *)
(* them: the highest bit is set.                                           *)
Polynomials(top) == {poly \in SUBSET (0..top) : top \in poly}

(* A checksum without its lowest bit, and one turn of the loop in amath.c  *)
(* over the bits of a byte.                                                *)
Shift(x) == {b - 1 : b \in x \ {0}}
CrcBit(x, poly) == IF 0 \in x THEN Xor(Shift(x), poly) ELSE Shift(x)

(* The same bits flipped in two numbers do not hide how they differ.       *)
LEMMA XorCancels ==
  ASSUME NEW x, NEW y, NEW z, Xor(x, z) = Xor(y, z)
  PROVE  x = y
BY DEF Xor

(* A byte is known from its eight bits.                                    *)
LEMMA BitsAreBytes ==
  ASSUME NEW v \in Byte, NEW w \in Byte, BitSet(v, 8) = BitSet(w, 8)
  PROVE  v = w
<1>1. ASSUME NEW b \in 0..7 PROVE (v \div 2^b) % 2 = 1 <=> (w \div 2^b) % 2 = 1
  <2>1. b \in BitSet(v, 8) <=> b \in BitSet(w, 8)
    OBVIOUS
  <2>2. b \in 0..8 - 1
    OBVIOUS
  <2> QED BY <2>1, <2>2 DEF BitSet
<1>2. v \in 0..255 /\ w \in 0..255
  BY DEF Byte
<1>3. ASSUME NEW u \in 0..255
      PROVE  u = 128 * ((u \div 128) % 2) + 64 * ((u \div 64) % 2) + 32 * ((u \div 32) % 2) + 16 * ((u \div 16) % 2)
                 + 8 * ((u \div 8) % 2) + 4 * ((u \div 4) % 2) + 2 * ((u \div 2) % 2) + (u % 2)
  OBVIOUS
<1>4. (v \div 1) % 2 = v % 2 /\ (w \div 1) % 2 = w % 2
  BY <1>2
<1>5. /\ (v \div 128) % 2 = (w \div 128) % 2 /\ (v \div 64) % 2 = (w \div 64) % 2
      /\ (v \div 32) % 2 = (w \div 32) % 2 /\ (v \div 16) % 2 = (w \div 16) % 2
  <2>1. 2^7 = 128 /\ 2^6 = 64 /\ 2^5 = 32 /\ 2^4 = 16
    OBVIOUS
  <2> QED BY <1>1, <1>2, <2>1
<1>6. /\ (v \div 8) % 2 = (w \div 8) % 2 /\ (v \div 4) % 2 = (w \div 4) % 2
      /\ (v \div 2) % 2 = (w \div 2) % 2 /\ v % 2 = w % 2
  <2>1. 2^3 = 8 /\ 2^2 = 4 /\ 2^1 = 2 /\ 2^0 = 1
    OBVIOUS
  <2> QED BY <1>1, <1>2, <1>4, <2>1
<1> QED BY <1>2, <1>3, <1>5, <1>6

(* Shifting a checksum and adding the polynomial leaves it in its width,   *)
(* and the shift alone never gives the highest bit.                        *)
LEMMA CrcBitTyped ==
  ASSUME NEW top \in Nat, NEW poly \in Polynomials(top), NEW x \in SUBSET (0..top)
  PROVE  CrcBit(x, poly) \in SUBSET (0..top) /\ Shift(x) \in SUBSET (0..top) /\ top \notin Shift(x)
<1>1. ASSUME NEW b \in Shift(x) PROVE b \in 0..top /\ b # top
  <2>1. PICK c \in x : c # 0 /\ b = c - 1
    BY DEF Shift
  <2>2. c \in 0..top
    OBVIOUS
  <2> QED BY <2>1, <2>2
<1>2. Shift(x) \subseteq 0..top /\ top \notin Shift(x)
  BY <1>1
<1>3. poly \subseteq 0..top
  BY DEF Polynomials
<1>4. Xor(Shift(x), poly) \subseteq 0..top
  BY <1>2, <1>3 DEF Xor
<1> QED BY <1>2, <1>4 DEF CrcBit

(* One bit of the division loses nothing: the highest bit of the result    *)
(* says if the polynomial was added, since the shift leaves that bit       *)
(* clear.                                                                  *)
LEMMA CrcBitInjective ==
  ASSUME NEW top \in Nat, NEW poly \in Polynomials(top), NEW x \in SUBSET (0..top), NEW y \in SUBSET (0..top),
         CrcBit(x, poly) = CrcBit(y, poly)
  PROVE  x = y
<1>1. top \notin Shift(x) /\ top \notin Shift(y) /\ top \in poly
  BY CrcBitTyped DEF Polynomials
<1>2. 0 \in x <=> 0 \in y
  BY <1>1 DEF CrcBit, Xor
<1>3. Shift(x) = Shift(y)
  BY <1>2, XorCancels DEF CrcBit
<1>4. ASSUME NEW u \in SUBSET (0..top), NEW v \in SUBSET (0..top), Shift(u) = Shift(v), 0 \in u <=> 0 \in v, NEW b \in u
      PROVE  b \in v
  <2>1. CASE b = 0
    BY <1>4, <2>1
  <2>2. CASE b # 0
    <3>1. b - 1 \in Shift(u)
      BY <2>2 DEF Shift
    <3>2. PICK d \in v : d - 1 = b - 1
      BY <1>4, <3>1 DEF Shift
    <3>3. d \in Int /\ b \in Int
      OBVIOUS
    <3>4. d = b
      BY <3>2, <3>3
    <3> QED BY <3>4
  <2> QED BY <2>1, <2>2
<1>5. x \subseteq y
  BY <1>2, <1>3, <1>4
<1>6. y \subseteq x
  BY <1>2, <1>3, <1>4
<1> QED BY <1>5, <1>6

(* The states of CrcByte's loop.                                           *)
CrcStates(s, crc, byte, poly, top) ==
  /\ s \in [0..8 -> SUBSET (0..top)]
  /\ s[0] = Xor(crc, BitSet(byte, 8))
  /\ \A i \in 1..8 : s[i] = CrcBit(s[i-1], poly)

(* The loop of eight turns that crc32_leupd, telcrc16 and telcrc16n make   *)
(* for a byte, turn by turn.                                               *)
LEMMA CrcByteStates ==
  ASSUME NEW top \in Nat, top >= 7, NEW poly \in Polynomials(top), NEW crc \in SUBSET (0..top), NEW byte \in Byte
  PROVE  \E s : CrcStates(s, crc, byte, poly, top) /\ CrcByte(crc, byte, poly) = s[8]
<1> DEFINE X == SUBSET (0..top)
           start == Xor(crc, BitSet(byte, 8))
           Is(s) == s = [i \in 0..8 |-> IF i = 0 THEN start ELSE CrcBit(s[i-1], poly)]
           w == CHOOSE s : Is(s)
           step == [s \in Nat \X X |-> CrcBit(s[2], poly)]
<1>1. start \in X
  <2>1. BitSet(byte, 8) \subseteq 0..7
    BY DEF BitSet
  <2>2. BitSet(byte, 8) \subseteq 0..top
    BY <2>1
  <2> QED BY <2>2 DEF Xor
<1>2. \A x \in X : CrcBit(x, poly) \in X
  BY CrcBitTyped
<1>3. CrcByte(crc, byte, poly) = w[8]
  BY DEF CrcByte, CrcBit, Shift
<1> HIDE DEF X, start
<1>4. step \in Steps(X)
  BY <1>2 DEF Steps
<1>5. \A i \in Nat, x \in X : step[<<i, x>>] = CrcBit(x, poly)
  OBVIOUS
<1> HIDE DEF step
<1>6. PICK f : Iterates(f, 8, X, start, step)
  BY <1>1, <1>4, IteratesExist, 8 \in Nat
<1>7. Is(f)
  <2>1. f \in [0..8 -> X] /\ f[0] = start /\ \A i \in 1..8 : f[i] = step[<<i, f[i-1]>>]
    BY <1>6 DEF Iterates
  <2>2. \A i \in 1..8 : f[i] = CrcBit(f[i-1], poly)
    <3> TAKE i \in 1..8
    <3>1. f[i-1] \in X /\ i \in Nat
      BY <2>1
    <3> QED BY <1>5, <2>1, <3>1
  <2> QED BY <2>1, <2>2
<1>8. Is(w)
  BY <1>7
<1> HIDE DEF w
<1>9. w[0] = start /\ \A i \in 1..8 : w[i] = CrcBit(w[i-1], poly)
  BY <1>8
<1>10. \A i \in 0..8 : w[i] \in X
  <2> DEFINE T == {i \in 0..8 : w[i] \in X}
  <2>1. 0 \in T
    BY <1>1, <1>9
  <2>2. ASSUME NEW i \in 1..8, i - 1 \in T PROVE i \in T
    BY <1>2, <1>9, <2>2
  <2> HIDE DEF T
  <2>3. \A i \in 0..8 : i \in T
    BY <2>1, <2>2, UpTo, 8 \in Nat
  <2> QED BY <2>3 DEF T
<1>11. w \in [0..8 -> X]
  BY <1>8, <1>10
<1> QED BY <1>3, <1>9, <1>11 DEF CrcStates, X, start

(* Equal checksums after a byte come from equal sums before it.            *)
Retraced(crc, byte, crc1, byte1, poly) ==
  CrcByte(crc, byte, poly) = CrcByte(crc1, byte1, poly) => Xor(crc, BitSet(byte, 8)) = Xor(crc1, BitSet(byte1, 8))

(* From the checksum after a byte its eight turns can be undone, so equal  *)
(* checksums after a byte had equal register and byte sums before it.      *)
LEMMA CrcByteInjective ==
  ASSUME NEW top \in Nat, top >= 7, NEW poly \in Polynomials(top),
         NEW crc \in SUBSET (0..top), NEW crc1 \in SUBSET (0..top), NEW byte \in Byte, NEW byte1 \in Byte
  PROVE  /\ CrcByte(crc, byte, poly) \in SUBSET (0..top)
         /\ Retraced(crc, byte, crc1, byte1, poly)
<1>1. PICK s : CrcStates(s, crc, byte, poly, top) /\ CrcByte(crc, byte, poly) = s[8]
  BY CrcByteStates
<1>2. PICK t : CrcStates(t, crc1, byte1, poly, top) /\ CrcByte(crc1, byte1, poly) = t[8]
  BY CrcByteStates
<1>3. /\ s \in [0..8 -> SUBSET (0..top)] /\ s[0] = Xor(crc, BitSet(byte, 8))
      /\ \A i \in 1..8 : s[i] = CrcBit(s[i-1], poly)
      /\ t \in [0..8 -> SUBSET (0..top)] /\ t[0] = Xor(crc1, BitSet(byte1, 8))
      /\ \A i \in 1..8 : t[i] = CrcBit(t[i-1], poly)
  BY <1>1, <1>2 DEF CrcStates
<1>4. ASSUME s[8] = t[8] PROVE s[0] = t[0]
  <2>1. ASSUME NEW i \in 1..8, s[i] = t[i] PROVE s[i-1] = t[i-1]
    <3>1. i - 1 \in 0..8
      OBVIOUS
    <3>2. s[i-1] \in SUBSET (0..top) /\ t[i-1] \in SUBSET (0..top)
      BY <1>3, <3>1
    <3>3. CrcBit(s[i-1], poly) = CrcBit(t[i-1], poly)
      BY <1>3, <2>1
    <3> QED BY <3>2, <3>3, CrcBitInjective
  <2> DEFINE T == {k \in 0..8 : s[8-k] = t[8-k]}
  <2>2. 0 \in T
    BY <1>4
  <2>3. ASSUME NEW k \in 1..8, k - 1 \in T PROVE k \in T
    <3>1. 8 - (k - 1) \in 1..8 /\ 8 - (k - 1) - 1 = 8 - k
      OBVIOUS
    <3> QED BY <2>1, <2>3, <3>1
  <2> HIDE DEF T
  <2>4. \A k \in 0..8 : k \in T
    BY <2>2, <2>3, UpTo, 8 \in Nat
  <2>5. 8 \in T
    BY <2>4
  <2>6. 8 - 8 = 0
    OBVIOUS
  <2> QED BY <2>5, <2>6 DEF T
<1>5. s[8] \in SUBSET (0..top)
  BY <1>3
<1> QED BY <1>1, <1>2, <1>3, <1>4, <1>5 DEF Retraced

(* c is the checksum of the first bytes of p, for every number of them.    *)
CrcRun(c, p, start, poly, top) ==
  /\ c \in [0..Len(p) -> SUBSET (0..top)] /\ c[0] = start
  /\ \A i \in 1..Len(p) : c[i] = CrcByte(c[i-1], p[i], poly)

(* The checksum over all bytes, byte by byte.                              *)
LEMMA CrcRuns ==
  ASSUME NEW top \in Nat, top >= 7, NEW poly \in Polynomials(top), NEW start \in SUBSET (0..top),
         NEW p \in Seq(Byte)
  PROVE  \E c : CrcRun(c, p, start, poly, top) /\ Crc(p, start, poly) = c[Len(p)]
<1> DEFINE X == SUBSET (0..top)
           n == Len(p)
           Is(s) == s = [i \in 0..n |-> IF i = 0 THEN start ELSE CrcByte(s[i-1], p[i], poly)]
           w == CHOOSE s : Is(s)
           step == [s \in Nat \X X |-> IF s[1] \in 1..n THEN CrcByte(s[2], p[s[1]], poly) ELSE start]
<1>0. n \in Nat /\ \A i \in 1..n : p[i] \in Byte
  OBVIOUS
<1>1. start \in X
  OBVIOUS
<1>2. \A i \in 1..n : \A x \in X : CrcByte(x, p[i], poly) \in X
  BY <1>0, CrcByteInjective
<1>3. Crc(p, start, poly) = w[n]
  BY DEF Crc
<1> HIDE DEF X, n
<1>4. step \in Steps(X)
  <2>1. \A s \in Nat \X X : step[s] \in X
    BY <1>1, <1>2
  <2> QED BY <2>1 DEF Steps
<1>5. \A i \in 1..n : \A x \in X : step[<<i, x>>] = CrcByte(x, p[i], poly)
  BY <1>0
<1> HIDE DEF step
<1>6. PICK f : Iterates(f, n, X, start, step)
  BY <1>0, <1>1, <1>4, IteratesExist
<1>7. Is(f)
  <2>1. f \in [0..n -> X] /\ f[0] = start /\ \A i \in 1..n : f[i] = step[<<i, f[i-1]>>]
    BY <1>6 DEF Iterates
  <2>2. \A i \in 1..n : f[i] = CrcByte(f[i-1], p[i], poly)
    <3> TAKE i \in 1..n
    <3>1. f[i-1] \in X
      BY <1>0, <2>1
    <3> QED BY <1>5, <2>1, <3>1
  <2> QED BY <1>0, <2>1, <2>2
<1>8. Is(w)
  BY <1>7
<1> HIDE DEF w
<1>9. w[0] = start /\ \A i \in 1..n : w[i] = CrcByte(w[i-1], p[i], poly)
  BY <1>0, <1>8
<1>10. \A i \in 0..n : w[i] \in X
  <2> DEFINE T == {i \in 0..n : w[i] \in X}
  <2>1. 0 \in T
    BY <1>0, <1>1, <1>9
  <2>2. ASSUME NEW i \in 1..n, i - 1 \in T PROVE i \in T
    BY <1>0, <1>2, <1>9, <2>2
  <2> HIDE DEF T
  <2>3. \A i \in 0..n : i \in T
    BY <1>0, <2>1, <2>2, UpTo
  <2> QED BY <2>3 DEF T
<1>11. w \in [0..n -> X]
  BY <1>8, <1>10
<1> QED BY <1>3, <1>9, <1>11 DEF CrcRun, X, n

(* Two texts that differ in one byte have different checksums, for any     *)
(* polynomial with its highest bit set and any start.                      *)
LEMMA CrcDetects ==
  ASSUME NEW top \in Nat, top >= 7, NEW poly \in Polynomials(top), NEW start \in SUBSET (0..top),
         NEW p \in Seq(Byte), NEW q \in Seq(Byte), Len(p) = Len(q), NEW k \in 1..Len(p), p[k] # q[k],
         \A i \in 1..Len(p) : i # k => p[i] = q[i]
  PROVE  Crc(p, start, poly) # Crc(q, start, poly)
<1>1. PICK c : CrcRun(c, p, start, poly, top) /\ Crc(p, start, poly) = c[Len(p)]
  BY CrcRuns
<1>2. PICK d : CrcRun(d, q, start, poly, top) /\ Crc(q, start, poly) = d[Len(q)]
  BY CrcRuns
<1>3. PICK n \in Nat : n = Len(p) /\ n = Len(q) /\ k \in 1..n
  OBVIOUS
<1>4. /\ c \in [0..n -> SUBSET (0..top)] /\ c[0] = start /\ \A i \in 1..n : c[i] = CrcByte(c[i-1], p[i], poly)
      /\ d \in [0..n -> SUBSET (0..top)] /\ d[0] = start /\ \A i \in 1..n : d[i] = CrcByte(d[i-1], q[i], poly)
  BY <1>1, <1>2, <1>3 DEF CrcRun
<1> DEFINE T == {i \in 0..n : IF i < k THEN c[i] = d[i] ELSE c[i] # d[i]}
<1>5. 0 \in T
  BY <1>3, <1>4
<1>6. ASSUME NEW i \in 1..n, i - 1 \in T PROVE i \in T
  <2>1. i - 1 \in 0..n /\ i \in 0..n /\ p[i] \in Byte /\ q[i] \in Byte
    BY <1>3
  <2>2. c[i-1] \in SUBSET (0..top) /\ d[i-1] \in SUBSET (0..top)
    BY <1>4, <2>1
  <2>a. PICK x \in SUBSET (0..top) : x = c[i-1] /\ c[i] = CrcByte(x, p[i], poly)
    BY <1>4, <2>2
  <2>b. PICK y \in SUBSET (0..top) : y = d[i-1] /\ d[i] = CrcByte(y, q[i], poly)
    BY <1>4, <2>2
  <2>c. PICK v \in Byte : v = p[i]
    BY <2>1
  <2>d. PICK u \in Byte : u = q[i]
    BY <2>1
  <2>e. Retraced(x, v, y, u, poly)
    BY CrcByteInjective
  <2>3. c[i] = d[i] => Xor(c[i-1], BitSet(p[i], 8)) = Xor(d[i-1], BitSet(q[i], 8))
    BY <2>a, <2>b, <2>c, <2>d, <2>e DEF Retraced
  <2>4. CASE i < k
    <3>1. i - 1 < k /\ p[i] = q[i]
      BY <1>3, <2>4
    <3> QED BY <1>4, <1>6, <2>1, <2>4, <3>1
  <2>5. CASE i = k
    <3>1. c[i-1] = d[i-1]
      BY <1>6, <2>5
    <3>2. c[i] = d[i] => BitSet(p[i], 8) = BitSet(q[i], 8)
      BY <2>3, <3>1 DEF Xor
    <3>3. c[i] # d[i]
      BY <2>1, <2>5, <3>2, BitsAreBytes
    <3> QED BY <2>1, <2>5, <3>3
  <2>6. CASE i > k
    <3>1. c[i-1] # d[i-1] /\ p[i] = q[i]
      BY <1>3, <1>6, <2>6
    <3>2. c[i] # d[i]
      BY <2>3, <3>1, XorCancels
    <3> QED BY <2>1, <2>6, <3>2
  <2>7. i < k \/ i = k \/ i > k
    OBVIOUS
  <2> QED BY <2>4, <2>5, <2>6, <2>7
<1> HIDE DEF T
<1>7. \A i \in 0..n : i \in T
  BY <1>5, <1>6, UpTo
<1>8. n \in T /\ ~ (n < k)
  BY <1>3, <1>7
<1>9. c[n] # d[n]
  BY <1>8 DEF T
<1> QED BY <1>1, <1>2, <1>3, <1>9

(* telcrc16, telcrc16n and crc32_le give different sums to any two strings *)
(* of the same length that differ in one byte, whatever the length, the    *)
(* place and the bytes: a packet with one wrong byte before its checksum   *)
(* never passes the comparison that every handler of srv/ starts with. The *)
(* table of dutcrc8 is outside this theorem.                               *)
THEOREM ChecksumsDetectAByte ==
  ASSUME NEW p \in Seq(Byte), NEW q \in Seq(Byte), Len(p) = Len(q), NEW k \in 1..Len(p), p[k] # q[k],
         \A i \in 1..Len(p) : i # k => p[i] = q[i]
  PROVE  telcrc16(p) # telcrc16(q) /\ telcrc16n(p) # telcrc16n(q) /\ crc32_le(p) # crc32_le(q)
<1>1. TELCRCPOLY \in Polynomials(15) /\ CRCPOLY_LE \in Polynomials(31)
  BY DEF TELCRCPOLY, CRCPOLY_LE, Polynomials
<1>2. telcrc16(p) # telcrc16(q)
  BY <1>1, CrcDetects, 15 \in Nat, 15 >= 7, 0..15 \in SUBSET (0..15) DEF telcrc16
<1>3. telcrc16n(p) # telcrc16n(q)
  BY <1>1, CrcDetects, 15 \in Nat, 15 >= 7, {} \in SUBSET (0..15) DEF telcrc16n
<1>4. crc32_leupd(p, 0..31) # crc32_leupd(q, 0..31)
  BY <1>1, CrcDetects, 31 \in Nat, 31 >= 7, 0..31 \in SUBSET (0..31) DEF crc32_leupd
<1>5. crc32_le(p) # crc32_le(q)
  BY <1>4, XorCancels DEF crc32_le
<1> QED BY <1>2, <1>3, <1>5

-----------------------------------------------------------------------------
(* bin2str and str2bin, mtos and stom.                                     *)
(* A digit that bin2str writes is one that str2bin takes, with the same    *)
(* value.                                                                  *)
LEMMA HexDigits ==
  ASSUME NEW d \in 0..15
  PROVE  /\ HexChar(d) \in Nat /\ IsHex(HexChar(d)) /\ Nibble(HexChar(d)) = d
BY DEF HexChar, IsHex, Nibble

(* bin2str writes two digits for every byte, the higher one first.         *)
LEMMA HexText ==
  ASSUME NEW bin \in Seq(Byte)
  PROVE  /\ DOMAIN bin2str(bin) = 1..2 * Len(bin)
         /\ \A n \in 1..Len(bin) :
              /\ bin2str(bin)[2*n - 1] = HexChar(bin[n] \div 16)
              /\ bin2str(bin)[2*n] = HexChar(bin[n] % 16)
<1>1. ASSUME NEW n \in 1..Len(bin)
      PROVE  /\ bin2str(bin)[2*n - 1] = HexChar(bin[n] \div 16)
             /\ bin2str(bin)[2*n] = HexChar(bin[n] % 16)
  <2>1. 2*n - 1 \in 1..2*Len(bin) /\ 2*n \in 1..2*Len(bin)
    OBVIOUS
  <2>2. (2*n - 1 + 1) \div 2 = n /\ (2*n - 1) % 2 = 1 /\ (2*n + 1) \div 2 = n /\ (2*n) % 2 = 0
    OBVIOUS
  <2> QED BY <2>1, <2>2 DEF bin2str
<1> QED BY <1>1 DEF bin2str

(* Every character that bin2str writes is a digit for str2bin.             *)
LEMMA HexNibbles ==
  ASSUME NEW bin \in Seq(Byte), NEW k \in 1..2 * Len(bin)
  PROVE  IsHex(At(bin2str(bin), k))
<1>1. PICK n \in 1..Len(bin) : k = 2*n - 1 \/ k = 2*n
  <2>1. (k + 1) \div 2 \in 1..Len(bin) /\ (k = 2*((k + 1) \div 2) - 1 \/ k = 2 * ((k + 1) \div 2))
    OBVIOUS
  <2> QED BY <2>1
<1>2. PICK v \in Byte : v = bin[n]
  OBVIOUS
<1>3. v \div 16 \in 0..15 /\ v % 16 \in 0..15
  BY DEF Byte
<1>4. IsHex(HexChar(v \div 16)) /\ IsHex(HexChar(v % 16))
  BY <1>3, HexDigits
<1> QED BY <1>1, <1>2, <1>4, HexText DEF At

(* str2bin reads what bin2str wrote: the same bytes, as many of them as    *)
(* there is room for. It is how keys, ballots and their checks pass        *)
(* between packets, the key files and the database.                        *)
THEOREM HexTextReturns ==
  ASSUME NEW bin \in Seq(Byte), NEW maxbinlen \in Nat
  PROVE  str2bin(bin2str(bin), maxbinlen) = Prefix(bin, maxbinlen)
<1> DEFINE str == bin2str(bin)
           IsByte(n) == \A k \in 1..2*n : IsHex(At(str, k))
           Ends(n) == IsByte(n) /\ (n < maxbinlen => ~IsByte(n + 1))
           most == CHOOSE n \in 0..maxbinlen : Ends(n)
           m == IF maxbinlen < Len(bin) THEN maxbinlen ELSE Len(bin)
<1>1. str2bin(str, maxbinlen) = [n \in 1..most |-> 16 * Nibble(str[2*n - 1]) + Nibble(str[2*n])]
  BY DEF str2bin
<1>0. Len(bin) \in Nat /\ m \in Nat
  OBVIOUS
<1>2. ASSUME NEW n \in Nat PROVE IsByte(n) <=> n <= Len(bin)
  <2>1. CASE n <= Len(bin)
    <3>1. ASSUME NEW k \in 1..2*n PROVE IsHex(At(str, k))
      <4>1. k \in 1..2 * Len(bin)
        BY <1>0, <2>1
      <4> QED BY <4>1, HexNibbles
    <3> QED BY <2>1, <3>1
  <2>2. CASE n > Len(bin)
    <3>1. 2 * Len(bin) + 1 \in 1..2*n /\ 2 * Len(bin) + 1 \notin 1..2 * Len(bin)
      BY <1>0, <2>2
    <3>2. ~ IsHex(At(str, 2 * Len(bin) + 1))
      BY <3>1, HexText DEF At, IsHex
    <3> QED BY <1>0, <2>2, <3>1, <3>2
  <2> QED BY <1>0, <2>1, <2>2
<1> HIDE DEF IsByte
<1>3. m \in 0..maxbinlen /\ Ends(m)
  <2>1. m + 1 \in Nat /\ m <= Len(bin) /\ (m < maxbinlen => ~ (m + 1 <= Len(bin))) /\ m \in 0..maxbinlen
    BY <1>0
  <2> QED BY <1>0, <1>2, <2>1
<1>4. most \in 0..maxbinlen /\ Ends(most)
  BY <1>3
<1>5. ASSUME NEW n \in 0..maxbinlen, Ends(n) PROVE n = m
  <2>1. n \in Nat /\ n + 1 \in Nat
    OBVIOUS
  <2>2. n <= Len(bin) /\ (n < maxbinlen => ~ (n + 1 <= Len(bin)))
    BY <1>2, <1>5, <2>1
  <2> QED BY <1>0, <2>1, <2>2
<1> HIDE DEF Ends
<1>6. most = m
  BY <1>4, <1>5
<1>7. ASSUME NEW n \in 1..m PROVE 16 * Nibble(str[2*n - 1]) + Nibble(str[2*n]) = bin[n]
  <2>1. n \in 1..Len(bin)
    BY <1>0
  <2>2. PICK v \in Byte : v = bin[n]
    BY <2>1
  <2>3. str[2*n - 1] = HexChar(v \div 16) /\ str[2*n] = HexChar(v % 16)
    BY <2>1, <2>2, HexText
  <2>4. v \div 16 \in 0..15 /\ v % 16 \in 0..15 /\ v = 16 * (v \div 16) + (v % 16)
    BY DEF Byte
  <2>5. Nibble(str[2*n - 1]) = v \div 16 /\ Nibble(str[2*n]) = v % 16
    BY <2>3, <2>4, HexDigits
  <2> QED BY <2>2, <2>4, <2>5
<1> HIDE DEF most, str
<1>8. str2bin(str, maxbinlen) = [n \in 1..m |-> bin[n]]
  BY <1>1, <1>6, <1>7
<1>9. Prefix(bin, maxbinlen) = [n \in 1..m |-> bin[n]]
  BY <1>0 DEF Prefix
<1> QED BY <1>8, <1>9 DEF str

(* mtos and stom are inverse to each other on numbers of two bytes and on  *)
(* pairs of bytes, which packets carry for their lengths.                  *)
THEOREM ShortsReturn ==
  /\ \A a \in Nat : a < 65536 => mtos(stom(a)) = a
  /\ \A p \in Seq(Byte) : Len(p) = 2 => stom(mtos(p)) = p
<1>1. ASSUME NEW a \in Nat, a < 65536 PROVE mtos(stom(a)) = a
  <2>1. PICK x \in Int : x = a % 256
    OBVIOUS
  <2>2. PICK y \in Int : y = a \div 256
    OBVIOUS
  <2>3. a = y * 256 + x
    BY <2>1, <2>2
  <2>4. mtos(<<x, y>>) = (y * 256 + x) % 65536
    BY DEF mtos
  <2>5. a % 65536 = a
    BY <1>1
  <2>6. stom(a) = <<x, y>>
    BY <2>1, <2>2 DEF stom
  <2> QED BY <2>3, <2>4, <2>5, <2>6
<1>2. ASSUME NEW p \in Seq(Byte), Len(p) = 2 PROVE stom(mtos(p)) = p
  <2>1. 1 \in 1..Len(p) /\ 2 \in 1..Len(p)
    BY <1>2
  <2>2. p[1] \in Byte /\ p[2] \in Byte
    BY <2>1
  <2>3. PICK x \in 0..255 : x = p[1]
    BY <2>2 DEF Byte
  <2>4. PICK y \in 0..255 : y = p[2]
    BY <2>2 DEF Byte
  <2>5. PICK a \in Nat : a < 65536 /\ a = y * 256 + x
    OBVIOUS
  <2>6. a % 256 = x /\ a \div 256 = y /\ a % 65536 = a
    BY <2>5
  <2>7. mtos(p) = a
    BY <2>3, <2>4, <2>5, <2>6 DEF mtos
  <2>8. p = <<x, y>>
    BY <1>2, <2>3, <2>4
  <2> QED BY <2>6, <2>7, <2>8 DEF stom
<1> QED BY <1>1, <1>2

-----------------------------------------------------------------------------
(* The tower of fields over the integers.                                  *)

Int2 == Int \X Int
Plus2(a, b) == <<a[1] + b[1], a[2] + b[2]>>
Minus2(a, b) == <<a[1] - b[1], a[2] - b[2]>>
Times2(a, b) == <<a[1] * b[1] - a[2] * b[2], a[1] * b[2] + a[2] * b[1]>>
Root2(a) == <<a[1] - a[2], a[1] + a[2]>>
Residue2(a) == <<Mod(a[1]), Mod(a[2])>>

(* A residue is a number below the prime, apart by a multiple of it.       *)
LEMMA ModFacts ==
  ASSUME NEW a \in Int
  PROVE  /\ PRIME_P \in Nat /\ PRIME_P > 3 /\ Mod(a) \in Fp /\ Mod(a) \in Int
         /\ \E k \in Int : Mod(a) = a + PRIME_P * k
<1>1. PICK p \in Nat : p = PRIME_P /\ p > 3
  BY PrimeAssumption
<1>2. a = p * (a \div p) + (a % p) /\ a % p \in 0..p-1 /\ a \div p \in Int
  BY <1>1
<1>3. PICK q \in Int : q = a \div p
  BY <1>2
<1>4. a % p = a + p * (-q)
  BY <1>1, <1>2, <1>3
<1>5. PICK k \in Int : k = -q
  OBVIOUS
<1>6. Mod(a) = a + PRIME_P * k /\ Mod(a) \in 0..p-1
  BY <1>1, <1>2, <1>4, <1>5 DEF Mod
<1> QED BY <1>1, <1>6 DEF Fp

(* Numbers apart by a multiple of the prime have the same residue.         *)
LEMMA ModSame ==
  ASSUME NEW a \in Int, NEW b \in Int, NEW k \in Int, a = b + PRIME_P * k
  PROVE  Mod(a) = Mod(b)
<1>1. PICK p \in Nat : p = PRIME_P /\ p > 3
  BY PrimeAssumption
<1>2. PICK x \in 0..p-1, i \in Int : x = Mod(a) /\ x = a + p * i
  BY <1>1, ModFacts DEF Fp
<1>3. PICK y \in 0..p-1, j \in Int : y = Mod(b) /\ y = b + p * j
  BY <1>1, ModFacts DEF Fp
<1>4. x - y = p * (k + i - j)
  <2>1. p * (k + i - j) = p * k + p * i - p * j
    OBVIOUS
  <2>2. PICK u1 \in Int, u2 \in Int, u3 \in Int : u1 = p * k /\ u2 = p * i /\ u3 = p * j
    OBVIOUS
  <2> QED BY <1>1, <1>2, <1>3, <2>1, <2>2
<1>5. PICK d \in Int : d = k + i - j
  OBVIOUS
<1>6. ~ (d >= 1)
  <2>1. d >= 1 => p * d >= p
    BY <1>1
  <2> QED BY <1>2, <1>3, <1>4, <1>5, <2>1
<1>7. ~ (d <= -1)
  <2>1. d <= -1 => p * d <= -p
    BY <1>1
  <2> QED BY <1>2, <1>3, <1>4, <1>5, <2>1
<1>8. d = 0
  BY <1>6, <1>7
<1>9. p * d = 0
  BY <1>8
<1> QED BY <1>2, <1>3, <1>4, <1>5, <1>9

(* The sum, difference, negation and product of residues.                  *)
LEMMA ModLaws ==
  ASSUME NEW a \in Int, NEW b \in Int
  PROVE  /\ Mod(Mod(a) + Mod(b)) = Mod(a + b)
         /\ Mod(Mod(a) - Mod(b)) = Mod(a - b)
         /\ Mod(-Mod(a)) = Mod(-a)
         /\ Mod(Mod(a) * Mod(b)) = Mod(a * b)
<1>1. PICK p \in Nat : p = PRIME_P
  BY PrimeAssumption
<1>2. PICK x \in Int, i \in Int : x = Mod(a) /\ x = a + p * i
  BY <1>1, ModFacts
<1>3. PICK y \in Int, j \in Int : y = Mod(b) /\ y = b + p * j
  BY <1>1, ModFacts
<1>4. x + y = (a + b) + p * (i + j) /\ x - y = (a - b) + p * (i - j) /\ -x = -a + p * (-i)
  BY <1>2, <1>3
<1>5. x * y = a * b + p * (a * j + i * b + i * (p * j))
  <2>1. x * y = (a + p * i) * (b + p * j)
    BY <1>2, <1>3
  <2>2. (a + p * i) * (b + p * j) = a * b + p * (a * j + i * b + i * (p * j))
    OBVIOUS
  <2> QED BY <2>1, <2>2
<1>6. PICK m \in Int : m = a * j + i * b + i * (p * j)
  OBVIOUS
<1>7. ASSUME NEW s \in Int, NEW t \in Int, NEW k \in Int, s = t + p * k
      PROVE  Mod(s) = Mod(t)
  BY <1>1, <1>7, ModSame
<1>8. Mod(x + y) = Mod(a + b)
  <2>1. PICK s \in Int, t \in Int, k \in Int : s = x + y /\ t = a + b /\ k = i + j
    OBVIOUS
  <2>2. s = t + p * k
    BY <1>4, <2>1
  <2>3. Mod(s) = Mod(t)
    BY <1>7, <2>2
  <2> QED BY <2>1, <2>3
<1>9. Mod(x - y) = Mod(a - b)
  <2>1. PICK s \in Int, t \in Int, k \in Int : s = x - y /\ t = a - b /\ k = i - j
    OBVIOUS
  <2>2. s = t + p * k
    BY <1>4, <2>1
  <2>3. Mod(s) = Mod(t)
    BY <1>7, <2>2
  <2> QED BY <2>1, <2>3
<1>10. Mod(-x) = Mod(-a)
  <2>1. PICK s \in Int, t \in Int, k \in Int : s = -x /\ t = -a /\ k = -i
    OBVIOUS
  <2>2. s = t + p * k
    BY <1>4, <2>1
  <2>3. Mod(s) = Mod(t)
    BY <1>7, <2>2
  <2> QED BY <2>1, <2>3
<1>11. Mod(x * y) = Mod(a * b)
  <2>1. PICK s \in Int, t \in Int, k \in Int : s = x * y /\ t = a * b /\ k = m
    OBVIOUS
  <2>2. s = t + p * k
    BY <1>5, <1>6, <2>1
  <2>3. Mod(s) = Mod(t)
    BY <1>7, <2>2
  <2> QED BY <2>1, <2>3
<1> QED BY <1>2, <1>3, <1>8, <1>9, <1>10, <1>11

(* A residue less two others.                                              *)
LEMMA ModThree ==
  ASSUME NEW a \in Int, NEW b \in Int, NEW c \in Int
  PROVE  Mod(Mod(a) - Mod(b) - Mod(c)) = Mod(a - b - c)
<1>1. PICK p \in Nat : p = PRIME_P
  BY PrimeAssumption
<1>2. PICK x \in Int, i \in Int : x = Mod(a) /\ x = a + p * i
  BY <1>1, ModFacts
<1>3. PICK y \in Int, j \in Int : y = Mod(b) /\ y = b + p * j
  BY <1>1, ModFacts
<1>4. PICK z \in Int, l \in Int : z = Mod(c) /\ z = c + p * l
  BY <1>1, ModFacts
<1>5. PICK s \in Int, t \in Int, k \in Int : s = x - y - z /\ t = a - b - c /\ k = i - j - l
  OBVIOUS
<1>6. s = t + p * k
  <2>1. p * k = p * i - p * j - p * l
    BY <1>5
  <2>2. PICK u1 \in Int, u2 \in Int, u3 \in Int : u1 = p * i /\ u2 = p * j /\ u3 = p * l
    OBVIOUS
  <2> QED BY <1>2, <1>3, <1>4, <1>5, <2>1, <2>2
<1>7. Mod(s) = Mod(t)
  BY <1>1, <1>6, ModSame
<1> QED BY <1>2, <1>3, <1>4, <1>5, <1>7

(* Reduced, an element stands for the integers it is made of.              *)
LEMMA Reduced ==
  /\ \A a \in Fp : a \in Int /\ Mod(a) = a
  /\ \A a \in Int : Mod(Mod(a)) = Mod(a)
<1>1. PICK p \in Nat : p = PRIME_P /\ p > 3
  BY PrimeAssumption
<1>2. ASSUME NEW a \in Fp PROVE a \in Int /\ Mod(a) = a
  <2>1. a \in 0..p-1
    BY <1>1 DEF Fp
  <2>2. a % p = a
    BY <1>1, <2>1
  <2> QED BY <1>1, <2>1, <2>2 DEF Mod
<1> QED BY <1>2, ModFacts

(* The operations of Fp2, on residues.                                     *)
LEMMA Residues2 ==
  ASSUME NEW a \in Int2, NEW b \in Int2
  PROVE  /\ Residue2(a) \oplus Residue2(b) = Residue2(Plus2(a, b))
         /\ Residue2(a) \ominus Residue2(b) = Residue2(Minus2(a, b))
         /\ fp2_mul_qnr(Residue2(a)) = Residue2(Root2(a))
         /\ Product2(Residue2(a), Residue2(b)) = Residue2(Times2(a, b))
         /\ fp2_mul_std(Residue2(a), Residue2(b)) = Residue2(Times2(a, b))
         /\ fp2_sqr(Residue2(a)) = Residue2(Times2(a, a))
<1>1. PICK a1 \in Int, a2 \in Int, b1 \in Int, b2 \in Int : a = <<a1, a2>> /\ b = <<b1, b2>>
  BY DEF Int2
<1>2. PICK x1 \in Int, x2 \in Int, y1 \in Int, y2 \in Int :
        x1 = Mod(a1) /\ x2 = Mod(a2) /\ y1 = Mod(b1) /\ y2 = Mod(b2)
  BY ModFacts
<1>3. Residue2(a) = <<x1, x2>> /\ Residue2(b) = <<y1, y2>>
  BY <1>1, <1>2 DEF Residue2
<1>4. /\ Mod(x1 + y1) = Mod(a1 + b1) /\ Mod(x2 + y2) = Mod(a2 + b2)
      /\ Mod(x1 - y1) = Mod(a1 - b1) /\ Mod(x2 - y2) = Mod(a2 - b2)
      /\ Mod(x1 + x2) = Mod(a1 + a2) /\ Mod(x1 - x2) = Mod(a1 - a2)
      /\ Mod(x2 + x1) = Mod(a2 + a1) /\ Mod(y2 + y1) = Mod(b2 + b1)
  BY <1>2, ModLaws
<1>5. /\ Mod(x1 * y1) = Mod(a1 * b1) /\ Mod(x2 * y2) = Mod(a2 * b2)
      /\ Mod(x1 * y2) = Mod(a1 * b2) /\ Mod(x2 * y1) = Mod(a2 * b1)
      /\ Mod(x1 * x2) = Mod(a1 * a2)
  BY <1>2, ModLaws
<1>6. /\ Residue2(a) \oplus Residue2(b) = Residue2(Plus2(a, b))
      /\ Residue2(a) \ominus Residue2(b) = Residue2(Minus2(a, b))
      /\ fp2_mul_qnr(Residue2(a)) = Residue2(Root2(a))
  BY <1>1, <1>3, <1>4 DEF \oplus, \ominus, fp2_add, fp2_sub, fp2_mul_qnr, Residue2, Plus2, Minus2, Root2
<1>7. PICK m11 \in Int, m22 \in Int, m12 \in Int, m21 \in Int, s \in Int :
        /\ m11 = a1 * b1 /\ m22 = a2 * b2 /\ m12 = a1 * b2 /\ m21 = a2 * b1
        /\ s = (a2 + a1) * (b2 + b1) /\ s = m22 + m21 + m12 + m11
  <2>1. (a2 + a1) * (b2 + b1) = a2 * b2 + a2 * b1 + a1 * b2 + a1 * b1
    OBVIOUS
  <2> QED BY <2>1
<1>8. Residue2(Times2(a, b)) = <<Mod(m11 - m22), Mod(m12 + m21)>>
  BY <1>1, <1>7 DEF Times2, Residue2
<1>9. PICK n11 \in Int, n22 \in Int, n12 \in Int, n21 \in Int :
        n11 = x1 * y1 /\ n22 = x2 * y2 /\ n12 = x1 * y2 /\ n21 = x2 * y1
  OBVIOUS
<1>10. /\ Mod(n11) = Mod(m11) /\ Mod(n22) = Mod(m22) /\ Mod(n12) = Mod(m12) /\ Mod(n21) = Mod(m21)
  BY <1>5, <1>7, <1>9
<1>11. Mod(n11 - n22) = Mod(m11 - m22) /\ Mod(n12 + n21) = Mod(m12 + m21)
  <2>1. /\ Mod(Mod(n11) - Mod(n22)) = Mod(n11 - n22) /\ Mod(Mod(m11) - Mod(m22)) = Mod(m11 - m22)
        /\ Mod(Mod(n12) + Mod(n21)) = Mod(n12 + n21) /\ Mod(Mod(m12) + Mod(m21)) = Mod(m12 + m21)
    BY ModLaws
  <2> QED BY <1>10, <2>1
<1>12. Product2(Residue2(a), Residue2(b)) = Residue2(Times2(a, b))
  BY <1>3, <1>8, <1>9, <1>11 DEF Product2
<1>13. fp2_mul_std(Residue2(a), Residue2(b)) = Residue2(Times2(a, b))
  <2>1. fp2_mul_std(Residue2(a), Residue2(b))
          = LET y == Mod(Mod(x2 + x1) * Mod(y2 + y1)) IN
            <<Mod(Mod(n11) - Mod(n22)), Mod(y - Mod(n11) - Mod(n22))>>
    BY <1>3, <1>9 DEF fp2_mul_std, fp_mul, Mod
  <2>2. PICK d \in Int, e \in Int : d = a2 + a1 /\ e = b2 + b1 /\ s = d * e
    BY <1>7
  <2>3. Mod(Mod(x2 + x1) * Mod(y2 + y1)) = Mod(s)
    <3>1. Mod(Mod(d) * Mod(e)) = Mod(d * e)
      BY ModLaws
    <3> QED BY <1>4, <2>2, <3>1
  <2>4. Mod(Mod(n11) - Mod(n22)) = Mod(m11 - m22)
    <3>1. Mod(Mod(m11) - Mod(m22)) = Mod(m11 - m22)
      BY ModLaws
    <3> QED BY <1>10, <3>1
  <2>5. Mod(Mod(s) - Mod(n11) - Mod(n22)) = Mod(m12 + m21)
    <3>1. Mod(Mod(s) - Mod(m11) - Mod(m22)) = Mod(s - m11 - m22)
      BY ModThree
    <3>2. s - m11 - m22 = m12 + m21
      BY <1>7
    <3> QED BY <1>10, <3>1, <3>2
  <2> QED BY <1>8, <2>1, <2>3, <2>4, <2>5
<1>14. fp2_sqr(Residue2(a)) = Residue2(Times2(a, a))
  <2>1. fp2_sqr(Residue2(a)) = <<Mod(Mod(x1 + x2) * Mod(x1 - x2)), Mod(2 * Mod(x1 * x2))>>
    BY <1>3 DEF fp2_sqr, fp_mul, Mod
  <2>2. PICK d \in Int, e \in Int, v \in Int : d = a1 + a2 /\ e = a1 - a2 /\ v = a1 * a2
    OBVIOUS
  <2>3. Mod(Mod(x1 + x2) * Mod(x1 - x2)) = Mod(d * e)
    <3>1. Mod(Mod(d) * Mod(e)) = Mod(d * e)
      BY ModLaws
    <3> QED BY <1>4, <2>2, <3>1
  <2>4. Mod(2 * Mod(x1 * x2)) = Mod(v + v)
    <3>1. Mod(Mod(v) + Mod(v)) = Mod(v + v)
      BY ModLaws
    <3>2. PICK w \in Int : w = Mod(v) /\ w = Mod(x1 * x2)
      BY <1>5, <2>2, ModFacts
    <3>3. 2 * w = w + w
      OBVIOUS
    <3> QED BY <3>1, <3>2, <3>3
  <2>5. d * e = a1 * a1 - a2 * a2 /\ v + v = a1 * a2 + a2 * a1
    <3>1. (a1 + a2) * (a1 - a2) = a1 * a1 - a2 * a2 /\ a1 * a2 = a2 * a1
      OBVIOUS
    <3> QED BY <2>2, <3>1
  <2>6. Residue2(Times2(a, a)) = <<Mod(d * e), Mod(v + v)>>
    BY <1>1, <2>5 DEF Times2, Residue2
  <2> QED BY <2>1, <2>3, <2>4, <2>6
<1> QED BY <1>6, <1>12, <1>13, <1>14

(* The sums and products of pairs of integers.                             *)
LEMMA Ring2 ==
  ASSUME NEW a \in Int2, NEW b \in Int2, NEW c \in Int2
  PROVE  /\ Plus2(a, b) \in Int2 /\ Minus2(a, b) \in Int2 /\ Times2(a, b) \in Int2 /\ Root2(a) \in Int2
         /\ Residue2(a) \in Fp \X Fp
         /\ Times2(a, b) = Times2(b, a)
         /\ Times2(a, Plus2(b, c)) = Plus2(Times2(a, b), Times2(a, c))
         /\ Times2(Plus2(b, c), a) = Plus2(Times2(b, a), Times2(c, a))
         /\ Times2(a, Root2(b)) = Root2(Times2(a, b)) /\ Times2(Root2(a), b) = Root2(Times2(a, b))
<1>1. PICK a1 \in Int, a2 \in Int : a = <<a1, a2>>
  BY DEF Int2
<1>2. PICK b1 \in Int, b2 \in Int : b = <<b1, b2>>
  BY DEF Int2
<1>3. PICK c1 \in Int, c2 \in Int : c = <<c1, c2>>
  BY DEF Int2
<1>4. /\ Plus2(a, b) \in Int2 /\ Minus2(a, b) \in Int2 /\ Times2(a, b) \in Int2 /\ Root2(a) \in Int2
  BY <1>1, <1>2 DEF Plus2, Minus2, Times2, Root2, Int2
<1>5. Residue2(a) \in Fp \X Fp
  <2>1. Mod(a1) \in Fp /\ Mod(a2) \in Fp
    BY ModFacts
  <2> QED BY <1>1, <2>1 DEF Residue2
<1>6. Times2(a, b) = Times2(b, a)
  <2>1. a1 * b1 = b1 * a1 /\ a2 * b2 = b2 * a2 /\ a1 * b2 = b2 * a1 /\ a2 * b1 = b1 * a2
    OBVIOUS
  <2> QED BY <1>1, <1>2, <2>1 DEF Times2
<1>7. /\ a1 * (b1 + c1) = a1 * b1 + a1 * c1 /\ a2 * (b2 + c2) = a2 * b2 + a2 * c2
      /\ a1 * (b2 + c2) = a1 * b2 + a1 * c2 /\ a2 * (b1 + c1) = a2 * b1 + a2 * c1
      /\ (b1 + c1) * a1 = b1 * a1 + c1 * a1 /\ (b2 + c2) * a2 = b2 * a2 + c2 * a2
      /\ (b1 + c1) * a2 = b1 * a2 + c1 * a2 /\ (b2 + c2) * a1 = b2 * a1 + c2 * a1
  OBVIOUS
<1>8. Times2(a, Plus2(b, c)) = Plus2(Times2(a, b), Times2(a, c))
  BY <1>1, <1>2, <1>3, <1>7 DEF Times2, Plus2
<1>9. Times2(Plus2(b, c), a) = Plus2(Times2(b, a), Times2(c, a))
  BY <1>1, <1>2, <1>3, <1>7 DEF Times2, Plus2
<1>10. /\ a1 * (b1 - b2) = a1 * b1 - a1 * b2 /\ a1 * (b1 + b2) = a1 * b1 + a1 * b2
       /\ a2 * (b1 - b2) = a2 * b1 - a2 * b2 /\ a2 * (b1 + b2) = a2 * b1 + a2 * b2
       /\ (a1 - a2) * b1 = a1 * b1 - a2 * b1 /\ (a1 - a2) * b2 = a1 * b2 - a2 * b2
       /\ (a1 + a2) * b1 = a1 * b1 + a2 * b1 /\ (a1 + a2) * b2 = a1 * b2 + a2 * b2
  OBVIOUS
<1>11. Times2(a, Root2(b)) = Root2(Times2(a, b))
  BY <1>1, <1>2, <1>10 DEF Times2, Root2
<1>12. Times2(Root2(a), b) = Root2(Times2(a, b))
  BY <1>1, <1>2, <1>10 DEF Times2, Root2
<1> QED BY <1>4, <1>5, <1>6, <1>8, <1>9, <1>11, <1>12

(* A pair of integers has two of them.                                     *)
LEMMA Pair2 ==
  ASSUME NEW a \in Int2
  PROVE  \E x \in Int, y \in Int : a = <<x, y>>
BY DEF Int2

(* The sums and products of pairs of integers are pairs of integers.       *)
LEMMA Closed2 ==
  ASSUME NEW a \in Int2, NEW b \in Int2
  PROVE  Plus2(a, b) \in Int2 /\ Minus2(a, b) \in Int2 /\ Times2(a, b) \in Int2 /\ Root2(a) \in Int2
BY Ring2

(* The product of pairs does not mind the order.                           *)
LEMMA Commutes2 ==
  ASSUME NEW a \in Int2, NEW b \in Int2
  PROVE  Times2(a, b) = Times2(b, a)
BY Ring2

(* The product of pairs distributes over a sum on its right.               *)
LEMMA Left2 ==
  ASSUME NEW a \in Int2, NEW b \in Int2, NEW c \in Int2
  PROVE  Times2(a, Plus2(b, c)) = Plus2(Times2(a, b), Times2(a, c))
BY Ring2

(* The product of pairs distributes over a sum on its left.                *)
LEMMA Right2 ==
  ASSUME NEW a \in Int2, NEW b \in Int2, NEW c \in Int2
  PROVE  Times2(Plus2(b, c), a) = Plus2(Times2(b, a), Times2(c, a))
BY Ring2

(* The root 1 + i moves out of a product.                                  *)
LEMMA Rooted2 ==
  ASSUME NEW a \in Int2, NEW b \in Int2
  PROVE  Times2(a, Root2(b)) = Root2(Times2(a, b)) /\ Times2(Root2(a), b) = Root2(Times2(a, b))
BY Ring2

(* What remains of a sum of four when two of them are taken away.          *)
LEMMA Cancel2 ==
  ASSUME NEW x \in Int2, NEW u \in Int2, NEW w \in Int2, NEW z \in Int2
  PROVE  /\ Minus2(Minus2(Plus2(Plus2(x, u), Plus2(w, z)), z), x) = Plus2(u, w)
         /\ Minus2(Minus2(Plus2(Plus2(x, u), Plus2(w, z)), u), w) = Plus2(x, z)
<1>1. PICK x1 \in Int, x2 \in Int : x = <<x1, x2>>
  BY Pair2
<1>2. PICK u1 \in Int, u2 \in Int : u = <<u1, u2>>
  BY Pair2
<1>3. PICK w1 \in Int, w2 \in Int : w = <<w1, w2>>
  BY Pair2
<1>4. PICK z1 \in Int, z2 \in Int : z = <<z1, z2>>
  BY Pair2
<1> QED BY <1>1, <1>2, <1>3, <1>4 DEF Plus2, Minus2

Int4 == Int2 \X Int2
Plus4(a, b) == <<Plus2(a[1], b[1]), Plus2(a[2], b[2])>>
Minus4(a, b) == <<Minus2(a[1], b[1]), Minus2(a[2], b[2])>>
Times4(a, b) ==
  <<Plus2(Times2(a[1], b[1]), Root2(Times2(a[2], b[2]))),
    Plus2(Times2(a[1], b[2]), Times2(a[2], b[1]))>>
Root4(a) == <<Root2(a[2]), a[1]>>
Residue4(a) == <<Residue2(a[1]), Residue2(a[2])>>

(* The routines that the headers bind.                                     *)
StandardTower ==
  /\ \A a, b : fp2_mul(a, b) = fp2_mul_std(a, b)
  /\ \A a, b : fp4_mul(a, b) = fp4_mul_std(a, b)
  /\ \A a : fp4_sqr(a) = fp4_sqr_std(a)
  /\ \A a, b : fp12_mul(a, b) = fp12_mul_distinct_b_std(a, b)

(* Karatsuba's three products in Fp4, and the two of its square.           *)
LEMMA Residues4 ==
  ASSUME StandardTower, NEW a \in Int4, NEW b \in Int4
  PROVE  /\ Residue4(a) ++ Residue4(b) = Residue4(Plus4(a, b))
         /\ Residue4(a) -- Residue4(b) = Residue4(Minus4(a, b))
         /\ fp4_mul_adj_root(Residue4(a)) = Residue4(Root4(a))
         /\ Residue4(a) ** Residue4(b) = Residue4(Times4(a, b))
         /\ fp4_sqr(Residue4(a)) = Residue4(Times4(a, a))
<1>1. PICK a1 \in Int2, a2 \in Int2, b1 \in Int2, b2 \in Int2 : a = <<a1, a2>> /\ b = <<b1, b2>>
  BY DEF Int4
<1>2. /\ Residue4(a) = <<Residue2(a1), Residue2(a2)>> /\ Residue4(b) = <<Residue2(b1), Residue2(b2)>>
  BY <1>1 DEF Residue4
<1>3. ASSUME NEW x \in Int2, NEW y \in Int2
      PROVE  /\ Residue2(x) \oplus Residue2(y) = Residue2(Plus2(x, y))
             /\ Residue2(x) \ominus Residue2(y) = Residue2(Minus2(x, y))
             /\ fp2_mul_qnr(Residue2(x)) = Residue2(Root2(x))
             /\ Residue2(x) \otimes Residue2(y) = Residue2(Times2(x, y))
  BY Residues2 DEF StandardTower, \otimes
<1>4. /\ Residue4(a) ++ Residue4(b) = Residue4(Plus4(a, b))
      /\ Residue4(a) -- Residue4(b) = Residue4(Minus4(a, b))
      /\ fp4_mul_adj_root(Residue4(a)) = Residue4(Root4(a))
  <2>1. /\ Residue2(a1) \oplus Residue2(b1) = Residue2(Plus2(a1, b1))
        /\ Residue2(a2) \oplus Residue2(b2) = Residue2(Plus2(a2, b2))
        /\ Residue2(a1) \ominus Residue2(b1) = Residue2(Minus2(a1, b1))
        /\ Residue2(a2) \ominus Residue2(b2) = Residue2(Minus2(a2, b2))
        /\ fp2_mul_qnr(Residue2(a2)) = Residue2(Root2(a2))
    BY <1>3
  <2> QED BY <1>1, <1>2, <2>1 DEF ++, --, fp4_add, fp4_sub, fp4_mul_adj_root, Residue4, Plus4, Minus4, Root4
<1>5. PICK z \in Int2, x \in Int2, u \in Int2, w \in Int2 :
        z = Times2(a1, b1) /\ x = Times2(a2, b2) /\ u = Times2(a1, b2) /\ w = Times2(a2, b1)
  BY Closed2
<1>61. PICK s \in Int2, t \in Int2 : s = Plus2(a2, a1) /\ t = Plus2(b2, b1)
  BY Closed2
<1>6. PICK y \in Int2 : s = Plus2(a2, a1) /\ t = Plus2(b2, b1) /\ y = Times2(s, t)
  BY <1>61, Closed2
<1>7. y = Plus2(Plus2(x, u), Plus2(w, z))
  <2>1. Times2(s, Plus2(b2, b1)) = Plus2(Times2(s, b2), Times2(s, b1))
    BY Left2
  <2>2. /\ Times2(Plus2(a2, a1), b2) = Plus2(Times2(a2, b2), Times2(a1, b2))
        /\ Times2(Plus2(a2, a1), b1) = Plus2(Times2(a2, b1), Times2(a1, b1))
    BY Right2
  <2> QED BY <1>5, <1>6, <2>1, <2>2
<1>8. Minus2(Minus2(y, z), x) = Plus2(u, w)
  BY <1>7, Cancel2
<1>9. Times4(a, b) = <<Plus2(z, Root2(x)), Plus2(u, w)>>
  BY <1>1, <1>5 DEF Times4
<1>10. Residue4(a) ** Residue4(b) = Residue4(Times4(a, b))
  <2>1. Residue4(a) ** Residue4(b)
          = LET y1 == (Residue2(a2) \oplus Residue2(a1)) \otimes (Residue2(b2) \oplus Residue2(b1))
                z1 == Residue2(a1) \otimes Residue2(b1)
                x1 == Residue2(a2) \otimes Residue2(b2)
            IN <<z1 \oplus fp2_mul_qnr(x1), (y1 \ominus z1) \ominus x1>>
    BY <1>2 DEF **, StandardTower, fp4_mul_std
  <2>2. /\ Residue2(a2) \oplus Residue2(a1) = Residue2(s) /\ Residue2(b2) \oplus Residue2(b1) = Residue2(t)
        /\ Residue2(s) \otimes Residue2(t) = Residue2(y)
        /\ Residue2(a1) \otimes Residue2(b1) = Residue2(z) /\ Residue2(a2) \otimes Residue2(b2) = Residue2(x)
    BY <1>3, <1>5, <1>6
  <2>3. /\ fp2_mul_qnr(Residue2(x)) = Residue2(Root2(x)) /\ Root2(x) \in Int2
        /\ Residue2(y) \ominus Residue2(z) = Residue2(Minus2(y, z)) /\ Minus2(y, z) \in Int2
    BY <1>3, Closed2
  <2>4. /\ Residue2(z) \oplus Residue2(Root2(x)) = Residue2(Plus2(z, Root2(x)))
        /\ Residue2(Minus2(y, z)) \ominus Residue2(x) = Residue2(Plus2(u, w))
    BY <1>3, <1>8, <2>3
  <2>5. Residue4(a) ** Residue4(b) = <<Residue2(Plus2(z, Root2(x))), Residue2(Plus2(u, w))>>
    BY <2>1, <2>2, <2>3, <2>4
  <2> QED BY <1>9, <2>5 DEF Residue4
<1>11. fp4_sqr(Residue4(a)) = Residue4(Times4(a, a))
  <2>1. fp4_sqr(Residue4(a))
          = LET v1 == Residue2(a1) \otimes Residue2(a2)
                s1 == (Residue2(a1) \oplus Residue2(a2)) \otimes (Residue2(a1) \oplus fp2_mul_qnr(Residue2(a2)))
            IN <<(s1 \ominus v1) \ominus fp2_mul_qnr(v1), v1 \oplus v1>>
    BY <1>2 DEF StandardTower, fp4_sqr_std
  <2>21. PICK v \in Int2, q \in Int2 : v = Times2(a1, a2) /\ q = Root2(a2)
    BY Closed2
  <2>2. PICK r \in Int2 : v = Times2(a1, a2) /\ q = Root2(a2) /\ r = Root2(v)
    BY <2>21, Closed2
  <2>31. PICK d \in Int2, e \in Int2 : d = Plus2(a1, a2) /\ e = Plus2(a1, q)
    BY Closed2
  <2>3. PICK f \in Int2 : d = Plus2(a1, a2) /\ e = Plus2(a1, q) /\ f = Times2(d, e)
    BY <2>31, Closed2
  <2>4. PICK g \in Int2, h \in Int2 : g = Times2(a1, a1) /\ h = Root2(Times2(a2, a2))
    BY Closed2
  <2>5. f = Plus2(Plus2(g, v), Plus2(r, h))
    <3>1. Times2(d, Plus2(a1, q)) = Plus2(Times2(d, a1), Times2(d, q))
      BY Left2
    <3>2. Times2(Plus2(a1, a2), a1) = Plus2(Times2(a1, a1), Times2(a2, a1)) /\ Times2(a2, a1) = Times2(a1, a2)
      BY Right2, Commutes2
    <3>3. Times2(Plus2(a1, a2), q) = Plus2(Times2(a1, q), Times2(a2, q))
      BY Right2
    <3>4. Times2(a1, q) = Root2(Times2(a1, a2)) /\ Times2(a2, q) = Root2(Times2(a2, a2))
      BY <2>2, Rooted2
    <3> QED BY <2>2, <2>3, <2>4, <3>1, <3>2, <3>3, <3>4
  <2>6. Minus2(Minus2(f, v), r) = Plus2(g, h)
    BY <2>5, Cancel2, SMTT(30)
  <2>7. Times4(a, a) = <<Plus2(g, h), Plus2(v, v)>>
    <3>1. Times2(a2, a1) = Times2(a1, a2)
      BY Commutes2
    <3> QED BY <1>1, <2>2, <2>4, <3>1 DEF Times4
  <2>8. /\ Residue2(a1) \otimes Residue2(a2) = Residue2(v) /\ fp2_mul_qnr(Residue2(a2)) = Residue2(q)
        /\ Residue2(a1) \oplus Residue2(a2) = Residue2(d) /\ Residue2(a1) \oplus Residue2(q) = Residue2(e)
        /\ Residue2(d) \otimes Residue2(e) = Residue2(f)
    BY <1>3, <2>2, <2>3
  <2>81. /\ fp2_mul_qnr(Residue2(v)) = Residue2(r) /\ Residue2(v) \oplus Residue2(v) = Residue2(Plus2(v, v))
         /\ Residue2(f) \ominus Residue2(v) = Residue2(Minus2(f, v))
    BY <1>3, <2>2
  <2>82. Minus2(f, v) \in Int2
    BY Closed2
  <2>9. Residue2(Minus2(f, v)) \ominus Residue2(r) = Residue2(Plus2(g, h))
    BY <1>3, <2>6, <2>82
  <2>10. fp4_sqr(Residue4(a)) = <<Residue2(Plus2(g, h)), Residue2(Plus2(v, v))>>
    BY <2>1, <2>8, <2>81, <2>9
  <2> QED BY <2>7, <2>10 DEF Residue4
<1> QED BY <1>4, <1>10, <1>11

(* An integer element of the fourth degree has two halves.                 *)
LEMMA Pair4 ==
  ASSUME NEW a \in Int4
  PROVE  \E x \in Int2, y \in Int2 : a = <<x, y>>
BY DEF Int4

(* Pairs of integers that add up the same.                                 *)
LEMMA Sums2 ==
  ASSUME NEW x \in Int2, NEW u \in Int2, NEW w \in Int2, NEW z \in Int2
  PROVE  /\ Plus2(Plus2(x, u), Plus2(w, z)) = Plus2(Plus2(x, w), Plus2(u, z))
         /\ Minus2(Minus2(Plus2(Plus2(x, u), Plus2(w, z)), x), z) = Plus2(u, w)
         /\ Plus2(x, u) = Plus2(u, x)
         /\ Root2(Plus2(x, u)) = Plus2(Root2(x), Root2(u))
<1>1. PICK x1 \in Int, x2 \in Int : x = <<x1, x2>>
  BY Pair2
<1>2. PICK u1 \in Int, u2 \in Int : u = <<u1, u2>>
  BY Pair2
<1>3. PICK w1 \in Int, w2 \in Int : w = <<w1, w2>>
  BY Pair2
<1>4. PICK z1 \in Int, z2 \in Int : z = <<z1, z2>>
  BY Pair2
<1> QED BY <1>1, <1>2, <1>3, <1>4 DEF Plus2, Minus2, Root2

(* The root 1 + i distributes over a sum.                                  *)
LEMMA RootOfSum ==
  ASSUME NEW x \in Int2, NEW u \in Int2
  PROVE  Root2(Plus2(x, u)) = Plus2(Root2(x), Root2(u))
BY Sums2

(* The integers of the fourth degree are closed under the operations.      *)
LEMMA Closed4 ==
  ASSUME NEW a \in Int4, NEW b \in Int4
  PROVE  Plus4(a, b) \in Int4 /\ Minus4(a, b) \in Int4 /\ Times4(a, b) \in Int4 /\ Root4(a) \in Int4
<1>1. PICK a1 \in Int2, a2 \in Int2 : a = <<a1, a2>>
  BY Pair4
<1>2. PICK b1 \in Int2, b2 \in Int2 : b = <<b1, b2>>
  BY Pair4
<1>3. /\ Plus2(a1, b1) \in Int2 /\ Plus2(a2, b2) \in Int2 /\ Minus2(a1, b1) \in Int2 /\ Minus2(a2, b2) \in Int2
      /\ Root2(a2) \in Int2
  BY Closed2
<1>4. PICK m11 \in Int2, m12 \in Int2, m21 \in Int2, m22 \in Int2 :
        m11 = Times2(a1, b1) /\ m12 = Times2(a1, b2) /\ m21 = Times2(a2, b1) /\ m22 = Times2(a2, b2)
  BY Closed2
<1>5. Root2(m22) \in Int2
  BY Closed2
<1>6. Plus2(m11, Root2(m22)) \in Int2 /\ Plus2(m12, m21) \in Int2
  BY <1>5, Closed2
<1> QED BY <1>1, <1>2, <1>3, <1>4, <1>6 DEF Plus4, Minus4, Times4, Root4, Int4

(* Their product does not mind the order.                                  *)
LEMMA Commutes4 ==
  ASSUME NEW a \in Int4, NEW b \in Int4
  PROVE  Times4(a, b) = Times4(b, a)
<1>1. PICK a1 \in Int2, a2 \in Int2 : a = <<a1, a2>>
  BY Pair4
<1>2. PICK b1 \in Int2, b2 \in Int2 : b = <<b1, b2>>
  BY Pair4
<1>3. /\ Times2(a1, b1) = Times2(b1, a1) /\ Times2(a2, b2) = Times2(b2, a2)
      /\ Times2(a1, b2) = Times2(b2, a1) /\ Times2(a2, b1) = Times2(b1, a2)
  BY Commutes2
<1>4. Plus2(Times2(b2, a1), Times2(b1, a2)) = Plus2(Times2(b1, a2), Times2(b2, a1))
  BY Closed2, Sums2
<1> QED BY <1>1, <1>2, <1>3, <1>4 DEF Times4

(* Their product distributes over a sum on its right.                      *)
LEMMA Left4 ==
  ASSUME NEW a \in Int4, NEW b \in Int4, NEW c \in Int4
  PROVE  Times4(a, Plus4(b, c)) = Plus4(Times4(a, b), Times4(a, c))
<1>1. PICK a1 \in Int2, a2 \in Int2 : a = <<a1, a2>>
  BY Pair4
<1>2. PICK b1 \in Int2, b2 \in Int2 : b = <<b1, b2>>
  BY Pair4
<1>3. PICK c1 \in Int2, c2 \in Int2 : c = <<c1, c2>>
  BY Pair4
<1>4. PICK m11 \in Int2, m12 \in Int2, m21 \in Int2, m22 \in Int2 :
        m11 = Times2(a1, b1) /\ m12 = Times2(a1, b2) /\ m21 = Times2(a2, b1) /\ m22 = Times2(a2, b2)
  BY Closed2
<1>5. PICK n11 \in Int2, n12 \in Int2, n21 \in Int2, n22 \in Int2 :
        n11 = Times2(a1, c1) /\ n12 = Times2(a1, c2) /\ n21 = Times2(a2, c1) /\ n22 = Times2(a2, c2)
  BY Closed2
<1>6. /\ Times2(a1, Plus2(b1, c1)) = Plus2(m11, n11) /\ Times2(a1, Plus2(b2, c2)) = Plus2(m12, n12)
      /\ Times2(a2, Plus2(b1, c1)) = Plus2(m21, n21) /\ Times2(a2, Plus2(b2, c2)) = Plus2(m22, n22)
  BY <1>4, <1>5, Left2
<1>7. PICK r \in Int2, s \in Int2 : r = Root2(m22) /\ s = Root2(n22)
  BY Closed2
<1>8. Root2(Plus2(m22, n22)) = Plus2(r, s)
  BY <1>7, Sums2
<1>9. /\ Plus2(Plus2(m11, n11), Plus2(r, s)) = Plus2(Plus2(m11, r), Plus2(n11, s))
      /\ Plus2(Plus2(m12, n12), Plus2(m21, n21)) = Plus2(Plus2(m12, m21), Plus2(n12, n21))
  BY Sums2
<1>10. Times4(a, Plus4(b, c)) = <<Plus2(Plus2(m11, n11), Plus2(r, s)), Plus2(Plus2(m12, n12), Plus2(m21, n21))>>
  BY <1>1, <1>2, <1>3, <1>6, <1>8 DEF Times4, Plus4
<1>11. Times4(a, b) = <<Plus2(m11, r), Plus2(m12, m21)>>
  BY <1>1, <1>2, <1>4, <1>7 DEF Times4
<1>12. Times4(a, c) = <<Plus2(n11, s), Plus2(n12, n21)>>
  BY <1>1, <1>3, <1>5, <1>7 DEF Times4
<1> QED BY <1>9, <1>10, <1>11, <1>12 DEF Plus4

(* Their product distributes over a sum on its left.                       *)
LEMMA Right4 ==
  ASSUME NEW a \in Int4, NEW b \in Int4, NEW c \in Int4
  PROVE  Times4(Plus4(b, c), a) = Plus4(Times4(b, a), Times4(c, a))
<1>1. Plus4(b, c) \in Int4
  BY Closed4
<1>2. Times4(Plus4(b, c), a) = Times4(a, Plus4(b, c))
  BY <1>1, Commutes4
<1>3. Times4(b, a) = Times4(a, b) /\ Times4(c, a) = Times4(a, c)
  BY Commutes4
<1> QED BY <1>2, <1>3, Left4

(* The product of two sums.                                                *)
LEMMA Foil4 ==
  ASSUME NEW a \in Int4, NEW b \in Int4, NEW c \in Int4, NEW d \in Int4
  PROVE  Times4(Plus4(a, b), Plus4(c, d))
           = Plus4(Plus4(Times4(a, c), Times4(b, c)), Plus4(Times4(a, d), Times4(b, d)))
<1>1. PICK s \in Int4 : s = Plus4(a, b)
  BY Closed4
<1>2. Times4(s, Plus4(c, d)) = Plus4(Times4(s, c), Times4(s, d))
  BY Left4
<1>3. /\ Times4(Plus4(a, b), c) = Plus4(Times4(a, c), Times4(b, c))
      /\ Times4(Plus4(a, b), d) = Plus4(Times4(a, d), Times4(b, d))
  BY Right4
<1> QED BY <1>1, <1>2, <1>3

(* A sum does not mind the order.                                          *)
LEMMA SumCommutes4 ==
  ASSUME NEW x \in Int4, NEW u \in Int4
  PROVE  Plus4(x, u) = Plus4(u, x)
<1>1. PICK x1 \in Int2, x2 \in Int2 : x = <<x1, x2>>
  BY Pair4
<1>2. PICK u1 \in Int2, u2 \in Int2 : u = <<u1, u2>>
  BY Pair4
<1>3. Plus2(x1, u1) = Plus2(u1, x1) /\ Plus2(x2, u2) = Plus2(u2, x2)
  BY Sums2
<1> QED BY <1>1, <1>2, <1>3 DEF Plus4

(* What remains of a sum of four when two of them are taken away.  A fact  *)
(* about four elements has a name, so that the prover need not look inside *)
(* to find the elements it is about.                                       *)
Inner(x, u, w, z) ==
  /\ Minus4(Minus4(Plus4(Plus4(x, u), Plus4(w, z)), z), x) = Plus4(u, w)
  /\ Minus4(Minus4(Plus4(Plus4(x, u), Plus4(w, z)), x), z) = Plus4(u, w)

(* It holds of any four.                                                   *)
LEMMA Sums4 ==
  ASSUME NEW x \in Int4, NEW u \in Int4, NEW w \in Int4, NEW z \in Int4
  PROVE  Inner(x, u, w, z)
<1>1. PICK x1 \in Int2, x2 \in Int2 : x = <<x1, x2>>
  BY Pair4
<1>2. PICK u1 \in Int2, u2 \in Int2 : u = <<u1, u2>>
  BY Pair4
<1>3. PICK w1 \in Int2, w2 \in Int2 : w = <<w1, w2>>
  BY Pair4
<1>4. PICK z1 \in Int2, z2 \in Int2 : z = <<z1, z2>>
  BY Pair4
<1>5. Minus4(Minus4(Plus4(Plus4(x, u), Plus4(w, z)), z), x) = Plus4(u, w)
  <2>1. /\ Minus2(Minus2(Plus2(Plus2(x1, u1), Plus2(w1, z1)), z1), x1) = Plus2(u1, w1)
        /\ Minus2(Minus2(Plus2(Plus2(x2, u2), Plus2(w2, z2)), z2), x2) = Plus2(u2, w2)
    BY Cancel2
  <2> QED BY <1>1, <1>2, <1>3, <1>4, <2>1 DEF Plus4, Minus4
<1>6. Minus4(Minus4(Plus4(Plus4(x, u), Plus4(w, z)), x), z) = Plus4(u, w)
  <2>1. /\ Minus2(Minus2(Plus2(Plus2(x1, u1), Plus2(w1, z1)), x1), z1) = Plus2(u1, w1)
        /\ Minus2(Minus2(Plus2(Plus2(x2, u2), Plus2(w2, z2)), x2), z2) = Plus2(u2, w2)
    BY Sums2
  <2> QED BY <1>1, <1>2, <1>3, <1>4, <2>1 DEF Plus4, Minus4
<1> QED BY <1>5, <1>6 DEF Inner

(* Residues are elements of the fields.                                    *)
LEMMA ReducedPairs ==
  /\ \A a \in Int2 : Residue2(a) \in Fp \X Fp
  /\ \A a \in Int4 : Residue4(a) \in Fp4
<1>1. ASSUME NEW a \in Int2 PROVE Residue2(a) \in Fp \X Fp
  BY Ring2
<1>2. ASSUME NEW a \in Int4 PROVE Residue4(a) \in Fp4
  <2>1. PICK x \in Int2, y \in Int2 : a = <<x, y>>
    BY Pair4
  <2>2. Residue2(x) \in Fp \X Fp /\ Residue2(y) \in Fp \X Fp
    BY <1>1
  <2> QED BY <2>1, <2>2 DEF Residue4, Fp4
<1> QED BY <1>1, <1>2

-----------------------------------------------------------------------------
Int12 == Int4 \X Int4 \X Int4
Times12(a, b) ==
  <<Plus4(Times4(a[1], b[1]), Root4(Plus4(Times4(a[2], b[3]), Times4(a[3], b[2])))),
    Plus4(Plus4(Times4(a[2], b[1]), Times4(a[1], b[2])), Root4(Times4(a[3], b[3]))),
    Plus4(Plus4(Times4(a[3], b[1]), Times4(a[1], b[3])), Times4(a[2], b[2]))>>
Residue12(a) == <<Residue4(a[1]), Residue4(a[2]), Residue4(a[3])>>

(* Karatsuba's six products in Fp12.                                       *)
LEMMA Residues12 ==
  ASSUME StandardTower, NEW a \in Int12, NEW b \in Int12
  PROVE  fp12_mul(Residue12(a), Residue12(b)) = Residue12(Times12(a, b))
<1>1. PICK a1 \in Int4, a2 \in Int4, a3 \in Int4 : a = <<a1, a2, a3>>
  BY DEF Int12
<1>2. PICK b1 \in Int4, b2 \in Int4, b3 \in Int4 : b = <<b1, b2, b3>>
  BY DEF Int12
<1>3. PICK x1 \in Fp4, x2 \in Fp4, x3 \in Fp4 : x1 = Residue4(a1) /\ x2 = Residue4(a2) /\ x3 = Residue4(a3)
  BY ReducedPairs
<1>4. PICK y1 \in Fp4, y2 \in Fp4, y3 \in Fp4 : y1 = Residue4(b1) /\ y2 = Residue4(b2) /\ y3 = Residue4(b3)
  BY ReducedPairs
<1>5. /\ Residue12(a) = <<x1, x2, x3>> /\ Residue12(b) = <<y1, y2, y3>>
      /\ <<x1, x2, x3>> \in Fp12 /\ <<y1, y2, y3>> \in Fp12
  BY <1>1, <1>2, <1>3, <1>4 DEF Residue12, Fp12
<1>6. fp12_mul(Residue12(a), Residue12(b))
        = LET d0 == x1 ** y1
              d1 == x2 ** y2
              d2 == x3 ** y3
              d12 == (((y2 ++ y3) ** (x2 ++ x3)) -- d1) -- d2
              d01 == (((x1 ++ x2) ** (y1 ++ y2)) -- d1) -- d0
              d02 == (((x1 ++ x3) ** (y1 ++ y3)) -- d2) -- d0
          IN <<d0 ++ fp4_mul_adj_root(d12), d01 ++ fp4_mul_adj_root(d2), d02 ++ d1>>
  <2>11. PICK s \in Fp12 : s = <<x1, x2, x3>>
    BY <1>5
  <2>12. PICK t \in Fp12 : t = <<y1, y2, y3>>
    BY <1>5
  <2>1. s = <<x1, x2, x3>> /\ t = <<y1, y2, y3>>
    BY <2>11, <2>12
  <2>2. fp12_mul(s, t) = fp12_mul_distinct_b_std(s, t)
    BY Zenon DEF StandardTower
  <2>3. fp12_mul_distinct_b_std(s, t)
          = LET d0 == s[1] ** t[1]
                d1 == s[2] ** t[2]
                d2 == s[3] ** t[3]
                d12 == (((t[2] ++ t[3]) ** (s[2] ++ s[3])) -- d1) -- d2
                d01 == (((s[1] ++ s[2]) ** (t[1] ++ t[2])) -- d1) -- d0
                d02 == (((s[1] ++ s[3]) ** (t[1] ++ t[3])) -- d2) -- d0
            IN <<d0 ++ fp4_mul_adj_root(d12), d01 ++ fp4_mul_adj_root(d2), d02 ++ d1>>
    BY DEF fp12_mul_distinct_b_std
  <2>4. /\ s[1] = x1 /\ s[2] = x2 /\ s[3] = x3 /\ t[1] = y1 /\ t[2] = y2 /\ t[3] = y3
    BY <2>1
  <2>5. Residue12(a) = s /\ Residue12(b) = t
    BY <1>5, <2>1
  <2> QED BY <2>2, <2>3, <2>4, <2>5
<1>7. ASSUME NEW u \in Int4, NEW w \in Int4
      PROVE  /\ Residue4(u) ++ Residue4(w) = Residue4(Plus4(u, w))
             /\ Residue4(u) -- Residue4(w) = Residue4(Minus4(u, w))
             /\ fp4_mul_adj_root(Residue4(u)) = Residue4(Root4(u))
             /\ Residue4(u) ** Residue4(w) = Residue4(Times4(u, w))
  BY Residues4
<1>8. ASSUME NEW s \in Int4, NEW t \in Int4, NEW u \in Int4, NEW w \in Int4
      PROVE  /\ (((Residue4(s) ++ Residue4(t)) ** (Residue4(u) ++ Residue4(w))) -- (Residue4(t) ** Residue4(w)))
                    -- (Residue4(s) ** Residue4(u)) = Residue4(Plus4(Times4(t, u), Times4(s, w)))
             /\ (((Residue4(s) ++ Residue4(t)) ** (Residue4(u) ++ Residue4(w))) -- (Residue4(s) ** Residue4(u)))
                    -- (Residue4(t) ** Residue4(w)) = Residue4(Plus4(Times4(t, u), Times4(s, w)))
  <2>1. PICK d \in Int4, e \in Int4 : d = Plus4(s, t) /\ e = Plus4(u, w)
    BY Closed4
  <2>2. PICK f \in Int4 : f = Times4(d, e)
    BY Closed4
  <2>3. PICK m1 \in Int4, m2 \in Int4, m3 \in Int4, m4 \in Int4 :
          m1 = Times4(s, u) /\ m2 = Times4(t, u) /\ m3 = Times4(s, w) /\ m4 = Times4(t, w)
    BY Closed4
  <2>4. f = Plus4(Plus4(m1, m2), Plus4(m3, m4))
    BY <2>1, <2>2, <2>3, Foil4
  <2>5. PICK g \in Int4, h \in Int4 : g = Minus4(f, m4) /\ h = Minus4(f, m1)
    BY Closed4
  <2>6. Minus4(g, m1) = Plus4(m2, m3) /\ Minus4(h, m4) = Plus4(m2, m3)
    <3>1. Inner(m1, m2, m3, m4)
      BY Sums4
    <3> QED BY <2>4, <2>5, <3>1 DEF Inner
  <2>7. /\ Residue4(s) ++ Residue4(t) = Residue4(d) /\ Residue4(u) ++ Residue4(w) = Residue4(e)
        /\ Residue4(d) ** Residue4(e) = Residue4(f)
    BY <1>7, <2>1, <2>2
  <2>8. Residue4(t) ** Residue4(w) = Residue4(m4) /\ Residue4(s) ** Residue4(u) = Residue4(m1)
    BY <1>7, <2>3
  <2>9. /\ Residue4(f) -- Residue4(m4) = Residue4(g) /\ Residue4(f) -- Residue4(m1) = Residue4(h)
        /\ Residue4(g) -- Residue4(m1) = Residue4(Minus4(g, m1)) /\ Residue4(h) -- Residue4(m4) = Residue4(Minus4(h, m4))
    BY <1>7, <2>5
  <2> QED BY <2>3, <2>6, <2>7, <2>8, <2>9
<1>9. PICK p11 \in Int4, p22 \in Int4, p33 \in Int4 :
        p11 = Times4(a1, b1) /\ p22 = Times4(a2, b2) /\ p33 = Times4(a3, b3)
  BY Closed4
<1>10. PICK p12 \in Int4, p21 \in Int4, p13 \in Int4, p31 \in Int4 :
        p12 = Times4(a1, b2) /\ p21 = Times4(a2, b1) /\ p13 = Times4(a1, b3) /\ p31 = Times4(a3, b1)
  BY Closed4
<1>11. PICK p23 \in Int4, p32 \in Int4 : p23 = Times4(a2, b3) /\ p32 = Times4(a3, b2)
  BY Closed4
<1>12. PICK e12 \in Int4, e01 \in Int4, e02 \in Int4 :
         e12 = Plus4(p23, p32) /\ e01 = Plus4(p21, p12) /\ e02 = Plus4(p31, p13)
  BY Closed4
<1>13. x1 ** y1 = Residue4(p11) /\ x2 ** y2 = Residue4(p22) /\ x3 ** y3 = Residue4(p33)
  BY <1>3, <1>4, <1>7, <1>9
<1>14. (((y2 ++ y3) ** (x2 ++ x3)) -- (x2 ** y2)) -- (x3 ** y3) = Residue4(e12)
  <2>1. (((y2 ++ y3) ** (x2 ++ x3)) -- (y2 ** x2)) -- (y3 ** x3)
           = Residue4(Plus4(Times4(b3, a2), Times4(b2, a3)))
    BY <1>3, <1>4, <1>8, SMTT(30)
  <2>2. y2 ** x2 = x2 ** y2 /\ y3 ** x3 = x3 ** y3
    <3>1. Times4(b2, a2) = Times4(a2, b2) /\ Times4(b3, a3) = Times4(a3, b3)
      BY Commutes4
    <3>2. /\ Residue4(b2) ** Residue4(a2) = Residue4(Times4(b2, a2))
          /\ Residue4(b3) ** Residue4(a3) = Residue4(Times4(b3, a3))
      BY <1>7
    <3> QED BY <1>3, <1>4, <1>9, <1>13, <3>1, <3>2
  <2>3. Times4(b3, a2) = p23 /\ Times4(b2, a3) = p32
    BY <1>11, Commutes4
  <2> QED BY <1>12, <2>1, <2>2, <2>3
<1>15. (((x1 ++ x2) ** (y1 ++ y2)) -- (x2 ** y2)) -- (x1 ** y1) = Residue4(e01)
  BY <1>3, <1>4, <1>8, <1>10, <1>12, SMTT(30)
<1>16. (((x1 ++ x3) ** (y1 ++ y3)) -- (x3 ** y3)) -- (x1 ** y1) = Residue4(e02)
  BY <1>3, <1>4, <1>8, <1>10, <1>12, SMTT(30)
<1>17. PICK r12 \in Int4, r33 \in Int4 : r12 = Root4(e12) /\ r33 = Root4(p33)
  BY Closed4
<1>18. /\ fp4_mul_adj_root(Residue4(e12)) = Residue4(r12) /\ fp4_mul_adj_root(Residue4(p33)) = Residue4(r33)
       /\ Residue4(p11) ++ Residue4(r12) = Residue4(Plus4(p11, r12))
       /\ Residue4(e01) ++ Residue4(r33) = Residue4(Plus4(e01, r33))
       /\ Residue4(e02) ++ Residue4(p22) = Residue4(Plus4(e02, p22))
  BY <1>7, <1>17
<1>19. fp12_mul(Residue12(a), Residue12(b))
         = <<Residue4(Plus4(p11, r12)), Residue4(Plus4(e01, r33)), Residue4(Plus4(e02, p22))>>
  BY <1>6, <1>13, <1>14, <1>15, <1>16, <1>18
<1>20. Times12(a, b) = <<Plus4(p11, r12), Plus4(e01, r33), Plus4(e02, p22)>>
  BY <1>1, <1>2, <1>9, <1>10, <1>11, <1>12, <1>17 DEF Times12
<1> QED BY <1>19, <1>20 DEF Residue12

(* Six terms, from the last to the first, and in the order in which the    *)
(* coefficients of Fp4 and Fp2 collect them.                               *)
Total(t) == Plus2(t[5], Plus2(t[4], Plus2(t[3], Plus2(t[2], Plus2(t[1], t[0])))))

(* The six terms of a coefficient add up in any of the three orders.       *)
LEMMA SixTerms ==
  ASSUME NEW t \in [0..5 -> Int2]
  PROVE  /\ Total(t) \in Int2
         /\ Total(t) = Plus2(Plus2(t[0], t[3]), Plus2(Plus2(t[1], t[4]), Plus2(t[2], t[5])))
         /\ Total(t) = Plus2(Plus2(Plus2(t[1], t[4]), Plus2(t[0], t[3])), Plus2(t[2], t[5]))
         /\ Total(t) = Plus2(Plus2(Plus2(t[2], t[5]), Plus2(t[0], t[3])), Plus2(t[1], t[4]))
<1>1. \A i \in 0..5 : t[i] \in Int2
  OBVIOUS
<1>2. 0 \in 0..5 /\ 1 \in 0..5 /\ 2 \in 0..5 /\ 3 \in 0..5 /\ 4 \in 0..5 /\ 5 \in 0..5
  OBVIOUS
<1>3. PICK a1 \in Int, a2 \in Int : t[0] = <<a1, a2>>
  BY <1>1, <1>2, Pair2
<1>4. PICK b1 \in Int, b2 \in Int : t[1] = <<b1, b2>>
  BY <1>1, <1>2, Pair2
<1>5. PICK c1 \in Int, c2 \in Int : t[2] = <<c1, c2>>
  BY <1>1, <1>2, Pair2
<1>6. PICK d1 \in Int, d2 \in Int : t[3] = <<d1, d2>>
  BY <1>1, <1>2, Pair2
<1>7. PICK e1 \in Int, e2 \in Int : t[4] = <<e1, e2>>
  BY <1>1, <1>2, Pair2
<1>8. PICK f1 \in Int, f2 \in Int : t[5] = <<f1, f2>>
  BY <1>1, <1>2, Pair2
<1>9. Total(t) = <<a1 + b1 + c1 + d1 + e1 + f1, a2 + b2 + c2 + d2 + e2 + f2>>
  BY <1>3, <1>4, <1>5, <1>6, <1>7, <1>8 DEF Total, Plus2
<1>10. Plus2(t[0], t[3]) = <<a1 + d1, a2 + d2>>
  BY <1>3, <1>6 DEF Plus2
<1>11. Plus2(t[1], t[4]) = <<b1 + e1, b2 + e2>>
  BY <1>4, <1>7 DEF Plus2
<1>12. Plus2(t[2], t[5]) = <<c1 + f1, c2 + f2>>
  BY <1>5, <1>8 DEF Plus2
<1>13. Total(t) \in Int2
  BY <1>9 DEF Int2
<1> QED BY <1>9, <1>10, <1>11, <1>12, <1>13 DEF Plus2

(* One coefficient of the schoolbook product, as Product12 has it.         *)
Coefficient12(x, y, e) ==
  LET Term(i) == IF i <= e THEN Product2(x[i], y[e-i])
                 ELSE Product2(<<1, 1>>, Product2(x[i], y[e+6-i]))
      s[i \in 0..5] == Term(i) \oplus IF i = 0 THEN fp2_zero ELSE s[i-1]
  IN s[5]

(* A coefficient of residues is the residue of the sum of its terms.       *)
LEMMA SumOfTerms ==
  ASSUME NEW x, NEW y, NEW e \in 0..5, NEW t \in [0..5 -> Int2],
         \A i \in 0..5 : (IF i <= e THEN Product2(x[i], y[e-i])
                          ELSE Product2(<<1, 1>>, Product2(x[i], y[e+6-i]))) = Residue2(t[i])
  PROVE  Coefficient12(x, y, e) = Residue2(Total(t))
<1> DEFINE Term(i) == IF i <= e THEN Product2(x[i], y[e-i])
                      ELSE Product2(<<1, 1>>, Product2(x[i], y[e+6-i]))
           X == Fp \X Fp
           step == [p \in Nat \X X |-> IF p[1] \in 0..5 THEN Residue2(t[p[1]]) \oplus p[2] ELSE p[2]]
           start == Residue2(t[0]) \oplus fp2_zero
           Is(f) == f = [i \in 0..5 |-> Term(i) \oplus IF i = 0 THEN fp2_zero ELSE f[i-1]]
           s == CHOOSE f : Is(f)
<1>1. \A i \in 0..5 : t[i] \in Int2 /\ Term(i) = Residue2(t[i])
  OBVIOUS
<1> HIDE DEF Term
<1>2. ASSUME NEW u \in Int2, NEW v \in Fp \X Fp PROVE Residue2(u) \oplus v \in Fp \X Fp
  <2>1. PICK u1 \in Int, u2 \in Int : u = <<u1, u2>>
    BY Pair2
  <2>2. PICK v1 \in Fp, v2 \in Fp : v = <<v1, v2>>
    OBVIOUS
  <2>3. v1 \in Int /\ v2 \in Int /\ Mod(u1) \in Int /\ Mod(u2) \in Int
    BY Reduced, ModFacts
  <2>4. PICK w1 \in Int, w2 \in Int : w1 = Mod(u1) + v1 /\ w2 = Mod(u2) + v2
    BY <2>3
  <2>5. Mod(w1) \in Fp /\ Mod(w2) \in Fp
    BY ModFacts
  <2>6. Residue2(u) \oplus v = <<Mod(w1), Mod(w2)>>
    BY <2>1, <2>2, <2>4 DEF Residue2, \oplus, fp2_add
  <2> QED BY <2>5, <2>6
<1>3. fp2_zero \in X /\ start \in X
  <2>1. 0 \in Fp
    BY PrimeAssumption DEF Fp
  <2>2. fp2_zero \in X
    BY <2>1 DEF fp2_zero
  <2> QED BY <1>1, <1>2, <2>2
<1>4. step \in Steps(X)
  <2>1. \A p \in Nat \X X : p[2] \in X
    OBVIOUS
  <2>2. ASSUME NEW p \in Nat \X X PROVE step[p] \in X
    BY <1>1, <1>2, <2>1
  <2> QED BY <2>2 DEF Steps
<1>5. ASSUME NEW i \in 1..5, NEW v \in X PROVE step[<<i, v>>] = Term(i) \oplus v
  BY <1>1
<1> HIDE DEF step, start
<1>6. PICK f : Iterates(f, 5, X, start, step)
  BY <1>3, <1>4, IteratesExist, 5 \in Nat
<1>7. Is(f)
  <2>1. f \in [0..5 -> X] /\ f[0] = start
    BY <1>6 DEF Iterates
  <2>2. ASSUME NEW i \in 1..5 PROVE f[i] = Term(i) \oplus f[i-1]
    <3>1. f[i-1] \in X /\ f[i] = step[<<i, f[i-1]>>]
      BY <1>6, <2>1 DEF Iterates
    <3> QED BY <1>5, <3>1
  <2>3. f[0] = Term(0) \oplus fp2_zero
    BY <1>1, <2>1 DEF start
  <2>4. \A i \in 0..5 : f[i] = Term(i) \oplus IF i = 0 THEN fp2_zero ELSE f[i-1]
    BY <2>2, <2>3
  <2> QED BY <2>1, <2>4
<1>8. Is(s)
  BY <1>7
<1> HIDE DEF s
<1>9. \A i \in 0..5 : s[i] = Residue2(t[i]) \oplus IF i = 0 THEN fp2_zero ELSE s[i-1]
  BY <1>1, <1>8
<1>10. s[0] = Residue2(t[0])
  <2>1. PICK u1 \in Int, u2 \in Int : t[0] = <<u1, u2>>
    BY <1>1, Pair2, 0 \in 0..5
  <2>2. PICK w1 \in Fp, w2 \in Fp : w1 = Mod(u1) /\ w2 = Mod(u2)
    BY ModFacts
  <2>3. w1 \in Int /\ w2 \in Int /\ Mod(w1) = w1 /\ Mod(w2) = w2
    BY Reduced
  <2>4. w1 + 0 = w1 /\ w2 + 0 = w2
    BY <2>3
  <2>5. Residue2(t[0]) = <<w1, w2>>
    BY <2>1, <2>2 DEF Residue2
  <2>6. Residue2(t[0]) \oplus fp2_zero = <<Mod(w1 + 0), Mod(w2 + 0)>>
    BY <2>5 DEF \oplus, fp2_add, fp2_zero
  <2>7. s[0] = Residue2(t[0]) \oplus fp2_zero
    BY <1>9
  <2> QED BY <2>3, <2>4, <2>5, <2>6, <2>7
<1>11. ASSUME NEW i \in 1..5, NEW v \in Int2, s[i-1] = Residue2(v)
       PROVE  s[i] = Residue2(Plus2(t[i], v)) /\ Plus2(t[i], v) \in Int2
  <2>1. t[i] \in Int2
    BY <1>1
  <2>2. s[i] = Residue2(t[i]) \oplus Residue2(v)
    BY <1>9, <1>11
  <2> QED BY <2>1, <2>2, Residues2, Closed2
<1>12. t[0] \in Int2
  BY <1>1
<1>13. PICK v1 \in Int2 : v1 = Plus2(t[1], t[0]) /\ s[1] = Residue2(v1)
  BY <1>10, <1>11, <1>12, 1 \in 1..5, 1 - 1 = 0
<1>14. PICK v2 \in Int2 : v2 = Plus2(t[2], v1) /\ s[2] = Residue2(v2)
  BY <1>11, <1>13, 2 \in 1..5, 2 - 1 = 1
<1>15. PICK v3 \in Int2 : v3 = Plus2(t[3], v2) /\ s[3] = Residue2(v3)
  BY <1>11, <1>14, 3 \in 1..5, 3 - 1 = 2
<1>16. PICK v4 \in Int2 : v4 = Plus2(t[4], v3) /\ s[4] = Residue2(v4)
  BY <1>11, <1>15, 4 \in 1..5, 4 - 1 = 3
<1>17. PICK v5 \in Int2 : v5 = Plus2(t[5], v4) /\ s[5] = Residue2(v5)
  BY <1>11, <1>16, 5 \in 1..5, 5 - 1 = 4
<1>18. s[5] = Residue2(Total(t))
  BY <1>13, <1>14, <1>15, <1>16, <1>17 DEF Total
<1> QED BY <1>18 DEF s, Term, Coefficient12

(* An element of Fp12 with its coefficients.                               *)
LEMMA Coefficients ==
  ASSUME NEW a \in Int12
  PROVE  LET x == Polynomial(a) IN
         /\ x \in [0..5 -> Int2]
         /\ a = << <<x[0], x[3]>>, <<x[1], x[4]>>, <<x[2], x[5]>> >>
         /\ Polynomial(Residue12(a)) = [e \in 0..5 |-> Residue2(x[e])]
<1>1. PICK a1 \in Int4, a2 \in Int4, a3 \in Int4 : a = <<a1, a2, a3>>
  BY DEF Int12
<1>2. PICK x0 \in Int2, x3 \in Int2 : a1 = <<x0, x3>>
  BY Pair4
<1>3. PICK x1 \in Int2, x4 \in Int2 : a2 = <<x1, x4>>
  BY Pair4
<1>4. PICK x2 \in Int2, x5 \in Int2 : a3 = <<x2, x5>>
  BY Pair4
<1>5. PICK x : x = Polynomial(a)
  OBVIOUS
<1>6. /\ 0 % 3 = 0 /\ 1 % 3 = 1 /\ 2 % 3 = 2 /\ 3 % 3 = 0 /\ 4 % 3 = 1 /\ 5 % 3 = 2
      /\ 0 \div 3 = 0 /\ 1 \div 3 = 0 /\ 2 \div 3 = 0 /\ 3 \div 3 = 1 /\ 4 \div 3 = 1 /\ 5 \div 3 = 1
  OBVIOUS
<1>7. ASSUME NEW b PROVE /\ Polynomial(b)[0] = b[1][1] /\ Polynomial(b)[1] = b[2][1] /\ Polynomial(b)[2] = b[3][1]
                         /\ Polynomial(b)[3] = b[1][2] /\ Polynomial(b)[4] = b[2][2] /\ Polynomial(b)[5] = b[3][2]
  BY <1>6 DEF Polynomial
<1>8. x[0] = x0 /\ x[1] = x1 /\ x[2] = x2 /\ x[3] = x3 /\ x[4] = x4 /\ x[5] = x5
  BY <1>1, <1>2, <1>3, <1>4, <1>5, <1>7
<1>9. ASSUME NEW b PROVE Polynomial(b) = [e \in 0..5 |-> Polynomial(b)[e]]
  BY DEF Polynomial
<1>10. ASSUME NEW e \in 0..5 PROVE e = 0 \/ e = 1 \/ e = 2 \/ e = 3 \/ e = 4 \/ e = 5
  OBVIOUS
<1>11. \A e \in 0..5 : x[e] \in Int2
  BY <1>8, <1>10
<1>12. x \in [0..5 -> Int2]
  <2>1. x = [e \in 0..5 |-> x[e]]
    BY <1>5, <1>9
  <2> QED BY <1>11, <2>1
<1>13. Residue12(a) = << <<Residue2(x0), Residue2(x3)>>, <<Residue2(x1), Residue2(x4)>>, <<Residue2(x2), Residue2(x5)>> >>
  BY <1>1, <1>2, <1>3, <1>4 DEF Residue12, Residue4
<1>14. \A e \in 0..5 : Polynomial(Residue12(a))[e] = Residue2(x[e])
  BY <1>7, <1>8, <1>10, <1>13
<1>15. Polynomial(Residue12(a)) = [e \in 0..5 |-> Residue2(x[e])]
  BY <1>9, <1>14
<1> QED BY <1>1, <1>2, <1>3, <1>4, <1>5, <1>8, <1>12, <1>15

(* The terms of one coefficient of a product: w^6 = 1 + i.                 *)
Terms(x, y, e) ==
  [i \in 0..5 |-> IF i <= e THEN Times2(x[i], y[e-i]) ELSE Root2(Times2(x[i], y[e+6-i]))]

(* The terms are pairs of integers.                                        *)
LEMMA TermsAre ==
  ASSUME NEW x \in [0..5 -> Int2], NEW y \in [0..5 -> Int2], NEW e \in 0..5
  PROVE  Terms(x, y, e) \in [0..5 -> Int2]
<1>1. ASSUME NEW i \in 0..5
      PROVE  (IF i <= e THEN Times2(x[i], y[e-i]) ELSE Root2(Times2(x[i], y[e+6-i]))) \in Int2
  <2>1. x[i] \in Int2
    OBVIOUS
  <2>2. CASE i <= e
    <3>1. e - i \in 0..5
      BY <2>2
    <3>2. y[e-i] \in Int2
      BY <3>1
    <3> QED BY <2>1, <2>2, <3>2, Closed2
  <2>3. CASE ~ (i <= e)
    <3>1. e + 6 - i \in 0..5
      BY <2>3
    <3>2. y[e+6-i] \in Int2
      BY <3>1
    <3>3. PICK m \in Int2 : m = Times2(x[i], y[e+6-i])
      BY <2>1, <3>2, Closed2
    <3> QED BY <2>3, <3>3, Closed2
  <2> QED BY <2>2, <2>3
<1> QED BY <1>1 DEF Terms

(* What the products of Fp4 collect is the sum of a coefficient's terms.   *)
LEMMA ProductCoefficients ==
  ASSUME NEW a \in Int12, NEW b \in Int12
  PROVE  /\ Times12(a, b) \in Int12
         /\ \A e \in 0..5 : Polynomial(Times12(a, b))[e] = Total(Terms(Polynomial(a), Polynomial(b), e))
<1>1. PICK x \in [0..5 -> Int2] : x = Polynomial(a) /\ a = << <<x[0], x[3]>>, <<x[1], x[4]>>, <<x[2], x[5]>> >>
  BY Coefficients
<1>2. PICK y \in [0..5 -> Int2] : y = Polynomial(b) /\ b = << <<y[0], y[3]>>, <<y[1], y[4]>>, <<y[2], y[5]>> >>
  BY Coefficients
<1>3. PICK m : m = [i \in 0..5 |-> [j \in 0..5 |-> Times2(x[i], y[j])]]
  OBVIOUS
<1>4. ASSUME NEW i \in 0..5, NEW j \in 0..5 PROVE m[i][j] = Times2(x[i], y[j]) /\ m[i][j] \in Int2
  <2>1. x[i] \in Int2 /\ y[j] \in Int2
    OBVIOUS
  <2> QED BY <1>3, <2>1, Closed2
<1>5. 0 \in 0..5 /\ 1 \in 0..5 /\ 2 \in 0..5 /\ 3 \in 0..5 /\ 4 \in 0..5 /\ 5 \in 0..5
  OBVIOUS
<1>6. PICK a1 \in Int4, a2 \in Int4, a3 \in Int4 : a1 = <<x[0], x[3]>> /\ a2 = <<x[1], x[4]>> /\ a3 = <<x[2], x[5]>>
  BY <1>1 DEF Int4
<1>7. PICK b1 \in Int4, b2 \in Int4, b3 \in Int4 : b1 = <<y[0], y[3]>> /\ b2 = <<y[1], y[4]>> /\ b3 = <<y[2], y[5]>>
  BY <1>2 DEF Int4
<1>8. a = <<a1, a2, a3>> /\ b = <<b1, b2, b3>>
  BY <1>1, <1>2, <1>6, <1>7
<1>9. Times4(a1, b1) = <<Plus2(m[0][0], Root2(m[3][3])), Plus2(m[0][3], m[3][0])>>
  BY <1>4, <1>5, <1>6, <1>7 DEF Times4
<1>10. Times4(a1, b2) = <<Plus2(m[0][1], Root2(m[3][4])), Plus2(m[0][4], m[3][1])>>
  BY <1>4, <1>5, <1>6, <1>7 DEF Times4
<1>11. Times4(a1, b3) = <<Plus2(m[0][2], Root2(m[3][5])), Plus2(m[0][5], m[3][2])>>
  BY <1>4, <1>5, <1>6, <1>7 DEF Times4
<1>12. Times4(a2, b1) = <<Plus2(m[1][0], Root2(m[4][3])), Plus2(m[1][3], m[4][0])>>
  BY <1>4, <1>5, <1>6, <1>7 DEF Times4
<1>13. Times4(a2, b2) = <<Plus2(m[1][1], Root2(m[4][4])), Plus2(m[1][4], m[4][1])>>
  BY <1>4, <1>5, <1>6, <1>7 DEF Times4
<1>14. Times4(a2, b3) = <<Plus2(m[1][2], Root2(m[4][5])), Plus2(m[1][5], m[4][2])>>
  BY <1>4, <1>5, <1>6, <1>7 DEF Times4
<1>15. Times4(a3, b1) = <<Plus2(m[2][0], Root2(m[5][3])), Plus2(m[2][3], m[5][0])>>
  BY <1>4, <1>5, <1>6, <1>7 DEF Times4
<1>16. Times4(a3, b2) = <<Plus2(m[2][1], Root2(m[5][4])), Plus2(m[2][4], m[5][1])>>
  BY <1>4, <1>5, <1>6, <1>7 DEF Times4
<1>17. Times4(a3, b3) = <<Plus2(m[2][2], Root2(m[5][5])), Plus2(m[2][5], m[5][2])>>
  BY <1>4, <1>5, <1>6, <1>7 DEF Times4
<1>20. PICK c1 \in Int4, c2 \in Int4, c3 \in Int4 : Times12(a, b) = <<c1, c2, c3>>
  <2>1. PICK p11 \in Int4, p22 \in Int4, p33 \in Int4 :
          p11 = Times4(a1, b1) /\ p22 = Times4(a2, b2) /\ p33 = Times4(a3, b3)
    BY Closed4
  <2>2. PICK p12 \in Int4, p21 \in Int4, p13 \in Int4, p31 \in Int4 :
          p12 = Times4(a1, b2) /\ p21 = Times4(a2, b1) /\ p13 = Times4(a1, b3) /\ p31 = Times4(a3, b1)
    BY Closed4
  <2>3. PICK p23 \in Int4, p32 \in Int4 : p23 = Times4(a2, b3) /\ p32 = Times4(a3, b2)
    BY Closed4
  <2>4. PICK e12 \in Int4, e01 \in Int4, e02 \in Int4 :
          e12 = Plus4(p23, p32) /\ e01 = Plus4(p21, p12) /\ e02 = Plus4(p31, p13)
    BY Closed4
  <2>5. PICK r12 \in Int4, r33 \in Int4 : r12 = Root4(e12) /\ r33 = Root4(p33)
    BY Closed4
  <2>6. Plus4(p11, r12) \in Int4 /\ Plus4(e01, r33) \in Int4 /\ Plus4(e02, p22) \in Int4
    BY Closed4
  <2>7. Times12(a, b) = <<Plus4(p11, r12), Plus4(e01, r33), Plus4(e02, p22)>>
    BY <1>8, <2>1, <2>2, <2>3, <2>4, <2>5 DEF Times12
  <2> QED BY <2>6, <2>7
<1>21. Times12(a, b) \in Int12
  BY <1>20 DEF Int12
<1>22. /\ 0 % 3 = 0 /\ 1 % 3 = 1 /\ 2 % 3 = 2 /\ 3 % 3 = 0 /\ 4 % 3 = 1 /\ 5 % 3 = 2
       /\ 0 \div 3 = 0 /\ 1 \div 3 = 0 /\ 2 \div 3 = 0 /\ 3 \div 3 = 1 /\ 4 \div 3 = 1 /\ 5 \div 3 = 1
  OBVIOUS
<1>23. ASSUME NEW d PROVE /\ Polynomial(d)[0] = d[1][1] /\ Polynomial(d)[1] = d[2][1] /\ Polynomial(d)[2] = d[3][1]
                          /\ Polynomial(d)[3] = d[1][2] /\ Polynomial(d)[4] = d[2][2] /\ Polynomial(d)[5] = d[3][2]
  BY <1>22 DEF Polynomial
<1>24. PICK p : p = Polynomial(Times12(a, b))
  OBVIOUS
<1>25. p[0] = Plus2(Plus2(m[0][0], Root2(m[3][3])), Root2(Plus2(Plus2(m[1][5], m[4][2]), Plus2(m[2][4], m[5][1]))))
  BY <1>8, <1>9, <1>14, <1>16, <1>23, <1>24 DEF Times12, Plus4, Root4
<1>26. p[1] = Plus2(Plus2(Plus2(m[1][0], Root2(m[4][3])), Plus2(m[0][1], Root2(m[3][4]))), Root2(Plus2(m[2][5], m[5][2])))
  BY <1>8, <1>12, <1>10, <1>17, <1>23, <1>24 DEF Times12, Plus4, Root4
<1>27. p[2] = Plus2(Plus2(Plus2(m[2][0], Root2(m[5][3])), Plus2(m[0][2], Root2(m[3][5]))), Plus2(m[1][1], Root2(m[4][4])))
  BY <1>8, <1>15, <1>11, <1>13, <1>23, <1>24 DEF Times12, Plus4, Root4
<1>28. p[3] = Plus2(Plus2(m[0][3], m[3][0]), Plus2(Plus2(m[1][2], Root2(m[4][5])), Plus2(m[2][1], Root2(m[5][4]))))
  BY <1>8, <1>9, <1>14, <1>16, <1>23, <1>24 DEF Times12, Plus4, Root4
<1>29. p[4] = Plus2(Plus2(Plus2(m[1][3], m[4][0]), Plus2(m[0][4], m[3][1])), Plus2(m[2][2], Root2(m[5][5])))
  BY <1>8, <1>12, <1>10, <1>17, <1>23, <1>24 DEF Times12, Plus4, Root4
<1>30. p[5] = Plus2(Plus2(Plus2(m[2][3], m[5][0]), Plus2(m[0][5], m[3][2])), Plus2(m[1][4], m[4][1]))
  BY <1>8, <1>15, <1>11, <1>13, <1>23, <1>24 DEF Times12, Plus4, Root4
<1>31. p[0] = Total(Terms(x, y, 0))
  <2>1. PICK t \in [0..5 -> Int2] : t = Terms(x, y, 0)
    BY <1>5, TermsAre
  <2>2. /\ t[0] = m[0][0]
        /\ t[1] = Root2(m[1][5])
        /\ t[2] = Root2(m[2][4])
        /\ t[3] = Root2(m[3][3])
        /\ t[4] = Root2(m[4][2])
        /\ t[5] = Root2(m[5][1])
    <3>1. ASSUME NEW i \in 0..5
          PROVE  t[i] = IF i <= 0 THEN Times2(x[i], y[0-i]) ELSE Root2(Times2(x[i], y[0+6-i]))
      BY <2>1 DEF Terms
    <3>2. t[0] = Times2(x[0], y[0])
      BY <3>1, <1>5, 0 <= 0, 0 - 0 = 0
    <3>3. t[1] = Root2(Times2(x[1], y[5]))
      BY <3>1, <1>5, ~ (1 <= 0), 0 + 6 - 1 = 5
    <3>4. t[2] = Root2(Times2(x[2], y[4]))
      BY <3>1, <1>5, ~ (2 <= 0), 0 + 6 - 2 = 4
    <3>5. t[3] = Root2(Times2(x[3], y[3]))
      BY <3>1, <1>5, ~ (3 <= 0), 0 + 6 - 3 = 3
    <3>6. t[4] = Root2(Times2(x[4], y[2]))
      BY <3>1, <1>5, ~ (4 <= 0), 0 + 6 - 4 = 2
    <3>7. t[5] = Root2(Times2(x[5], y[1]))
      BY <3>1, <1>5, ~ (5 <= 0), 0 + 6 - 5 = 1
    <3> QED BY <1>4, <1>5, <3>2, <3>3, <3>4, <3>5, <3>6, <3>7
  <2>3. Root2(Plus2(Plus2(m[1][5], m[4][2]), Plus2(m[2][4], m[5][1])))
          = Plus2(Plus2(t[1], t[4]), Plus2(t[2], t[5]))
    <3>1. PICK u1 \in Int2, u4 \in Int2 : u1 = m[1][5] /\ u4 = m[4][2]
      BY <1>4, <1>5
    <3>2. PICK u2 \in Int2, u5 \in Int2 : u2 = m[2][4] /\ u5 = m[5][1]
      BY <1>4, <1>5
    <3>3. PICK d \in Int2, f \in Int2 : d = Plus2(u1, u4) /\ f = Plus2(u2, u5)
      BY Closed2
    <3>4. /\ Root2(Plus2(d, f)) = Plus2(Root2(d), Root2(f))
          /\ Root2(Plus2(u1, u4)) = Plus2(Root2(u1), Root2(u4))
          /\ Root2(Plus2(u2, u5)) = Plus2(Root2(u2), Root2(u5))
      BY RootOfSum
    <3> QED BY <2>2, <3>1, <3>2, <3>3, <3>4
  <2>4. p[0] = Plus2(Plus2(t[0], t[3]), Plus2(Plus2(t[1], t[4]), Plus2(t[2], t[5])))
    BY <1>25, <2>2, <2>3
  <2>5. Total(t) = Plus2(Plus2(t[0], t[3]), Plus2(Plus2(t[1], t[4]), Plus2(t[2], t[5])))
    BY SixTerms
  <2> QED BY <2>1, <2>4, <2>5
<1>32. p[1] = Total(Terms(x, y, 1))
  <2>1. PICK t \in [0..5 -> Int2] : t = Terms(x, y, 1)
    BY <1>5, TermsAre
  <2>2. /\ t[0] = m[0][1]
        /\ t[1] = m[1][0]
        /\ t[2] = Root2(m[2][5])
        /\ t[3] = Root2(m[3][4])
        /\ t[4] = Root2(m[4][3])
        /\ t[5] = Root2(m[5][2])
    <3>1. ASSUME NEW i \in 0..5
          PROVE  t[i] = IF i <= 1 THEN Times2(x[i], y[1-i]) ELSE Root2(Times2(x[i], y[1+6-i]))
      BY <2>1 DEF Terms
    <3>2. t[0] = Times2(x[0], y[1])
      BY <3>1, <1>5, 0 <= 1, 1 - 0 = 1
    <3>3. t[1] = Times2(x[1], y[0])
      BY <3>1, <1>5, 1 <= 1, 1 - 1 = 0
    <3>4. t[2] = Root2(Times2(x[2], y[5]))
      BY <3>1, <1>5, ~ (2 <= 1), 1 + 6 - 2 = 5
    <3>5. t[3] = Root2(Times2(x[3], y[4]))
      BY <3>1, <1>5, ~ (3 <= 1), 1 + 6 - 3 = 4
    <3>6. t[4] = Root2(Times2(x[4], y[3]))
      BY <3>1, <1>5, ~ (4 <= 1), 1 + 6 - 4 = 3
    <3>7. t[5] = Root2(Times2(x[5], y[2]))
      BY <3>1, <1>5, ~ (5 <= 1), 1 + 6 - 5 = 2
    <3> QED BY <1>4, <1>5, <3>2, <3>3, <3>4, <3>5, <3>6, <3>7
  <2>3. Root2(Plus2(m[2][5], m[5][2])) = Plus2(t[2], t[5])
    <3>1. m[2][5] \in Int2 /\ m[5][2] \in Int2
      BY <1>4, <1>5
    <3> QED BY <2>2, <3>1, RootOfSum
  <2>4. p[1] = Plus2(Plus2(Plus2(t[1], t[4]), Plus2(t[0], t[3])), Plus2(t[2], t[5]))
    BY <1>26, <2>2, <2>3
  <2>5. Total(t) = Plus2(Plus2(Plus2(t[1], t[4]), Plus2(t[0], t[3])), Plus2(t[2], t[5]))
    BY SixTerms
  <2> QED BY <2>1, <2>4, <2>5
<1>33. p[2] = Total(Terms(x, y, 2))
  <2>1. PICK t \in [0..5 -> Int2] : t = Terms(x, y, 2)
    BY <1>5, TermsAre
  <2>2. /\ t[0] = m[0][2]
        /\ t[1] = m[1][1]
        /\ t[2] = m[2][0]
        /\ t[3] = Root2(m[3][5])
        /\ t[4] = Root2(m[4][4])
        /\ t[5] = Root2(m[5][3])
    <3>1. ASSUME NEW i \in 0..5
          PROVE  t[i] = IF i <= 2 THEN Times2(x[i], y[2-i]) ELSE Root2(Times2(x[i], y[2+6-i]))
      BY <2>1 DEF Terms
    <3>2. t[0] = Times2(x[0], y[2])
      BY <3>1, <1>5, 0 <= 2, 2 - 0 = 2
    <3>3. t[1] = Times2(x[1], y[1])
      BY <3>1, <1>5, 1 <= 2, 2 - 1 = 1
    <3>4. t[2] = Times2(x[2], y[0])
      BY <3>1, <1>5, 2 <= 2, 2 - 2 = 0
    <3>5. t[3] = Root2(Times2(x[3], y[5]))
      BY <3>1, <1>5, ~ (3 <= 2), 2 + 6 - 3 = 5
    <3>6. t[4] = Root2(Times2(x[4], y[4]))
      BY <3>1, <1>5, ~ (4 <= 2), 2 + 6 - 4 = 4
    <3>7. t[5] = Root2(Times2(x[5], y[3]))
      BY <3>1, <1>5, ~ (5 <= 2), 2 + 6 - 5 = 3
    <3> QED BY <1>4, <1>5, <3>2, <3>3, <3>4, <3>5, <3>6, <3>7
  <2>4. p[2] = Plus2(Plus2(Plus2(t[2], t[5]), Plus2(t[0], t[3])), Plus2(t[1], t[4]))
    BY <1>27, <2>2
  <2>5. Total(t) = Plus2(Plus2(Plus2(t[2], t[5]), Plus2(t[0], t[3])), Plus2(t[1], t[4]))
    BY SixTerms
  <2> QED BY <2>1, <2>4, <2>5
<1>34. p[3] = Total(Terms(x, y, 3))
  <2>1. PICK t \in [0..5 -> Int2] : t = Terms(x, y, 3)
    BY <1>5, TermsAre
  <2>2. /\ t[0] = m[0][3]
        /\ t[1] = m[1][2]
        /\ t[2] = m[2][1]
        /\ t[3] = m[3][0]
        /\ t[4] = Root2(m[4][5])
        /\ t[5] = Root2(m[5][4])
    <3>1. ASSUME NEW i \in 0..5
          PROVE  t[i] = IF i <= 3 THEN Times2(x[i], y[3-i]) ELSE Root2(Times2(x[i], y[3+6-i]))
      BY <2>1 DEF Terms
    <3>2. t[0] = Times2(x[0], y[3])
      BY <3>1, <1>5, 0 <= 3, 3 - 0 = 3
    <3>3. t[1] = Times2(x[1], y[2])
      BY <3>1, <1>5, 1 <= 3, 3 - 1 = 2
    <3>4. t[2] = Times2(x[2], y[1])
      BY <3>1, <1>5, 2 <= 3, 3 - 2 = 1
    <3>5. t[3] = Times2(x[3], y[0])
      BY <3>1, <1>5, 3 <= 3, 3 - 3 = 0
    <3>6. t[4] = Root2(Times2(x[4], y[5]))
      BY <3>1, <1>5, ~ (4 <= 3), 3 + 6 - 4 = 5
    <3>7. t[5] = Root2(Times2(x[5], y[4]))
      BY <3>1, <1>5, ~ (5 <= 3), 3 + 6 - 5 = 4
    <3> QED BY <1>4, <1>5, <3>2, <3>3, <3>4, <3>5, <3>6, <3>7
  <2>4. p[3] = Plus2(Plus2(t[0], t[3]), Plus2(Plus2(t[1], t[4]), Plus2(t[2], t[5])))
    BY <1>28, <2>2
  <2>5. Total(t) = Plus2(Plus2(t[0], t[3]), Plus2(Plus2(t[1], t[4]), Plus2(t[2], t[5])))
    BY SixTerms
  <2> QED BY <2>1, <2>4, <2>5
<1>35. p[4] = Total(Terms(x, y, 4))
  <2>1. PICK t \in [0..5 -> Int2] : t = Terms(x, y, 4)
    BY <1>5, TermsAre
  <2>2. /\ t[0] = m[0][4]
        /\ t[1] = m[1][3]
        /\ t[2] = m[2][2]
        /\ t[3] = m[3][1]
        /\ t[4] = m[4][0]
        /\ t[5] = Root2(m[5][5])
    <3>1. ASSUME NEW i \in 0..5
          PROVE  t[i] = IF i <= 4 THEN Times2(x[i], y[4-i]) ELSE Root2(Times2(x[i], y[4+6-i]))
      BY <2>1 DEF Terms
    <3>2. t[0] = Times2(x[0], y[4])
      BY <3>1, <1>5, 0 <= 4, 4 - 0 = 4
    <3>3. t[1] = Times2(x[1], y[3])
      BY <3>1, <1>5, 1 <= 4, 4 - 1 = 3
    <3>4. t[2] = Times2(x[2], y[2])
      BY <3>1, <1>5, 2 <= 4, 4 - 2 = 2
    <3>5. t[3] = Times2(x[3], y[1])
      BY <3>1, <1>5, 3 <= 4, 4 - 3 = 1
    <3>6. t[4] = Times2(x[4], y[0])
      BY <3>1, <1>5, 4 <= 4, 4 - 4 = 0
    <3>7. t[5] = Root2(Times2(x[5], y[5]))
      BY <3>1, <1>5, ~ (5 <= 4), 4 + 6 - 5 = 5
    <3> QED BY <1>4, <1>5, <3>2, <3>3, <3>4, <3>5, <3>6, <3>7
  <2>4. p[4] = Plus2(Plus2(Plus2(t[1], t[4]), Plus2(t[0], t[3])), Plus2(t[2], t[5]))
    BY <1>29, <2>2
  <2>5. Total(t) = Plus2(Plus2(Plus2(t[1], t[4]), Plus2(t[0], t[3])), Plus2(t[2], t[5]))
    BY SixTerms
  <2> QED BY <2>1, <2>4, <2>5
<1>36. p[5] = Total(Terms(x, y, 5))
  <2>1. PICK t \in [0..5 -> Int2] : t = Terms(x, y, 5)
    BY <1>5, TermsAre
  <2>2. /\ t[0] = m[0][5]
        /\ t[1] = m[1][4]
        /\ t[2] = m[2][3]
        /\ t[3] = m[3][2]
        /\ t[4] = m[4][1]
        /\ t[5] = m[5][0]
    <3>1. ASSUME NEW i \in 0..5
          PROVE  t[i] = IF i <= 5 THEN Times2(x[i], y[5-i]) ELSE Root2(Times2(x[i], y[5+6-i]))
      BY <2>1 DEF Terms
    <3>2. t[0] = Times2(x[0], y[5])
      BY <3>1, <1>5, 0 <= 5, 5 - 0 = 5
    <3>3. t[1] = Times2(x[1], y[4])
      BY <3>1, <1>5, 1 <= 5, 5 - 1 = 4
    <3>4. t[2] = Times2(x[2], y[3])
      BY <3>1, <1>5, 2 <= 5, 5 - 2 = 3
    <3>5. t[3] = Times2(x[3], y[2])
      BY <3>1, <1>5, 3 <= 5, 5 - 3 = 2
    <3>6. t[4] = Times2(x[4], y[1])
      BY <3>1, <1>5, 4 <= 5, 5 - 4 = 1
    <3>7. t[5] = Times2(x[5], y[0])
      BY <3>1, <1>5, 5 <= 5, 5 - 5 = 0
    <3> QED BY <1>4, <1>5, <3>2, <3>3, <3>4, <3>5, <3>6, <3>7
  <2>4. p[5] = Plus2(Plus2(Plus2(t[2], t[5]), Plus2(t[0], t[3])), Plus2(t[1], t[4]))
    BY <1>30, <2>2
  <2>5. Total(t) = Plus2(Plus2(Plus2(t[2], t[5]), Plus2(t[0], t[3])), Plus2(t[1], t[4]))
    BY SixTerms
  <2> QED BY <2>1, <2>4, <2>5
<1>37. ASSUME NEW e \in 0..5 PROVE p[e] = Total(Terms(x, y, e))
  <2>1. e = 0 \/ e = 1 \/ e = 2 \/ e = 3 \/ e = 4 \/ e = 5
    OBVIOUS
  <2> QED BY <1>31, <1>32, <1>33, <1>34, <1>35, <1>36, <2>1
<1> QED BY <1>1, <1>2, <1>21, <1>24, <1>37

(* Elements are integers, and their own residues.                          *)
LEMMA Elements4 ==
  ASSUME NEW d \in Fp4
  PROVE  d \in Int4 /\ Residue4(d) = d
<1>1. PICK u \in Fp, v \in Fp, s \in Fp, t \in Fp : d = << <<u, v>>, <<s, t>> >>
  BY DEF Fp4
<1>2. /\ u \in Int /\ v \in Int /\ s \in Int /\ t \in Int
      /\ Mod(u) = u /\ Mod(v) = v /\ Mod(s) = s /\ Mod(t) = t
  BY Reduced
<1> QED BY <1>1, <1>2 DEF Int4, Int2, Residue4, Residue2

(* As in Fp4.                                                                  *)
LEMMA Elements12 ==
  ASSUME NEW c \in Fp12
  PROVE  c \in Int12 /\ Residue12(c) = c
<1>1. PICK c1 \in Fp4, c2 \in Fp4, c3 \in Fp4 : c = <<c1, c2, c3>>
  BY DEF Fp12
<1>2. /\ c1 \in Int4 /\ Residue4(c1) = c1 /\ c2 \in Int4 /\ Residue4(c2) = c2
      /\ c3 \in Int4 /\ Residue4(c3) = c3
  BY Elements4
<1> QED BY <1>1, <1>2 DEF Int12, Residue12

(* The code's product of Fp12 is the schoolbook product of polynomials in  *)
(* w, reduced by w^6 = 1 + i.                                              *)
THEOREM TowerProductIsExact ==
  ASSUME StandardTower, NEW a \in Fp12, NEW b \in Fp12
  PROVE  Polynomial(fp12_mul(a, b)) = Product12(a, b)
<1>2. a \in Int12 /\ Residue12(a) = a /\ b \in Int12 /\ Residue12(b) = b
  BY Elements12
<1>3. fp12_mul(a, b) = Residue12(Times12(a, b))
  <2>1. fp12_mul(Residue12(a), Residue12(b)) = Residue12(Times12(a, b))
    BY <1>2, Residues12
  <2> QED BY <1>2, <2>1
<1>4. PICK x \in [0..5 -> Int2] : x = Polynomial(a) /\ Polynomial(a) = [e \in 0..5 |-> Residue2(x[e])]
  BY <1>2, Coefficients
<1>5. PICK y \in [0..5 -> Int2] : y = Polynomial(b) /\ Polynomial(b) = [e \in 0..5 |-> Residue2(y[e])]
  BY <1>2, Coefficients
<1>6. PICK p : /\ p = Polynomial(Times12(a, b)) /\ \A e \in 0..5 : p[e] = Total(Terms(x, y, e))
               /\ Polynomial(fp12_mul(a, b)) = [e \in 0..5 |-> Residue2(p[e])]
  <2>1. Times12(a, b) \in Int12
    BY <1>2, ProductCoefficients
  <2>2. Polynomial(Residue12(Times12(a, b))) = [e \in 0..5 |-> Residue2(Polynomial(Times12(a, b))[e])]
    BY <2>1, Coefficients
  <2>3. \A e \in 0..5 : Polynomial(Times12(a, b))[e] = Total(Terms(x, y, e))
    BY <1>2, <1>4, <1>5, ProductCoefficients
  <2> QED BY <1>3, <2>2, <2>3
<1>7. Product12(a, b) = [e \in 0..5 |-> Coefficient12(x, y, e)]
  <2>1. Product12(a, b) = [e \in 0..5 |-> Coefficient12(Polynomial(a), Polynomial(b), e)]
    BY Zenon DEF Product12, Coefficient12
  <2> QED BY <1>4, <1>5, <2>1, Zenon
<1>8. ASSUME NEW e \in 0..5
      PROVE  Coefficient12(x, y, e) = Residue2(p[e])
  <2>1. PICK t \in [0..5 -> Int2] : t = Terms(x, y, e)
    BY TermsAre
  <2>2. ASSUME NEW i \in 0..5
        PROVE  (IF i <= e THEN Product2(x[i], y[e-i])
                ELSE Product2(<<1, 1>>, Product2(x[i], y[e+6-i]))) = Residue2(t[i])
    <3>1. t[i] = IF i <= e THEN Times2(x[i], y[e-i]) ELSE Root2(Times2(x[i], y[e+6-i]))
      BY <2>1 DEF Terms
    <3>2. ASSUME NEW j \in 0..5 PROVE /\ x[j] \in Int2 /\ Residue2(x[j]) = x[j]
                                      /\ y[j] \in Int2 /\ Residue2(y[j]) = y[j]
      BY <1>4, <1>5
    <3>3. ASSUME NEW j \in 0..5 PROVE Product2(x[i], y[j]) = Residue2(Times2(x[i], y[j]))
      <4>1. Product2(Residue2(x[i]), Residue2(y[j])) = Residue2(Times2(x[i], y[j]))
        BY <3>2, Residues2
      <4> QED BY <3>2, <4>1
    <3>4. CASE i <= e
      <4>1. e - i \in 0..5
        BY <3>4
      <4> QED BY <3>1, <3>3, <3>4, <4>1
    <3>5. CASE ~ (i <= e)
      <4>1. e + 6 - i \in 0..5
        BY <3>5
      <4>2. PICK m \in Int2 : m = Times2(x[i], y[e+6-i])
        BY <3>2, <4>1, Closed2
      <4>3. Product2(x[i], y[e+6-i]) = Residue2(m)
        BY <3>3, <4>1, <4>2
      <4>4. Product2(<<1, 1>>, Residue2(m)) = Residue2(Root2(m))
        <5>1. <<1, 1>> \in Int2
          BY DEF Int2
        <5>2. 1 \in Fp
          BY PrimeAssumption DEF Fp
        <5>3. Residue2(<<1, 1>>) = <<1, 1>>
          BY <5>2, Reduced DEF Residue2
        <5>4. Product2(Residue2(<<1, 1>>), Residue2(m)) = Residue2(Times2(<<1, 1>>, m))
          BY <5>1, Residues2
        <5>5. Times2(<<1, 1>>, m) = Root2(m)
          <6>1. PICK m1 \in Int, m2 \in Int : m = <<m1, m2>>
            BY Pair2
          <6> QED BY <6>1 DEF Times2, Root2
        <5> QED BY <5>3, <5>4, <5>5
      <4> QED BY <3>1, <3>5, <4>2, <4>3, <4>4
    <3> QED BY <3>4, <3>5
  <2>3. Coefficient12(x, y, e) = Residue2(Total(t))
    BY <2>2, SumOfTerms
  <2>4. p[e] = Total(t)
    BY <1>6, <2>1
  <2> QED BY <2>3, <2>4
<1>9. Product12(a, b) = [e \in 0..5 |-> Residue2(p[e])]
  BY <1>7, <1>8, Zenon
<1> QED BY <1>6, <1>9

(* Half of a double modulo the prime.                                      *)
LEMMA HalfOfDouble ==
  ASSUME NEW e \in Int
  PROVE  fp_hlv(Mod(e + e)) = Mod(e)
<1>1. PICK p \in Nat, q \in Nat : p = PRIME_P /\ p = 2 * q + 1
  <2>1. PICK p \in Nat : p = PRIME_P /\ p % 4 = 3
    BY PrimeAssumption
  <2>2. PICK q \in Nat : q = 2 * (p \div 4) + 1
    BY <2>1
  <2>3. p = 4 * (p \div 4) + 3
    BY <2>1
  <2> QED BY <2>1, <2>2, <2>3
<1>2. PICK d \in Int : d = e + e
  OBVIOUS
<1>3. PICK x \in Int, k \in Int : x = Mod(d) /\ x = d + p * k /\ x \in 0..p-1
  BY <1>1, ModFacts DEF Fp
<1>4. p * k = 2 * (q * k) + k
  BY <1>1
<1>5. PICK u \in Int : u = q * k
  OBVIOUS
<1>6. ASSUME NEW h \in 0..p-1, NEW j \in Int, h = e + p * j
      PROVE  h = Mod(e)
  <2>1. h \in Fp /\ h \in Int
    BY <1>1 DEF Fp
  <2>2. Mod(h) = Mod(e)
    BY <1>1, <1>6, <2>1, ModSame
  <2> QED BY <2>1, <2>2, Reduced
<1>7. CASE x % 2 = 0
  <2>1. PICK h \in Int : h = x \div 2 /\ x = 2 * h
    BY <1>7
  <2>2. PICK j \in Int : j = h - e - u
    OBVIOUS
  <2>3. k = 2 * j
    BY <1>2, <1>3, <1>4, <1>5, <2>1, <2>2
  <2>4. p * k = 2 * (p * j)
    BY <2>3
  <2>5. PICK v \in Int : v = p * j
    OBVIOUS
  <2>6. h = e + p * j /\ h \in 0..p-1
    BY <1>1, <1>2, <1>3, <2>1, <2>4, <2>5
  <2>7. h = Mod(e)
    BY <1>6, <2>6
  <2> QED BY <1>2, <1>3, <1>7, <2>1, <2>7 DEF fp_hlv
<1>8. CASE x % 2 # 0
  <2>1. x % 2 = 1 /\ (x + p) % 2 = 0
    <3>1. x % 2 \in 0..1 /\ x = 2 * (x \div 2) + (x % 2) /\ x \div 2 \in Int
      OBVIOUS
    <3>2. PICK g \in Int : g = x \div 2
      BY <3>1
    <3>3. x % 2 = 1 /\ x + p = 2 * (g + q + 1)
      BY <1>1, <1>8, <3>1, <3>2
    <3>4. PICK f \in Int : f = g + q + 1
      OBVIOUS
    <3>5. (2 * f) % 2 = 0
      OBVIOUS
    <3> QED BY <3>3, <3>4, <3>5
  <2>2. PICK h \in Int : h = (x + p) \div 2 /\ x + p = 2 * h
    BY <1>1, <1>3, <2>1
  <2>3. PICK j \in Int : j = h - e - u - q
    OBVIOUS
  <2>4. k + 1 = 2 * j
    BY <1>1, <1>2, <1>3, <1>4, <1>5, <2>2, <2>3
  <2>5. p * k + p = 2 * (p * j)
    <3>1. p * (k + 1) = p * k + p /\ p * (2 * j) = 2 * (p * j)
      OBVIOUS
    <3> QED BY <2>4, <3>1
  <2>6. PICK v \in Int, w \in Int : v = p * j /\ w = p * k
    OBVIOUS
  <2>7. h = e + p * j /\ h \in 0..p-1
    BY <1>1, <1>2, <1>3, <2>2, <2>5, <2>6
  <2>8. h = Mod(e)
    BY <1>6, <2>7
  <2> QED BY <1>1, <1>2, <1>3, <1>8, <2>2, <2>8 DEF fp_hlv
<1> QED BY <1>7, <1>8

(* Half of a double in Fp4.                                                *)
LEMMA HalfOfDouble4 ==
  ASSUME NEW e \in Int4
  PROVE  fp4_hlv(Residue4(Plus4(e, e))) = Residue4(e)
<1>1. ASSUME NEW d \in Int2 PROVE fp2_hlv(Residue2(Plus2(d, d))) = Residue2(d)
  <2>1. PICK d1 \in Int, d2 \in Int : d = <<d1, d2>>
    BY Pair2
  <2>2. fp_hlv(Mod(d1 + d1)) = Mod(d1) /\ fp_hlv(Mod(d2 + d2)) = Mod(d2)
    BY HalfOfDouble
  <2> QED BY <2>1, <2>2 DEF fp2_hlv, Residue2, Plus2
<1>2. PICK e1 \in Int2, e2 \in Int2 : e = <<e1, e2>>
  BY Pair4
<1>3. fp2_hlv(Residue2(Plus2(e1, e1))) = Residue2(e1) /\ fp2_hlv(Residue2(Plus2(e2, e2))) = Residue2(e2)
  BY <1>1
<1> QED BY <1>2, <1>3 DEF fp4_hlv, Residue4, Plus4

(* Sums and differences that the formulas of the square leave.             *)
LEMMA Differences2 ==
  ASSUME NEW x \in Int2, NEW y \in Int2, NEW z \in Int2, NEW w \in Int2, NEW v \in Int2
  PROVE  /\ Minus2(Plus2(x, y), y) = x /\ Plus2(Minus2(x, y), y) = x
         /\ Plus2(Plus2(Plus2(x, y), Plus2(y, z)), Minus2(Minus2(x, y), Minus2(y, z)))
              = Plus2(Plus2(x, z), Plus2(x, z))
         /\ Minus2(Minus2(Plus2(Plus2(Plus2(x, w), Plus2(w, z)), y), x), z) = Plus2(Plus2(w, w), y)
         /\ Minus2(Minus2(Plus2(v, Plus2(Plus2(x, Plus2(w, y)), Plus2(Plus2(w, y), z))), Plus2(y, y)), Plus2(x, z))
              = Plus2(Plus2(w, w), v)
<1>1. PICK x1 \in Int, x2 \in Int : x = <<x1, x2>>
  BY Pair2
<1>2. PICK y1 \in Int, y2 \in Int : y = <<y1, y2>>
  BY Pair2
<1>3. PICK z1 \in Int, z2 \in Int : z = <<z1, z2>>
  BY Pair2
<1>4. PICK w1 \in Int, w2 \in Int : w = <<w1, w2>>
  BY Pair2
<1>5. PICK v1 \in Int, v2 \in Int : v = <<v1, v2>>
  BY Pair2
<1>6. Minus2(Plus2(x, y), y) = x /\ Plus2(Minus2(x, y), y) = x
  BY <1>1, <1>2 DEF Plus2, Minus2
<1>7. Plus2(Plus2(Plus2(x, y), Plus2(y, z)), Minus2(Minus2(x, y), Minus2(y, z)))
        = Plus2(Plus2(x, z), Plus2(x, z))
  BY <1>1, <1>2, <1>3 DEF Plus2, Minus2
<1>8. Minus2(Minus2(Plus2(Plus2(Plus2(x, w), Plus2(w, z)), y), x), z) = Plus2(Plus2(w, w), y)
  BY <1>1, <1>2, <1>3, <1>4 DEF Plus2, Minus2
<1>9. Minus2(Minus2(Plus2(v, Plus2(Plus2(x, Plus2(w, y)), Plus2(Plus2(w, y), z))), Plus2(y, y)), Plus2(x, z))
        = Plus2(Plus2(w, w), v)
  BY <1>1, <1>2, <1>3, <1>4, <1>5 DEF Plus2, Minus2
<1> QED BY <1>6, <1>7, <1>8, <1>9

(* The same sums and differences in the fourth degree, one by one.         *)
LEMMA Differences4 ==
  ASSUME NEW x \in Int4, NEW y \in Int4, NEW z \in Int4, NEW w \in Int4, NEW v \in Int4
  PROVE  /\ Minus4(Plus4(x, y), y) = x /\ Plus4(Minus4(x, y), y) = x
         /\ Plus4(Plus4(Plus4(x, y), Plus4(y, z)), Minus4(Minus4(x, y), Minus4(y, z)))
              = Plus4(Plus4(x, z), Plus4(x, z))
         /\ Minus4(Minus4(Plus4(Plus4(Plus4(x, w), Plus4(w, z)), y), x), z) = Plus4(Plus4(w, w), y)
         /\ Minus4(Minus4(Plus4(v, Plus4(Plus4(x, Plus4(w, y)), Plus4(Plus4(w, y), z))), Plus4(y, y)), Plus4(x, z))
              = Plus4(Plus4(w, w), v)
<1>1. PICK x1 \in Int2, x2 \in Int2 : x = <<x1, x2>>
  BY Pair4
<1>2. PICK y1 \in Int2, y2 \in Int2 : y = <<y1, y2>>
  BY Pair4
<1>3. PICK z1 \in Int2, z2 \in Int2 : z = <<z1, z2>>
  BY Pair4
<1>4. PICK w1 \in Int2, w2 \in Int2 : w = <<w1, w2>>
  BY Pair4
<1>5. PICK v1 \in Int2, v2 \in Int2 : v = <<v1, v2>>
  BY Pair4
<1>6. Minus4(Plus4(x, y), y) = x /\ Plus4(Minus4(x, y), y) = x
  <2>1. /\ Minus2(Plus2(x1, y1), y1) = x1 /\ Plus2(Minus2(x1, y1), y1) = x1
        /\ Minus2(Plus2(x2, y2), y2) = x2 /\ Plus2(Minus2(x2, y2), y2) = x2
    BY Differences2, SMTT(30)
  <2> QED BY <1>1, <1>2, <2>1 DEF Plus4, Minus4
<1>7. Plus4(Plus4(Plus4(x, y), Plus4(y, z)), Minus4(Minus4(x, y), Minus4(y, z)))
        = Plus4(Plus4(x, z), Plus4(x, z))
  <2>1. /\ Plus2(Plus2(Plus2(x1, y1), Plus2(y1, z1)), Minus2(Minus2(x1, y1), Minus2(y1, z1)))
             = Plus2(Plus2(x1, z1), Plus2(x1, z1))
        /\ Plus2(Plus2(Plus2(x2, y2), Plus2(y2, z2)), Minus2(Minus2(x2, y2), Minus2(y2, z2)))
             = Plus2(Plus2(x2, z2), Plus2(x2, z2))
    BY Differences2, SMTT(30)
  <2> QED BY <1>1, <1>2, <1>3, <2>1 DEF Plus4, Minus4
<1>8. Minus4(Minus4(Plus4(Plus4(Plus4(x, w), Plus4(w, z)), y), x), z) = Plus4(Plus4(w, w), y)
  <2>1. /\ Minus2(Minus2(Plus2(Plus2(Plus2(x1, w1), Plus2(w1, z1)), y1), x1), z1) = Plus2(Plus2(w1, w1), y1)
        /\ Minus2(Minus2(Plus2(Plus2(Plus2(x2, w2), Plus2(w2, z2)), y2), x2), z2) = Plus2(Plus2(w2, w2), y2)
    BY Differences2, SMTT(30)
  <2> QED BY <1>1, <1>2, <1>3, <1>4, <2>1 DEF Plus4, Minus4
<1>9. Minus4(Minus4(Plus4(v, Plus4(Plus4(x, Plus4(w, y)), Plus4(Plus4(w, y), z))), Plus4(y, y)), Plus4(x, z))
        = Plus4(Plus4(w, w), v)
  <2>1. Minus2(Minus2(Plus2(v1, Plus2(Plus2(x1, Plus2(w1, y1)), Plus2(Plus2(w1, y1), z1))), Plus2(y1, y1)),
               Plus2(x1, z1)) = Plus2(Plus2(w1, w1), v1)
    BY Differences2, SMTT(30)
  <2>2. Minus2(Minus2(Plus2(v2, Plus2(Plus2(x2, Plus2(w2, y2)), Plus2(Plus2(w2, y2), z2))), Plus2(y2, y2)),
               Plus2(x2, z2)) = Plus2(Plus2(w2, w2), v2)
    BY Differences2, SMTT(30)
  <2> QED BY <1>1, <1>2, <1>3, <1>4, <1>5, <2>1, <2>2 DEF Plus4, Minus4
<1> QED BY <1>6, <1>7, <1>8, <1>9

(* A sum less one of its two, a difference plus what it lacks.             *)
LEMMA PlusMinus4 ==
  ASSUME NEW x \in Int4, NEW y \in Int4
  PROVE  Minus4(Plus4(x, y), y) = x /\ Plus4(Minus4(x, y), y) = x
BY Differences4

(* Two squares, of a sum and of a difference, without what they share.     *)
LEMMA SumOfSquares4 ==
  ASSUME NEW x \in Int4, NEW y \in Int4, NEW z \in Int4
  PROVE  Plus4(Plus4(Plus4(x, y), Plus4(y, z)), Minus4(Minus4(x, y), Minus4(y, z)))
           = Plus4(Plus4(x, z), Plus4(x, z))
BY Differences4

(* A square of three without the squares of the outer two.                 *)
Outer(x, w, z, y) ==
  Minus4(Minus4(Plus4(Plus4(Plus4(x, w), Plus4(w, z)), y), x), z) = Plus4(Plus4(w, w), y)

(* It holds of any four.                                                   *)
LEMMA WithoutOuter4 ==
  ASSUME NEW x \in Int4, NEW w \in Int4, NEW z \in Int4, NEW y \in Int4
  PROVE  Outer(x, w, z, y)
BY Differences4 DEF Outer

(* The middle coefficient, from the three squares and the product.         *)
Middle(v, x, w, y, z) ==
  Minus4(Minus4(Plus4(v, Plus4(Plus4(x, Plus4(w, y)), Plus4(Plus4(w, y), z))), Plus4(y, y)), Plus4(x, z))
    = Plus4(Plus4(w, w), v)

(* It holds of any five.                                                   *)
LEMMA WithoutInner4 ==
  ASSUME NEW v \in Int4, NEW x \in Int4, NEW w \in Int4, NEW y \in Int4, NEW z \in Int4
  PROVE  Middle(v, x, w, y, z)
BY Differences4 DEF Middle

(* A difference as a factor.                                               *)
LEMMA MinusTimes4 ==
  ASSUME NEW a \in Int4, NEW b \in Int4, NEW c \in Int4
  PROVE  Times4(Minus4(a, b), c) = Minus4(Times4(a, c), Times4(b, c))
<1>1. PICK d \in Int4 : d = Minus4(a, b)
  BY Closed4
<1>2. Plus4(d, b) = a
  BY <1>1, PlusMinus4
<1>3. Times4(Plus4(d, b), c) = Plus4(Times4(d, c), Times4(b, c))
  BY Right4
<1>4. PICK x \in Int4, y \in Int4 : x = Times4(d, c) /\ y = Times4(b, c)
  BY Closed4
<1>5. Minus4(Plus4(x, y), y) = x
  BY PlusMinus4
<1> QED BY <1>1, <1>2, <1>3, <1>4, <1>5

(* The squares that the code computes with fewer products are the products *)
(* of an element with itself: fp2_sqr, fp4_sqr and, with Chung and Hasan's *)
(* halving of a sum of two squares, fp12_sqr.                              *)
THEOREM TowerSquaresAreExact ==
  ASSUME StandardTower
  PROVE  /\ \A a \in Fp \X Fp : fp2_sqr(a) = fp2_mul(a, a)
         /\ \A a \in Fp4 : fp4_sqr(a) = fp4_mul(a, a)
         /\ \A a \in Fp12 : fp12_sqr_std(a) = fp12_mul(a, a)
<1>1. ASSUME NEW a \in Fp \X Fp PROVE fp2_sqr(a) = fp2_mul(a, a)
  <2>1. PICK u \in Fp, v \in Fp : a = <<u, v>>
    OBVIOUS
  <2>2. u \in Int /\ v \in Int /\ Mod(u) = u /\ Mod(v) = v
    BY Reduced
  <2>3. a \in Int2 /\ Residue2(a) = a
    BY <2>1, <2>2 DEF Int2, Residue2
  <2>4. fp2_sqr(Residue2(a)) = fp2_mul_std(Residue2(a), Residue2(a))
    BY <2>3, Residues2
  <2>5. fp2_mul(a, a) = fp2_mul_std(a, a)
    BY DEF StandardTower
  <2> QED BY <2>3, <2>4, <2>5
<1>2. ASSUME NEW a \in Fp4 PROVE fp4_sqr(a) = fp4_mul(a, a)
  <2>1. a \in Int4 /\ Residue4(a) = a
    BY Elements4
  <2>2. fp4_sqr(Residue4(a)) = Residue4(a) ** Residue4(a)
    BY <2>1, Residues4
  <2> QED BY <2>1, <2>2 DEF **
<1>3. ASSUME NEW a \in Fp12 PROVE fp12_sqr_std(a) = fp12_mul(a, a)
  <2>1. a \in Int12 /\ Residue12(a) = a
    BY Elements12
  <2>2. PICK a1 \in Int4, a2 \in Int4, a3 \in Int4 : a = <<a1, a2, a3>>
    BY <2>1 DEF Int12
  <2>3. fp12_mul(a, a) = Residue12(Times12(a, a))
    <3>1. fp12_mul(Residue12(a), Residue12(a)) = Residue12(Times12(a, a))
      BY <2>1, Residues12
    <3> QED BY <2>1, <3>1
  <2>4. PICK e \in Int4, s \in Int4 : e = Plus4(a1, a3) /\ s = Times4(a2, a2)
    BY Closed4
  <2>5. PICK x \in Int4, y \in Int4 : x = Times4(e, e) /\ y = Times4(e, a2)
    BY Closed4
  <2>6. PICK k \in Int4, p \in Int4, w \in Int4 : k = Times4(a1, a2) /\ p = Times4(a2, a3) /\ w = Times4(a1, a3)
    BY Closed4
  <2>7. PICK s0 \in Int4, s4 \in Int4 : s0 = Times4(a1, a1) /\ s4 = Times4(a3, a3)
    BY Closed4
  <2>8. /\ Times4(a2, e) = y /\ Times4(a2, a1) = k /\ Times4(a3, a2) = p /\ Times4(a3, a1) = w
    BY <2>5, <2>6, Commutes4
  <2>9. x = Plus4(Plus4(s0, w), Plus4(w, s4))
    <3>1. Times4(Plus4(a1, a3), Plus4(a1, a3))
            = Plus4(Plus4(Times4(a1, a1), Times4(a3, a1)), Plus4(Times4(a1, a3), Times4(a3, a3)))
      BY Foil4
    <3> QED BY <2>4, <2>5, <2>6, <2>7, <2>8, <3>1
  <2>10. y = Plus4(k, p)
    <3>1. Times4(Plus4(a1, a3), a2) = Plus4(Times4(a1, a2), Times4(a3, a2))
      BY Right4
    <3> QED BY <2>4, <2>5, <2>6, <2>8, <3>1
  <2>11. PICK d \in Int4, f \in Int4 : d = Plus4(e, a2) /\ f = Minus4(e, a2)
    BY Closed4
  <2>12. PICK s1 \in Int4, s2 \in Int4 : s1 = Times4(d, d) /\ s2 = Times4(f, f)
    BY Closed4
  <2>13. s1 = Plus4(Plus4(x, y), Plus4(y, s))
    <3>1. Times4(Plus4(e, a2), Plus4(e, a2))
            = Plus4(Plus4(Times4(e, e), Times4(a2, e)), Plus4(Times4(e, a2), Times4(a2, a2)))
      BY Foil4
    <3> QED BY <2>4, <2>5, <2>8, <2>11, <2>12, <3>1
  <2>14. s2 = Minus4(Minus4(x, y), Minus4(y, s))
    <3>1. Times4(Minus4(e, a2), f) = Minus4(Times4(e, f), Times4(a2, f))
      BY MinusTimes4
    <3>2. /\ Times4(Minus4(e, a2), e) = Minus4(Times4(e, e), Times4(a2, e))
          /\ Times4(Minus4(e, a2), a2) = Minus4(Times4(e, a2), Times4(a2, a2))
      BY MinusTimes4
    <3>3. Times4(e, f) = Times4(f, e) /\ Times4(a2, f) = Times4(f, a2)
      BY Commutes4
    <3> QED BY <2>4, <2>5, <2>8, <2>11, <2>12, <3>1, <3>2, <3>3
  <2>15. PICK h \in Int4 : h = Plus4(x, s) /\ Plus4(s1, s2) = Plus4(h, h)
    <3>1. PICK h \in Int4 : h = Plus4(x, s)
      BY Closed4
    <3>2. Plus4(Plus4(Plus4(x, y), Plus4(y, s)), Minus4(Minus4(x, y), Minus4(y, s)))
            = Plus4(Plus4(x, s), Plus4(x, s))
      BY SumOfSquares4
    <3> QED BY <2>13, <2>14, <3>1, <3>2
  <2>16. PICK r \in Int4, v \in Int4 : r = Plus4(p, p) /\ v = Root4(s4)
    BY Closed4
  <2>17. PICK q \in Int4 : q = Root4(r)
    BY Closed4
  <2>18. PICK m1 \in Int4, m2 \in Int4 : m1 = Plus4(v, s1) /\ m2 = Minus4(m1, r)
    <3>1. PICK m1 \in Int4 : m1 = Plus4(v, s1)
      BY Closed4
    <3>2. Minus4(m1, r) \in Int4
      BY Closed4
    <3> QED BY <3>1, <3>2
  <2>19. Minus4(m2, h) = Plus4(Plus4(k, k), v)
    <3>1. Middle(v, x, k, p, s)
      BY WithoutInner4
    <3> QED BY <2>10, <2>13, <2>15, <2>16, <2>18, <3>1 DEF Middle
  <2>20. PICK n \in Int4 : n = Minus4(h, s0) /\ Minus4(n, s4) = Plus4(Plus4(w, w), s)
    <3>1. PICK n \in Int4 : n = Minus4(h, s0)
      BY Closed4
    <3>2. Minus4(Minus4(Plus4(Plus4(Plus4(s0, w), Plus4(w, s4)), s), s0), s4) = Plus4(Plus4(w, w), s)
      <4>1. Outer(s0, w, s4, s)
        BY WithoutOuter4
      <4> QED BY <4>1 DEF Outer
    <3> QED BY <2>9, <2>15, <3>1, <3>2
  <2>21. Times12(a, a) = <<Plus4(q, s0), Plus4(Plus4(k, k), v), Plus4(Plus4(w, w), s)>>
    <3>1. Plus4(s0, q) = Plus4(q, s0)
      BY SumCommutes4
    <3> QED BY <2>2, <2>4, <2>6, <2>7, <2>8, <2>16, <2>17, <3>1 DEF Times12
  <2>22. ASSUME NEW u \in Int4, NEW z \in Int4
         PROVE  /\ Residue4(u) ++ Residue4(z) = Residue4(Plus4(u, z))
                /\ Residue4(u) -- Residue4(z) = Residue4(Minus4(u, z))
                /\ fp4_mul_adj_root(Residue4(u)) = Residue4(Root4(u))
                /\ Residue4(u) ** Residue4(z) = Residue4(Times4(u, z))
                /\ fp4_sqr(Residue4(u)) = Residue4(Times4(u, u))
    BY Residues4
  <2>23. a = <<Residue4(a1), Residue4(a2), Residue4(a3)>>
    BY <2>1, <2>2 DEF Residue12
  <2>24. PICK A1, A2, A3 : A1 = Residue4(a1) /\ A2 = Residue4(a2) /\ A3 = Residue4(a3)
    OBVIOUS
  <2>25. fp12_sqr_std(a)
           = LET t0 == fp4_sqr(A1)
                 t1 == fp4_sqr((A1 ++ A3) ++ A2)
                 p12 == A2 ** A3
                 r1 == p12 ++ p12
                 t == fp4_hlv(t1 ++ fp4_sqr((A1 ++ A3) -- A2))
                 t4 == fp4_sqr(A3)
             IN <<fp4_mul_adj_root(r1) ++ t0, ((fp4_mul_adj_root(t4) ++ t1) -- r1) -- t, (t -- t0) -- t4>>
    BY <2>23, <2>24 DEF fp12_sqr_std
  <2>26. fp4_sqr(A1) = Residue4(s0) /\ fp4_sqr(A3) = Residue4(s4) /\ A2 ** A3 = Residue4(p)
    BY <2>6, <2>7, <2>22, <2>24
  <2>27. /\ A1 ++ A3 = Residue4(e) /\ Residue4(e) ++ A2 = Residue4(d) /\ Residue4(e) -- A2 = Residue4(f)
         /\ fp4_sqr(Residue4(d)) = Residue4(s1) /\ fp4_sqr(Residue4(f)) = Residue4(s2)
    BY <2>4, <2>11, <2>12, <2>22, <2>24
  <2>28. fp4_hlv(Residue4(s1) ++ Residue4(s2)) = Residue4(h)
    BY <2>15, <2>22, HalfOfDouble4
  <2>29. /\ Residue4(p) ++ Residue4(p) = Residue4(r) /\ fp4_mul_adj_root(Residue4(r)) = Residue4(q)
         /\ Residue4(q) ++ Residue4(s0) = Residue4(Plus4(q, s0))
    BY <2>16, <2>17, <2>22
  <2>30. /\ fp4_mul_adj_root(Residue4(s4)) = Residue4(v) /\ Residue4(v) ++ Residue4(s1) = Residue4(m1)
         /\ Residue4(m1) -- Residue4(r) = Residue4(m2)
         /\ Residue4(m2) -- Residue4(h) = Residue4(Plus4(Plus4(k, k), v))
    BY <2>16, <2>18, <2>19, <2>22
  <2>31. /\ Residue4(h) -- Residue4(s0) = Residue4(n)
         /\ Residue4(n) -- Residue4(s4) = Residue4(Plus4(Plus4(w, w), s))
    BY <2>20, <2>22
  <2>32. fp12_sqr_std(a) = <<Residue4(Plus4(q, s0)), Residue4(Plus4(Plus4(k, k), v)), Residue4(Plus4(Plus4(w, w), s))>>
    BY <2>25, <2>26, <2>27, <2>28, <2>29, <2>30, <2>31
  <2> QED BY <2>3, <2>21, <2>32 DEF Residue12
<1> QED BY <1>1, <1>2, <1>3

Zero4 == <<<<0, 0>>, <<0, 0>>>>

(* Nothing comes of a zero.                                                *)
LEMMA Zeros4 ==
  ASSUME NEW a \in Int4
  PROVE  /\ Zero4 \in Int4 /\ Residue4(Zero4) = fp4_zero /\ Root4(Zero4) = Zero4
         /\ Plus4(a, Zero4) = a /\ Plus4(Zero4, a) = a /\ Times4(a, Zero4) = Zero4
<1>1. PICK a1 \in Int2, a2 \in Int2 : a = <<a1, a2>>
  BY Pair4
<1>2. PICK u1 \in Int, u2 \in Int : a1 = <<u1, u2>>
  BY Pair2
<1>3. PICK v1 \in Int, v2 \in Int : a2 = <<v1, v2>>
  BY Pair2
<1>4. Zero4 \in Int4
  BY DEF Zero4, Int4, Int2
<1>5. Residue4(Zero4) = fp4_zero
  <2>1. Mod(0) = 0
    <3>1. 0 \in Fp
      BY PrimeAssumption DEF Fp
    <3> QED BY <3>1, Reduced
  <2> QED BY <2>1 DEF Residue4, Residue2, Zero4, fp4_zero, fp2_zero
<1>6. Root4(Zero4) = Zero4
  BY DEF Root4, Root2, Zero4
<1>7. Plus4(a, Zero4) = a /\ Plus4(Zero4, a) = a
  BY <1>1, <1>2, <1>3 DEF Plus4, Plus2, Zero4
<1>8. Times4(a, Zero4) = Zero4
  <2>1. /\ u1 * 0 = 0 /\ u2 * 0 = 0 /\ v1 * 0 = 0 /\ v2 * 0 = 0
    OBVIOUS
  <2>2. Times2(a1, <<0, 0>>) = <<0, 0>> /\ Times2(a2, <<0, 0>>) = <<0, 0>>
    BY <1>2, <1>3, <2>1 DEF Times2
  <2> QED BY <1>1, <2>2 DEF Times4, Plus2, Root2, Zero4
<1> QED BY <1>4, <1>5, <1>6, <1>7, <1>8

(* An element of Fp2 as a factor in Fp4.                                   *)
LEMMA Scaled4 ==
  ASSUME StandardTower, NEW a \in Int4, NEW c \in Int2
  PROVE  /\ <<c, <<0, 0>>>> \in Int4
         /\ fp4_mulfp2(Residue4(a), Residue2(c)) = Residue4(Times4(a, <<c, <<0, 0>>>>))
<1>1. PICK a1 \in Int2, a2 \in Int2 : a = <<a1, a2>>
  BY Pair4
<1>2. <<c, <<0, 0>>>> \in Int4
  BY DEF Int4, Int2
<1>3. ASSUME NEW x \in Int2, NEW y \in Int2 PROVE Residue2(x) \otimes Residue2(y) = Residue2(Times2(x, y))
  BY Residues2 DEF StandardTower, \otimes
<1>4. fp4_mulfp2(Residue4(a), Residue2(c)) = <<Residue2(Times2(a1, c)), Residue2(Times2(a2, c))>>
  <2>1. Residue4(a) = <<Residue2(a1), Residue2(a2)>>
    BY <1>1 DEF Residue4
  <2>2. Residue2(a1) \otimes Residue2(c) = Residue2(Times2(a1, c)) /\ Residue2(a2) \otimes Residue2(c) = Residue2(Times2(a2, c))
    BY <1>3
  <2> QED BY <2>1, <2>2 DEF fp4_mulfp2
<1>5. Times4(a, <<c, <<0, 0>>>>) = <<Times2(a1, c), Times2(a2, c)>>
  <2>1. ASSUME NEW x \in Int2
        PROVE  /\ Times2(x, <<0, 0>>) = <<0, 0>> /\ Root2(<<0, 0>>) = <<0, 0>>
               /\ Plus2(x, <<0, 0>>) = x /\ Plus2(<<0, 0>>, x) = x
    <3>1. PICK x1 \in Int, x2 \in Int : x = <<x1, x2>>
      BY Pair2
    <3>2. x1 * 0 = 0 /\ x2 * 0 = 0
      OBVIOUS
    <3> QED BY <3>1, <3>2 DEF Times2, Plus2, Root2
  <2>2. PICK x \in Int2, y \in Int2 : x = Times2(a1, c) /\ y = Times2(a2, c)
    BY Closed2
  <2>3. Times2(a1, <<0, 0>>) = <<0, 0>> /\ Times2(a2, <<0, 0>>) = <<0, 0>> /\ Root2(<<0, 0>>) = <<0, 0>>
    BY <2>1
  <2>4. Plus2(x, <<0, 0>>) = x /\ Plus2(<<0, 0>>, y) = y
    BY <2>1
  <2> QED BY <1>1, <2>2, <2>3, <2>4 DEF Times4
<1> QED BY <1>2, <1>4, <1>5 DEF Residue4

(* The product with the value of a line, of which only three coefficients  *)
(* are not zero, is the product of Fp12.                                   *)
THEOREM SparseProductIsExact ==
  ASSUME StandardTower, NEW a \in Fp12, NEW b0 \in Fp4, NEW b10 \in Fp \X Fp
  PROVE  fp12_mul_sparse(a, b0, b10) = fp12_mul(a, <<b0, <<b10, fp2_zero>>, fp4_zero>>)
<1>1. a \in Int12 /\ Residue12(a) = a
  BY Elements12
<1>2. PICK a1 \in Int4, a2 \in Int4, a3 \in Int4 : a = <<a1, a2, a3>>
  BY <1>1 DEF Int12
<1>3. b0 \in Int4 /\ Residue4(b0) = b0
  BY Elements4
<1>4. b10 \in Int2 /\ Residue2(b10) = b10
  <2>1. PICK u \in Fp, v \in Fp : b10 = <<u, v>>
    OBVIOUS
  <2>2. u \in Int /\ v \in Int /\ Mod(u) = u /\ Mod(v) = v
    BY Reduced
  <2> QED BY <2>1, <2>2 DEF Int2, Residue2
<1>5. PICK c \in Int4 : c = <<b10, <<0, 0>>>>
  <2>1. <<b10, <<0, 0>>>> \in Int4
    BY <1>4, <1>2, Scaled4
  <2> QED BY <2>1
<1>6. Residue4(c) = <<b10, fp2_zero>>
  <2>1. Residue2(<<0, 0>>) = fp2_zero
    <3>1. 0 \in Fp
      BY PrimeAssumption DEF Fp
    <3> QED BY <3>1, Reduced DEF Residue2, fp2_zero
  <2> QED BY <1>4, <1>5, <2>1 DEF Residue4
<1>7. PICK z \in Int4 : z = Zero4
  BY <1>3, Zeros4
<1>8. PICK l \in Int12 : l = <<b0, c, z>> /\ Residue12(l) = <<b0, <<b10, fp2_zero>>, fp4_zero>>
  <2>1. Residue4(z) = fp4_zero
    BY <1>7, Zeros4
  <2>2. <<b0, c, z>> \in Int12
    BY <1>3 DEF Int12
  <2>3. Residue12(<<b0, c, z>>) = <<b0, <<b10, fp2_zero>>, fp4_zero>>
    BY <1>3, <1>6, <2>1 DEF Residue12
  <2> QED BY <2>2, <2>3
<1>9. fp12_mul(a, Residue12(l)) = Residue12(Times12(a, l))
  <2>1. fp12_mul(Residue12(a), Residue12(l)) = Residue12(Times12(a, l))
    BY <1>1, Residues12
  <2> QED BY <1>1, <2>1
<1>10. PICK p1 \in Int4, p2 \in Int4, p3 \in Int4 : p1 = Times4(a1, b0) /\ p2 = Times4(a2, b0) /\ p3 = Times4(a3, b0)
  BY <1>3, Closed4
<1>11. PICK q1 \in Int4, q2 \in Int4, q3 \in Int4 : q1 = Times4(a1, c) /\ q2 = Times4(a2, c) /\ q3 = Times4(a3, c)
  BY Closed4
<1>12. PICK r \in Int4, s \in Int4 : r = Root4(q3) /\ s = Plus4(p2, q1)
  BY Closed4
<1>13. Times12(a, l) = <<Plus4(p1, r), s, Plus4(p3, q2)>>
  <2>1. Times4(a1, z) = z /\ Times4(a2, z) = z /\ Times4(a3, z) = z
    BY <1>7, Zeros4
  <2>2. Plus4(z, q3) = q3 /\ Plus4(p3, z) = p3 /\ Root4(z) = z /\ Plus4(s, z) = s
    BY <1>7, Zeros4
  <2> QED BY <1>2, <1>8, <1>10, <1>11, <1>12, <2>1, <2>2 DEF Times12
<1>14. ASSUME NEW u \in Int4, NEW v \in Int4
       PROVE  /\ Residue4(u) ++ Residue4(v) = Residue4(Plus4(u, v))
              /\ Residue4(u) -- Residue4(v) = Residue4(Minus4(u, v))
              /\ fp4_mul_adj_root(Residue4(u)) = Residue4(Root4(u))
              /\ Residue4(u) ** Residue4(v) = Residue4(Times4(u, v))
  BY Residues4
<1>15. PICK A1, A2, A3 : A1 = Residue4(a1) /\ A2 = Residue4(a2) /\ A3 = Residue4(a3) /\ a = <<A1, A2, A3>>
  BY <1>1, <1>2 DEF Residue12
<1>16. fp12_mul_sparse(a, b0, b10)
         = LET d0 == A1 ** b0
               d1 == fp4_mulfp2(A2, b10)
               v == fp4_mulfp2(A2 ++ A3, b10) -- d1
               t == <<b0[1] \oplus b10, b0[2]>>
           IN <<d0 ++ fp4_mul_adj_root(v), (((A1 ++ A2) ** t) -- d1) -- d0, (((A1 ++ A3) ** b0) -- d0) ++ d1>>
  BY <1>15 DEF fp12_mul_sparse
<1>17. PICK d \in Int4, e \in Int4, f \in Int4, t \in Int4 :
         d = Plus4(a2, a3) /\ e = Plus4(a1, a2) /\ f = Plus4(a1, a3) /\ t = Plus4(b0, c)
  BY <1>3, Closed4
<1>18. <<b0[1] \oplus b10, b0[2]>> = Residue4(t)
  <2>1. PICK b1 \in Int2, b2 \in Int2 : b0 = <<b1, b2>>
    BY <1>3, Pair4
  <2>2. Residue2(b1) = b1 /\ Residue2(b2) = b2
    BY <1>3, <2>1 DEF Residue4
  <2>3. b1 \oplus b10 = Residue2(Plus2(b1, b10))
    <3>1. Residue2(b1) \oplus Residue2(b10) = Residue2(Plus2(b1, b10))
      BY <1>4, Residues2
    <3> QED BY <1>4, <2>2, <3>1
  <2>4. Plus2(b2, <<0, 0>>) = b2
    <3>1. PICK x1 \in Int, x2 \in Int : b2 = <<x1, x2>>
      BY Pair2
    <3> QED BY <3>1 DEF Plus2
  <2>5. t = <<Plus2(b1, b10), b2>>
    BY <1>5, <1>17, <2>1, <2>4 DEF Plus4
  <2> QED BY <2>1, <2>2, <2>3, <2>5 DEF Residue4
<1>19. PICK g \in Int4, h \in Int4, k \in Int4 : g = Times4(d, c) /\ h = Times4(e, t) /\ k = Times4(f, b0)
  BY <1>3, Closed4
<1>20. /\ Minus4(g, q2) = q3 /\ Minus4(Minus4(h, q2), p1) = s /\ Minus4(k, p1) = p3
  <2>1. g = Plus4(q2, q3) /\ k = Plus4(p1, p3)
    <3>1. Times4(Plus4(a2, a3), c) = Plus4(Times4(a2, c), Times4(a3, c))
      BY Right4
    <3>2. Times4(Plus4(a1, a3), b0) = Plus4(Times4(a1, b0), Times4(a3, b0))
      BY <1>3, Right4
    <3> QED BY <1>10, <1>11, <1>17, <1>19, <3>1, <3>2
  <2>2. h = Plus4(Plus4(p1, p2), Plus4(q1, q2))
    <3>1. Times4(Plus4(a1, a2), Plus4(b0, c))
            = Plus4(Plus4(Times4(a1, b0), Times4(a2, b0)), Plus4(Times4(a1, c), Times4(a2, c)))
      BY <1>3, Foil4, SMTT(30)
    <3> QED BY <1>10, <1>11, <1>17, <1>19, <3>1
  <2>3. ASSUME NEW x \in Int4, NEW y \in Int4 PROVE Minus4(Plus4(x, y), x) = y
    <3>1. Plus4(x, y) = Plus4(y, x)
      BY SumCommutes4
    <3>2. Minus4(Plus4(y, x), x) = y
      BY PlusMinus4
    <3> QED BY <3>1, <3>2
  <2>4. Minus4(Minus4(Plus4(Plus4(p1, p2), Plus4(q1, q2)), q2), p1) = Plus4(p2, q1)
    <3>1. Inner(p1, p2, q1, q2)
      BY Sums4
    <3> QED BY <3>1 DEF Inner
  <2> QED BY <1>12, <2>1, <2>2, <2>3, <2>4
<1>21. /\ A1 ** b0 = Residue4(p1) /\ fp4_mulfp2(A2, b10) = Residue4(q2)
  <2>1. Residue4(a1) ** Residue4(b0) = Residue4(Times4(a1, b0))
    BY <1>3, <1>14
  <2>2. fp4_mulfp2(Residue4(a2), Residue2(b10)) = Residue4(Times4(a2, <<b10, <<0, 0>>>>))
    BY <1>4, Scaled4
  <2> QED BY <1>3, <1>4, <1>5, <1>10, <1>11, <1>15, <2>1, <2>2
<1>22. /\ A2 ++ A3 = Residue4(d) /\ A1 ++ A2 = Residue4(e) /\ A1 ++ A3 = Residue4(f)
  BY <1>14, <1>15, <1>17
<1>23. fp4_mulfp2(Residue4(d), b10) = Residue4(g)
  <2>1. fp4_mulfp2(Residue4(d), Residue2(b10)) = Residue4(Times4(d, <<b10, <<0, 0>>>>))
    BY <1>4, Scaled4
  <2> QED BY <1>4, <1>5, <1>19, <2>1
<1>24. /\ Residue4(g) -- Residue4(q2) = Residue4(q3) /\ fp4_mul_adj_root(Residue4(q3)) = Residue4(r)
       /\ Residue4(p1) ++ Residue4(r) = Residue4(Plus4(p1, r))
  BY <1>12, <1>14, <1>20
<1>25. /\ Residue4(e) ** Residue4(t) = Residue4(h)
       /\ (Residue4(h) -- Residue4(q2)) -- Residue4(p1) = Residue4(s)
  <2>1. PICK x \in Int4 : x = Minus4(h, q2)
    BY Closed4
  <2> QED BY <1>14, <1>19, <1>20, <2>1
<1>26. /\ Residue4(f) ** b0 = Residue4(k) /\ Residue4(k) -- Residue4(p1) = Residue4(p3)
       /\ Residue4(p3) ++ Residue4(q2) = Residue4(Plus4(p3, q2))
  <2>1. Residue4(f) ** Residue4(b0) = Residue4(Times4(f, b0))
    BY <1>3, <1>14
  <2>2. Residue4(k) -- Residue4(p1) = Residue4(Minus4(k, p1)) /\ Residue4(p3) ++ Residue4(q2) = Residue4(Plus4(p3, q2))
    BY <1>14
  <2> QED BY <1>3, <1>19, <1>20, <2>1, <2>2
<1>27. fp12_mul_sparse(a, b0, b10) = <<Residue4(Plus4(p1, r)), Residue4(s), Residue4(Plus4(p3, q2))>>
  BY <1>16, <1>18, <1>21, <1>22, <1>23, <1>24, <1>25, <1>26
<1> QED BY <1>8, <1>9, <1>13, <1>27 DEF Residue12

-----------------------------------------------------------------------------
(* Base64.  The six-bit values of the bytes, and how many they are.        *)
Count64(l) == 4 * (l \div 3) + (IF l % 3 = 0 THEN 0 ELSE (l % 3) + 1)
Four(x, y, z, j) ==
  CASE j = 0 -> x \div 4
    [] j = 1 -> (x % 4) * 16 + (y \div 16)
    [] j = 2 -> (y % 16) * 4 + (z \div 64)
    [] j = 3 -> z % 64
Six(data, g, j) == Four(At(data, 3*g + 1), At(data, 3*g + 2), At(data, 3*g + 3), j)
SixBits(data) == [k \in 1..Count64(Len(data)) |-> Six(data, (k - 1) \div 4, (k - 1) % 4)]

(* What stands for a value is read as that value and is no brace; padding  *)
(* is not read at all.                                                     *)
LEMMA Letters64 ==
  /\ \A v \in 0..63 : cb64(v) \in Nat /\ cd64(cb64(v)) = v /\ cb64(v) # 123 /\ cb64(v) # 125
  /\ cd64(61) = -1
<1>1. ASSUME NEW v \in 0..63 PROVE cb64(v) \in Nat /\ cd64(cb64(v)) = v /\ cb64(v) # 123 /\ cb64(v) # 125
  <2>1. CASE v < 26
    <3>1. cb64(v) = 65 + v
      BY <2>1 DEF cb64
    <3> QED BY <2>1, <3>1 DEF cd64
  <2>2. CASE v \in 26..51
    <3>1. cb64(v) = 71 + v
      BY <2>2 DEF cb64
    <3> QED BY <2>2, <3>1 DEF cd64
  <2>3. CASE v \in 52..61
    <3>1. cb64(v) = v - 4
      BY <2>3 DEF cb64
    <3> QED BY <2>3, <3>1 DEF cd64
  <2>4. CASE v = 62
    <3>1. cb64(v) = 43
      BY <2>4 DEF cb64
    <3> QED BY <2>4, <3>1 DEF cd64
  <2>5. CASE v = 63
    <3>1. cb64(v) = 47
      BY <2>5 DEF cb64
    <3> QED BY <2>5, <3>1 DEF cd64
  <2> QED BY <2>1, <2>2, <2>3, <2>4, <2>5
<1>2. cd64(61) = -1
  BY DEF cd64
<1> QED BY <1>1, <1>2

(* Bytes, or the 0 past the end.                                           *)
LEMMA BytesOrZero ==
  ASSUME NEW data \in Seq(Byte), NEW k \in Nat
  PROVE  At(data, k) \in Byte /\ At(data, k) \in Nat
<1>1. 0 \in Byte /\ Byte \subseteq Nat
  BY DEF Byte
<1>2. CASE k \in DOMAIN data
  <2>1. data[k] \in Byte
    BY <1>2
  <2> QED BY <1>1, <1>2, <2>1 DEF At
<1>3. CASE k \notin DOMAIN data
  BY <1>1, <1>3 DEF At
<1> QED BY <1>2, <1>3

(* Three bytes and their four values.                                      *)
LEMMA ThreeBytes ==
  ASSUME NEW x \in Byte, NEW y \in Byte, NEW z \in Byte
  PROVE  /\ x \div 4 \in 0..63 /\ (x % 4) * 16 + (y \div 16) \in 0..63
         /\ (y % 16) * 4 + (z \div 64) \in 0..63 /\ z % 64 \in 0..63
         /\ (4 * (x \div 4) + ((x % 4) * 16 + (y \div 16)) \div 16) % 256 = x
         /\ (16 * ((x % 4) * 16 + (y \div 16)) + ((y % 16) * 4 + (z \div 64)) \div 4) % 256 = y
         /\ (64 * ((y % 16) * 4 + (z \div 64)) + (z % 64)) % 256 = z
         /\ (x % 4) * 16 + (0 \div 16) = (x % 4) * 16
         /\ (4 * (x \div 4) + ((x % 4) * 16) \div 16) % 256 = x
         /\ (16 * ((x % 4) * 16 + (y \div 16)) + ((y % 16) * 4) \div 4) % 256 = y
BY DEF Byte

(* How many values there are.                                              *)
LEMMA Counts64 ==
  ASSUME NEW l \in Nat
  PROVE  /\ Count64(l) \in Nat
         /\ \E q \in Nat, r \in 0..2 : l = 3*q + r /\ Count64(l) = 4*q + (IF r = 0 THEN 0 ELSE r + 1)
                                     /\ (l + 2) \div 3 = q + (IF r = 0 THEN 0 ELSE 1)
<1>1. PICK q \in Nat, r \in 0..2 : l = 3*q + r /\ q = l \div 3 /\ r = l % 3
  OBVIOUS
<1>2. Count64(l) = 4*q + (IF r = 0 THEN 0 ELSE r + 1)
  BY <1>1 DEF Count64
<1>3. (l + 2) \div 3 = q + (IF r = 0 THEN 0 ELSE 1)
  BY <1>1
<1>4. 4*q + (IF r = 0 THEN 0 ELSE r + 1) \in Nat
  OBVIOUS
<1> QED BY <1>1, <1>2, <1>3, <1>4

(* The values of a sequence of bytes are values of six bits.               *)
LEMMA SixBitsAre ==
  ASSUME NEW data \in Seq(Byte)
  PROVE  /\ \A g \in Nat : \A j \in 0..3 : Six(data, g, j) \in 0..63
         /\ SixBits(data) \in [1..Count64(Len(data)) -> 0..63]
<1>1. ASSUME NEW g \in Nat, NEW j \in 0..3 PROVE Six(data, g, j) \in 0..63
  <2>1. PICK x \in Byte, y \in Byte, z \in Byte :
          x = At(data, 3*g + 1) /\ y = At(data, 3*g + 2) /\ z = At(data, 3*g + 3)
    <3>1. 3*g + 1 \in Nat /\ 3*g + 2 \in Nat /\ 3*g + 3 \in Nat
      OBVIOUS
    <3> QED BY <3>1, BytesOrZero
  <2>2. Four(x, y, z, j) \in 0..63
    BY ThreeBytes DEF Four
  <2> QED BY <2>1, <2>2 DEF Six
<1>2. ASSUME NEW k \in 1..Count64(Len(data))
      PROVE  (k - 1) \div 4 \in Nat /\ (k - 1) % 4 \in 0..3
  <2>1. Len(data) \in Nat /\ Count64(Len(data)) \in Nat
    BY Counts64
  <2> QED BY <2>1
<1> QED BY <1>1, <1>2 DEF SixBits

(* Four values make the three bytes again.                                 *)
LEMMA Regrouped ==
  ASSUME NEW data \in Seq(Byte), NEW k \in 1..Len(data)
  PROVE  LET g == (k - 1) \div 3 IN
         decodeblock([i \in 1..4 |-> At(SixBits(data), 4 * g + i)])[((k - 1) % 3) + 1] = data[k]
<1>1. PICK l \in Nat : l = Len(data)
  OBVIOUS
<1>2. PICK q \in Nat, r \in 0..2 : l = 3*q + r /\ Count64(l) = 4*q + (IF r = 0 THEN 0 ELSE r + 1)
  BY Counts64
<1>3. PICK g \in Nat, j \in 0..2 : g = (k - 1) \div 3 /\ j = (k - 1) % 3 /\ k = 3*g + j + 1
  BY <1>1
<1>4. PICK x \in Byte, y \in Byte, z \in Byte :
        x = At(data, 3*g + 1) /\ y = At(data, 3*g + 2) /\ z = At(data, 3*g + 3)
  <2>1. 3*g + 1 \in Nat /\ 3*g + 2 \in Nat /\ 3*g + 3 \in Nat
    OBVIOUS
  <2> QED BY <2>1, BytesOrZero
<1>5. PICK v : v = SixBits(data)
  OBVIOUS
<1>6. DOMAIN v = 1..Count64(l) /\ Count64(l) \in Nat
  BY <1>1, <1>5, Counts64 DEF SixBits
<1>7. ASSUME NEW i \in 1..4, 4*g + i <= Count64(l)
      PROVE  At(v, 4*g + i) = Four(x, y, z, i - 1)
  <2>1. 4*g + i \in 1..Count64(l)
    BY <1>6, <1>7
  <2>2. (4*g + i - 1) \div 4 = g /\ (4*g + i - 1) % 4 = i - 1
    OBVIOUS
  <2>3. v[4*g + i] = Six(data, g, i - 1)
    BY <1>1, <1>5, <2>1, <2>2 DEF SixBits
  <2> QED BY <1>4, <1>6, <2>1, <2>3 DEF At, Six
<1>8. PICK in : in = [i \in 1..4 |-> At(v, 4 * g + i)]
  OBVIOUS
<1>9. decodeblock(in) = << (4 * in[1] + in[2] \div 16) % 256, (16 * in[2] + in[3] \div 4) % 256,
                           (64 * in[3] + in[4]) % 256 >>
  BY DEF decodeblock
<1>10. CASE j = 0
  <2>1. 4*g + 1 <= Count64(l) /\ 4*g + 2 <= Count64(l)
    BY <1>1, <1>2, <1>3, <1>10
  <2>2. in[1] = x \div 4 /\ in[2] = (x % 4) * 16 + (y \div 16)
    <3>1. At(v, 4*g + 1) = Four(x, y, z, 1 - 1) /\ At(v, 4*g + 2) = Four(x, y, z, 2 - 1)
      BY <1>7, <2>1
    <3>2. in[1] = At(v, 4*g + 1) /\ in[2] = At(v, 4*g + 2)
      BY <1>8
    <3> QED BY <3>1, <3>2 DEF Four
  <2>3. decodeblock(in)[1] = x
    BY <1>9, <2>2, ThreeBytes
  <2>4. x = data[k]
    BY <1>1, <1>3, <1>4, <1>10 DEF At
  <2>5. g = (k - 1) \div 3 /\ ((k - 1) % 3) + 1 = 1
    BY <1>3, <1>10
  <2>6. decodeblock(in)[((k - 1) % 3) + 1] = data[k]
    BY <2>3, <2>4, <2>5
  <2> QED BY <1>5, <1>8, <2>5, <2>6, Zenon
<1>11. CASE j = 1
  <2>1. 4*g + 2 <= Count64(l) /\ 4*g + 3 <= Count64(l)
    BY <1>1, <1>2, <1>3, <1>11
  <2>2. in[2] = (x % 4) * 16 + (y \div 16) /\ in[3] = (y % 16) * 4 + (z \div 64)
    <3>1. At(v, 4*g + 2) = Four(x, y, z, 2 - 1) /\ At(v, 4*g + 3) = Four(x, y, z, 3 - 1)
      BY <1>7, <2>1
    <3>2. in[2] = At(v, 4*g + 2) /\ in[3] = At(v, 4*g + 3)
      BY <1>8
    <3> QED BY <3>1, <3>2 DEF Four
  <2>3. decodeblock(in)[2] = y
    BY <1>9, <2>2, ThreeBytes
  <2>4. y = data[k]
    BY <1>1, <1>3, <1>4, <1>11 DEF At
  <2>5. g = (k - 1) \div 3 /\ ((k - 1) % 3) + 1 = 2
    BY <1>3, <1>11
  <2>6. decodeblock(in)[((k - 1) % 3) + 1] = data[k]
    BY <2>3, <2>4, <2>5
  <2> QED BY <1>5, <1>8, <2>5, <2>6, Zenon
<1>12. CASE j = 2
  <2>1. 4*g + 3 <= Count64(l) /\ 4*g + 4 <= Count64(l)
    BY <1>1, <1>2, <1>3, <1>12
  <2>2. in[3] = (y % 16) * 4 + (z \div 64) /\ in[4] = z % 64
    <3>1. At(v, 4*g + 3) = Four(x, y, z, 3 - 1) /\ At(v, 4*g + 4) = Four(x, y, z, 4 - 1)
      BY <1>7, <2>1
    <3>2. in[3] = At(v, 4*g + 3) /\ in[4] = At(v, 4*g + 4)
      BY <1>8
    <3> QED BY <3>1, <3>2 DEF Four
  <2>3. decodeblock(in)[3] = z
    BY <1>9, <2>2, ThreeBytes
  <2>4. z = data[k]
    BY <1>1, <1>3, <1>4, <1>12 DEF At
  <2>5. g = (k - 1) \div 3 /\ ((k - 1) % 3) + 1 = 3
    BY <1>3, <1>12
  <2>6. decodeblock(in)[((k - 1) % 3) + 1] = data[k]
    BY <2>3, <2>4, <2>5
  <2> QED BY <1>5, <1>8, <2>5, <2>6, Zenon
<1> QED BY <1>10, <1>11, <1>12

(* The bytes of all values are the data.                                   *)
LEMMA BlocksReturn ==
  ASSUME NEW data \in Seq(Byte)
  PROVE  Blocks(SixBits(data)) = data
<1>1. PICK l \in Nat : l = Len(data)
  OBVIOUS
<1>2. PICK q \in Nat, r \in 0..2 : l = 3*q + r /\ Count64(l) = 4*q + (IF r = 0 THEN 0 ELSE r + 1)
  BY Counts64
<1>3. PICK v : v = SixBits(data)
  OBVIOUS
<1>4. Len(v) = Count64(l)
  <2>1. PICK m \in Nat : m = Count64(l)
    BY Counts64
  <2>2. v \in [1..m -> 0..63]
    BY <1>1, <1>3, <2>1, SixBitsAre
  <2>3. Len(v) = m
    BY <2>1, <2>2
  <2> QED BY <2>1, <2>3
<1>5. PICK m \in Nat : m = Count64(l)
  BY Counts64
<1>6. (3 * (m \div 4)) + (IF m % 4 > 0 THEN (m % 4) - 1 ELSE 0) = l
  BY <1>2, <1>5
<1>7. Blocks(v) = [k \in 1..l |-> decodeblock([i \in 1..4 |-> At(v, 4 * ((k - 1) \div 3) + i)])[((k - 1) % 3) + 1]]
  BY <1>4, <1>5, <1>6 DEF Blocks
<1>8. \A k \in 1..l : decodeblock([i \in 1..4 |-> At(v, 4 * ((k - 1) \div 3) + i)])[((k - 1) % 3) + 1] = data[k]
  BY <1>1, <1>3, Regrouped
<1>9. Blocks(v) = [k \in 1..l |-> data[k]]
  BY <1>7, <1>8
<1>10. data = [k \in 1..l |-> data[k]]
  BY <1>1
<1> QED BY <1>3, <1>9, <1>10

(* The k-th character between the braces: a letter, or padding.            *)
Letter64(data, k) == IF k <= Count64(Len(data)) THEN cb64(SixBits(data)[k]) ELSE 61

(* Two sequences, one after the other.                                     *)
LEMMA Joined ==
  ASSUME NEW s \in Seq(Nat), NEW b \in Seq(Nat)
  PROVE  /\ s \o b \in Seq(Nat) /\ Len(s \o b) = Len(s) + Len(b)
         /\ \A i \in 1..Len(s) : (s \o b)[i] = s[i]
         /\ \A j \in 1..Len(b) : (s \o b)[Len(s) + j] = b[j]
OBVIOUS

(* A block is four of them.                                                *)
LEMMA Block64 ==
  ASSUME NEW data \in Seq(Byte), NEW g \in Nat, 3*g < Len(data)
  PROVE  /\ Block(data, 3*g) \in Seq(Nat) /\ Len(Block(data, 3*g)) = 4
         /\ \A j \in 1..4 : Block(data, 3*g)[j] = Letter64(data, 4*g + j)
<1>1. PICK l \in Nat : l = Len(data) /\ 3*g < l
  OBVIOUS
<1>2. PICK q \in Nat, r \in 0..2 : l = 3*q + r /\ Count64(l) = 4*q + (IF r = 0 THEN 0 ELSE r + 1)
  BY Counts64
<1>3. PICK x \in Byte, y \in Byte, z \in Byte :
        x = At(data, 3*g + 1) /\ y = At(data, 3*g + 2) /\ z = At(data, 3*g + 3)
  <2>1. 3*g + 1 \in Nat /\ 3*g + 2 \in Nat /\ 3*g + 3 \in Nat
    OBVIOUS
  <2> QED BY <2>1, BytesOrZero
<1>4. PICK v : v = SixBits(data)
  OBVIOUS
<1>5. PICK n \in Nat : n = Count64(l)
  BY Counts64
<1>6. ASSUME NEW i \in 1..4, 4*g + i <= n
      PROVE  v[4*g + i] = Four(x, y, z, i - 1)
  <2>1. 4*g + i \in 1..n
    BY <1>6
  <2>2. (4*g + i - 1) \div 4 = g /\ (4*g + i - 1) % 4 = i - 1
    OBVIOUS
  <2>0. \A k \in 1..n : v[k] = Six(data, (k - 1) \div 4, (k - 1) % 4)
    BY <1>1, <1>4, <1>5 DEF SixBits
  <2>4. v[4*g + i] = Six(data, (4*g + i - 1) \div 4, (4*g + i - 1) % 4)
    BY <2>0, <2>1
  <2>3. v[4*g + i] = Six(data, g, i - 1)
    BY <2>2, <2>4, Zenon
  <2> QED BY <1>3, <2>3 DEF Six
<1>7. PICK len \in Int : len = IF l - 3*g >= 3 THEN 3 ELSE l - 3*g
  <2>1. (IF l - 3*g >= 3 THEN 3 ELSE l - 3*g) \in Int
    OBVIOUS
  <2> QED BY <2>1
<1>8. /\ 4*g + 1 <= n /\ 4*g + 2 <= n
      /\ len > 1 <=> 4*g + 3 <= n
      /\ len > 2 <=> 4*g + 4 <= n
  BY <1>1, <1>2, <1>5, <1>7
<1>9. PICK b : b = Block(data, 3*g)
  OBVIOUS
<1>10. b = << cb64(x \div 4), cb64((x % 4) * 16 + (y \div 16)),
              IF len > 1 THEN cb64((y % 16) * 4 + (z \div 64)) ELSE 61,
              IF len > 2 THEN cb64(z % 64) ELSE 61 >>
  <2>1. PICK in : in = [i \in 1..3 |-> At(data, 3*g + i)]
    OBVIOUS
  <2>2. in[1] = x /\ in[2] = y /\ in[3] = z
    BY <1>3, <2>1
  <2>3. b = encodeblock(in, len)
    BY <1>1, <1>7, <1>9, <2>1 DEF Block
  <2> QED BY <2>2, <2>3 DEF encodeblock
<1>11. /\ cb64(x \div 4) \in Nat /\ cb64((x % 4) * 16 + (y \div 16)) \in Nat
       /\ cb64((y % 16) * 4 + (z \div 64)) \in Nat /\ cb64(z % 64) \in Nat
  <2>1. /\ x \div 4 \in 0..63 /\ (x % 4) * 16 + (y \div 16) \in 0..63
        /\ (y % 16) * 4 + (z \div 64) \in 0..63 /\ z % 64 \in 0..63
    BY ThreeBytes
  <2> QED BY <2>1, Letters64
<1>12. b \in Seq(Nat) /\ Len(b) = 4
  BY <1>10, <1>11
<1>13. b[1] = cb64(v[4*g + 1]) /\ b[2] = cb64(v[4*g + 2])
  <2>1. v[4*g + 1] = Four(x, y, z, 1 - 1) /\ v[4*g + 2] = Four(x, y, z, 2 - 1)
    BY <1>6, <1>8
  <2>2. v[4*g + 1] = x \div 4 /\ v[4*g + 2] = (x % 4) * 16 + (y \div 16)
    BY <2>1 DEF Four
  <2> QED BY <1>10, <2>2
<1>14. b[3] = IF 4*g + 3 <= n THEN cb64(v[4*g + 3]) ELSE 61
  <2>1. 4*g + 3 <= n => v[4*g + 3] = Four(x, y, z, 3 - 1)
    BY <1>6
  <2>2. 4*g + 3 <= n => v[4*g + 3] = (y % 16) * 4 + (z \div 64)
    BY <2>1 DEF Four
  <2> QED BY <1>8, <1>10, <2>2
<1>15. b[4] = IF 4*g + 4 <= n THEN cb64(v[4*g + 4]) ELSE 61
  <2>1. 4*g + 4 <= n => v[4*g + 4] = Four(x, y, z, 4 - 1)
    BY <1>6
  <2>2. 4*g + 4 <= n => v[4*g + 4] = z % 64
    BY <2>1 DEF Four
  <2> QED BY <1>8, <1>10, <2>2
<1>16. \A j \in 1..4 : b[j] = Letter64(data, 4*g + j)
  <2>1. \A j \in 1..4 : b[j] = IF 4*g + j <= n THEN cb64(v[4*g + j]) ELSE 61
    <3>1. \A j \in 1..4 : j = 1 \/ j = 2 \/ j = 3 \/ j = 4
      OBVIOUS
    <3> QED BY <1>8, <1>13, <1>14, <1>15, <3>1
  <2> QED BY <1>1, <1>4, <1>5, <2>1 DEF Letter64
<1> QED BY <1>9, <1>12, <1>16

(* What is written after i blocks.                                         *)
Written64(data, i, s) ==
  s \in Seq(Nat) /\ Len(s) = 4*i + 1 /\ s[1] = 123 /\ \A k \in 1..4*i : s[k+1] = Letter64(data, k)

(* A block more.                                                           *)
LEMMA BlockMore ==
  ASSUME NEW data \in Seq(Byte), NEW i \in Nat, 3*i < Len(data), NEW s, Written64(data, i, s)
  PROVE  Written64(data, i + 1, s \o Block(data, 3*i))
<1>1. PICK b \in Seq(Nat) : b = Block(data, 3*i) /\ Len(b) = 4 /\ \A j \in 1..4 : b[j] = Letter64(data, 4*i + j)
  BY Block64
<1>2. s \in Seq(Nat) /\ Len(s) = 4*i + 1 /\ s[1] = 123 /\ \A k \in 1..4*i : s[k+1] = Letter64(data, k)
  BY DEF Written64
<1>3. PICK t : t = s \o b
  OBVIOUS
<1>6. PICK m \in Nat : m = Len(s) /\ m = 4*i + 1
  BY <1>2
<1>7. /\ t \in Seq(Nat) /\ Len(t) = m + 4 /\ \A h \in 1..m : t[h] = s[h]
      /\ \A j \in 1..4 : t[m + j] = b[j]
  <2>1. Len(b) = 4 /\ Len(s) = m
    BY <1>1, <1>6
  <2>2. t \in Seq(Nat) /\ Len(t) = Len(s) + Len(b)
    BY <1>2, <1>3, Joined
  <2>4. /\ \A h \in 1..Len(s) : (s \o b)[h] = s[h]
        /\ \A j \in 1..Len(b) : (s \o b)[Len(s) + j] = b[j]
    <3>1. s \in Seq(Nat) /\ b \in Seq(Nat)
      BY <1>2
    <3> QED BY <3>1, Joined, Zenon
  <2>3. (\A h \in 1..Len(s) : t[h] = s[h]) /\ \A j \in 1..Len(b) : t[Len(s) + j] = b[j]
    BY <1>3, <2>4, Zenon
  <2> QED BY <2>1, <2>2, <2>3
<1>4. t \in Seq(Nat) /\ Len(t) = 4*(i + 1) + 1 /\ t[1] = 123
  BY <1>2, <1>6, <1>7
<1>5. ASSUME NEW k \in 1..4*(i+1) PROVE t[k+1] = Letter64(data, k)
  <2>1. CASE k <= 4*i
    <3>1. k + 1 \in 1..m /\ k \in 1..4*i
      BY <1>6, <2>1
    <3>2. t[k+1] = s[k+1]
      BY <1>7, <3>1
    <3> QED BY <1>2, <3>1, <3>2
  <2>2. CASE k > 4*i
    <3>1. PICK j \in 1..4 : k = 4*i + j
      <4>1. k - 4*i \in 1..4 /\ k = 4*i + (k - 4*i)
        BY <2>2
      <4> QED BY <4>1
    <3>2. t[m + j] = b[j]
      BY <1>7
    <3>3. k + 1 = m + j
      BY <1>6, <3>1
    <3>4. t[k+1] = b[j]
      BY <3>2, <3>3
    <3> QED BY <1>1, <3>1, <3>4
  <2> QED BY <2>1, <2>2
<1> QED BY <1>1, <1>3, <1>4, <1>5 DEF Written64

(* The whole text.                                                         *)
Text64(data, n, t) ==
  /\ t \in Seq(Nat) /\ Len(t) = 4*n + 2 /\ t[1] = 123 /\ t[4*n + 2] = 125
  /\ \A k \in 1..4*n : t[k+1] = Letter64(data, k)

(* What b64estr writes begins with a brace, ends with one, and has the     *)
(* letters of the blocks between.                                          *)
LEMMA Texts64 ==
  ASSUME NEW data \in Seq(Byte), data # <<>>
  PROVE  \E n \in Nat : n = (Len(data) + 2) \div 3 /\ Text64(data, n, b64estr(data))
<1> DEFINE Is(s) == s = [i \in 0..(Len(data) + 2) \div 3 |->
                           IF i = 0 THEN <<123>> ELSE s[i-1] \o Block(data, 3 * (i - 1))]
           w == CHOOSE s : Is(s)
           X == Seq(Nat)
           step == [s \in Nat \X X |-> IF 3 * (s[1] - 1) < Len(data) /\ s[1] > 0
                                         THEN s[2] \o Block(data, 3 * (s[1] - 1)) ELSE <<123>>]
<1>0. b64estr(data) = Append(w[(Len(data) + 2) \div 3], 125)
  BY DEF b64estr
<1>1. PICK l \in Nat : l = Len(data)
  OBVIOUS
<1>2. PICK n \in Nat : n = (Len(data) + 2) \div 3 /\ \A i \in 1..n : i - 1 \in Nat /\ 3 * (i - 1) < l
  <2>1. (l + 2) \div 3 \in Nat /\ \A i \in 1..((l + 2) \div 3) : i - 1 \in Nat /\ 3 * (i - 1) < l
    OBVIOUS
  <2> QED BY <1>1, <2>1
<1>3. <<123>> \in X
  OBVIOUS
<1> HIDE DEF X
<1>4. step \in Steps(X)
  <2>1. ASSUME NEW a \in Nat, NEW s \in X, a > 0, 3 * (a - 1) < Len(data)
        PROVE  s \o Block(data, 3 * (a - 1)) \in X
    <3>1. a - 1 \in Nat
      BY <2>1
    <3>2. Block(data, 3 * (a - 1)) \in Seq(Nat)
      BY <2>1, <3>1, Block64
    <3> QED BY <2>1, <3>2 DEF X
  <2>2. \A s \in Nat \X X : step[s] \in X
    BY <1>3, <2>1
  <2> QED BY <2>2 DEF Steps
<1>5. ASSUME NEW i \in 1..n, NEW x \in X PROVE step[<<i, x>>] = x \o Block(data, 3 * (i - 1))
  <2>1. i \in Nat /\ i > 0 /\ 3 * (i - 1) < Len(data)
    BY <1>1, <1>2
  <2>2. <<i, x>> \in Nat \X X /\ <<i, x>>[1] = i /\ <<i, x>>[2] = x
    BY <2>1
  <2> QED BY <2>1, <2>2, Zenon
<1> HIDE DEF step
<1>6. PICK f : Iterates(f, n, X, <<123>>, step)
  BY <1>3, <1>4, IteratesExist
<1>7. Is(f)
  <2>1. f \in [0..n -> X] /\ f[0] = <<123>> /\ \A i \in 1..n : f[i] = step[<<i, f[i-1]>>]
    BY <1>6 DEF Iterates
  <2>2. \A i \in 1..n : f[i] = f[i-1] \o Block(data, 3 * (i - 1))
    <3> TAKE i \in 1..n
    <3>1. f[i-1] \in X
      BY <2>1
    <3> QED BY <1>5, <2>1, <3>1
  <2>3. \A i \in 0..n : f[i] = IF i = 0 THEN <<123>> ELSE f[i-1] \o Block(data, 3 * (i - 1))
    <3> TAKE i \in 0..n
    <3>1. i = 0 \/ i \in 1..n
      OBVIOUS
    <3> QED BY <2>1, <2>2, <3>1
  <2>4. f = [i \in 0..n |-> IF i = 0 THEN <<123>> ELSE f[i-1] \o Block(data, 3 * (i - 1))]
    BY <2>1, <2>3
  <2> QED BY <1>2, <2>4
<1>8. Is(w)
  BY <1>7
<1> HIDE DEF w
<1>9. w[0] = <<123>> /\ \A i \in 1..n : w[i] = w[i-1] \o Block(data, 3 * (i - 1))
  <2>1. w = [i \in 0..n |-> IF i = 0 THEN <<123>> ELSE w[i-1] \o Block(data, 3 * (i - 1))]
    BY <1>2, <1>8
  <2>2. \A i \in 0..n : w[i] = IF i = 0 THEN <<123>> ELSE w[i-1] \o Block(data, 3 * (i - 1))
    BY <2>1
  <2>3. 0 \in 0..n /\ \A i \in 1..n : i \in 0..n /\ i # 0
    OBVIOUS
  <2> QED BY <2>2, <2>3
<1>10. \A i \in 0..n : Written64(data, i, w[i])
  <2> DEFINE T == {i \in 0..n : Written64(data, i, w[i])}
  <2>1. 0 \in T
    <3>1. <<123>> \in Seq(Nat) /\ Len(<<123>>) = 4*0 + 1 /\ <<123>>[1] = 123
      OBVIOUS
    <3>2. \A k \in 1..4*0 : FALSE
      OBVIOUS
    <3>3. Written64(data, 0, <<123>>)
      BY <3>1, <3>2 DEF Written64
    <3>4. 0 \in 0..n
      OBVIOUS
    <3> QED BY <1>9, <3>3, <3>4
  <2>2. ASSUME NEW i \in 1..n, i - 1 \in T PROVE i \in T
    <3>1. Written64(data, i - 1, w[i-1]) /\ i - 1 \in Nat /\ 3 * (i - 1) < Len(data)
      BY <1>1, <1>2, <2>2
    <3>2. Written64(data, (i - 1) + 1, w[i-1] \o Block(data, 3 * (i - 1)))
      BY <3>1, BlockMore
    <3>3. (i - 1) + 1 = i
      OBVIOUS
    <3>4. w[i] = w[i-1] \o Block(data, 3 * (i - 1))
      BY <1>9
    <3>5. Written64(data, i, w[i])
      BY <3>2, <3>3, <3>4, Zenon
    <3>6. i \in 0..n
      OBVIOUS
    <3> QED BY <3>5, <3>6
  <2> HIDE DEF T
  <2>3. \A i \in 0..n : i \in T
    BY <2>1, <2>2, UpTo
  <2> QED BY <2>3 DEF T
<1>11. PICK s \in Seq(Nat) : s = w[n] /\ Len(s) = 4*n + 1 /\ s[1] = 123 /\ \A k \in 1..4*n : s[k+1] = Letter64(data, k)
  <2>1. Written64(data, n, w[n])
    BY <1>10
  <2> QED BY <2>1 DEF Written64
<1>12. b64estr(data) = Append(s, 125)
  BY <1>0, <1>2, <1>11
<1>13. PICK t : t = Append(s, 125)
  OBVIOUS
<1>14. t \in Seq(Nat) /\ Len(t) = 4*n + 2 /\ t[1] = 123 /\ t[4*n + 2] = 125
  BY <1>11, <1>13
<1>15. ASSUME NEW k \in 1..4*n PROVE t[k+1] = Letter64(data, k)
  <2>1. k + 1 \in 1..Len(s)
    <3>1. Len(s) = 4*n + 1
      BY <1>11
    <3> QED BY <3>1, SMTT(30)
  <2>2. t[k+1] = s[k+1]
    BY <1>11, <1>13, <2>1
  <2> QED BY <1>11, <2>2
<1>16. Text64(data, n, t)
  BY <1>14, <1>15 DEF Text64
<1> QED BY <1>2, <1>12, <1>13, <1>16

(* A state of the scan: whether a brace is open, and the values so far.    *)
Scanning == [p : BOOLEAN, values : Seq(Int)]
ScanStep(before, c) ==
  LET p == c = 123 \/ (before.p /\ c # 125)
  IN [p |-> p, values |-> IF p /\ cd64(c) # -1 THEN Append(before.values, cd64(c)) ELSE before.values]
ScanRun(w, t) ==
  /\ w[0] = [p |-> FALSE, values |-> <<>>]
  /\ \A i \in 1..Len(t) : w[i] = ScanStep(w[i-1], t[i])

(* What a character does to the scan.                                      *)
LEMMA ScanSteps ==
  ASSUME NEW s, NEW c \in Nat
  PROVE  /\ cd64(c) \in Int
         /\ c = 123 => ScanStep(s, c) = [p |-> TRUE, values |-> s.values]
         /\ c = 125 => ScanStep(s, c) = [p |-> FALSE, values |-> s.values]
         /\ s.p = TRUE /\ c # 125 /\ cd64(c) # -1
              => ScanStep(s, c) = [p |-> TRUE, values |-> Append(s.values, cd64(c))]
         /\ s.p = TRUE /\ c # 125 /\ cd64(c) = -1 => ScanStep(s, c) = [p |-> TRUE, values |-> s.values]
<1>1. cd64(c) \in Int
  <2>1. CASE c \in 65..90
    BY <2>1 DEF cd64
  <2>2. CASE c \in 97..122
    BY <2>2 DEF cd64
  <2>3. CASE c \in 48..57
    BY <2>3 DEF cd64
  <2>4. CASE c = 43 \/ c = 47
    BY <2>4 DEF cd64
  <2>5. CASE c \notin 65..90 /\ c \notin 97..122 /\ c \notin 48..57 /\ c # 43 /\ c # 47
    BY <2>5 DEF cd64
  <2> QED BY <2>1, <2>2, <2>3, <2>4, <2>5
<1> DEFINE open == c = 123 \/ (s.p /\ c # 125)
<1>2. ScanStep(s, c) = [p |-> open, values |-> IF open /\ cd64(c) # -1 THEN Append(s.values, cd64(c)) ELSE s.values]
  BY Zenon DEF ScanStep
<1>3. cd64(123) = -1
  BY DEF cd64
<1>4. (c = 123 => open = TRUE) /\ (c = 125 => open = FALSE) /\ (s.p = TRUE /\ c # 125 => open = TRUE)
  <2>1. 125 # 123
    OBVIOUS
  <2> QED BY <2>1, Zenon
<1> HIDE DEF open
<1>5. c = 123 => ScanStep(s, c) = [p |-> TRUE, values |-> s.values]
  BY <1>2, <1>3, <1>4, Zenon
<1>6. c = 125 => ScanStep(s, c) = [p |-> FALSE, values |-> s.values]
  BY <1>2, <1>4, Zenon
<1>7. s.p = TRUE /\ c # 125 /\ cd64(c) # -1
        => ScanStep(s, c) = [p |-> TRUE, values |-> Append(s.values, cd64(c))]
  BY <1>2, <1>4, Zenon
<1>8. s.p = TRUE /\ c # 125 /\ cd64(c) = -1 => ScanStep(s, c) = [p |-> TRUE, values |-> s.values]
  BY <1>2, <1>4, Zenon
<1> QED BY <1>1, <1>5, <1>6, <1>7, <1>8

(* The scan goes through the text character by character.                  *)
LEMMA ScanRuns ==
  ASSUME NEW t \in Seq(Nat)
  PROVE  \E w : ScanRun(w, t) /\ Scan(t) = w[Len(t)]
<1> DEFINE n == Len(t)
           x0 == [p |-> FALSE, values |-> <<>>]
           Is(s) == s = [i \in 0..n |->
                           IF i = 0 THEN [p |-> FALSE, values |-> <<>>]
                           ELSE [p |-> t[i] = 123 \/ (s[i-1].p /\ t[i] # 125),
                                 values |-> IF (t[i] = 123 \/ (s[i-1].p /\ t[i] # 125)) /\ cd64(t[i]) # -1
                                              THEN Append(s[i-1].values, cd64(t[i])) ELSE s[i-1].values]]
           w == CHOOSE s : Is(s)
           step == [s \in Nat \X Scanning |-> IF s[1] \in 1..n THEN ScanStep(s[2], t[s[1]]) ELSE x0]
<1>0. Scan(t) = w[n]
  BY DEF Scan
<1>1. n \in Nat /\ \A i \in 1..n : t[i] \in Nat
  OBVIOUS
<1>2. x0 \in Scanning
  BY DEF Scanning
<1>3. ASSUME NEW s \in Scanning, NEW c \in Nat PROVE ScanStep(s, c) \in Scanning
  <2>1. s.p \in BOOLEAN /\ s.values \in Seq(Int)
    BY DEF Scanning
  <2>2. cd64(c) \in Int
    BY ScanSteps
  <2>3. Append(s.values, cd64(c)) \in Seq(Int)
    BY <2>1, <2>2
  <2> QED BY <2>1, <2>3 DEF ScanStep, Scanning
<1> HIDE DEF n, x0
<1>4. step \in Steps(Scanning)
  <2>1. \A s \in Nat \X Scanning : s[1] \in Nat /\ s[2] \in Scanning
    OBVIOUS
  <2>2. \A s \in Nat \X Scanning : (IF s[1] \in 1..n THEN ScanStep(s[2], t[s[1]]) ELSE x0) \in Scanning
    BY <1>1, <1>2, <1>3, <2>1
  <2>3. \A s \in Nat \X Scanning : step[s] \in Scanning
    BY <2>2
  <2> QED BY <2>3 DEF Steps
<1>5. ASSUME NEW i \in 1..n, NEW x \in Scanning PROVE step[<<i, x>>] = ScanStep(x, t[i])
  <2>1. <<i, x>> \in Nat \X Scanning /\ <<i, x>>[1] = i /\ <<i, x>>[2] = x
    BY <1>1
  <2> QED BY <2>1, Zenon
<1> HIDE DEF step
<1>6. PICK f : Iterates(f, n, Scanning, x0, step)
  BY <1>1, <1>2, <1>4, IteratesExist
<1>7. f \in [0..n -> Scanning] /\ f[0] = x0 /\ \A i \in 1..n : f[i] = ScanStep(f[i-1], t[i])
  <2>1. f \in [0..n -> Scanning] /\ f[0] = x0 /\ \A i \in 1..n : f[i] = step[<<i, f[i-1]>>]
    BY <1>6 DEF Iterates
  <2>2. \A i \in 1..n : f[i] = ScanStep(f[i-1], t[i])
    <3> TAKE i \in 1..n
    <3>1. f[i-1] \in Scanning
      BY <1>1, <2>1
    <3>2. step[<<i, f[i-1]>>] = ScanStep(f[i-1], t[i])
      BY <1>5, <3>1
    <3>3. f[i] = step[<<i, f[i-1]>>]
      BY <2>1
    <3> QED BY <3>2, <3>3
  <2> QED BY <2>1, <2>2
<1> DEFINE Rule(s, i) == IF i = 0 THEN x0 ELSE ScanStep(s[i-1], t[i])
<1>8. \A s : Is(s) <=> s = [i \in 0..n |-> Rule(s, i)]
  BY Zenon DEF ScanStep, x0
<1>9. Is(f)
  <2>1. \A i \in 0..n : f[i] = Rule(f, i)
    <3> TAKE i \in 0..n
    <3>1. i = 0 \/ i \in 1..n
      BY <1>1
    <3> QED BY <1>7, <3>1
  <2> HIDE DEF Rule
  <2>2. f = [i \in 0..n |-> Rule(f, i)]
    BY <1>7, <2>1
  <2>3. Is(f) <=> f = [i \in 0..n |-> Rule(f, i)]
    BY <1>8, Zenon
  <2> HIDE DEF Is, Rule
  <2> QED BY <2>2, <2>3
<1> HIDE DEF Is
<1>10. Is(w)
  BY <1>9
<1> HIDE DEF w
<1>11. w[0] = x0 /\ \A i \in 1..n : w[i] = ScanStep(w[i-1], t[i])
  <2>1. w = [i \in 0..n |-> Rule(w, i)]
    BY <1>8, <1>10, Zenon
  <2>2. \A i \in 0..n : w[i] = Rule(w, i)
    <3> HIDE DEF Rule
    <3> QED BY <2>1
  <2>3. 0 \in 0..n /\ \A i \in 1..n : i \in 0..n /\ i # 0
    BY <1>1
  <2> QED BY <2>2, <2>3
<1> QED BY <1>0, <1>11 DEF ScanRun, x0, n

(* A sequence with one more element.                                       *)
LEMMA Appended ==
  ASSUME NEW s \in Seq(Int), NEW x \in Int
  PROVE  /\ Append(s, x) \in Seq(Int) /\ Len(Append(s, x)) = Len(s) + 1 /\ Append(s, x)[Len(s) + 1] = x
         /\ \A i \in 1..Len(s) : Append(s, x)[i] = s[i]
OBVIOUS

(* After i characters of a text between braces the scan has the values of  *)
(* its first i - 1 letters; the closing brace ends it.                     *)
LEMMA ScanReturns ==
  ASSUME NEW data \in Seq(Byte), NEW n \in Nat, Count64(Len(data)) <= 4*n, NEW t, Text64(data, n, t)
  PROVE  Scan(t) = [p |-> FALSE, values |-> SixBits(data)]
<1>1. t \in Seq(Nat) /\ Len(t) = 4*n + 2 /\ t[1] = 123 /\ t[4*n + 2] = 125
      /\ \A k \in 1..4*n : t[k+1] = Letter64(data, k)
  BY DEF Text64
<1>2. PICK w : ScanRun(w, t) /\ Scan(t) = w[Len(t)]
  BY <1>1, ScanRuns
<1>3. w[0] = [p |-> FALSE, values |-> <<>>] /\ \A i \in 1..4*n+2 : w[i] = ScanStep(w[i-1], t[i])
  BY <1>1, <1>2 DEF ScanRun
<1>4. PICK m \in Nat : m = Count64(Len(data)) /\ m <= 4*n
  BY Counts64
<1>5. PICK v \in [1..m -> 0..63] : v = SixBits(data)
  BY <1>4, SixBitsAre
<1> DEFINE Upto(i) == IF i - 1 <= m THEN i - 1 ELSE m
           Is(i, s) == /\ s.p = TRUE /\ s.values \in Seq(Int) /\ Len(s.values) = Upto(i)
                       /\ \A k \in 1..Upto(i) : s.values[k] = v[k]
           T == {i \in 0..4*n : Is(i + 1, w[i+1])}
<1>6. 0 \in T
  <2>1. 1 \in 1..4*n+2 /\ 1 - 1 = 0
    OBVIOUS
  <2>2. w[1] = ScanStep(w[0], t[1])
    BY <1>3, <2>1
  <2>3. cd64(123) = -1
    BY DEF cd64
  <2>4. w[1] = [p |-> TRUE, values |-> <<>>]
    <3>1. ScanStep(w[0], 123) = [p |-> TRUE, values |-> w[0].values]
      BY ScanSteps
    <3>2. w[0].values = <<>>
      BY <1>3
    <3> QED BY <1>1, <2>2, <3>1, <3>2
  <2>5. Upto(1) = 0
    BY <1>4
  <2>6. <<>> \in Seq(Int) /\ Len(<<>>) = 0 /\ \A k \in 1..0 : FALSE
    OBVIOUS
  <2>7. Is(1, w[1])
    BY <2>4, <2>5, <2>6
  <2> QED BY <2>7
<1>7. ASSUME NEW k \in 1..4*n, k - 1 \in T PROVE k \in T
  <2>1. Is(k, w[k])
    <3>1. (k - 1) + 1 = k
      OBVIOUS
    <3> QED BY <1>7, <3>1
  <2>2. PICK c : c = t[k+1] /\ c = Letter64(data, k)
    BY <1>1
  <2>3. w[k+1] = ScanStep(w[k], c)
    <3>1. k + 1 \in 1..4*n+2 /\ (k + 1) - 1 = k
      OBVIOUS
    <3> QED BY <1>3, <2>2, <3>1
  <2>4. PICK b \in Seq(Int) : b = w[k].values /\ Len(b) = Upto(k) /\ \A i \in 1..Upto(k) : b[i] = v[i]
    BY <2>1
  <2>5. w[k].p = TRUE
    BY <2>1
  <2>6. CASE k <= m
    <3>0. PICK u \in 0..63 : u = v[k]
      <4>1. k \in 1..m
        BY <1>4, <2>6
      <4>2. v[k] \in 0..63
        BY <4>1
      <4> QED BY <4>2
    <3>1. c = cb64(u)
      BY <1>4, <1>5, <2>2, <2>6, <3>0 DEF Letter64
    <3>2. c \in Nat /\ c # 123 /\ c # 125 /\ cd64(c) = u /\ u # -1 /\ u \in Int
      <4>1. cb64(u) \in Nat /\ cd64(cb64(u)) = u /\ cb64(u) # 123 /\ cb64(u) # 125
        BY Letters64
      <4> QED BY <3>1, <4>1
    <3>3. w[k+1] = [p |-> TRUE, values |-> Append(b, v[k])]
      <4>1. ScanStep(w[k], c) = [p |-> TRUE, values |-> Append(w[k].values, cd64(c))]
        BY <2>5, <3>2, ScanSteps
      <4> QED BY <2>3, <2>4, <3>0, <3>2, <4>1
    <3>4. Upto(k) = k - 1 /\ Upto(k+1) = k
      BY <1>4, <2>6
    <3>5. PICK a : a = Append(b, v[k])
      OBVIOUS
    <3>6. a \in Seq(Int) /\ Len(a) = k /\ \A i \in 1..k : a[i] = v[i]
      <4>1. PICK h \in Nat : h + 1 = k /\ Len(b) = h
        BY <2>4, <3>4
      <4>2. a \in Seq(Int) /\ Len(a) = h + 1 /\ a[h+1] = v[k] /\ \A i \in 1..h : a[i] = b[i]
        <5>1. u \in Int /\ a = Append(b, u)
          BY <3>0, <3>5
        <5>2. /\ Append(b, u) \in Seq(Int) /\ Len(Append(b, u)) = Len(b) + 1
              /\ Append(b, u)[Len(b) + 1] = u /\ \A i \in 1..Len(b) : Append(b, u)[i] = b[i]
          BY <5>1, Appended
        <5> QED BY <3>0, <4>1, <5>1, <5>2
      <4>3. \A i \in 1..k : i \in 1..h \/ i = k
        BY <4>1
      <4>4. \A i \in 1..h : a[i] = v[i]
        BY <2>4, <3>4, <4>1, <4>2
      <4> QED BY <4>1, <4>2, <4>3, <4>4
    <3>7. Is(k + 1, w[k+1])
      BY <3>3, <3>4, <3>5, <3>6
    <3> QED BY <3>7
  <2>7. CASE k > m
    <3>1. c = 61
      BY <1>4, <2>2, <2>7 DEF Letter64
    <3>2. w[k+1] = [p |-> TRUE, values |-> b]
      <4>1. ScanStep(w[k], 61) = [p |-> TRUE, values |-> w[k].values]
        <5>1. 61 \in Nat /\ 61 # 125 /\ cd64(61) = -1
          BY Letters64
        <5> QED BY <2>5, <5>1, ScanSteps
      <4> QED BY <2>3, <2>4, <3>1, <4>1
    <3>3. Upto(k) = m /\ Upto(k+1) = m
      BY <1>4, <2>7
    <3>4. Is(k + 1, w[k+1])
      BY <2>4, <3>2, <3>3
    <3> QED BY <3>4
  <2>8. k <= m \/ k > m
    BY <1>4
  <2> QED BY <2>6, <2>7, <2>8, Zenon
<1> HIDE DEF T
<1>8. \A i \in 0..4*n : i \in T
  <2>1. 4*n \in Nat
    OBVIOUS
  <2> QED BY <1>6, <1>7, <2>1, UpTo
<1>9. Is(4*n + 1, w[4*n + 1])
  <2>1. 4*n \in 0..4*n /\ 4*n \in Nat
    OBVIOUS
  <2> QED BY <1>8, <2>1 DEF T
<1>10. PICK b \in Seq(Int) : b = w[4*n+1].values /\ Len(b) = m /\ \A i \in 1..m : b[i] = v[i]
  <2>1. Upto(4*n+1) = m
    BY <1>4
  <2> QED BY <1>9, <2>1
<1>11. b = v
  <2>1. b \in [1..m -> Int]
    BY <1>10
  <2> QED BY <1>5, <1>10, <2>1
<1>12. w[4*n+2] = [p |-> FALSE, values |-> b]
  <2>1. 4*n+2 \in 1..4*n+2 /\ (4*n+2) - 1 = 4*n+1
    OBVIOUS
  <2>2. w[4*n+2] = ScanStep(w[4*n+1], 125)
    BY <1>1, <1>3, <2>1
  <2>3. ScanStep(w[4*n+1], 125) = [p |-> FALSE, values |-> w[4*n+1].values]
    BY ScanSteps
  <2> QED BY <1>10, <2>2, <2>3
<1> QED BY <1>1, <1>2, <1>5, <1>11, <1>12

(* What b64estr writes of a string of bytes, b64dstr reads as that string  *)
(* if there is room for it, and refuses if there is not.                   *)
THEOREM Base64Returns ==
  ASSUME NEW data \in Seq(Byte), data # <<>>, NEW maxlen \in Nat
  PROVE  b64dstr(b64estr(data), maxlen) =
           IF Len(data) <= maxlen THEN [retcode |-> Len(data), data |-> data]
                                  ELSE [retcode |-> -1, data |-> <<>>]
<1>1. PICK n \in Nat : n = (Len(data) + 2) \div 3 /\ Text64(data, n, b64estr(data))
  BY Texts64
<1>2. Count64(Len(data)) <= 4*n
  <2>1. PICK l \in Nat : l = Len(data)
    OBVIOUS
  <2>2. PICK q \in Nat, r \in 0..2 : /\ l = 3*q + r /\ Count64(l) = 4*q + (IF r = 0 THEN 0 ELSE r + 1)
                                     /\ (l + 2) \div 3 = q + (IF r = 0 THEN 0 ELSE 1)
    BY Counts64
  <2> QED BY <1>1, <2>1, <2>2
<1>3. Scan(b64estr(data)) = [p |-> FALSE, values |-> SixBits(data)]
  BY <1>1, <1>2, ScanReturns
<1>4. Blocks(SixBits(data)) = data
  BY BlocksReturn
<1>5. Len(data) <= maxlen <=> ~ (Len(data) > maxlen)
  OBVIOUS
<1> QED BY <1>3, <1>4, <1>5 DEF b64dstr

-----------------------------------------------------------------------------
(* Base32.  The k-th five bits of ten bytes.                               *)
Divisor32(m) == 2^(11 - m)
Quintet(src, k) ==
  LET bit == 5 * k
      v == 256 * src[(bit \div 8) + 1] + At(src, (bit \div 8) + 2)
  IN (v \div Divisor32(bit % 8)) % 32

(* The powers of two that base32_encode divides by.                        *)
LEMMA Divisors32 ==
  /\ Divisor32(0) = 2048 /\ Divisor32(1) = 1024 /\ Divisor32(2) = 512 /\ Divisor32(3) = 256
  /\ Divisor32(4) = 128 /\ Divisor32(5) = 64 /\ Divisor32(6) = 32 /\ Divisor32(7) = 16
  /\ \A m \in 0..7 : Divisor32(m) \in Nat \ {0}
<1>1. /\ Divisor32(0) = 2048 /\ Divisor32(1) = 1024 /\ Divisor32(2) = 512 /\ Divisor32(3) = 256
      /\ Divisor32(4) = 128 /\ Divisor32(5) = 64 /\ Divisor32(6) = 32 /\ Divisor32(7) = 16
  <2>1. /\ 11 - 0 = 11 /\ 11 - 1 = 10 /\ 11 - 2 = 9 /\ 11 - 3 = 8 /\ 11 - 4 = 7 /\ 11 - 5 = 6
        /\ 11 - 6 = 5 /\ 11 - 7 = 4
    OBVIOUS
  <2>2. /\ 2^11 = 2048 /\ 2^10 = 1024 /\ 2^9 = 512 /\ 2^8 = 256 /\ 2^7 = 128 /\ 2^6 = 64 /\ 2^5 = 32
        /\ 2^4 = 16
    OBVIOUS
  <2> QED BY <2>1, <2>2 DEF Divisor32
<1>2. \A m \in 0..7 : m \in {0, 1, 2, 3, 4, 5, 6, 7}
  OBVIOUS
<1> QED BY <1>1, <1>2

(* Five bytes and the one after them, as eight times five bits.            *)
Quintets(u, a, b, c, d, e, f) ==
  /\ u[0] = ((256 * a + b) \div 2048) % 32 /\ u[1] = ((256 * a + b) \div 64) % 32
  /\ u[2] = ((256 * b + c) \div 512) % 32 /\ u[3] = ((256 * b + c) \div 16) % 32
  /\ u[4] = ((256 * c + d) \div 128) % 32 /\ u[5] = ((256 * d + e) \div 1024) % 32
  /\ u[6] = ((256 * d + e) \div 32) % 32 /\ u[7] = ((256 * e + f) \div 256) % 32

FiveRead(u, a, b, c, d, e) ==
  /\ (8 * u[0] + u[1] \div 4) % 256 = a
  /\ (64 * u[1] + 2 * u[2] + u[3] \div 16) % 256 = b
  /\ (16 * u[3] + u[4] \div 2) % 256 = c
  /\ (128 * u[4] + 4 * u[5] + u[6] \div 8) % 256 = d
  /\ (32 * u[6] + u[7]) % 256 = e

(* The eight quintets of five bytes give the five bytes back.              *)
LEMMA FiveBytes ==
  ASSUME NEW a \in Byte, NEW b \in Byte, NEW c \in Byte, NEW d \in Byte, NEW e \in Byte, NEW f \in Byte,
         NEW u, Quintets(u, a, b, c, d, e, f)
  PROVE  FiveRead(u, a, b, c, d, e)
<1>1. (8 * u[0] + u[1] \div 4) % 256 = a
  <2>1. u[0] = a \div 8
    BY SMTT(30) DEF Quintets, Byte
  <2>2. u[1] = (a % 8) * 4 + b \div 64
    BY SMTT(30) DEF Quintets, Byte
  <2> QED BY <2>1, <2>2, SMTT(30) DEF Byte
<1>2. (64 * u[1] + 2 * u[2] + u[3] \div 16) % 256 = b
  <2>1. u[1] = (a % 8) * 4 + b \div 64
    BY SMTT(30) DEF Quintets, Byte
  <2>2. u[2] = (b \div 2) % 32
    BY SMTT(30) DEF Quintets, Byte
  <2>3. u[3] = (b % 2) * 16 + c \div 16
    BY SMTT(30) DEF Quintets, Byte
  <2> QED BY <2>1, <2>2, <2>3, SMTT(30) DEF Byte
<1>3. (16 * u[3] + u[4] \div 2) % 256 = c
  <2>1. u[3] = (b % 2) * 16 + c \div 16
    BY SMTT(30) DEF Quintets, Byte
  <2>2. u[4] = (c % 16) * 2 + d \div 128
    BY SMTT(30) DEF Quintets, Byte
  <2> QED BY <2>1, <2>2, SMTT(30) DEF Byte
<1>4. (128 * u[4] + 4 * u[5] + u[6] \div 8) % 256 = d
  <2>1. u[4] = (c % 16) * 2 + d \div 128
    BY SMTT(30) DEF Quintets, Byte
  <2>2. u[5] = (d \div 4) % 32
    BY SMTT(30) DEF Quintets, Byte
  <2>3. u[6] = (d % 4) * 8 + e \div 32
    BY SMTT(30) DEF Quintets, Byte
  <2> QED BY <2>1, <2>2, <2>3, SMTT(30) DEF Byte
<1>5. (32 * u[6] + u[7]) % 256 = e
  <2>1. u[6] = (d % 4) * 8 + e \div 32
    BY SMTT(30) DEF Quintets, Byte
  <2>2. u[7] = e % 32
    BY SMTT(30) DEF Quintets, Byte
  <2> QED BY <2>1, <2>2, SMTT(30) DEF Byte
<1> QED BY <1>1, <1>2, <1>3, <1>4, <1>5 DEF FiveRead

(* A character stands for its five bits.                                   *)
Letter32(u) == IF u < 26 THEN 97 + u ELSE 24 + u

(* A character that was written for five bits is read as these five bits.  *)
LEMMA Letters32 ==
  ASSUME NEW u \in 0..31
  PROVE  Base32Value(Letter32(u)) = u
<1>1. CASE u < 26
  <2>1. Letter32(u) = 97 + u
    BY <1>1 DEF Letter32
  <2> QED BY <1>1, <2>1 DEF Base32Value
<1>2. CASE u >= 26
  <2>1. Letter32(u) = 24 + u
    BY <1>2 DEF Letter32
  <2> QED BY <1>2, <2>1 DEF Base32Value
<1> QED BY <1>1, <1>2

(* The eight quintets of the first and of the second five bytes.           *)
LEMMA GroupOf32 ==
  ASSUME NEW src \in Seq(Byte), Len(src) = 10, NEW h \in 0..1
  PROVE  Quintets([j \in 0..7 |-> Quintet(src, 8*h + j)], At(src, 5*h + 1), At(src, 5*h + 2), At(src, 5*h + 3),
                  At(src, 5*h + 4), At(src, 5*h + 5), At(src, 5*h + 6))
<1>1. PICK u : u = [j \in 0..7 |-> Quintet(src, 8*h + j)]
  OBVIOUS
<1>2. ASSUME NEW i \in 1..10 PROVE src[i] = At(src, i)
  BY DEF At
<1>3. ASSUME NEW j \in 0..7, NEW q \in 0..4, NEW m \in 0..7, 5 * j = 8 * q + m
      PROVE  u[j] = ((256 * At(src, 5*h + q + 1) + At(src, 5*h + q + 2)) \div Divisor32(m)) % 32
  <2>1. (5 * (8*h + j)) \div 8 = 5*h + q /\ (5 * (8*h + j)) % 8 = m
    BY <1>3
  <2>2. 5*h + q + 1 \in 1..10
    OBVIOUS
  <2>3. src[5*h + q + 1] = At(src, 5*h + q + 1)
    BY <1>2, <2>2
  <2>4. u[j] = Quintet(src, 8*h + j)
    BY <1>1
  <2> QED BY <2>1, <2>3, <2>4, Zenon DEF Quintet
<1>4. /\ Divisor32(0) = 2048 /\ Divisor32(1) = 1024 /\ Divisor32(2) = 512 /\ Divisor32(3) = 256
      /\ Divisor32(4) = 128 /\ Divisor32(5) = 64 /\ Divisor32(6) = 32 /\ Divisor32(7) = 16
  BY Divisors32
<1>20. u[0] = ((256 * At(src, 5*h + 1) + At(src, 5*h + 2)) \div 2048) % 32
  <2>1. u[0] = ((256 * At(src, 5*h + 0 + 1) + At(src, 5*h + 0 + 2)) \div Divisor32(0)) % 32
    <3>1. 0 \in 0..7 /\ 0 \in 0..4 /\ 0 \in 0..7 /\ 5 * 0 = 8 * 0 + 0
      OBVIOUS
    <3> QED BY <1>3, <3>1
  <2>2. 5*h + 0 + 1 = 5*h + 1 /\ 5*h + 0 + 2 = 5*h + 2
    OBVIOUS
  <2> QED BY <1>4, <2>1, <2>2
<1>21. u[1] = ((256 * At(src, 5*h + 1) + At(src, 5*h + 2)) \div 64) % 32
  <2>1. u[1] = ((256 * At(src, 5*h + 0 + 1) + At(src, 5*h + 0 + 2)) \div Divisor32(5)) % 32
    <3>1. 1 \in 0..7 /\ 0 \in 0..4 /\ 5 \in 0..7 /\ 5 * 1 = 8 * 0 + 5
      OBVIOUS
    <3> QED BY <1>3, <3>1
  <2>2. 5*h + 0 + 1 = 5*h + 1 /\ 5*h + 0 + 2 = 5*h + 2
    OBVIOUS
  <2> QED BY <1>4, <2>1, <2>2
<1>22. u[2] = ((256 * At(src, 5*h + 2) + At(src, 5*h + 3)) \div 512) % 32
  <2>1. u[2] = ((256 * At(src, 5*h + 1 + 1) + At(src, 5*h + 1 + 2)) \div Divisor32(2)) % 32
    <3>1. 2 \in 0..7 /\ 1 \in 0..4 /\ 2 \in 0..7 /\ 5 * 2 = 8 * 1 + 2
      OBVIOUS
    <3> QED BY <1>3, <3>1
  <2>2. 5*h + 1 + 1 = 5*h + 2 /\ 5*h + 1 + 2 = 5*h + 3
    OBVIOUS
  <2> QED BY <1>4, <2>1, <2>2
<1>23. u[3] = ((256 * At(src, 5*h + 2) + At(src, 5*h + 3)) \div 16) % 32
  <2>1. u[3] = ((256 * At(src, 5*h + 1 + 1) + At(src, 5*h + 1 + 2)) \div Divisor32(7)) % 32
    <3>1. 3 \in 0..7 /\ 1 \in 0..4 /\ 7 \in 0..7 /\ 5 * 3 = 8 * 1 + 7
      OBVIOUS
    <3> QED BY <1>3, <3>1
  <2>2. 5*h + 1 + 1 = 5*h + 2 /\ 5*h + 1 + 2 = 5*h + 3
    OBVIOUS
  <2> QED BY <1>4, <2>1, <2>2
<1>24. u[4] = ((256 * At(src, 5*h + 3) + At(src, 5*h + 4)) \div 128) % 32
  <2>1. u[4] = ((256 * At(src, 5*h + 2 + 1) + At(src, 5*h + 2 + 2)) \div Divisor32(4)) % 32
    <3>1. 4 \in 0..7 /\ 2 \in 0..4 /\ 4 \in 0..7 /\ 5 * 4 = 8 * 2 + 4
      OBVIOUS
    <3> QED BY <1>3, <3>1
  <2>2. 5*h + 2 + 1 = 5*h + 3 /\ 5*h + 2 + 2 = 5*h + 4
    OBVIOUS
  <2> QED BY <1>4, <2>1, <2>2
<1>25. u[5] = ((256 * At(src, 5*h + 4) + At(src, 5*h + 5)) \div 1024) % 32
  <2>1. u[5] = ((256 * At(src, 5*h + 3 + 1) + At(src, 5*h + 3 + 2)) \div Divisor32(1)) % 32
    <3>1. 5 \in 0..7 /\ 3 \in 0..4 /\ 1 \in 0..7 /\ 5 * 5 = 8 * 3 + 1
      OBVIOUS
    <3> QED BY <1>3, <3>1
  <2>2. 5*h + 3 + 1 = 5*h + 4 /\ 5*h + 3 + 2 = 5*h + 5
    OBVIOUS
  <2> QED BY <1>4, <2>1, <2>2
<1>26. u[6] = ((256 * At(src, 5*h + 4) + At(src, 5*h + 5)) \div 32) % 32
  <2>1. u[6] = ((256 * At(src, 5*h + 3 + 1) + At(src, 5*h + 3 + 2)) \div Divisor32(6)) % 32
    <3>1. 6 \in 0..7 /\ 3 \in 0..4 /\ 6 \in 0..7 /\ 5 * 6 = 8 * 3 + 6
      OBVIOUS
    <3> QED BY <1>3, <3>1
  <2>2. 5*h + 3 + 1 = 5*h + 4 /\ 5*h + 3 + 2 = 5*h + 5
    OBVIOUS
  <2> QED BY <1>4, <2>1, <2>2
<1>27. u[7] = ((256 * At(src, 5*h + 5) + At(src, 5*h + 6)) \div 256) % 32
  <2>1. u[7] = ((256 * At(src, 5*h + 4 + 1) + At(src, 5*h + 4 + 2)) \div Divisor32(3)) % 32
    <3>1. 7 \in 0..7 /\ 4 \in 0..4 /\ 3 \in 0..7 /\ 5 * 7 = 8 * 4 + 3
      OBVIOUS
    <3> QED BY <1>3, <3>1
  <2>2. 5*h + 4 + 1 = 5*h + 5 /\ 5*h + 4 + 2 = 5*h + 6
    OBVIOUS
  <2> QED BY <1>4, <2>1, <2>2
<1>7. Quintets(u, At(src, 5*h + 1), At(src, 5*h + 2), At(src, 5*h + 3),
               At(src, 5*h + 4), At(src, 5*h + 5), At(src, 5*h + 6))
  BY <1>20, <1>21, <1>22, <1>23, <1>24, <1>25, <1>26, <1>27 DEF Quintets
<1> QED BY <1>1, <1>7, Zenon

(* What base32_encode writes of ten bytes, base32_decode reads as them.    *)
THEOREM Base32Returns ==
  ASSUME NEW src \in Seq(Byte), Len(src) = 10
  PROVE  base32_decode(base32_encode(src)) = [ret |-> 0, dest |-> src]
<1>1. PICK e : e = base32_encode(src)
  OBVIOUS
<1>2. e = [i \in 1..16 |-> Letter32(Quintet(src, i - 1))]
  BY <1>1, Zenon DEF base32_encode, Letter32, Quintet, Divisor32
<1>3. \A j \in 0..15 : Quintet(src, j) \in 0..31
  <2> TAKE j \in 0..15
  <2>1. (5 * j) % 8 \in 0..7 /\ (5 * j) \div 8 \in 0..9
    OBVIOUS
  <2>2. Divisor32((5 * j) % 8) \in Nat \ {0}
    BY <2>1, Divisors32
  <2>3. PICK k \in Nat : k = (5 * j) \div 8 /\ k + 1 \in 1..10 /\ k + 2 \in Nat
    BY <2>1
  <2>4. src[k + 1] \in Byte /\ At(src, k + 2) \in Nat
    <3>1. \A i \in 1..10 : src[i] \in Byte
      <4> TAKE i \in 1..10
      <4>1. src[i] = At(src, i)
        BY DEF At
      <4>2. At(src, i) \in Byte
        BY BytesOrZero
      <4> QED BY <4>1, <4>2
    <3> QED BY <2>3, <3>1, BytesOrZero
  <2>5. PICK v \in Nat : v = 256 * src[k + 1] + At(src, k + 2)
    <3>1. PICK x \in Nat, y \in Nat : x = src[k + 1] /\ y = At(src, k + 2)
      <4>1. src[k + 1] \in Nat
        <5>1. Byte \subseteq Nat
          BY DEF Byte
        <5> QED BY <2>4, <5>1, Zenon
      <4> QED BY <2>4, <4>1
    <3>2. 256 * x + y \in Nat
      OBVIOUS
    <3> QED BY <3>1, <3>2
  <2>6. PICK m \in Nat \ {0} : m = Divisor32((5 * j) % 8)
    BY <2>2
  <2>7. (v \div m) % 32 \in 0..31
    <3>1. v \div m \in Int
      BY <2>6
    <3> QED BY <3>1
  <2> QED BY <2>3, <2>5, <2>6, <2>7, Zenon DEF Quintet
<1>4. PICK w : w = [j \in 0..15 |-> Base32Value(At(e, j + 1))]
  OBVIOUS
<1>5. \A j \in 0..15 : w[j] = Quintet(src, j)
  <2> TAKE j \in 0..15
  <2>1. j + 1 \in 1..16 /\ (j + 1) - 1 = j
    OBVIOUS
  <2>2. At(e, j + 1) = Letter32(Quintet(src, j))
    BY <1>2, <2>1 DEF At
  <2>3. Base32Value(Letter32(Quintet(src, j))) = Quintet(src, j)
    BY <1>3, Letters32
  <2> QED BY <1>4, <2>2, <2>3
<1>6. \A j \in 0..15 : w[j] # -1
  <2> TAKE j \in 0..15
  <2>1. PICK v \in 0..31 : v = Quintet(src, j)
    BY <1>3
  <2>2. w[j] = v /\ v # -1
    <3>1. w[j] = v
      BY <1>5, <2>1
    <3>2. v # -1
      OBVIOUS
    <3> QED BY <3>1, <3>2, Zenon
  <2> QED BY <2>2
<1> DEFINE Read(i) ==
      LET t(n) == w[((8 * i) \div 5) + n] IN
        (CASE i % 5 = 0 -> 8 * t(0) + t(1) \div 4
           [] i % 5 = 1 -> 64 * t(0) + 2 * t(1) + t(2) \div 16
           [] i % 5 = 2 -> 16 * t(0) + t(1) \div 2
           [] i % 5 = 3 -> 128 * t(0) + 4 * t(1) + t(2) \div 8
           [] i % 5 = 4 -> 32 * t(0) + t(1)) % 256
<1>7. base32_decode(e) = [ret |-> 0, dest |-> [i \in 1..10 |-> Read(i - 1)]]
  <2> DEFINE z == [j \in 0..15 |-> Base32Value(At(e, j + 1))]
             Of(i) == LET t(n) == z[((8 * i) \div 5) + n] IN
               (CASE i % 5 = 0 -> 8 * t(0) + t(1) \div 4
                  [] i % 5 = 1 -> 64 * t(0) + 2 * t(1) + t(2) \div 16
                  [] i % 5 = 2 -> 16 * t(0) + t(1) \div 2
                  [] i % 5 = 3 -> 128 * t(0) + 4 * t(1) + t(2) \div 8
                  [] i % 5 = 4 -> 32 * t(0) + t(1)) % 256
  <2>1. base32_decode(e) = IF \E j \in 0..15 : z[j] = -1
                             THEN [ret |-> -1, dest |-> [i \in 1..10 |-> 0]]
                             ELSE [ret |-> 0, dest |-> [i \in 1..10 |-> Of(i - 1)]]
    BY Zenon DEF base32_decode
  <2>2. z = w
    BY <1>4
  <2> HIDE DEF z
  <2>3. \A i \in 1..10 : Of(i - 1) = Read(i - 1)
    BY <2>2, Zenon
  <2>4. ~ \E j \in 0..15 : z[j] = -1
    BY <1>6, <2>2
  <2> HIDE DEF Of, Read
  <2> QED BY <2>1, <2>3, <2>4
<1>8. ASSUME NEW h \in 0..1
      PROVE  \A r \in 0..4 : Read(5*h + r) = src[5*h + r + 1]
  <2>1. PICK u : u = [j \in 0..7 |-> Quintet(src, 8*h + j)]
    OBVIOUS
  <2>2. Quintets(u, At(src, 5*h + 1), At(src, 5*h + 2), At(src, 5*h + 3),
                    At(src, 5*h + 4), At(src, 5*h + 5), At(src, 5*h + 6))
    BY <2>1, GroupOf32
  <2>3. PICK a \in Byte : a = At(src, 5*h + 1)
    BY BytesOrZero
  <2>4. PICK b \in Byte : b = At(src, 5*h + 2)
    BY BytesOrZero
  <2>5. PICK c \in Byte : c = At(src, 5*h + 3)
    BY BytesOrZero
  <2>6. PICK d \in Byte : d = At(src, 5*h + 4)
    BY BytesOrZero
  <2>7. PICK g \in Byte : g = At(src, 5*h + 5)
    BY BytesOrZero
  <2>8. PICK f \in Byte : f = At(src, 5*h + 6)
    BY BytesOrZero
  <2>9. Quintets(u, a, b, c, d, g, f)
    BY <2>2, <2>3, <2>4, <2>5, <2>6, <2>7, <2>8
  <2>10. \A j \in 0..7 : w[8*h + j] = u[j]
    <3> TAKE j \in 0..7
    <3>1. 8*h + j \in 0..15
      OBVIOUS
    <3>2. w[8*h + j] = Quintet(src, 8*h + j)
      BY <1>5, <3>1
    <3>3. u[j] = Quintet(src, 8*h + j)
      BY <2>1
    <3> QED BY <3>2, <3>3
  <2>11. \A r \in 0..4 : 5*h + r + 1 \in DOMAIN src
    OBVIOUS
  <2>12. \A r \in 0..4 : Read(5*h + r) = src[5*h + r + 1]
    <3>1. /\ a = src[5*h + 0 + 1] /\ b = src[5*h + 1 + 1] /\ c = src[5*h + 2 + 1]
          /\ d = src[5*h + 3 + 1] /\ g = src[5*h + 4 + 1]
      BY <2>3, <2>4, <2>5, <2>6, <2>7, <2>11 DEF At
    <3>2. FiveRead(u, a, b, c, d, g)
      BY <2>9, FiveBytes
    <3>3. Read(5*h + 0) = src[5*h + 0 + 1]
      <4>1. (5*h + 0) % 5 = 0 /\ (8 * (5*h + 0)) \div 5 + 0 = 8*h + 0
            /\ (8 * (5*h + 0)) \div 5 + 1 = 8*h + 1
        OBVIOUS
      <4>2. Read(5*h + 0) = (8 * u[0] + u[1] \div 4) % 256
        BY <2>10, <4>1
      <4> HIDE DEF Read
      <4>3. (8 * u[0] + u[1] \div 4) % 256 = a
        BY <3>2, Zenon DEF FiveRead
      <4>4. a = src[5*h + 0 + 1]
        BY <3>1
      <4> QED BY <4>2, <4>3, <4>4, Zenon
    <3>4. Read(5*h + 1) = src[5*h + 1 + 1]
      <4>1. (5*h + 1) % 5 = 1 /\ (8 * (5*h + 1)) \div 5 + 0 = 8*h + 1
            /\ (8 * (5*h + 1)) \div 5 + 1 = 8*h + 2 /\ (8 * (5*h + 1)) \div 5 + 2 = 8*h + 3
        OBVIOUS
      <4>2. Read(5*h + 1) = (64 * u[1] + 2 * u[2] + u[3] \div 16) % 256
        BY <2>10, <4>1
      <4> HIDE DEF Read
      <4>3. (64 * u[1] + 2 * u[2] + u[3] \div 16) % 256 = b
        BY <3>2, Zenon DEF FiveRead
      <4>4. b = src[5*h + 1 + 1]
        BY <3>1
      <4> QED BY <4>2, <4>3, <4>4, Zenon
    <3>5. Read(5*h + 2) = src[5*h + 2 + 1]
      <4>1. (5*h + 2) % 5 = 2 /\ (8 * (5*h + 2)) \div 5 + 0 = 8*h + 3
            /\ (8 * (5*h + 2)) \div 5 + 1 = 8*h + 4
        OBVIOUS
      <4>2. Read(5*h + 2) = (16 * u[3] + u[4] \div 2) % 256
        BY <2>10, <4>1
      <4> HIDE DEF Read
      <4>3. (16 * u[3] + u[4] \div 2) % 256 = c
        BY <3>2, Zenon DEF FiveRead
      <4>4. c = src[5*h + 2 + 1]
        BY <3>1
      <4> QED BY <4>2, <4>3, <4>4, Zenon
    <3>6. Read(5*h + 3) = src[5*h + 3 + 1]
      <4>1. (5*h + 3) % 5 = 3 /\ (8 * (5*h + 3)) \div 5 + 0 = 8*h + 4
            /\ (8 * (5*h + 3)) \div 5 + 1 = 8*h + 5 /\ (8 * (5*h + 3)) \div 5 + 2 = 8*h + 6
        OBVIOUS
      <4>2. Read(5*h + 3) = (128 * u[4] + 4 * u[5] + u[6] \div 8) % 256
        BY <2>10, <4>1
      <4> HIDE DEF Read
      <4>3. (128 * u[4] + 4 * u[5] + u[6] \div 8) % 256 = d
        BY <3>2, Zenon DEF FiveRead
      <4>4. d = src[5*h + 3 + 1]
        BY <3>1
      <4> QED BY <4>2, <4>3, <4>4, Zenon
    <3>7. Read(5*h + 4) = src[5*h + 4 + 1]
      <4>1. (5*h + 4) % 5 = 4 /\ (8 * (5*h + 4)) \div 5 + 0 = 8*h + 6
            /\ (8 * (5*h + 4)) \div 5 + 1 = 8*h + 7
        OBVIOUS
      <4>2. Read(5*h + 4) = (32 * u[6] + u[7]) % 256
        BY <2>10, <4>1
      <4> HIDE DEF Read
      <4>3. (32 * u[6] + u[7]) % 256 = g
        BY <3>2, Zenon DEF FiveRead
      <4>4. g = src[5*h + 4 + 1]
        BY <3>1
      <4> QED BY <4>2, <4>3, <4>4, Zenon
    <3> HIDE DEF Read
    <3>8. SUFFICES ASSUME NEW r \in 0..4 PROVE Read(5*h + r) = src[5*h + r + 1]
      OBVIOUS
    <3>9. r = 0 \/ r = 1 \/ r = 2 \/ r = 3 \/ r = 4
      OBVIOUS
    <3> QED BY <3>3, <3>4, <3>5, <3>6, <3>7, <3>9, Zenon
  <2> QED BY <2>12
<1> HIDE DEF Read
<1>9. \A i \in 1..10 : Read(i - 1) = src[i]
  <2> TAKE i \in 1..10
  <2>1. PICK h \in 0..1, r \in 0..4 : i = 5*h + r + 1
    <3>1. (i - 1) \div 5 \in 0..1 /\ (i - 1) % 5 \in 0..4 /\ i = 5 * ((i - 1) \div 5) + ((i - 1) % 5) + 1
      OBVIOUS
    <3> QED BY <3>1
  <2>2. i - 1 = 5*h + r
    BY <2>1
  <2> QED BY <1>8, <2>1, <2>2
<1>10. [i \in 1..10 |-> Read(i - 1)] = src
  <2>1. src = [i \in 1..10 |-> src[i]]
    OBVIOUS
  <2> QED BY <1>9, <2>1
<1> QED BY <1>1, <1>7, <1>10

-----------------------------------------------------------------------------
(* The widths and rounds of the permutation.                               *)
SpongeNumbers == LANE_BITS \in Nat /\ KECCAK_ROUNDS \in Nat
BitSets == SUBSET Int
Shakes == [st : BitSets, pt : Int]
ShakeByte == SUBSET (0..7)

(* The permutation keeps a state a set of bits.                            *)
LEMMA PermutationTyped ==
  ASSUME SpongeNumbers, NEW s \in BitSets
  PROVE  KeccakP800_Permute_22rounds(s) \in BitSets
<1> DEFINE nr == KECCAK_ROUNDS
           C(r) == LFSRConstant(KECCAK_ROUNDS - nr + r - 1)
           Is(p) == p = [r \in 0..nr |-> IF r = 0 THEN s ELSE Round(p[r-1], C(r))]
           w == CHOOSE p : Is(p)
           step == [t \in Nat \X BitSets |-> Round(t[2], C(t[1]))]
<1>1. KeccakP800_Permute_22rounds(s) = w[nr]
  BY DEF KeccakP800_Permute_22rounds, KeccakP800_Permute_Nrounds
<1>2. nr \in Nat
  BY DEF SpongeNumbers
<1>3. ASSUME NEW t, NEW r PROVE Round(t, C(r)) \in BitSets
  <2>1. C(r) \subseteq Int
    BY DEF LFSRConstant
  <2>2. PICK c : c = C(r)
    OBVIOUS
  <2>3. Chi(RhoPi(Theta(t))) \subseteq Places
    BY DEF Chi
  <2>4. Places \subseteq Int
    BY DEF Places
  <2> HIDE DEF C
  <2> QED BY <2>1, <2>3, <2>4 DEF Round, Xor, BitSets
<1> HIDE DEF nr, C
<1>4. step \in Steps(BitSets)
  <2>1. \A t \in Nat \X BitSets : step[t] \in BitSets
    BY <1>3
  <2> QED BY <2>1 DEF Steps
<1>5. \A r \in 1..nr : \A t \in BitSets : step[<<r, t>>] = Round(t, C(r))
  BY <1>2
<1> HIDE DEF step
<1>6. PICK f : Iterates(f, nr, BitSets, s, step)
  BY <1>2, <1>4, IteratesExist
<1>7. f \in [0..nr -> BitSets] /\ f[0] = s /\ \A r \in 1..nr : f[r] = Round(f[r-1], C(r))
  <2>1. f \in [0..nr -> BitSets] /\ f[0] = s /\ \A r \in 1..nr : f[r] = step[<<r, f[r-1]>>]
    BY <1>6 DEF Iterates
  <2>2. \A r \in 1..nr : f[r] = Round(f[r-1], C(r))
    <3> TAKE r \in 1..nr
    <3>1. f[r-1] \in BitSets
      BY <1>2, <2>1
    <3> QED BY <1>5, <2>1, <3>1
  <2> QED BY <2>1, <2>2
<1>8. Is(f)
  BY <1>2, <1>7
<1>9. Is(w)
  BY <1>8
<1> HIDE DEF w
<1>10. w[nr] \in BitSets
  <2>1. CASE nr = 0
    <3>1. w[nr] = s
      BY <1>9, <2>1
    <3> QED BY <3>1
  <2>2. CASE nr # 0
    <3>1. w[nr] = Round(w[nr-1], C(nr))
      BY <1>2, <1>9, <2>2
    <3> QED BY <1>3, <3>1
  <2> QED BY <2>1, <2>2
<1> QED BY <1>1, <1>10

(* Before a byte is taken, the state is still a set of bits.               *)
LEMMA ReadyTyped ==
  ASSUME SpongeNumbers, NEW sh \in Shakes
  PROVE  Ready(sh) \in Shakes
<1>1. sh.st \in BitSets /\ sh.pt \in Int
  BY DEF Shakes
<1>2. KeccakP800_Permute_22rounds(sh.st) \in BitSets
  BY <1>1, PermutationTyped
<1> QED BY <1>2 DEF Ready, Shakes

(* What goes back into the state, by the way the stream is used.           *)
Modes == {"crp", "enc", "dec"}
Duplex(mode, y, byte) ==
  CASE mode = "crp" -> byte [] mode = "enc" -> y [] mode = "dec" -> Xor(y, byte)
StreamByte(sh) == StateByte(Ready(sh).st, Ready(sh).pt)
(* The state after a byte x.                                               *)
Turned(mode, sh, x) ==
  [st |-> KeccakP800_AddByte(Ready(sh).st,
            Xor(StreamByte(sh), Duplex(mode, Xor(x, StreamByte(sh)), StreamByte(sh))), Ready(sh).pt),
   pt |-> Ready(sh).pt + 1]
Goes(mode, before, x) ==
  [sh |-> Turned(mode, before.sh, x), out |-> Append(before.out, Xor(x, StreamByte(before.sh)))]
Pieces == [sh : Shakes, out : Seq(BitSets)]
IsSqueeze(mode, sh, data, s) ==
  s = [i \in 0..Len(data) |-> IF i = 0 THEN [sh |-> sh, out |-> <<>>] ELSE Goes(mode, s[i-1], data[i])]

(* What is added twice is gone.                                            *)
LEMMA XorAgain ==
  ASSUME NEW x, NEW y
  PROVE  Xor(Xor(x, y), y) = x /\ Xor(y, Xor(x, y)) = x
BY DEF Xor

(* A byte more keeps the state a state and the stream a stream of bytes.   *)
LEMMA GoesTyped ==
  ASSUME SpongeNumbers, NEW mode \in Modes, NEW x \in ShakeByte
  PROVE  /\ \A sh \in Shakes : StreamByte(sh) \in ShakeByte /\ Turned(mode, sh, x) \in Shakes
         /\ \A b \in Pieces : Goes(mode, b, x) \in Pieces
<1>1. ASSUME NEW sh \in Shakes
      PROVE  StreamByte(sh) \in ShakeByte /\ Turned(mode, sh, x) \in Shakes
  <2>1. PICK r \in Shakes : r = Ready(sh)
    BY ReadyTyped
  <2>2. r.st \in BitSets /\ r.pt \in Int
    BY DEF Shakes
  <2>3. PICK y : y = StreamByte(sh) /\ y \in ShakeByte
    BY DEF StreamByte, StateByte, ShakeByte
  <2>4. PICK d : d = Xor(y, Duplex(mode, Xor(x, y), y)) /\ d \in ShakeByte
    <3>1. CASE mode = "crp"
      <4>1. Duplex(mode, Xor(x, y), y) = y
        BY <3>1 DEF Duplex
      <4> QED BY <2>3, <4>1 DEF Xor, ShakeByte
    <3>2. CASE mode = "enc"
      <4>1. Duplex(mode, Xor(x, y), y) = Xor(x, y)
        BY <3>2 DEF Duplex
      <4> QED BY <2>3, <4>1 DEF Xor, ShakeByte
    <3>3. CASE mode = "dec"
      <4>1. Duplex(mode, Xor(x, y), y) = Xor(Xor(x, y), y)
        BY <3>3 DEF Duplex
      <4>2. Xor(Xor(x, y), y) = x
        BY XorAgain
      <4>3. Xor(y, x) \in ShakeByte
        BY <2>3 DEF Xor, ShakeByte
      <4>4. Xor(y, Duplex(mode, Xor(x, y), y)) = Xor(y, x)
        BY <4>1, <4>2
      <4> QED BY <4>3, <4>4
    <3> QED BY <3>1, <3>2, <3>3 DEF Modes
  <2>5. KeccakP800_AddByte(r.st, d, r.pt) \in BitSets
    <3>1. {8 * r.pt + b : b \in d} \subseteq Int
      BY <2>2, <2>4 DEF ShakeByte
    <3> QED BY <2>2, <3>1 DEF KeccakP800_AddByte, Xor, BitSets
  <2>6. Turned(mode, sh, x) = [st |-> KeccakP800_AddByte(r.st, d, r.pt), pt |-> r.pt + 1]
    BY <2>1, <2>3, <2>4 DEF Turned
  <2>7. r.pt + 1 \in Int
    BY <2>2
  <2> QED BY <2>3, <2>5, <2>6, <2>7 DEF Shakes
<1>2. ASSUME NEW b \in Pieces PROVE Goes(mode, b, x) \in Pieces
  <2>1. b.sh \in Shakes /\ b.out \in Seq(BitSets)
    BY DEF Pieces
  <2>2. Xor(x, StreamByte(b.sh)) \in BitSets
    <3>1. PICK y \in ShakeByte : y = StreamByte(b.sh)
      BY <1>1, <2>1
    <3>2. Xor(x, y) \subseteq 0..7
      BY DEF Xor, ShakeByte
    <3>3. Xor(x, y) \in BitSets
      BY <3>2, SMTT(30) DEF BitSets
    <3> QED BY <3>1, <3>3
  <2>3. Append(b.out, Xor(x, StreamByte(b.sh))) \in Seq(BitSets)
    BY <2>1, <2>2
  <2> QED BY <1>1, <2>1, <2>3 DEF Goes, Pieces
<1> QED BY <1>1, <1>2

(* What the stream does to data: the states it goes through, and the bytes *)
(* that come out.                                                          *)
Through(mode, sh, data, h) ==
  h[0] = sh /\ \A i \in 1..Len(data) : h[i] \in Shakes /\ h[i] = Turned(mode, h[i-1], data[i])
Streamed(mode, sh, data, q) ==
  \E h : /\ Through(mode, sh, data, h)
         /\ q = [sh |-> h[Len(data)], out |-> [i \in 1..Len(data) |-> Xor(data[i], StreamByte(h[i-1]))]]

(* The loop of Squeeze is defined.                                         *)
LEMMA SqueezeExists ==
  ASSUME SpongeNumbers, NEW mode \in Modes, NEW sh \in Shakes, NEW data \in Seq(ShakeByte)
  PROVE  \E s : IsSqueeze(mode, sh, data, s)
<1> DEFINE n == Len(data)
           x0 == [sh |-> sh, out |-> <<>>]
           step == [t \in Nat \X Pieces |-> IF t[1] \in 1..n THEN Goes(mode, t[2], data[t[1]]) ELSE x0]
<1>1. n \in Nat /\ \A i \in 1..n : data[i] \in ShakeByte
  OBVIOUS
<1>2. x0 \in Pieces
  BY DEF Pieces
<1> HIDE DEF n, x0
<1>3. step \in Steps(Pieces)
  <2>1. \A t \in Nat \X Pieces : t[1] \in Nat /\ t[2] \in Pieces
    OBVIOUS
  <2>2. \A t \in Nat \X Pieces : (IF t[1] \in 1..n THEN Goes(mode, t[2], data[t[1]]) ELSE x0) \in Pieces
    BY <1>1, <1>2, <2>1, GoesTyped
  <2>3. \A t \in Nat \X Pieces : step[t] \in Pieces
    BY <2>2
  <2> QED BY <2>3 DEF Steps
<1>4. ASSUME NEW i \in 1..n, NEW b \in Pieces PROVE step[<<i, b>>] = Goes(mode, b, data[i])
  <2>1. <<i, b>> \in Nat \X Pieces /\ <<i, b>>[1] = i /\ <<i, b>>[2] = b
    BY <1>1
  <2> QED BY <2>1, Zenon
<1> HIDE DEF step
<1>5. PICK f : Iterates(f, n, Pieces, x0, step)
  BY <1>1, <1>2, <1>3, IteratesExist
<1>6. f \in [0..n -> Pieces] /\ f[0] = x0 /\ \A i \in 1..n : f[i] = step[<<i, f[i-1]>>]
  BY <1>5 DEF Iterates
<1>7. \A i \in 1..n : f[i] = Goes(mode, f[i-1], data[i])
  <2> TAKE i \in 1..n
  <2>1. f[i-1] \in Pieces
    BY <1>1, <1>6
  <2>2. f[i] = step[<<i, f[i-1]>>]
    BY <1>6
  <2> QED BY <1>4, <2>1, <2>2
<1>8. \A i \in 0..n : f[i] = IF i = 0 THEN x0 ELSE Goes(mode, f[i-1], data[i])
  <2> TAKE i \in 0..n
  <2>1. i = 0 \/ i \in 1..n
    BY <1>1
  <2> QED BY <1>6, <1>7, <2>1
<1>9. f = [i \in 0..n |-> IF i = 0 THEN x0 ELSE Goes(mode, f[i-1], data[i])]
  BY <1>6, <1>8
<1> QED BY <1>9, Zenon DEF IsSqueeze, n, x0

(* What the loop returns: the state after all bytes, and each byte with    *)
(* that of the stream added.                                               *)
LEMMA SqueezeStreams ==
  ASSUME SpongeNumbers, NEW mode \in Modes, NEW sh \in Shakes, NEW data \in Seq(ShakeByte),
         NEW s, IsSqueeze(mode, sh, data, s)
  PROVE  Streamed(mode, sh, data, s[Len(data)])
<1>1. PICK n \in Nat : n = Len(data)
  OBVIOUS
<1>2. \A i \in 1..n : data[i] \in ShakeByte
  BY <1>1
<1>3. s[0] = [sh |-> sh, out |-> <<>>] /\ \A i \in 1..n : s[i] = Goes(mode, s[i-1], data[i])
  <2>1. s = [i \in 0..n |-> IF i = 0 THEN [sh |-> sh, out |-> <<>>] ELSE Goes(mode, s[i-1], data[i])]
    BY <1>1, Zenon DEF IsSqueeze
  <2>2. \A i \in 0..n : s[i] = IF i = 0 THEN [sh |-> sh, out |-> <<>>] ELSE Goes(mode, s[i-1], data[i])
    BY <2>1
  <2>3. 0 \in 0..n /\ \A i \in 1..n : i \in 0..n /\ i # 0
    BY <1>1
  <2> QED BY <2>2, <2>3
<1> DEFINE y(i) == Xor(data[i], StreamByte(s[i-1].sh))
           Is(i) == /\ s[i] \in Pieces /\ Len(s[i].out) = i
                    /\ \A k \in 1..i : s[i].out[k] = y(k)
           T == {i \in 0..n : Is(i)}
<1>4. 0 \in T
  <2>1. s[0] \in Pieces
    BY <1>3 DEF Pieces
  <2>2. Len(s[0].out) = 0 /\ \A k \in 1..0 : FALSE
    BY <1>3
  <2>3. 0 \in 0..n
    BY <1>1
  <2> QED BY <2>1, <2>2, <2>3
<1>5. ASSUME NEW i \in 1..n, i - 1 \in T PROVE i \in T
  <2>1. PICK j \in Nat : j = i - 1 /\ j + 1 = i
    OBVIOUS
  <2>2. Is(j)
    BY <1>5, <2>1
  <2>3. PICK b : b = s[j]
    OBVIOUS
  <2>4. b \in Pieces /\ Len(b.out) = j /\ \A k \in 1..j : b.out[k] = y(k)
    BY <2>2, <2>3
  <2>5. PICK o \in Seq(BitSets) : o = b.out /\ Len(o) = j
    BY <2>4 DEF Pieces
  <2>6. s[i] = Goes(mode, b, data[i])
    BY <1>3, <2>1, <2>3
  <2>7. s[i] \in Pieces
    BY <1>2, <2>4, <2>6, GoesTyped
  <2>8. PICK z \in BitSets : z = y(i)
    <3>1. StreamByte(b.sh) \in ShakeByte
      BY <1>2, <2>4, GoesTyped DEF Pieces
    <3>2. y(i) = Xor(data[i], StreamByte(b.sh))
      BY <2>1, <2>3
    <3>3. data[i] \in ShakeByte
      BY <1>2
    <3>4. Xor(data[i], StreamByte(b.sh)) \in BitSets
      BY <3>1, <3>3 DEF Xor, ShakeByte, BitSets
    <3> QED BY <3>2, <3>4
  <2>9. s[i].out = Append(o, z)
    BY <2>1, <2>3, <2>5, <2>6, <2>8 DEF Goes
  <2>10. Len(Append(o, z)) = i /\ \A k \in 1..i : Append(o, z)[k] = y(k)
    <3>1. Len(Append(o, z)) = j + 1 /\ Append(o, z)[j + 1] = z /\ \A k \in 1..j : Append(o, z)[k] = o[k]
      BY <2>5
    <3>2. \A k \in 1..i : k \in 1..j \/ k = i
      BY <2>1
    <3> HIDE DEF y
    <3>3. \A k \in 1..j : o[k] = y(k)
      BY <2>4, <2>5
    <3> QED BY <2>1, <2>8, <3>1, <3>2, <3>3
  <2>11. i \in 0..n
    OBVIOUS
  <2> QED BY <2>7, <2>9, <2>10, <2>11
<1>6. \A i \in 0..n : Is(i)
  <2> HIDE DEF T
  <2>1. \A i \in 0..n : i \in T
    BY <1>4, <1>5, UpTo
  <2> QED BY <2>1 DEF T
<1>7. PICK h : h = [i \in 0..n |-> s[i].sh]
  OBVIOUS
<1>8. \A i \in 0..n : h[i] = s[i].sh /\ h[i] \in Shakes
  BY <1>6, <1>7 DEF Pieces
<1>9. Through(mode, sh, data, h)
  <2>1. h[0] = sh
    BY <1>1, <1>3, <1>8
  <2>2. ASSUME NEW i \in 1..n PROVE h[i] \in Shakes /\ h[i] = Turned(mode, h[i-1], data[i])
    <3>1. i \in 0..n /\ i - 1 \in 0..n
      OBVIOUS
    <3>2. s[i].sh = Turned(mode, s[i-1].sh, data[i])
      <4>1. s[i] = Goes(mode, s[i-1], data[i])
        BY <1>3
      <4>2. Goes(mode, s[i-1], data[i]).sh = Turned(mode, s[i-1].sh, data[i])
        BY DEF Goes
      <4> QED BY <4>1, <4>2
    <3> QED BY <1>8, <3>1, <3>2
  <2> QED BY <1>1, <2>1, <2>2 DEF Through
<1>10. s[n].out = [i \in 1..n |-> Xor(data[i], StreamByte(h[i-1]))]
  <2>1. Is(n)
    BY <1>1, <1>6
  <2>2. PICK o \in Seq(BitSets) : o = s[n].out /\ Len(o) = n /\ \A k \in 1..n : o[k] = y(k)
    BY <2>1 DEF Pieces
  <2>3. \A k \in 1..n : y(k) = Xor(data[k], StreamByte(h[k-1]))
    <3> TAKE k \in 1..n
    <3>1. k - 1 \in 0..n
      OBVIOUS
    <3> QED BY <1>8, <3>1
  <2>4. o = [k \in 1..n |-> o[k]]
    <3>1. o \in Seq(BitSets) /\ Len(o) = n
      BY <2>2
    <3> QED BY <3>1, SMTT(30)
  <2> HIDE DEF y
  <2>5. \A k \in 1..n : o[k] = Xor(data[k], StreamByte(h[k-1]))
    BY <2>2, <2>3
  <2> QED BY <2>2, <2>4, <2>5
<1>11. s[n] = [sh |-> h[n], out |-> [i \in 1..n |-> Xor(data[i], StreamByte(h[i-1]))]]
  <2>1. s[n] \in Pieces /\ n \in 0..n
    BY <1>1, <1>6
  <2>2. s[n] = [sh |-> s[n].sh, out |-> s[n].out]
    BY <2>1 DEF Pieces
  <2> QED BY <1>8, <1>10, <2>1, <2>2
<1> QED BY <1>1, <1>9, <1>11, Zenon DEF Streamed

(* The three ways the code uses the stream.                                *)
LEMMA StreamModes ==
  ASSUME SpongeNumbers, NEW sh \in Shakes, NEW data \in Seq(ShakeByte)
  PROVE  /\ Streamed("crp", sh, data, sh_crp(sh, data)) /\ Streamed("enc", sh, data, sh_enc(sh, data))
         /\ Streamed("dec", sh, data, sh_dec(sh, data))
<1> DEFINE Body(dup(_, _), q, i) ==
      LET before == q[i-1]
          s == Ready(before.sh)
          byte == StateByte(s.st, s.pt)
          y == Xor(data[i], byte)
      IN [sh |-> [st |-> KeccakP800_AddByte(s.st, Xor(byte, dup(y, byte)), s.pt),
                  pt |-> s.pt + 1],
          out |-> Append(before.out, y)]
           CrpBody(q, i) == Body(LAMBDA y, byte : byte, q, i)
           EncBody(q, i) == Body(LAMBDA y, byte : y, q, i)
           DecBody(q, i) == Body(LAMBDA y, byte : Xor(y, byte), q, i)
           Crp(q) == q = [i \in 0..Len(data) |-> IF i = 0 THEN [sh |-> sh, out |-> <<>>] ELSE CrpBody(q, i)]
           Enc(q) == q = [i \in 0..Len(data) |-> IF i = 0 THEN [sh |-> sh, out |-> <<>>] ELSE EncBody(q, i)]
           Dec(q) == q = [i \in 0..Len(data) |-> IF i = 0 THEN [sh |-> sh, out |-> <<>>] ELSE DecBody(q, i)]
<1>1. /\ sh_crp(sh, data) = (CHOOSE q : Crp(q))[Len(data)]
      /\ sh_enc(sh, data) = (CHOOSE q : Enc(q))[Len(data)]
      /\ sh_dec(sh, data) = (CHOOSE q : Dec(q))[Len(data)]
  BY Zenon DEF sh_crp, sh_enc, sh_dec, Squeeze
<1>2. /\ \A y, byte : Duplex("crp", y, byte) = byte
      /\ \A y, byte : Duplex("enc", y, byte) = y
      /\ \A y, byte : Duplex("dec", y, byte) = Xor(y, byte)
  BY DEF Duplex
<1>3. \A q : Crp(q) <=> IsSqueeze("crp", sh, data, q)
  <2>1. ASSUME NEW q, NEW i PROVE CrpBody(q, i) = Goes("crp", q[i-1], data[i])
    <3>1. PICK b : b = StreamByte(q[i-1].sh)
      OBVIOUS
    <3>2. Duplex("crp", Xor(data[i], b), b) = b
      BY <1>2
    <3>3. b = StateByte(Ready(q[i-1].sh).st, Ready(q[i-1].sh).pt)
      BY <3>1, Zenon DEF StreamByte
    <3> QED BY <3>1, <3>2, <3>3, Zenon DEF Goes, Turned
  <2> HIDE DEF CrpBody
  <2> QED BY <2>1 DEF IsSqueeze
<1>4. \A q : Enc(q) <=> IsSqueeze("enc", sh, data, q)
  <2>1. \A q, i : EncBody(q, i) = Goes("enc", q[i-1], data[i])
    BY <1>2, Zenon DEF Goes, Turned, StreamByte
  <2> HIDE DEF EncBody
  <2> QED BY <2>1 DEF IsSqueeze
<1>5. \A q : Dec(q) <=> IsSqueeze("dec", sh, data, q)
  <2>1. \A q, i : DecBody(q, i) = Goes("dec", q[i-1], data[i])
    BY <1>2, Zenon DEF Goes, Turned, StreamByte
  <2> HIDE DEF DecBody
  <2> QED BY <2>1 DEF IsSqueeze
<1> HIDE DEF Crp, Enc, Dec
<1>6. "crp" \in Modes /\ "enc" \in Modes /\ "dec" \in Modes
  BY DEF Modes
<1>7. IsSqueeze("crp", sh, data, CHOOSE q : Crp(q))
  BY <1>3, <1>6, SqueezeExists
<1>8. IsSqueeze("enc", sh, data, CHOOSE q : Enc(q))
  BY <1>4, <1>6, SqueezeExists
<1>9. IsSqueeze("dec", sh, data, CHOOSE q : Dec(q))
  BY <1>5, <1>6, SqueezeExists
<1> QED BY <1>1, <1>6, <1>7, <1>8, <1>9, SqueezeStreams

(* Two streams from the same state, the second over what came out of the   *)
(* first: they go through the same states, and the second gives the data   *)
(* back.                                                                   *)
Inverse2(m1, m2) == (m1 = "crp" /\ m2 = "crp") \/ (m1 = "enc" /\ m2 = "dec")
Undone(z, q, data) == z = [sh |-> q.sh, out |-> data]

(* Two streams, the second over what came out of the first: they go through*)
(* the same states, and the second gives the data back.                    *)
LEMMA StreamReturns ==
  ASSUME NEW m1, NEW m2, Inverse2(m1, m2), NEW sh, NEW data \in Seq(ShakeByte),
         NEW q, Streamed(m1, sh, data, q), NEW z, Streamed(m2, sh, q.out, z)
  PROVE  Undone(z, q, data)
<1>1. PICK n \in Nat : n = Len(data)
  OBVIOUS
<1>2. PICK h : /\ Through(m1, sh, data, h)
               /\ q = [sh |-> h[n], out |-> [i \in 1..n |-> Xor(data[i], StreamByte(h[i-1]))]]
  BY <1>1 DEF Streamed
<1>3. PICK c : c = q.out
  OBVIOUS
<1>4. c = [i \in 1..n |-> Xor(data[i], StreamByte(h[i-1]))]
  BY <1>2, <1>3
<1>5. Len(c) = n
  BY <1>1, <1>4
<1>6. PICK g : /\ Through(m2, sh, c, g)
               /\ z = [sh |-> g[n], out |-> [i \in 1..n |-> Xor(c[i], StreamByte(g[i-1]))]]
  BY <1>3, <1>5 DEF Streamed
<1>7. h[0] = sh /\ \A i \in 1..n : h[i] = Turned(m1, h[i-1], data[i])
  BY <1>1, <1>2 DEF Through
<1>8. g[0] = sh /\ \A i \in 1..n : g[i] = Turned(m2, g[i-1], c[i])
  BY <1>5, <1>6 DEF Through
<1>9. ASSUME NEW s, NEW x PROVE Turned(m2, s, Xor(x, StreamByte(s))) = Turned(m1, s, x)
  <2>1. PICK b : b = StreamByte(s)
    OBVIOUS
  <2>2. Duplex(m2, Xor(Xor(x, b), b), b) = Duplex(m1, Xor(x, b), b)
    <3>1. Xor(Xor(x, b), b) = x
      BY XorAgain
    <3>2. CASE m1 = "crp" /\ m2 = "crp"
      BY <3>2 DEF Duplex
    <3>3. CASE m1 = "enc" /\ m2 = "dec"
      BY <3>1, <3>3 DEF Duplex
    <3> QED BY <3>2, <3>3 DEF Inverse2
  <2> QED BY <2>1, <2>2, Zenon DEF Turned
<1> DEFINE T == {i \in 0..n : g[i] = h[i]}
<1>10. 0 \in T
  BY <1>1, <1>7, <1>8
<1>11. ASSUME NEW i \in 1..n, i - 1 \in T PROVE i \in T
  <2>1. g[i-1] = h[i-1]
    BY <1>11
  <2>2. c[i] = Xor(data[i], StreamByte(h[i-1]))
    BY <1>4
  <2>3. g[i] = Turned(m2, g[i-1], c[i]) /\ h[i] = Turned(m1, h[i-1], data[i])
    BY <1>7, <1>8
  <2>4. g[i] = h[i]
    BY <1>9, <2>1, <2>2, <2>3
  <2>5. i \in 0..n
    OBVIOUS
  <2> QED BY <2>4, <2>5
<1>12. \A i \in 0..n : g[i] = h[i]
  <2> HIDE DEF T
  <2>1. \A i \in 0..n : i \in T
    BY <1>10, <1>11, UpTo
  <2> QED BY <2>1 DEF T
<1>13. \A i \in 1..n : Xor(c[i], StreamByte(g[i-1])) = data[i]
  <2> TAKE i \in 1..n
  <2>1. g[i-1] = h[i-1]
    <3>1. i - 1 \in 0..n
      OBVIOUS
    <3> QED BY <1>12, <3>1
  <2>2. c[i] = Xor(data[i], StreamByte(h[i-1]))
    BY <1>4
  <2> QED BY <2>1, <2>2, XorAgain
<1>14. [i \in 1..n |-> Xor(c[i], StreamByte(g[i-1]))] = data
  <2>1. data = [i \in 1..n |-> data[i]]
    BY <1>1
  <2> QED BY <1>13, <2>1
<1>15. g[n] = h[n] /\ q.sh = h[n]
  <2>1. n \in 0..n
    BY <1>1
  <2> QED BY <1>2, <1>12, <2>1
<1> QED BY <1>6, <1>14, <1>15 DEF Undone

(* What was encrypted from a state of the sponge is decrypted from the     *)
(* same state, and both sides are left in the same state, for any width    *)
(* and permutation and at any place of a block; the plain stream undoes    *)
(* itself.                                                                 *)
THEOREM StreamCipherReturns ==
  ASSUME SpongeNumbers, NEW sh \in Shakes, NEW data \in Seq(ShakeByte)
  PROVE  /\ sh_dec(sh, sh_enc(sh, data).out) = [sh |-> sh_enc(sh, data).sh, out |-> data]
         /\ sh_crp(sh, sh_crp(sh, data).out) = [sh |-> sh_crp(sh, data).sh, out |-> data]
<1>1. ASSUME NEW mode \in Modes, NEW q, Streamed(mode, sh, data, q)
      PROVE  q.out \in Seq(ShakeByte)
  <2>1. PICK h : /\ Through(mode, sh, data, h)
                 /\ q = [sh |-> h[Len(data)], out |-> [i \in 1..Len(data) |-> Xor(data[i], StreamByte(h[i-1]))]]
    BY <1>1 DEF Streamed
  <2>2. PICK n \in Nat : n = Len(data)
    OBVIOUS
  <2>3. \A i \in 1..n : Xor(data[i], StreamByte(h[i-1])) \in ShakeByte
    <3> TAKE i \in 1..n
    <3>1. data[i] \in ShakeByte
      BY <2>2
    <3>2. StreamByte(h[i-1]) \in ShakeByte
      BY DEF StreamByte, StateByte, ShakeByte
    <3> QED BY <3>1, <3>2 DEF Xor, ShakeByte
  <2>4. q.out = [i \in 1..n |-> Xor(data[i], StreamByte(h[i-1]))]
    BY <2>1, <2>2
  <2>5. q.out \in [1..n -> ShakeByte]
    BY <2>3, <2>4
  <2> QED BY <2>2, <2>5
<1>2. "crp" \in Modes /\ "enc" \in Modes /\ "dec" \in Modes
  BY DEF Modes
<1>3. PICK e : e = sh_enc(sh, data) /\ Streamed("enc", sh, data, e)
  BY StreamModes
<1>4. PICK c : c = sh_crp(sh, data) /\ Streamed("crp", sh, data, c)
  BY StreamModes
<1>5. Streamed("dec", sh, e.out, sh_dec(sh, e.out)) /\ Streamed("crp", sh, c.out, sh_crp(sh, c.out))
  <2>1. e.out \in Seq(ShakeByte) /\ c.out \in Seq(ShakeByte)
    BY <1>1, <1>2, <1>3, <1>4
  <2> QED BY <2>1, StreamModes
<1>6. Inverse2("enc", "dec") /\ Inverse2("crp", "crp")
  BY DEF Inverse2
<1>7. sh_dec(sh, e.out) = [sh |-> e.sh, out |-> data]
  <2>1. PICK z : z = sh_dec(sh, e.out)
    OBVIOUS
  <2>2. Streamed("dec", sh, e.out, z) /\ Streamed("enc", sh, data, e) /\ Inverse2("enc", "dec")
    BY <1>3, <1>5, <1>6, <2>1
  <2>3. Undone(z, e, data)
    BY <2>2, StreamReturns
  <2> QED BY <2>1, <2>3 DEF Undone
<1>8. sh_crp(sh, c.out) = [sh |-> c.sh, out |-> data]
  <2>1. PICK z : z = sh_crp(sh, c.out)
    OBVIOUS
  <2>2. Streamed("crp", sh, c.out, z) /\ Streamed("crp", sh, data, c) /\ Inverse2("crp", "crp")
    BY <1>4, <1>5, <1>6, <2>1
  <2>3. Undone(z, c, data)
    BY <2>2, StreamReturns
  <2> QED BY <2>1, <2>3 DEF Undone
<1> QED BY <1>3, <1>4, <1>7, <1>8

(* A loop that takes the elements of a sequence one by one.                *)
Takes(X, D) == [X \X D -> X]
RunOver(u, op, x0, a) == u[0] = x0 /\ \A i \in 1..Len(a) : u[i] = op[<<u[i-1], a[i]>>]

(* Such a loop runs from every start.                                      *)
LEMMA RunExists ==
  ASSUME NEW X, NEW D, NEW op \in Takes(X, D), NEW x0 \in X, NEW a \in Seq(D)
  PROVE  \E u : u \in [0..Len(a) -> X] /\ RunOver(u, op, x0, a)
<1> DEFINE n == Len(a)
           step == [t \in Nat \X X |-> IF t[1] \in 1..n THEN op[<<t[2], a[t[1]]>>] ELSE x0]
<1>1. n \in Nat /\ \A i \in 1..n : a[i] \in D
  OBVIOUS
<1> HIDE DEF n
<1>2. step \in Steps(X)
  <2>1. \A t \in Nat \X X : t[1] \in Nat /\ t[2] \in X
    OBVIOUS
  <2>2. \A t \in Nat \X X : (IF t[1] \in 1..n THEN op[<<t[2], a[t[1]]>>] ELSE x0) \in X
    BY <1>1, <2>1 DEF Takes
  <2>3. \A t \in Nat \X X : step[t] \in X
    BY <2>2
  <2> QED BY <2>3 DEF Steps
<1>3. ASSUME NEW i \in 1..n, NEW x \in X PROVE step[<<i, x>>] = op[<<x, a[i]>>]
  <2>1. <<i, x>> \in Nat \X X /\ <<i, x>>[1] = i /\ <<i, x>>[2] = x
    BY <1>1
  <2> QED BY <2>1, Zenon
<1> HIDE DEF step
<1>4. PICK f : Iterates(f, n, X, x0, step)
  BY <1>1, <1>2, IteratesExist
<1>5. f \in [0..n -> X] /\ f[0] = x0 /\ \A i \in 1..n : f[i] = step[<<i, f[i-1]>>]
  BY <1>4 DEF Iterates
<1>6. \A i \in 1..n : f[i] = op[<<f[i-1], a[i]>>]
  <2> TAKE i \in 1..n
  <2>1. f[i-1] \in X
    BY <1>1, <1>5
  <2>2. f[i] = step[<<i, f[i-1]>>]
    BY <1>5
  <2> QED BY <1>3, <2>1, <2>2
<1> QED BY <1>5, <1>6 DEF RunOver, n

(* It does not matter whether the elements come in one sequence or in two. *)
LEMMA RunsJoin ==
  ASSUME NEW D, NEW a \in Seq(D), NEW b \in Seq(D), NEW op, NEW x0,
         NEW u, RunOver(u, op, x0, a), NEW v, RunOver(v, op, u[Len(a)], b),
         NEW w, RunOver(w, op, x0, a \o b)
  PROVE  w[Len(a \o b)] = v[Len(b)]
<1>1. PICK n \in Nat, m \in Nat : n = Len(a) /\ m = Len(b)
  OBVIOUS
<1>2. PICK c : c = a \o b
  OBVIOUS
<1>3. Len(c) = n + m /\ (\A i \in 1..n : c[i] = a[i]) /\ (\A j \in 1..m : c[n+j] = b[j])
  <2>1. /\ Len(a \o b) = Len(a) + Len(b) /\ \A i \in 1..Len(a) : (a \o b)[i] = a[i]
        /\ \A j \in 1..Len(b) : (a \o b)[Len(a) + j] = b[j]
    OBVIOUS
  <2> QED BY <1>1, <1>2, <2>1
<1>4. u[0] = x0 /\ \A i \in 1..n : u[i] = op[<<u[i-1], a[i]>>]
  BY <1>1 DEF RunOver
<1>5. v[0] = u[n] /\ \A i \in 1..m : v[i] = op[<<v[i-1], b[i]>>]
  BY <1>1 DEF RunOver
<1>6. w[0] = x0 /\ \A i \in 1..n+m : w[i] = op[<<w[i-1], c[i]>>]
  BY <1>2, <1>3 DEF RunOver
<1> DEFINE T == {i \in 0..n : w[i] = u[i]}
           S == {j \in 0..m : w[n+j] = v[j]}
<1>7. 0 \in T
  BY <1>4, <1>6
<1>8. ASSUME NEW i \in 1..n, i - 1 \in T PROVE i \in T
  <2>1. i \in 1..n+m /\ i \in 0..n
    OBVIOUS
  <2>2. w[i] = op[<<w[i-1], c[i]>>] /\ c[i] = a[i] /\ w[i-1] = u[i-1]
    BY <1>3, <1>6, <1>8, <2>1
  <2> QED BY <1>4, <2>1, <2>2
<1>9. w[n] = u[n]
  <2> HIDE DEF T
  <2>1. \A i \in 0..n : i \in T
    BY <1>7, <1>8, UpTo
  <2>2. n \in 0..n
    OBVIOUS
  <2> QED BY <2>1, <2>2 DEF T
<1>10. 0 \in S
  <2>1. n + 0 = n /\ 0 \in 0..m
    OBVIOUS
  <2> QED BY <1>5, <1>9, <2>1
<1>11. ASSUME NEW j \in 1..m, j - 1 \in S PROVE j \in S
  <2>1. n + j \in 1..n+m /\ j \in 0..m /\ (n + j) - 1 = n + (j - 1)
    OBVIOUS
  <2>2. w[n+j] = op[<<w[(n+j)-1], c[n+j]>>]
    BY <1>6, <2>1
  <2>3. c[n+j] = b[j] /\ w[n+(j-1)] = v[j-1]
    BY <1>3, <1>11
  <2>4. w[n+j] = op[<<v[j-1], b[j]>>]
    BY <2>1, <2>2, <2>3
  <2> QED BY <1>5, <2>1, <2>4
<1>12. w[n+m] = v[m]
  <2> HIDE DEF S
  <2>1. \A j \in 0..m : j \in S
    BY <1>10, <1>11, UpTo
  <2>2. m \in 0..m
    OBVIOUS
  <2> QED BY <2>1, <2>2 DEF S
<1> QED BY <1>1, <1>2, <1>3, <1>12

(* A byte more in shake.c, and in Keccak-compact.c.                        *)
Absorbs(sh, x) ==
  LET st == KeccakP800_AddByte(sh.st, x, sh.pt) IN
  IF sh.pt + 1 >= rsiz THEN [st |-> KeccakP800_Permute_22rounds(st), pt |-> 0]
                       ELSE [st |-> st, pt |-> sh.pt + 1]
AbsorbOp == [t \in Shakes \X ShakeByte |-> Absorbs(t[1], t[2])]

(* A byte more keeps a sponge a sponge.                                    *)
LEMMA AbsorbTyped ==
  ASSUME SpongeNumbers
  PROVE  AbsorbOp \in Takes(Shakes, ShakeByte)
<1>1. ASSUME NEW sh \in Shakes, NEW x \in ShakeByte PROVE Absorbs(sh, x) \in Shakes
  <2>1. sh.st \in BitSets /\ sh.pt \in Int
    BY DEF Shakes
  <2>2. PICK s \in BitSets : s = KeccakP800_AddByte(sh.st, x, sh.pt)
    <3>1. {8 * sh.pt + b : b \in x} \subseteq Int
      BY <2>1 DEF ShakeByte
    <3> QED BY <2>1, <3>1 DEF KeccakP800_AddByte, Xor, BitSets
  <2>3. KeccakP800_Permute_22rounds(s) \in BitSets
    BY PermutationTyped
  <2>4. sh.pt + 1 \in Int
    BY <2>1
  <2> QED BY <2>2, <2>3, <2>4 DEF Absorbs, Shakes
<1>2. \A t \in Shakes \X ShakeByte : t[1] \in Shakes /\ t[2] \in ShakeByte
  OBVIOUS
<1>3. \A t \in Shakes \X ShakeByte : Absorbs(t[1], t[2]) \in Shakes
  BY <1>1, <1>2
<1> QED BY <1>3 DEF AbsorbOp, Takes

(* sh_upd is such a loop.                                                  *)
LEMMA AbsorbRuns ==
  ASSUME SpongeNumbers, NEW sh \in Shakes, NEW data \in Seq(ShakeByte)
  PROVE  \E u : /\ u \in [0..Len(data) -> Shakes] /\ RunOver(u, AbsorbOp, sh, data)
                /\ sh_upd(sh, data) = u[Len(data)]
<1> DEFINE n == Len(data)
           Body(u, i) == LET before == u[i-1]
                             st == KeccakP800_AddByte(before.st, data[i], before.pt)
                         IN IF before.pt + 1 >= rsiz
                              THEN [st |-> KeccakP800_Permute_22rounds(st), pt |-> 0]
                              ELSE [st |-> st, pt |-> before.pt + 1]
           Is(u) == u = [i \in 0..n |-> IF i = 0 THEN sh ELSE Body(u, i)]
           w == CHOOSE u : Is(u)
<1>1. sh_upd(sh, data) = w[n]
  BY Zenon DEF sh_upd
<1>2. \A u, i : Body(u, i) = Absorbs(u[i-1], data[i])
  BY Zenon DEF Absorbs
<1>3. n \in Nat /\ \A i \in 1..n : data[i] \in ShakeByte
  OBVIOUS
<1> HIDE DEF Body
<1>4. PICK f : f \in [0..n -> Shakes] /\ RunOver(f, AbsorbOp, sh, data)
  BY AbsorbTyped, RunExists
<1> HIDE DEF n
<1>5. f[0] = sh /\ \A i \in 1..n : f[i] = AbsorbOp[<<f[i-1], data[i]>>]
  BY <1>4 DEF RunOver, n
<1>6. ASSUME NEW s \in Shakes, NEW i \in 1..n PROVE AbsorbOp[<<s, data[i]>>] = Absorbs(s, data[i])
  <2>1. data[i] \in ShakeByte
    BY <1>3
  <2>2. <<s, data[i]>> \in Shakes \X ShakeByte /\ <<s, data[i]>>[1] = s /\ <<s, data[i]>>[2] = data[i]
    BY <2>1
  <2> QED BY <2>2, Zenon DEF AbsorbOp
<1>7. \A i \in 1..n : f[i] = Body(f, i)
  <2> TAKE i \in 1..n
  <2>1. f[i-1] \in Shakes
    BY <1>3, <1>4
  <2> QED BY <1>2, <1>5, <1>6, <2>1
<1>8. Is(f)
  <2>1. \A i \in 0..n : f[i] = IF i = 0 THEN sh ELSE Body(f, i)
    <3> TAKE i \in 0..n
    <3>1. i = 0 \/ i \in 1..n
      BY <1>3
    <3> QED BY <1>5, <1>7, <3>1
  <2> QED BY <1>4, <2>1
<1>9. Is(w)
  BY <1>8
<1> HIDE DEF w
<1>10. w[0] = sh /\ \A i \in 1..n : w[i] = Absorbs(w[i-1], data[i])
  <2>1. \A i \in 0..n : w[i] = IF i = 0 THEN sh ELSE Body(w, i)
    BY <1>9
  <2>2. 0 \in 0..n /\ \A i \in 1..n : i \in 0..n /\ i # 0
    BY <1>3
  <2> QED BY <1>2, <2>1, <2>2
<1> DEFINE T == {i \in 0..n : w[i] = f[i]}
<1>11. 0 \in T
  BY <1>3, <1>5, <1>10
<1>12. ASSUME NEW i \in 1..n, i - 1 \in T PROVE i \in T
  <2>1. w[i-1] = f[i-1]
    BY <1>12
  <2>2. w[i] = Absorbs(w[i-1], data[i]) /\ f[i] = Absorbs(f[i-1], data[i])
    BY <1>2, <1>7, <1>10
  <2>3. i \in 0..n
    BY <1>3
  <2> QED BY <2>1, <2>2, <2>3
<1>13. w[n] = f[n]
  <2> HIDE DEF T
  <2>1. \A i \in 0..n : i \in T
    BY <1>3, <1>11, <1>12, UpTo
  <2>2. n \in 0..n
    BY <1>3
  <2> QED BY <2>1, <2>2 DEF T
<1> QED BY <1>1, <1>4, <1>13 DEF n

(* What one loop makes of two sequences.                                   *)
RunTo(op, x0, a, x) == \E u : RunOver(u, op, x0, a) /\ x = u[Len(a)]

(* Two loops, one after the other, and one over both sequences.            *)
Meets(op, x0, a, b) ==
  \A x, y, z : RunTo(op, x0, a, x) /\ RunTo(op, x, b, y) /\ RunTo(op, x0, a \o b, z) => z = y

(* The end of a loop over two sequences is that of a loop over their join. *)
LEMMA RunsMeet ==
  ASSUME NEW D, NEW a \in Seq(D), NEW b \in Seq(D), NEW op, NEW x0
  PROVE  Meets(op, x0, a, b)
<1> SUFFICES ASSUME NEW x, NEW y, NEW z,
                    RunTo(op, x0, a, x), RunTo(op, x, b, y), RunTo(op, x0, a \o b, z)
             PROVE  z = y
  BY Zenon DEF Meets
<1>1. PICK u : RunOver(u, op, x0, a) /\ x = u[Len(a)]
  BY Zenon DEF RunTo
<1>2. PICK v : RunOver(v, op, x, b) /\ y = v[Len(b)]
  BY Zenon DEF RunTo
<1>3. PICK w : RunOver(w, op, x0, a \o b) /\ z = w[Len(a \o b)]
  BY Zenon DEF RunTo
<1>4. RunOver(v, op, u[Len(a)], b)
  BY <1>1, <1>2
<1>5. \A e, f, g : RunOver(e, op, x0, a) /\ RunOver(f, op, e[Len(a)], b) /\ RunOver(g, op, x0, a \o b)
                    => g[Len(a \o b)] = f[Len(b)]
  BY RunsJoin
<1>6. w[Len(a \o b)] = v[Len(b)]
  BY <1>1, <1>3, <1>4, <1>5
<1> QED BY <1>2, <1>3, <1>6

(* The join of two sequences over a set is one.                            *)
LEMMA JoinTyped ==
  ASSUME NEW D, NEW a \in Seq(D), NEW b \in Seq(D)
  PROVE  a \o b \in Seq(D)
OBVIOUS

(* An element of a sequence over a set is in the set.                      *)
LEMMA ElementOf ==
  ASSUME NEW D, NEW a \in Seq(D), NEW k \in 1..Len(a)
  PROVE  a[k] \in D
OBVIOUS

(* What sh_upd makes of a sequence.                                        *)
LEMMA AbsorbRun ==
  ASSUME SpongeNumbers, NEW sh \in Shakes, NEW data \in Seq(ShakeByte)
  PROVE  sh_upd(sh, data) \in Shakes /\ RunTo(AbsorbOp, sh, data, sh_upd(sh, data))
<1>1. PICK u : /\ u \in [0..Len(data) -> Shakes] /\ RunOver(u, AbsorbOp, sh, data)
               /\ sh_upd(sh, data) = u[Len(data)]
  BY AbsorbRuns
<1>2. Len(data) \in 0..Len(data)
  OBVIOUS
<1> QED BY <1>1, <1>2 DEF RunTo

(* Bytes may be added to a sponge of shake.c in pieces.                    *)
LEMMA AbsorbedTwice ==
  ASSUME SpongeNumbers, NEW sh \in Shakes, NEW a \in Seq(ShakeByte), NEW b \in Seq(ShakeByte)
  PROVE  sh_upd(sh_upd(sh, a), b) = sh_upd(sh, a \o b)
<1>0. sh_upd(sh, a) \in Shakes
  BY AbsorbRun
<1>1. PICK t \in Shakes : t = sh_upd(sh, a)
  BY <1>0
<1>2. PICK c \in Seq(ShakeByte) : c = a \o b
  BY JoinTyped, Zenon
<1>3. RunTo(AbsorbOp, sh, a, t)
  BY <1>1, AbsorbRun
<1>4. RunTo(AbsorbOp, t, b, sh_upd(t, b))
  BY AbsorbRun
<1>5. RunTo(AbsorbOp, sh, c, sh_upd(sh, c))
  BY AbsorbRun
<1>6. Meets(AbsorbOp, sh, a, b)
  BY RunsMeet
<1>7. sh_upd(sh, c) = sh_upd(t, b)
  BY <1>2, <1>3, <1>4, <1>5, <1>6, Zenon DEF Meets
<1> QED BY <1>1, <1>2, <1>7, Zenon

(* The hashes of Keccak-compact.c.                                         *)
Eights == {8 * k : k \in Nat}
Hashes == [state : BitSets, bitsInQueue : Eights]
Feeds(h, x) ==
  LET s == KeccakP800_AddByte(h.state, x, h.bitsInQueue \div 8)
      bits == h.bitsInQueue + 8
  IN IF bits = 8 * R_BYTES THEN [state |-> KeccakF(s, {}), bitsInQueue |-> 0]
     ELSE [state |-> s, bitsInQueue |-> bits]
FeedOp == [t \in Hashes \X ShakeByte |-> Feeds(t[1], t[2])]

(* The permutation of Keccak-compact.c has constants for 24 rounds.        *)
HashNumbers == SpongeNumbers /\ KECCAK_ROUNDS <= 24

(* The constants of the rounds of Keccak-compact.c are sets of bits.       *)
LEMMA ConstantsTyped ==
  ASSUME NEW r \in 1..24
  PROVE  RoundConstant(r - 1) \subseteq Int
<1>1. KeccakF_RoundConstants[r] \subseteq Int
  BY SMTT(30) DEF KeccakF_RoundConstants
<1>2. (r - 1) + 1 = r
  OBVIOUS
<1> QED BY <1>1, <1>2 DEF RoundConstant

(* The permutation of Keccak-compact.c keeps a state a set of bits.        *)
LEMMA KeccakTyped ==
  ASSUME HashNumbers, NEW s \in BitSets
  PROVE  KeccakF(s, {}) \in BitSets
<1> DEFINE nr == KECCAK_ROUNDS
           C(r) == RoundConstant(r - 1)
           s0 == Xor(s, {})
           Is(p) == p = [r \in 0..nr |-> IF r = 0 THEN s0 ELSE Round(p[r-1], C(r))]
           w == CHOOSE p : Is(p)
           step == [t \in Nat \X BitSets |-> IF t[1] \in 1..nr THEN Round(t[2], C(t[1])) ELSE s0]
<1>1. KeccakF(s, {}) = w[nr]
  BY DEF KeccakF
<1>2. nr \in 0..24
  BY DEF HashNumbers, SpongeNumbers
<1>3. ASSUME NEW t, NEW r \in 1..nr PROVE Round(t, C(r)) \in BitSets
  <2>1. C(r) \subseteq Int
    BY <1>2, ConstantsTyped
  <2>2. PICK c : c = C(r)
    OBVIOUS
  <2>3. Chi(RhoPi(Theta(t))) \subseteq Places
    BY DEF Chi
  <2>4. Places \subseteq Int
    BY DEF Places, SpongeNumbers
  <2> HIDE DEF C
  <2> QED BY <2>1, <2>3, <2>4 DEF Round, Xor, BitSets
<1>0. s0 \in BitSets
  BY DEF Xor, BitSets
<1> HIDE DEF nr, C, s0
<1>4. step \in Steps(BitSets)
  <2>1. \A t \in Nat \X BitSets : step[t] \in BitSets
    BY <1>0, <1>3
  <2> QED BY <2>1 DEF Steps
<1>5. \A r \in 1..nr : \A t \in BitSets : step[<<r, t>>] = Round(t, C(r))
  BY <1>2
<1> HIDE DEF step
<1>6. PICK f : Iterates(f, nr, BitSets, s0, step)
  BY <1>0, <1>2, <1>4, IteratesExist
<1>7. f \in [0..nr -> BitSets] /\ f[0] = s0 /\ \A r \in 1..nr : f[r] = Round(f[r-1], C(r))
  <2>1. f \in [0..nr -> BitSets] /\ f[0] = s0 /\ \A r \in 1..nr : f[r] = step[<<r, f[r-1]>>]
    BY <1>6 DEF Iterates
  <2>2. \A r \in 1..nr : f[r] = Round(f[r-1], C(r))
    <3> TAKE r \in 1..nr
    <3>1. f[r-1] \in BitSets
      BY <1>2, <2>1
    <3> QED BY <1>5, <2>1, <3>1
  <2> QED BY <2>1, <2>2
<1>8. Is(f)
  BY <1>2, <1>7
<1>9. Is(w)
  BY <1>8
<1> HIDE DEF w
<1>10. w[nr] \in BitSets
  <2>1. CASE nr = 0
    <3>1. w[nr] = s0
      BY <1>9, <2>1
    <3> QED BY <1>0, <3>1
  <2>2. CASE nr # 0
    <3>1. w[nr] = Round(w[nr-1], C(nr)) /\ nr \in 1..nr
      BY <1>2, <1>9, <2>2
    <3> QED BY <1>3, <3>1
  <2> QED BY <2>1, <2>2
<1> QED BY <1>1, <1>10

(* A byte more keeps a hash a hash.                                        *)
LEMMA FeedTyped ==
  ASSUME HashNumbers, R_BYTES \in Nat
  PROVE  FeedOp \in Takes(Hashes, ShakeByte)
<1>1. ASSUME NEW h \in Hashes, NEW x \in ShakeByte PROVE Feeds(h, x) \in Hashes
  <2>0. h.state \in BitSets /\ h.bitsInQueue \in Eights
    BY DEF Hashes
  <2>1. h.state \in BitSets /\ h.bitsInQueue \in Int
    BY <2>0 DEF Eights
  <2>2. PICK s \in BitSets : s = KeccakP800_AddByte(h.state, x, h.bitsInQueue \div 8)
    <3>1. h.bitsInQueue \div 8 \in Int
      BY <2>1
    <3>2. {8 * (h.bitsInQueue \div 8) + b : b \in x} \subseteq Int
      BY <3>1 DEF ShakeByte
    <3> QED BY <2>1, <3>2 DEF KeccakP800_AddByte, Xor, BitSets
  <2>3. KeccakF(s, {}) \in BitSets
    BY KeccakTyped
  <2>4. h.bitsInQueue + 8 \in Eights /\ 0 \in Eights
    <3>1. PICK k \in Nat : h.bitsInQueue = 8 * k
      BY <2>0 DEF Eights
    <3>2. h.bitsInQueue + 8 = 8 * (k + 1) /\ k + 1 \in Nat /\ 0 = 8 * 0
      BY <3>1
    <3> QED BY <3>2 DEF Eights
  <2> QED BY <2>2, <2>3, <2>4 DEF Feeds, Hashes
<1>2. \A t \in Hashes \X ShakeByte : t[1] \in Hashes /\ t[2] \in ShakeByte
  OBVIOUS
<1>3. \A t \in Hashes \X ShakeByte : Feeds(t[1], t[2]) \in Hashes
  BY <1>1, <1>2
<1> QED BY <1>3 DEF FeedOp, Takes

(* What Feed makes of a sequence.                                          *)
LEMMA FeedRun ==
  ASSUME HashNumbers, R_BYTES \in Nat, NEW h \in Hashes, NEW data \in Seq(ShakeByte)
  PROVE  Feed(h, data) \in Hashes /\ RunTo(FeedOp, h, data, Feed(h, data))
<1> DEFINE n == Len(data)
           Body(u, i) == LET before == u[i-1]
                             s == KeccakP800_AddByte(before.state, data[i], before.bitsInQueue \div 8)
                             bits == before.bitsInQueue + 8
                         IN IF bits = 8 * R_BYTES THEN [state |-> KeccakF(s, {}), bitsInQueue |-> 0]
                            ELSE [state |-> s, bitsInQueue |-> bits]
           Is(u) == u = [i \in 0..n |-> IF i = 0 THEN h ELSE Body(u, i)]
           w == CHOOSE u : Is(u)
<1>1. Feed(h, data) = w[n]
  BY Zenon DEF Feed
<1>2. \A u, i : Body(u, i) = Feeds(u[i-1], data[i])
  BY Zenon DEF Feeds
<1>3. n \in Nat /\ \A i \in 1..n : data[i] \in ShakeByte
  OBVIOUS
<1> HIDE DEF Body
<1>4. PICK f : f \in [0..n -> Hashes] /\ RunOver(f, FeedOp, h, data)
  BY FeedTyped, RunExists
<1> HIDE DEF n
<1>5. f[0] = h /\ \A i \in 1..n : f[i] = FeedOp[<<f[i-1], data[i]>>]
  BY <1>4 DEF RunOver, n
<1>6. ASSUME NEW s \in Hashes, NEW i \in 1..n PROVE FeedOp[<<s, data[i]>>] = Feeds(s, data[i])
  <2>1. data[i] \in ShakeByte
    BY <1>3
  <2>2. <<s, data[i]>> \in Hashes \X ShakeByte /\ <<s, data[i]>>[1] = s /\ <<s, data[i]>>[2] = data[i]
    BY <2>1
  <2> QED BY <2>2, Zenon DEF FeedOp
<1>7. \A i \in 1..n : f[i] = Body(f, i)
  <2> TAKE i \in 1..n
  <2>1. f[i-1] \in Hashes
    BY <1>3, <1>4
  <2> QED BY <1>2, <1>5, <1>6, <2>1
<1>8. Is(f)
  <2>1. \A i \in 0..n : f[i] = IF i = 0 THEN h ELSE Body(f, i)
    <3> TAKE i \in 0..n
    <3>1. i = 0 \/ i \in 1..n
      BY <1>3
    <3> QED BY <1>5, <1>7, <3>1
  <2> QED BY <1>4, <2>1
<1>9. Is(w)
  BY <1>8
<1> HIDE DEF w
<1>10. w[0] = h /\ \A i \in 1..n : w[i] = Feeds(w[i-1], data[i])
  <2>1. \A i \in 0..n : w[i] = IF i = 0 THEN h ELSE Body(w, i)
    BY <1>9
  <2>2. 0 \in 0..n /\ \A i \in 1..n : i \in 0..n /\ i # 0
    BY <1>3
  <2> QED BY <1>2, <2>1, <2>2
<1> DEFINE T == {i \in 0..n : w[i] = f[i]}
<1>11. 0 \in T
  BY <1>3, <1>5, <1>10
<1>12. ASSUME NEW i \in 1..n, i - 1 \in T PROVE i \in T
  <2>1. w[i-1] = f[i-1]
    BY <1>12
  <2>2. w[i] = Feeds(w[i-1], data[i]) /\ f[i] = Feeds(f[i-1], data[i])
    BY <1>2, <1>7, <1>10
  <2>3. i \in 0..n
    BY <1>3
  <2> QED BY <2>1, <2>2, <2>3
<1>13. w[n] = f[n]
  <2> HIDE DEF T
  <2>1. \A i \in 0..n : i \in T
    BY <1>3, <1>11, <1>12, UpTo
  <2>2. n \in 0..n
    BY <1>3
  <2> QED BY <2>1, <2>2 DEF T
<1>14. f[n] \in Hashes
  BY <1>3, <1>4
<1> QED BY <1>1, <1>4, <1>13, <1>14 DEF n, RunTo

(* Bytes may be added to a hash of Keccak-compact.c in pieces.             *)
LEMMA FedTwice ==
  ASSUME HashNumbers, R_BYTES \in Nat, NEW h \in Hashes,
         NEW a \in Seq(ShakeByte), NEW b \in Seq(ShakeByte)
  PROVE  Feed(Feed(h, a), b) = Feed(h, a \o b)
<1>0. Feed(h, a) \in Hashes
  BY FeedRun
<1>1. PICK t \in Hashes : t = Feed(h, a)
  BY <1>0
<1>2. PICK c \in Seq(ShakeByte) : c = a \o b
  BY JoinTyped, Zenon
<1>3. RunTo(FeedOp, h, a, t)
  BY <1>1, FeedRun
<1>4. RunTo(FeedOp, t, b, Feed(t, b))
  BY FeedRun
<1>5. RunTo(FeedOp, h, c, Feed(h, c))
  BY FeedRun
<1>6. Meets(FeedOp, h, a, b)
  BY RunsMeet
<1>7. Feed(h, c) = Feed(t, b)
  BY <1>2, <1>3, <1>4, <1>5, <1>6, Zenon DEF Meets
<1> QED BY <1>1, <1>2, <1>7, Zenon

(* What Update does with whole bytes.                                      *)
LEMMA UpdateFeeds ==
  ASSUME NEW h \in Hashes, NEW data \in Seq(ShakeByte)
  PROVE  Update(h, data, 8 * Len(data)) = [ret |-> "SUCCESS", h |-> Feed(h, data)]
<1>1. PICK n \in Nat : n = Len(data)
  OBVIOUS
<1>2. h.bitsInQueue >= 0 /\ h.bitsInQueue % 8 = 0 /\ h.bitsInQueue \in Int
  <2>1. h.bitsInQueue \in Eights
    BY DEF Hashes
  <2> QED BY <2>1 DEF Eights
<1>3. (8 * n) \div 8 = n /\ (8 * n) % 8 = 0
  OBVIOUS
<1>4. Prefix(data, n) = data
  BY <1>1 DEF Prefix
<1>5. ~(h.bitsInQueue < 0 \/ h.bitsInQueue % 8 # 0)
  BY <1>2
<1> QED BY <1>1, <1>3, <1>4, <1>5, Zenon DEF Update

(* Whole bytes may be given to Update in two calls.                        *)
LEMMA UpdatedTwice ==
  ASSUME HashNumbers, R_BYTES \in Nat, NEW h \in Hashes,
         NEW a \in Seq(ShakeByte), NEW b \in Seq(ShakeByte)
  PROVE  LET first == Update(h, a, 8 * Len(a)) IN
         /\ first.ret = "SUCCESS"
         /\ Update(first.h, b, 8 * Len(b)) = Update(h, a \o b, 8 * Len(a \o b))
<1>1. PICK f \in Hashes : f = Feed(h, a)
  <2>1. Feed(h, a) \in Hashes
    BY FeedRun
  <2> QED BY <2>1
<1>2. Update(h, a, 8 * Len(a)) = [ret |-> "SUCCESS", h |-> f]
  BY <1>1, UpdateFeeds
<1>3. Update(f, b, 8 * Len(b)) = [ret |-> "SUCCESS", h |-> Feed(f, b)]
  BY UpdateFeeds
<1>4. PICK c \in Seq(ShakeByte) : c = a \o b
  BY JoinTyped, Zenon
<1>5. Update(h, c, 8 * Len(c)) = [ret |-> "SUCCESS", h |-> Feed(h, c)]
  BY UpdateFeeds
<1>6. Feed(f, b) = Feed(h, c)
  BY <1>1, <1>4, FedTwice, Zenon
<1>7. PICK u : u = Update(h, a, 8 * Len(a))
  OBVIOUS
<1>8. u.ret = "SUCCESS" /\ u.h = f
  BY <1>2, <1>7
<1>9. Update(u.h, b, 8 * Len(b)) = Update(h, a \o b, 8 * Len(a \o b))
  BY <1>3, <1>4, <1>5, <1>6, <1>8, Zenon
<1> QED BY <1>7, <1>8, <1>9, Zenon

(* The checksum of two pieces is that of the second, started with that of  *)
(* the first.                                                              *)
LEMMA CrcTwice ==
  ASSUME NEW top \in Nat, top >= 7, NEW poly \in Polynomials(top), NEW start \in SUBSET (0..top),
         NEW p \in Seq(Byte), NEW q \in Seq(Byte)
  PROVE  Crc(q, Crc(p, start, poly), poly) = Crc(p \o q, start, poly)
<1> DEFINE X == SUBSET (0..top)
           op == [t \in X \X Byte |-> CrcByte(t[1], t[2], poly)]
<1>1. ASSUME NEW x \in X, NEW a \in Seq(Byte)
      PROVE  Crc(a, x, poly) \in X /\ RunTo(op, x, a, Crc(a, x, poly))
  <2>1. PICK c : CrcRun(c, a, x, poly, top) /\ Crc(a, x, poly) = c[Len(a)]
    BY CrcRuns
  <2>2. c \in [0..Len(a) -> X] /\ c[0] = x /\ \A i \in 1..Len(a) : c[i] = CrcByte(c[i-1], a[i], poly)
    BY <2>1 DEF CrcRun
  <2>3. \A i \in 1..Len(a) : c[i] = op[<<c[i-1], a[i]>>]
    <3> TAKE i \in 1..Len(a)
    <3>1. c[i-1] \in X /\ a[i] \in Byte
      <4>1. i \in 1..Len(a) /\ i - 1 \in 0..Len(a) /\ Len(a) \in Nat
        OBVIOUS
      <4>2. \A k \in 1..Len(a) : a[k] \in Byte
        BY ElementOf, Zenon
      <4> QED BY <2>2, <4>1, <4>2, Zenon
    <3>2. <<c[i-1], a[i]>> \in X \X Byte
      BY <3>1
    <3>3. op[<<c[i-1], a[i]>>] = CrcByte(c[i-1], a[i], poly)
      BY <3>2, Zenon
    <3> QED BY <2>2, <3>3
  <2> HIDE DEF op
  <2>4. RunOver(c, op, x, a) /\ c[Len(a)] \in X
    <3>1. Len(a) \in 0..Len(a)
      OBVIOUS
    <3> HIDE DEF X
    <3> QED BY <2>2, <2>3, <3>1 DEF RunOver
  <2> QED BY <2>1, <2>4, Zenon DEF RunTo
<1> HIDE DEF op
<1>2. start \in X
  OBVIOUS
<1> HIDE DEF X
<1>a. Crc(p, start, poly) \in X
  BY <1>1, <1>2
<1>3. PICK t \in X : t = Crc(p, start, poly)
  BY <1>a
<1>4. PICK r \in Seq(Byte) : r = p \o q
  BY JoinTyped, Zenon
<1>5. RunTo(op, start, p, t) /\ RunTo(op, t, q, Crc(q, t, poly)) /\ RunTo(op, start, r, Crc(r, start, poly))
  BY <1>1, <1>2, <1>3
<1>6. Meets(op, start, p, q)
  BY RunsMeet
<1>7. Crc(r, start, poly) = Crc(q, t, poly)
  BY <1>4, <1>5, <1>6, Zenon DEF Meets
<1> QED BY <1>3, <1>4, <1>7, Zenon

(* What is absorbed in pieces: the bytes of a sponge of shake.c, the whole *)
(* bytes given to a hash of Keccak-compact.c and those of the checksum of  *)
(* 32 bits that convert.c carries from one call to the next leave what     *)
(* they leave when they are given at once, at every place in a block.      *)
THEOREM AbsorbedInPieces ==
  ASSUME HashNumbers, R_BYTES \in Nat,
         NEW a \in Seq(ShakeByte), NEW b \in Seq(ShakeByte),
         NEW p \in Seq(Byte), NEW q \in Seq(Byte)
  PROVE  /\ \A sh \in Shakes : sh_upd(sh_upd(sh, a), b) = sh_upd(sh, a \o b)
         /\ \A h \in Hashes :
              LET first == Update(h, a, 8 * Len(a)) IN
              /\ first.ret = "SUCCESS"
              /\ Update(first.h, b, 8 * Len(b)) = Update(h, a \o b, 8 * Len(a \o b))
         /\ \A crc4 \in SUBSET (0..31) :
              crc32_leupd(q, crc32_leupd(p, crc4)) = crc32_leupd(p \o q, crc4)
<1>1. ASSUME NEW sh \in Shakes PROVE sh_upd(sh_upd(sh, a), b) = sh_upd(sh, a \o b)
  BY AbsorbedTwice DEF HashNumbers
<1>2. ASSUME NEW h \in Hashes
      PROVE  LET first == Update(h, a, 8 * Len(a)) IN
             /\ first.ret = "SUCCESS"
             /\ Update(first.h, b, 8 * Len(b)) = Update(h, a \o b, 8 * Len(a \o b))
  BY UpdatedTwice
<1>3. ASSUME NEW crc4 \in SUBSET (0..31)
      PROVE  crc32_leupd(q, crc32_leupd(p, crc4)) = crc32_leupd(p \o q, crc4)
  <2>1. CRCPOLY_LE \in Polynomials(31)
    BY DEF CRCPOLY_LE, Polynomials
  <2>2. 31 \in Nat /\ 31 >= 7
    OBVIOUS
  <2> QED BY <2>1, <2>2, CrcTwice DEF crc32_leupd
<1> QED BY <1>1, <1>2, <1>3
=============================================================================
