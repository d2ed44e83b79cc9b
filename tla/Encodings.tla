------------------------------ MODULE Encodings ------------------------------
(***************************************************************************)
(* The conversions of tools/: checksums and integers in packets (amath.c), *)
(* keys and tickets as text (bin2str, str2bin), base32.c, b64.c, and the   *)
(* alphabets of convert.c.                                                 *)
(*                                                                         *)
(* Data.  A byte and a character are numbers; a string is a sequence of    *)
(* them without the 0 that ends it, and reading past its end gives 0.  A   *)
(* checksum is the set of its bits that are 1.                             *)
(***************************************************************************)
EXTENDS Integers, Sequences, FiniteSets

At(s, i) == IF i \in DOMAIN s THEN s[i] ELSE 0
Prefix(s, n) == SubSeq(s, 1, IF n < Len(s) THEN n ELSE Len(s))

-----------------------------------------------------------------------------
(* amath.c                                                                 *)

BitSet(v, width) == {b \in 0..width - 1 : (v \div 2^b) % 2 = 1}
Xor(s, t) == (s \ t) \cup (t \ s)

CRCPOLY_LE == {5, 8, 9, 15, 19, 20, 21, 23, 24, 26, 27, 29, 30, 31}
TELCRCPOLY == {0, 13, 15}

(* One byte more: eight times the lowest bit leaves and takes the          *)
(* polynomial with it.                                                     *)
CrcByte(crc, byte, poly) ==
  LET s[i \in 0..8] ==
        IF i = 0 THEN Xor(crc, BitSet(byte, 8))
        ELSE LET before == s[i-1]
                 shifted == {b - 1 : b \in before \ {0}}
             IN IF 0 \in before THEN Xor(shifted, poly) ELSE shifted
  IN s[8]

Crc(p, start, poly) ==
  LET c[i \in 0..Len(p)] == IF i = 0 THEN start ELSE CrcByte(c[i-1], p[i], poly) IN c[Len(p)]

crc32_leupd(p, crc4) == Crc(p, crc4, CRCPOLY_LE)
crc32_le(p) == Xor(crc32_leupd(p, 0..31), 0..31)
telcrc16(p) == Crc(p, 0..15, TELCRCPOLY)
telcrc16n(p) == Crc(p, {}, TELCRCPOLY)

dutcrc8(data) ==
  LET terms == <<94, 188, 97, 194, 157, 35, 70, 140>>
      Term(crc, b) == IF b \in crc THEN BitSet(terms[b+1], 8) ELSE {}
      Step(i) == LET x[b \in 0..7] == Xor(Term(i, b), IF b = 0 THEN {} ELSE x[b-1]) IN x[7]
      c[j \in 0..Len(data)] == IF j = 0 THEN {} ELSE Step(Xor(c[j-1], BitSet(data[j], 8)))
  IN c[Len(data)]

(* The byte at place i, counted from the lowest, of a set of bits.         *)
ByteOf(word, i) ==
  LET v[b \in 0..7] == (IF 8*i + b \in word THEN 2^b ELSE 0) + IF b = 0 THEN 0 ELSE v[b-1]
  IN v[7]
Placed(byte, i) == {8*i + b : b \in BitSet(byte, 8)}

mtoi(p) == UNION {Placed(p[k], 4 - k) : k \in 1..4}
itom(a) == [k \in 1..4 |-> ByteOf(a, 4 - k)]
m2u(m) == UNION {Placed(m[k], k - 1) : k \in 1..4}
u2m(u) == [k \in 1..4 |-> ByteOf(u, k - 1)]
mtos(p) == (p[2] * 256 + p[1]) % 65536
stom(a) == <<a % 256, a \div 256>>
mtom(pd, ps, a) == [i \in DOMAIN pd |-> IF i <= a THEN ps[i] ELSE pd[i]]

MAXDIGITS == 5
IsDigit(c) == c \in 48..57
myatoi(p) ==
  LET minus == At(p, 1) = 45
      q == IF minus THEN Tail(p) ELSE p
      d[i \in 0..MAXDIGITS] ==
        IF i > 0 /\ \A k \in 1..i : IsDigit(At(q, k)) THEN 10 * d[i-1] + q[i] - 48
        ELSE IF i = 0 THEN 0 ELSE d[i-1]
  IN IF minus THEN -d[MAXDIGITS] ELSE d[MAXDIGITS]

SetBitTable == <<0, 1, 1, 2, 1, 2, 2, 3, 1, 2, 2, 3, 2, 3, 3, 4>>
bitcnt(data) ==
  LET n[i \in 0..Len(data)] ==
        IF i = 0 THEN 0
        ELSE n[i-1] + SetBitTable[(data[i] % 16) + 1] + SetBitTable[(data[i] \div 16) + 1]
  IN n[Len(data)]
iszero(data) == UNION {BitSet(data[i], 8) : i \in DOMAIN data} = {}
isequal(data0, data1) ==
  UNION {Xor(BitSet(data0[i], 8), BitSet(data1[i], 8)) : i \in DOMAIN data0} = {}

HexChar(c) == IF c < 10 THEN c + 48 ELSE c + 55
IsHex(c) == c \in 48..57 \cup 65..70
Nibble(c) == IF c <= 57 THEN c - 48 ELSE c - 55

bin2str(bin) ==
  [k \in 1..2 * Len(bin) |->
     LET byte == bin[(k + 1) \div 2] IN HexChar(IF k % 2 = 1 THEN byte \div 16 ELSE byte % 16)]

(* Up to the first other character, lower case included; an odd digit at   *)
(* the end is dropped.                                                     *)
str2bin(str, maxbinlen) ==
  LET IsByte(n) == \A k \in 1..2*n : IsHex(At(str, k))
      most == CHOOSE n \in 0..maxbinlen : IsByte(n) /\ (n < maxbinlen => ~IsByte(n + 1))
  IN [n \in 1..most |-> 16 * Nibble(str[2*n - 1]) + Nibble(str[2*n])]

-----------------------------------------------------------------------------
(* base32.c: 10 bytes as 16 characters.                                    *)

base32_encode(src) ==
  [i \in 1..16 |->
     LET bit == 5 * (i - 1)
         idx == bit \div 8
         v == 256 * src[idx+1] + At(src, idx + 2)
         u == (v \div 2^(11 - (bit % 8))) % 32
     IN IF u < 26 THEN 97 + u ELSE 24 + u]

Base32Value(c) ==
  CASE c \in 97..122 -> c - 97
    [] c \in 50..55 -> c - 24
    [] c \in 65..90 -> c - 65
    [] OTHER -> -1

base32_decode(src) ==
  LET tmp == [j \in 0..15 |-> Base32Value(At(src, j + 1))]
      Byte(i) == LET t(n) == tmp[((8 * i) \div 5) + n] IN
        (CASE i % 5 = 0 -> 8 * t(0) + t(1) \div 4
           [] i % 5 = 1 -> 64 * t(0) + 2 * t(1) + t(2) \div 16
           [] i % 5 = 2 -> 16 * t(0) + t(1) \div 2
           [] i % 5 = 3 -> 128 * t(0) + 4 * t(1) + t(2) \div 8
           [] i % 5 = 4 -> 32 * t(0) + t(1)) % 256
  IN IF \E j \in 0..15 : tmp[j] = -1
       THEN [ret |-> -1, dest |-> [i \in 1..10 |-> 0]]
       ELSE [ret |-> 0, dest |-> [i \in 1..10 |-> Byte(i - 1)]]

-----------------------------------------------------------------------------
(* b64.c: base64 between braces.                                           *)

cb64(v) ==
  CASE v < 26 -> 65 + v
    [] v \in 26..51 -> 71 + v
    [] v \in 52..61 -> v - 4
    [] v = 62 -> 43
    [] v = 63 -> 47

(* What cd64 says of a character: -1 for padding, line breaks and noise.   *)
cd64(c) ==
  CASE c \in 65..90 -> c - 65
    [] c \in 97..122 -> c - 71
    [] c \in 48..57 -> c + 4
    [] c = 43 -> 62
    [] c = 47 -> 63
    [] OTHER -> -1

encodeblock(in, len) ==
  << cb64(in[1] \div 4), cb64((in[1] % 4) * 16 + (in[2] \div 16)),
     IF len > 1 THEN cb64((in[2] % 16) * 4 + (in[3] \div 64)) ELSE 61,
     IF len > 2 THEN cb64(in[3] % 64) ELSE 61 >>

decodeblock(in) ==
  << (4 * in[1] + in[2] \div 16) % 256, (16 * in[2] + in[3] \div 4) % 256,
     (64 * in[3] + in[4]) % 256 >>

(* Three bytes from the k-th on, and how many of them there are.           *)
Block(data, k) ==
  LET len == IF Len(data) - k >= 3 THEN 3 ELSE Len(data) - k IN
  encodeblock([i \in 1..3 |-> At(data, k + i)], len)

b64estr(data) ==
  LET out[n \in 0..(Len(data) + 2) \div 3] ==
        IF n = 0 THEN <<123>> ELSE out[n-1] \o Block(data, 3 * (n - 1))
  IN IF data = <<>> THEN <<>> ELSE Append(out[(Len(data) + 2) \div 3], 125)

(* A stream, in lines; the end of the file is noticed when a block is not  *)
(* full, so a file of full blocks gets its brace in a turn of its own.     *)
b64encode(file, linesize) ==
  LET last == Len(file) \div 3
      turn[n \in 0..last + 1] ==
        IF n = 0 THEN [out |-> <<>>, blocksout |-> 0]
        ELSE LET before == turn[n-1]
                 some == Len(file) > 3 * (n - 1)
                 feof == n = last + 1
                 blocks == before.blocksout + IF some THEN 1 ELSE 0
                 break == blocks >= linesize \div 4 \/ feof
             IN [out |-> before.out
                           \o (IF some /\ n = 1 THEN <<123>> ELSE <<>>)
                           \o (IF some THEN Block(file, 3 * (n - 1)) ELSE <<>>)
                           \o (IF feof /\ file # <<>> THEN <<125>> ELSE <<>>)
                           \o (IF break /\ blocks > 0 THEN <<13, 10>> ELSE <<>>),
                 blocksout |-> IF break THEN 0 ELSE blocks]
  IN turn[last + 1].out

(* The 6-bit values between braces, whatever stands around and among them, *)
(* and whether a brace is still open at the end.                           *)
Scan(text) ==
  LET s[i \in 0..Len(text)] ==
        IF i = 0 THEN [p |-> FALSE, values |-> <<>>]
        ELSE LET before == s[i-1]
                 c == text[i]
                 p == c = 123 \/ (before.p /\ c # 125)
             IN [p |-> p,
                 values |-> IF p /\ cd64(c) # -1 THEN Append(before.values, cd64(c))
                            ELSE before.values]
  IN s[Len(text)]

(* Mutant: a group that is not full gives three bytes all the same.        *)
BlocksPadded(values) ==
  LET Size == 3 * ((Len(values) + 3) \div 4)
      Group(g) == decodeblock([i \in 1..4 |-> At(values, 4 * g + i)])
  IN [k \in 1..Size |-> Group((k - 1) \div 3)[((k - 1) % 3) + 1]]

(* The bytes of all values, four by four; n values left give n - 1 bytes.  *)
Blocks(values) ==
  LET Size == (3 * (Len(values) \div 4)) + (IF Len(values) % 4 > 0 THEN (Len(values) % 4) - 1 ELSE 0)
      Group(g) == decodeblock([i \in 1..4 |-> At(values, 4 * g + i)])
  IN [k \in 1..Size |-> Group((k - 1) \div 3)[((k - 1) % 3) + 1]]

B64_NO_ENDFLAG == -1

b64decode(file) ==
  [retcode |-> IF Scan(file).p THEN B64_NO_ENDFLAG ELSE 0, out |-> Blocks(Scan(file).values)]

b64dstr(str, maxlen) ==
  LET s == Scan(str) IN
  IF s.p \/ Len(Blocks(s.values)) > maxlen
    THEN [retcode |-> -1, data |-> <<>>]
    ELSE [retcode |-> Len(Blocks(s.values)), data |-> Blocks(s.values)]

-----------------------------------------------------------------------------
(* convert.c: code page 1251, UTF-8, UTF-16 (as numbers of two bytes), and *)
(* Latin letters.                                                          *)

unescape ==
  << 1026, 1027, 8218, 1107, 8222, 8230, 8224, 8225, 8364, 8240, 1033, 8249, 1034, 1036, 1035, 1039,
     1106, 8216, 8217, 8220, 8221, 8226, 8211, 8212, 0, 8482, 1113, 8250, 1114, 1116, 1115, 1119,
     160, 1038, 1118, 1032, 164, 1168, 166, 167, 1025, 169, 1028, 171, 172, 173, 174, 1031,
     176, 177, 1030, 1110, 1169, 181, 182, 183, 1105, 8470, 1108, 187, 1112, 1029, 1109, 1111 >>

Unicode(c) == IF c >= 192 THEN c - 192 + 1040 ELSE IF c >= 128 THEN unescape[c - 127] ELSE c

(* Wide characters up to the first control character.                      *)
win2wc(str, maxlen) ==
  LET n == CHOOSE k \in 0..maxlen - 1 :
             /\ k = maxlen - 1 \/ At(str, k + 1) < 32
             /\ \A i \in 1..k : At(str, i) >= 32
  IN [i \in 1..n |-> Unicode(str[i])]

(* The bytes of a code; the first of four is shifted by 11, not by 18.     *)
Utf8(code) ==
  CASE code <= 127 -> <<code>>
    [] code \in 128..2047 -> <<192 + code \div 64, 128 + (code % 64)>>
    [] code \in 2048..65535 ->
         <<224 + code \div 4096, 128 + ((code \div 64) % 64), 128 + (code % 64)>>
    [] code > 65535 ->
         <<240 + ((code \div 2048) % 16), 128 + ((code \div 4096) % 64),
           128 + ((code \div 64) % 64), 128 + (code % 64)>>

(* Characters are added while they and a final 0 have room.                *)
Fill(codes, max) ==
  LET u[i \in 0..Len(codes)] ==
        IF i = 0 THEN [out |-> <<>>, full |-> FALSE]
        ELSE LET before == u[i-1]
                 more == Utf8(codes[i])
                 full == before.full \/ Len(before.out) + Len(more) >= max
             IN [out |-> IF full THEN before.out ELSE before.out \o more, full |-> full]
  IN u[Len(codes)].out

win2utf(sst, max) == Fill([i \in DOMAIN sst |-> Unicode(sst[i])], max)

HighSurrogate == 55296..56319
LowSurrogate == 56320..57343

(* The codes of a text of wide characters; a wrong pair gives the code 0.  *)
Codes(swt) ==
  LET c[i \in 1..Len(swt) + 2] ==
        IF i > Len(swt) THEN <<>>
        ELSE IF swt[i] \notin HighSurrogate \cup LowSurrogate THEN <<swt[i]>> \o c[i+1]
        ELSE IF swt[i] \in HighSurrogate /\ At(swt, i + 1) \in LowSurrogate
          THEN <<(swt[i] - 55296) * 1024 + swt[i+1] - 56320 + 65536>> \o c[i+2]
        ELSE <<0>> \o c[i+2]
  IN c[1]

wchar2utf(swt, max) == Fill(Codes(swt), max)

(* One code: its length and value.  A lead byte of two is looked for under *)
(* 101, which is no lead byte; under 110 there is none, and the text ends. *)
Lead(ch1) ==
  CASE ch1 < 128 -> [length |-> 1, value |-> ch1]
    [] ch1 \div 32 = 5 -> [length |-> 2, value |-> ch1 % 32]
    [] ch1 \div 16 = 14 -> [length |-> 3, value |-> ch1 % 16]
    [] ch1 \div 8 = 30 -> [length |-> 4, value |-> ch1 % 8]
    [] OTHER -> [length |-> 0, value |-> 0]

CodeAt(sut, i) ==
  LET length == Lead(sut[i]).length
      v[k \in 1..length] == IF k = 1 THEN Lead(sut[i]).value ELSE 64 * v[k-1] + (At(sut, i + k - 1) % 64)
  IN IF length = 0 THEN 0 ELSE v[length]

(* The two units of a code that is not one unit itself: of a surrogate,    *)
(* too, and of a code above the last one.                                  *)
Wide(code) ==
  IF code < 55296 \/ code \in 57344..65535
    THEN <<code>>
    ELSE <<55296 + (code - 65536) \div 1024, 56320 + (code % 1024)>>

(* max counts bytes, two of them for the end.                              *)
utf2wchar(sut, max) ==
  LET w[i \in 1..Len(sut) + 4, room \in 0..max] ==
        IF i > Len(sut) THEN <<>>
        ELSE LET code == CodeAt(sut, i)
                 more == Wide(code)
             IN IF code = 0 \/ room < 2 * Len(more) + 2 THEN <<>>
                ELSE more \o w[i + Lead(sut[i]).length, room - 2 * Len(more)]
  IN w[1, max]

tbl_win ==
  << 224, 225, 226, 227, 228, 229, 230, 231, 232, 233, 234, 235, 236, 237, 238, 239,
     240, 241, 242, 243, 244, 245, 246, 247, 248, 249, 252, 251, 250, 253, 254, 255,
     192, 193, 194, 195, 196, 197, 198, 199, 200, 201, 202, 203, 204, 205, 206, 207,
     208, 209, 210, 211, 212, 213, 214, 215, 216, 217, 220, 219, 218, 221, 222, 223,
     178, 179, 175, 191, 170, 186, 168, 184 >>
tbl_trn ==
  << 97, 98, 118, 103, 100, 101, 122, 122, 105, 106, 107, 108, 109, 110, 111, 112,
     114, 115, 116, 117, 102, 104, 99, 99, 115, 115, 39, 121, 39, 101, 106, 106,
     65, 66, 86, 71, 68, 69, 90, 90, 73, 73, 75, 76, 77, 78, 79, 80,
     82, 83, 84, 85, 70, 72, 67, 67, 83, 83, 39, 73, 39, 69, 74, 74,
     73, 105, 89, 121, 89, 121, 89, 121 >>

Second(j) ==
  CASE j \in {6, 23, 24, 38, 55, 56} -> <<104>>
    [] j \in {25, 57} -> <<99>>
    [] j \in {30, 62} -> <<117>>
    [] j \in {31, 63} -> <<97>>
    [] j \in {66, 67} -> <<105>>
    [] j \in {68, 69} -> <<101>>
    [] j \in {70, 71} -> <<111>>
    [] OTHER -> <<>>

(* A letter by one or two; the test that should put a question mark for a  *)
(* character without a letter is inside the loop and never true.           *)
r2tru(in) ==
  LET Latin(c) ==
        IF c < 128 THEN <<c>>
        ELSE IF \E j \in 1..72 : tbl_win[j] = c
          THEN LET j == CHOOSE k \in 1..72 : tbl_win[k] = c IN <<tbl_trn[j]>> \o Second(j - 1)
        ELSE <<>>
      out[i \in 0..Len(in)] == IF i = 0 THEN <<>> ELSE out[i-1] \o Latin(in[i])
  IN out[Len(in)]

-----------------------------------------------------------------------------
(* srv_iniv: the candidates, from up to 12 lines; empty lines count, and a *)
(* name is cut where its first control character stands, and to 16.        *)
ReadCandidates(lines) ==
  LET Cut(l) == LET n == CHOOSE k \in 0..Len(l) : /\ \A i \in 1..k : l[i] >= 32
                                                  /\ k = Len(l) \/ l[k+1] < 32
                IN Prefix(l, IF n < 16 THEN n ELSE 16)
  IN SelectSeq([i \in 1..Len(Prefix(lines, 12)) |-> Cut(lines[i])], LAMBDA l : l # <<>>)
=============================================================================
