------------------------------ MODULE Formats ------------------------------
(***************************************************************************)
(* What the conversions of Encodings and the hash functions of Sponges     *)
(* promise, for one sequence of bytes: the way back undoes the way there,  *)
(* whatever does not fit or does not belong is refused, and what is given  *)
(* in pieces counts as given in one go.  The references are the text books *)
(* of each: RFC 3629 for UTF-8, polynomial remainders by their published   *)
(* check values, the sponge construction with the padding 10*1.            *)
(***************************************************************************)
EXTENDS Sponges

(* Data again and again, up to a length.                                   *)
Cycled(data, length) ==
  [i \in 1..length |-> IF data = <<>> THEN 0 ELSE data[((i - 1) % Len(data)) + 1]]
Rest(data, n) == SubSeq(data, n + 1, Len(data))
Changed(data, k, by) == [i \in DOMAIN data |-> IF i = k THEN (data[i] + by) % 256 ELSE data[i]]
Without(data, bytes) == SelectSeq(data, LAMBDA c : c \notin bytes)

-----------------------------------------------------------------------------
(* Text.                                                                   *)

Base64Agrees(data, text) ==
  /\ data # <<>> =>
       /\ b64dstr(<<65>> \o text \o <<65, 125>>, Len(data)) = [retcode |-> Len(data), data |-> data]
       /\ b64dstr(text, Len(data) - 1).retcode = -1
       /\ b64dstr(Prefix(text, Len(text) - 1), Len(data)).retcode = -1
  /\ \A linesize \in {4, 8} :
       b64decode(b64encode(data, linesize)) = [retcode |-> 0, out |-> data]

HexAgrees(data, text) ==
  /\ \A n \in 0..Len(data) : str2bin(text, n) = Prefix(data, n)
  /\ \A n \in 0..2 * Len(data) : str2bin(Prefix(text, n) \o <<103>>, 9) = Prefix(data, n \div 2)

Capitals(text) == [i \in DOMAIN text |-> IF text[i] >= 97 THEN text[i] - 32 ELSE text[i]]
Base32Agrees(ten, text) ==
  /\ base32_decode(text) = [ret |-> 0, dest |-> ten]
  /\ base32_decode(Capitals(text)) = [ret |-> 0, dest |-> ten]
  /\ \A k \in {1, 16} : base32_decode([text EXCEPT ![k] = 49]).ret = -1
  /\ base32_decode(Prefix(text, 15)).ret = -1

(* A decimal number of five digits; integers in packets.                   *)
Digits(n) == [i \in 1..5 |-> 48 + ((n \div 10^(5 - i)) % 10)]
IntegersAgree(four) ==
  LET n == mtos(four)
      changed == mtom(four, Cycled(<<7>>, 4), 2)
  IN
  /\ n = four[1] + 256 * four[2] /\ stom(n) = Prefix(four, 2)
  /\ itom(mtoi(four)) = four /\ u2m(m2u(four)) = four
  /\ mtoi(four) = m2u([i \in 1..4 |-> four[5 - i]])
  /\ myatoi(Digits(n) \o <<55>>) = n /\ myatoi(<<45>> \o Digits(n)) = -n
  /\ changed = <<7, 7>> \o Rest(four, 2)

(* "123456789", of which the check values of checksums are published.      *)
CheckText == [i \in 1..9 |-> 48 + i]
ChecksumsAgree(data) ==
  /\ \A n \in 0..Len(data) :
       crc32_le(data) = Xor(crc32_leupd(Rest(data, n), crc32_leupd(Prefix(data, n), 0..31)), 0..31)
  /\ \A k \in DOMAIN data : \A by \in {1, 128, 255} :
       LET other == Changed(data, k, by) IN
       /\ crc32_le(other) # crc32_le(data) /\ dutcrc8(other) # dutcrc8(data)
       /\ telcrc16(other) # telcrc16(data) /\ telcrc16n(other) # telcrc16n(data)
       /\ ~ isequal(other, data)
  /\ isequal(data, data) /\ (iszero(data) <=> \A k \in DOMAIN data : data[k] = 0)
  /\ bitcnt(data) = Cardinality({p \in (DOMAIN data) \X (0..7) : p[2] \in BitSet(data[p[1]], 8)})
  /\ data = <<>> =>
       /\ itom(crc32_le(CheckText)) = <<203, 244, 57, 38>>
       /\ telcrc16(CheckText) = BitSet(19255, 16) /\ telcrc16n(CheckText) = BitSet(47933, 16)
       /\ dutcrc8(CheckText) = BitSet(161, 8)

(* RFC 3629: the codes in a sequence of bytes.                             *)
Decoded(bytes) ==
  LET Length(c) == CASE c < 128 -> 1 [] c \in 192..223 -> 2 [] c \in 224..239 -> 3 [] OTHER -> 4
      Six(i) == bytes[i] % 64
      d[i \in 1..Len(bytes) + 1] ==
        IF i > Len(bytes) THEN <<>>
        ELSE LET c == bytes[i] IN
             CASE Length(c) = 1 -> <<c>> \o d[i+1]
               [] Length(c) = 2 -> <<64 * (c % 32) + Six(i+1)>> \o d[i+2]
               [] Length(c) = 3 -> <<4096 * (c % 16) + 64 * Six(i+1) + Six(i+2)>> \o d[i+3]
               [] OTHER -> <<-1>>
  IN d[1]

IsPrefixOf(s, t) == Len(s) <= Len(t) /\ s = Prefix(t, Len(s))

(* Text of code page 1251 without 0 and without 152, which has no letter.  *)
UnicodeAgrees(text, codes) ==
  /\ win2wc(text, Len(text) + 1) = codes
  /\ Decoded(win2utf(text, 3 * Len(text) + 1)) = codes
  /\ \A max \in 1..3 * Len(text) :
       /\ Len(win2utf(text, max)) < max
       /\ IsPrefixOf(Decoded(win2utf(text, max)), codes)
       /\ wchar2utf(codes, max) = win2utf(text, max)

(* Wide characters whose UTF-8 has one byte or three.                      *)
WideAgrees(units) ==
  /\ utf2wchar(wchar2utf(units, 3 * Len(units) + 1), 2 * Len(units) + 2) = units
  /\ \A max \in 2..2 * Len(units) + 1 :
       LET some == utf2wchar(wchar2utf(units, 3 * Len(units) + 1), max) IN
       2 * Len(some) + 2 <= max /\ IsPrefixOf(some, units)

LatinAgrees(text, latin) ==
  /\ Len(latin) <= 2 * Len(text)
  /\ \A i \in DOMAIN latin : latin[i] < 128
  /\ (\A i \in DOMAIN text : text[i] < 128) => latin = text

CandidatesAgree(lines, names) ==
  /\ Len(names) <= 12
  /\ \A i \in DOMAIN names : /\ Len(names[i]) \in 1..16
                             /\ \E l \in DOMAIN lines : IsPrefixOf(names[i], lines[l])
  /\ \A l \in DOMAIN lines : l <= 12 /\ lines[l] # <<>> /\ (\A i \in DOMAIN lines[l] : lines[l][i] >= 32) =>
       \E i \in DOMAIN names : names[i] = Prefix(lines[l], 16)

TextAgrees(data) ==
  LET ten == Cycled(data, 10)
      letters == Without(data, {0, 152})
      printed == SelectSeq(letters, LAMBDA c : c >= 32)
      units == [i \in DOMAIN letters |-> IF letters[i] < 128 THEN letters[i] ELSE 200 * letters[i]]
      lines == <<data, <<>>, Cycled(data, 17)>>
  IN
  /\ Base64Agrees(data, b64estr(data))
  /\ HexAgrees(data, bin2str(data))
  /\ Base32Agrees(ten, base32_encode(ten))
  /\ IntegersAgree(Cycled(data, 4))
  /\ ChecksumsAgree(data)
  /\ UnicodeAgrees(printed, [i \in DOMAIN printed |-> Unicode(printed[i])])
  /\ WideAgrees(units)
  /\ LatinAgrees(letters, r2tru(letters))
  /\ CandidatesAgree(lines, ReadCandidates(lines))

-----------------------------------------------------------------------------
(* Hash functions.                                                         *)

Bytes8(data) == [i \in DOMAIN data |-> BitSet(data[i], 8)]

(* The sponge construction: n bits, padded with a one, zeroes and a one.   *)
Sponge(bits, n, rate, length) ==
  LET blocks == (n + 2 + 8 * rate - 1) \div (8 * rate)
      padded == bits \cup {n, 8 * rate * blocks - 1}
      InBlock(k) == {b - 8 * rate * (k - 1) : b \in padded \cap 8 * rate * (k - 1)..8 * rate * k - 1}
      state[k \in 0..blocks + (length \div rate)] ==
        IF k = 0 THEN {} ELSE KeccakF(state[k-1], IF k <= blocks THEN InBlock(k) ELSE {})
  IN [i \in 1..length |-> StateByte(state[blocks + (i - 1) \div rate], (i - 1) % rate)]

StateBytesAgree(m, s, offset) ==
  LET over == KeccakP800_OverwriteBytes(s, m, offset)
      added == KeccakP800_AddBytes(s, m, offset)
      blank == KeccakP800_OverwriteWithZeroes(s, offset)
  IN
  /\ KeccakP800_ExtractBytes(over, offset, Len(m)) = m
  /\ KeccakP800_ExtractAndAddBytes(s, m, offset) = KeccakP800_ExtractBytes(added, offset, Len(m))
  /\ KeccakP800_AddBytes(added, m, offset) = s
  /\ \A k \in 0..STLEN - 1 :
       /\ k \notin offset..offset + Len(m) - 1 => StateByte(over, k) = StateByte(s, k)
       /\ StateByte(blank, k) = IF k < offset THEN {} ELSE StateByte(s, k)

ShakeAgrees(m, bits, fresh) ==
  /\ sh_out(fresh, 2 * rsiz + 1).out = Sponge(bits \cup 8 * Len(m)..8 * Len(m) + 3, 8 * Len(m) + 4,
                                              rsiz, 2 * rsiz + 1)
  /\ \A n \in 0..Len(m) :
       /\ sh_upd(sh_upd(sh_ini, Prefix(m, n)), Rest(m, n)) = sh_upd(sh_ini, m)
       /\ LET first == sh_out(fresh, n)
              then == sh_out(first.sh, Len(m) - n)
          IN [sh |-> then.sh, out |-> first.out \o then.out] = sh_out(fresh, Len(m))
  /\ sh_crp(fresh, sh_crp(fresh, m).out) = [sh_crp(fresh, m) EXCEPT !.out = m]
  /\ sh_dec(fresh, sh_enc(fresh, m).out) = [sh_enc(fresh, m) EXCEPT !.out = m]
  /\ StateBytesAgree(m, fresh.st, 2)
  /\ LET own == sh_crp(sh_in(fresh, m), m).out IN \A i \in DOMAIN m : i <= rsiz => own[i] = {}

(* Whole bytes of m and the highest of what follows; two pieces.           *)
HashAgrees(m, bits, length) ==
  /\ crypto_hash(m, R_BYTES) = Sponge(bits, 8 * Len(m), R_BYTES, R_BYTES)
  /\ \A n \in 0..Len(m) :
       LET h == Update(Init_hash, Prefix(m, n), 8 * n).h
           whole == Update(h, Rest(m, n), 8 * (Len(m) - n))
           final == Final(whole.h, length)
       IN /\ whole.ret = "SUCCESS" /\ final.ret = "SUCCESS"
          /\ final.hashval = Sponge(bits, 8 * Len(m), R_BYTES, length)
          /\ Update(final.h, m, 8).ret = "FAIL" /\ Final(final.h, length).ret = "FAIL"
  /\ m # <<>> => \A left \in {1, 7} :
       LET n == 8 * (Len(m) - 1)
           part == Update(Init_hash, m, n + left)
           last == {b \in 0..left - 1 : b + 8 - left \in m[Len(m)]}
       IN /\ Final(part.h, length).hashval =
               Sponge({b \in bits : b < n} \cup {n + b : b \in last}, n + left, R_BYTES, length)
          /\ Update(part.h, m, 8).ret = "FAIL"

Zeroes(n) == [i \in 1..n |-> {}]
MessagesAgree(m, h) ==
  \A length \in {0, 1, BLOCK_BYTES - 1, BLOCK_BYTES, BLOCK_BYTES + 1, 2 * BLOCK_BYTES} :
    LET message == Cycled(m, length) IN
    m # <<>> => hash_update_message(h, message) =
      IF length <= BLOCK_BYTES
        THEN Update(h, message \o Zeroes(BLOCK_BYTES - length), 8 * BLOCK_BYTES).h
        ELSE hash_update_message(hash_update_message(h, Prefix(message, BLOCK_BYTES)), Rest(message, BLOCK_BYTES))

(* Two bytes of the generator as a number.                                 *)
StreamNumber(bytes) == bytes[1] + 256 * bytes[2]
GeneratorAgrees(seed, state) ==
  /\ \A j \in 1..CPRNG_SIZE :
       LET places == {i \in DOMAIN seed : (i - j) % CPRNG_SIZE = 0} IN
       state[j] = IF places = {} THEN 0 ELSE seed[CHOOSE i \in places : \A k \in places : k <= i]
  /\ \A hash \in {<<0, 0>>, <<255, 255>>, <<255, 0>>, <<100, 255>>} :
       StreamNumber(CprngStep(state, hash)) = (StreamNumber(state) + StreamNumber(hash) + 1) % 65536
  /\ LET first == cprng_get_bytes(state, CPRNG_SIZE)
         then == cprng_get_bytes(first.state, CPRNG_SIZE)
     IN [state |-> then.state, buf |-> first.buf \o then.buf] = cprng_get_bytes(state, 2 * CPRNG_SIZE)

(* The constants of the two permutations; SHA-1 of "abc" and of a text of  *)
(* two blocks, in FIPS 180, and the second of them in pieces.              *)
Sha1Text == Bytes8([i \in 1..56 |-> 97 + ((i - 1) % 4) + (i - 1) \div 4])
ConstantsAgree ==
  /\ \A round \in 0..23 :
       {2^k - 1 : k \in LFSRExponents(round)} = KeccakF_RoundConstants[round + 1]
  /\ KeccakP800_Permute_22rounds({3, 77}) = KeccakF({3, 77}, {})
  /\ sha1_state_to_byte_array(
       sha1_process_message_final(sha1_init_state, Bytes8(<<97, 98, 99>>), 3))[1] = BitSet(169, 8)
  /\ Prefix(cprng_one_way_func_sha1(Sha1Text), 2) = Bytes8(<<132, 152>>)
  /\ LET two == Sha1Text \o Sha1Text IN
     sha1_hash(two) = sha1_state_to_bigint(
       sha1_process_message_final(sha1_process_message(sha1_init_state, Prefix(two, 64)), Rest(two, 64), 112))

HashesAgree(data) ==
  LET m == Bytes8(data)
      bits == At8(m, 0)
  IN
  /\ ShakeAgrees(m, bits, sh_xof(sh_upd(sh_ini, m)))
  /\ HashAgrees(m, bits, R_BYTES + 2)
  /\ MessagesAgree(m, Init_hash)
  /\ GeneratorAgrees(data, cprng_init([j \in 1..CPRNG_SIZE |-> 0], data))
  /\ data = <<>> => ConstantsAgree

StreamAgrees(data) == TextAgrees(data) /\ HashesAgree(data)
=============================================================================
