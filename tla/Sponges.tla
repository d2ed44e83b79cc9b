------------------------------- MODULE Sponges -------------------------------
(***************************************************************************)
(* The hash functions and what is built on them: Keccak-p[800] twice       *)
(* (shake/KeccakP800.c, pair/src/hash/Keccak-compact.c), the stream of     *)
(* shake/shake.c, the hash of Keccak-compact.c, SHA-1 and the generators   *)
(* (sha1.c, rand.c, rnd/trng.c).                                           *)
(*                                                                         *)
(* Data.  A byte is the set of its bits that are 1.  A state of 25 lanes,  *)
(* or of 25 * LaneBytes bytes, is the set of its bits, numbered from the   *)
(* lowest of the first: lanes and bytes are the same numbering, as on the  *)
(* little end machines the code is for.                                    *)
(***************************************************************************)
EXTENDS Encodings

CONSTANTS
  LANE_BITS,    \* the width of a lane: a multiple of 8
  KECCAK_ROUNDS,
  MDLEN,        \* bytes that shake.c keeps to itself, twice
  R_BYTES,      \* the rate of Keccak-compact.c
  BLOCK_BYTES,  \* of the messages of hashing.c
  CPRNG_SIZE,   \* the state of the generator of rand.c
  cprng_one_way_func(_) \* from CPRNG_SIZE bytes to as many

-----------------------------------------------------------------------------
(* The permutation.                                                        *)

Place(lane, bit) == lane * LANE_BITS + (bit % LANE_BITS)
LaneOf(p) == p \div LANE_BITS
Places == 0..25 * LANE_BITS - 1

RotationConstants ==
  << 1, 3, 6, 10, 15, 21, 28, 36, 45, 55, 2, 14, 27, 41, 56, 8, 25, 43, 62, 18, 39, 61, 20, 44 >>
PiLane ==
  << 10, 7, 11, 17, 18, 3, 5, 16, 8, 21, 24, 4, 15, 23, 19, 13, 12, 2, 20, 14, 22, 9, 6, 1 >>

(* The table of Keccak-compact.c, cut to the width of a lane by the cast.  *)
KeccakF_RoundConstants ==
  << {0}, {1, 7, 15}, {1, 3, 7, 15, 63}, {15, 31, 63}, {0, 1, 3, 7, 15}, {0, 31},
     {0, 7, 15, 31, 63}, {0, 3, 15, 63}, {1, 3, 7}, {3, 7}, {0, 3, 15, 31}, {1, 3, 31},
     {0, 1, 3, 7, 15, 31}, {0, 1, 3, 7, 63}, {0, 3, 7, 15, 63}, {0, 1, 15, 63}, {1, 15, 63},
     {7, 63}, {1, 3, 15}, {1, 3, 31, 63}, {0, 7, 15, 31, 63}, {7, 15, 63}, {0, 31},
     {3, 15, 31, 63} >>
RoundConstant(round) == {b \in KeccakF_RoundConstants[round + 1] : b < LANE_BITS}

(* The register of KeccakP800.c: x^8 + x^6 + x^5 + x^4 + 1, after n steps, *)
(* as two halves.                                                          *)
LFSR86540(s) == Xor({b + 1 : b \in s \ {7}}, IF 7 \in s THEN {0, 4, 5, 6} ELSE {})
LFSRstate(n) ==
  LET steps[k \in 1..n, s \in SUBSET (0..7)] ==
        IF k = 1 THEN LFSR86540(s) ELSE steps[k - k \div 2, steps[k \div 2, s]]
  IN IF n = 0 THEN {0} ELSE steps[n, {0}]

(* What it adds in a round, counted from 0: bits 0, 1, 3, 7, ...           *)
LFSRExponents(round) == {k \in 0..6 : 0 \in LFSRstate(7 * round + k)}
LFSRConstant(round) == {b \in 0..LANE_BITS - 1 : \E k \in LFSRExponents(round) : b = 2^k - 1}

(* The sum of the two columns beside the one a bit is in.                  *)
Theta(s) ==
  LET column == {p \in 0..5 * LANE_BITS - 1 :
                   Cardinality({y \in 0..4 : p + 5 * LANE_BITS * y \in s}) % 2 = 1}
  IN Xor(s, {p \in Places : (Place((LaneOf(p) + 4) % 5, p) \in column)
                             # (Place((LaneOf(p) + 1) % 5, p - 1) \in column)})

(* Every lane but the first goes where the next entry of PiLane says, and  *)
(* is turned on the way.                                                   *)
Follower == [lane \in 1..24 |-> ((CHOOSE k \in 1..24 : PiLane[k] = lane) % 24) + 1]
RhoPi(s) ==
  {p \in s : LaneOf(p) = 0}
    \cup {LET k == Follower[LaneOf(p)] IN Place(PiLane[k], p + RotationConstants[k]) :
             p \in {q \in s : LaneOf(q) # 0}}

Chi(s) ==
  LET BC(p, x) == Place(5 * (LaneOf(p) \div 5) + ((LaneOf(p) + x) % 5), p)
  IN {p \in Places : (p \in s) # (BC(p, 1) \notin s /\ BC(p, 2) \in s)}

Round(s, constant) == Xor(Chi(RhoPi(Theta(s))), constant)

(* nr rounds, the last ones of them all.                                   *)
KeccakP800_Permute_Nrounds(state, nr) ==
  LET p[r \in 0..nr] ==
        IF r = 0 THEN state ELSE Round(p[r-1], LFSRConstant(KECCAK_ROUNDS - nr + r - 1))
  IN p[nr]
KeccakP800_Permute_22rounds(state) == KeccakP800_Permute_Nrounds(state, KECCAK_ROUNDS)

KeccakF(state, in) ==
  LET f[r \in 0..KECCAK_ROUNDS] ==
        IF r = 0 THEN Xor(state, in) ELSE Round(f[r-1], RoundConstant(r - 1))
  IN f[KECCAK_ROUNDS]

(* Bytes of a state.                                                       *)
STLEN == 25 * (LANE_BITS \div 8)
At8(data, offset) == UNION {{8 * (offset + i - 1) + b : b \in data[i]} : i \in DOMAIN data}
StateByte(state, offset) == {b \in 0..7 : 8 * offset + b \in state}

KeccakP800_AddByte(state, data, offset) == Xor(state, {8 * offset + b : b \in data})
KeccakP800_AddBytes(state, data, offset) == Xor(state, At8(data, offset))
KeccakP800_OverwriteBytes(state, data, offset) ==
  (state \ 8 * offset..8 * (offset + Len(data)) - 1) \cup At8(data, offset)
KeccakP800_OverwriteWithZeroes(state, byteCount) == state \ 0..8 * byteCount - 1
KeccakP800_ExtractBytes(state, offset, length) ==
  [i \in 1..length |-> StateByte(state, offset + i - 1)]
KeccakP800_ExtractAndAddBytes(state, input, offset) ==
  [i \in DOMAIN input |-> Xor(input[i], StateByte(state, offset + i - 1))]

-----------------------------------------------------------------------------
(* shake.c: one state for all, [st, pt].                                   *)

rsiz == STLEN - 2 * MDLEN

sh_ini == [st |-> {}, pt |-> 0]
sh_in(sh, data) == [sh EXCEPT !.st = KeccakP800_OverwriteBytes(@, Prefix(data, STLEN), 0)]

sh_upd(sh, data) ==
  LET u[i \in 0..Len(data)] ==
        IF i = 0 THEN sh
        ELSE LET before == u[i-1]
                 st == KeccakP800_AddByte(before.st, data[i], before.pt)
             IN IF before.pt + 1 >= rsiz
                  THEN [st |-> KeccakP800_Permute_22rounds(st), pt |-> 0]
                  ELSE [st |-> st, pt |-> before.pt + 1]
  IN u[Len(data)]

sh_xof(sh) ==
  LET padded == KeccakP800_AddByte(KeccakP800_AddByte(sh.st, 0..4, sh.pt), {7}, rsiz - 1)
  IN [st |-> KeccakP800_Permute_22rounds(padded), pt |-> 0]

(* Before a byte is taken, a state that is used up is permuted.            *)
Ready(sh) ==
  IF sh.pt >= rsiz THEN [st |-> KeccakP800_Permute_22rounds(sh.st), pt |-> 0] ELSE sh

(* The stream is added to data; duplex(x, y) is what goes back into the    *)
(* state when x became y.                                                  *)
Squeeze(sh, data, duplex(_, _)) ==
  LET q[i \in 0..Len(data)] ==
        IF i = 0 THEN [sh |-> sh, out |-> <<>>]
        ELSE LET before == q[i-1]
                 s == Ready(before.sh)
                 byte == StateByte(s.st, s.pt)
                 y == Xor(data[i], byte)
             IN [sh |-> [st |-> KeccakP800_AddByte(s.st, Xor(byte, duplex(y, byte)), s.pt),
                         pt |-> s.pt + 1],
                 out |-> Append(before.out, y)]
  IN q[Len(data)]

sh_out(sh, len) == Squeeze(sh, [i \in 1..len |-> {}], LAMBDA y, byte : byte)
sh_crp(sh, data) == Squeeze(sh, data, LAMBDA y, byte : byte)
sh_enc(sh, p) == Squeeze(sh, p, LAMBDA y, byte : y)
sh_dec(sh, c) == Squeeze(sh, c, LAMBDA y, byte : Xor(y, byte))

-----------------------------------------------------------------------------
(* Keccak-compact.c: [state, bitsInQueue] and the way it is fed.           *)

Init_hash == [state |-> {}, bitsInQueue |-> 0]

Feed(h, data) ==
  LET f[i \in 0..Len(data)] ==
        IF i = 0 THEN h
        ELSE LET before == f[i-1]
                 s == KeccakP800_AddByte(before.state, data[i], before.bitsInQueue \div 8)
                 bits == before.bitsInQueue + 8
             IN IF bits = 8 * R_BYTES THEN [state |-> KeccakF(s, {}), bitsInQueue |-> 0]
                ELSE [state |-> s, bitsInQueue |-> bits]
  IN f[Len(data)]

(* Whole bytes, then the highest bits of a last one; after those, and      *)
(* after Final, nothing can be added.                                      *)
Update(h, data, databitlen) ==
  IF h.bitsInQueue < 0 \/ h.bitsInQueue % 8 # 0
    THEN [ret |-> "FAIL", h |-> h]
    ELSE LET bytes == databitlen \div 8
             left == databitlen % 8
             fed == Feed(h, Prefix(data, bytes))
             last == {b - 8 + left : b \in {c \in data[bytes+1] : c >= 8 - left}}
         IN [ret |-> "SUCCESS",
             h |-> IF left = 0 THEN fed
                   ELSE [state |-> KeccakP800_AddByte(fed.state, last, fed.bitsInQueue \div 8),
                         bitsInQueue |-> fed.bitsInQueue + left]]

Squeezed(state, length) ==
  LET o[i \in 0..length \div R_BYTES] == IF i = 0 THEN state ELSE KeccakF(o[i-1], {})
  IN [k \in 1..length |-> StateByte(o[(k - 1) \div R_BYTES], (k - 1) % R_BYTES)]

Final(h, hashbytelen) ==
  IF h.bitsInQueue < 0
    THEN [ret |-> "FAIL", hashval |-> <<>>, h |-> h]
    ELSE LET Last(s) == KeccakF(KeccakP800_AddByte(s, {7}, R_BYTES - 1), {})
             padded == IF h.bitsInQueue + 1 = 8 * R_BYTES
                         THEN KeccakF(KeccakP800_AddByte(h.state, {7}, R_BYTES - 1), {})
                         ELSE KeccakP800_AddByte(h.state, {h.bitsInQueue % 8},
                                                 h.bitsInQueue \div 8)
         IN [ret |-> "SUCCESS", hashval |-> Squeezed(Last(padded), hashbytelen),
             h |-> [h EXCEPT !.bitsInQueue = -1]]

(* Block by block, the last one padded.                                    *)
crypto_hash(in, length) ==
  LET blocks == Len(in) \div R_BYTES
      inlen == Len(in) % R_BYTES
      temp == [i \in 1..R_BYTES |->
                 (IF i <= inlen THEN in[R_BYTES * blocks + i] ELSE IF i = inlen + 1 THEN {0} ELSE {})
                 \cup (IF i = R_BYTES THEN {7} ELSE {})]
      s[k \in 0..blocks] ==
        IF k = 0 THEN {}
        ELSE KeccakF(s[k-1], At8(SubSeq(in, R_BYTES * (k - 1) + 1, R_BYTES * k), 0))
  IN KeccakP800_ExtractBytes(KeccakF(s[blocks], At8(temp, 0)), 0, length)

(* hashing.c: a message goes into a hash in blocks of BLOCK_BYTES, the     *)
(* last one filled with zeroes; an empty message is a block too.           *)
hash_update_message(h, message) ==
  LET blocks == IF message = <<>> THEN 1 ELSE (Len(message) + BLOCK_BYTES - 1) \div BLOCK_BYTES
      block == [i \in 1..BLOCK_BYTES * blocks |-> IF i <= Len(message) THEN message[i] ELSE {}]
  IN Update(h, block, 8 * BLOCK_BYTES * blocks).h

-----------------------------------------------------------------------------
(* sha1.c: words of 32 bits.                                               *)

Word32 == 0..31
Halves(v) ==
  LET half[h \in 0..1, i \in 0..16] ==
        IF i = 0 THEN 0 ELSE half[h, i-1] + IF 16*h + i - 1 \in v THEN 2^(i-1) ELSE 0
  IN <<half[0, 16], half[1, 16]>>
Big32(lo, hi) ==
  BitSet(lo % 65536, 16) \cup {b + 16 : b \in BitSet((hi + (lo \div 65536)) % 65536, 16)}
Sum32(a, b) == LET x == Halves(a) y == Halves(b) IN Big32(x[1] + y[1], x[2] + y[2])
leftrotate(value, bits) == {(b + bits) % 32 : b \in value}

Hex32(hi, lo) == Big32(lo, hi)
sha1_init_state ==
  << Hex32(26437, 8961), Hex32(61389, 43913), Hex32(39098, 56574), Hex32(4146, 21622),
     Hex32(50130, 57840) >>

ST_F(i, b, c, d) ==
  CASE i <= 19 -> Xor(d, b \cap Xor(c, d))
    [] i \in 40..59 -> (b \cap c) \cup (d \cap (b \cup c))
    [] OTHER -> Xor(b, Xor(c, d))
ST_K(i) ==
  CASE i <= 19 -> Hex32(23170, 31129)
    [] i \in 20..39 -> Hex32(28377, 60321)
    [] i \in 40..59 -> Hex32(36635, 48348)
    [] OTHER -> Hex32(51810, 49622)

(* Round i, on the state and the last 16 words; the first 16 rounds take   *)
(* the block itself.                                                       *)
Sha1Round(i, x) ==
  LET s == x.state
      w == IF i < 16 THEN x.w[1]
           ELSE leftrotate(Xor(Xor(x.w[14], x.w[9]), Xor(x.w[3], x.w[1])), 1)
  IN [state |-> << Sum32(Sum32(leftrotate(s[1], 5), ST_F(i, s[2], s[3], s[4])),
                         Sum32(Sum32(s[5], ST_K(i)), w)),
                   s[1], leftrotate(s[2], 30), s[3], s[4] >>,
      w |-> Append(Tail(x.w), w)]

Sha1States == [state : [1..5 -> SUBSET Word32], w : [1..16 -> SUBSET Word32]]

(* n rounds from round i on, as two halves.                                *)
sha1_process_block(state, w) ==
  LET rounds[i \in 0..79, n \in 1..80, x \in Sha1States] ==
        IF n = 1 THEN Sha1Round(i, x)
        ELSE rounds[i + n \div 2, n - n \div 2, rounds[i, n \div 2, x]]
      last == rounds[0, 80, [state |-> state, w |-> w]].state
  IN [k \in 1..5 |-> Sum32(state[k], last[k])]

(* 64 bytes as words, the first byte of a word highest.                    *)
BlockWords(message) ==
  [k \in 1..16 |-> UNION {{8 * (3 - j) + b : b \in message[4*(k - 1) + j + 1]} : j \in 0..3}]
sha1_process_message(state, message) == sha1_process_block(state, BlockWords(message))

sha1_process_message_final(state, message, total_length) ==
  LET blocks == Len(message) \div 64
      remaining_length == Len(message) % 64
      s[n \in 0..blocks] ==
        IF n = 0 THEN state
        ELSE sha1_process_message(s[n-1], SubSeq(message, 64 * (n - 1) + 1, 64 * n))
      w == BlockWords([i \in 1..64 |->
             IF i <= remaining_length THEN message[64 * blocks + i]
             ELSE IF i = remaining_length + 1 THEN {7} ELSE {}])
      length == Big32(8 * total_length, 0)
  IN IF remaining_length < 56
       THEN sha1_process_block(s[blocks], [k \in 1..16 |-> IF k = 16 THEN length ELSE w[k]])
       ELSE sha1_process_block(sha1_process_block(s[blocks], w),
                               [k \in 1..16 |-> IF k = 16 THEN length ELSE {}])

sha1_state_to_byte_array(state) ==
  [k \in 1..20 |->
     {b \in 0..7 : 8 * (3 - ((k - 1) % 4)) + b \in state[((k - 1) \div 4) + 1]}]
(* Words of 16 bits, the lowest first: the third case of the code.         *)
sha1_state_to_bigint(state) ==
  [k \in 1..10 |->
     {b \in 0..15 : 16 * ((k - 1) % 2) + b \in state[5 - ((k - 1) \div 2)]}]
sha1_hash(message) ==
  sha1_state_to_bigint(sha1_process_message_final(sha1_init_state, message, Len(message)))

cprng_one_way_func_sha1(msg) ==
  sha1_state_to_byte_array(sha1_process_message_final(sha1_init_state, msg, Len(msg)))

-----------------------------------------------------------------------------
(* rand.c: bytes as numbers, the state little end first.                   *)

cprng_init(state, seed) ==
  LET c[i \in 0..Len(seed)] ==
        IF i = 0 THEN state ELSE [c[i-1] EXCEPT ![((i - 1) % CPRNG_SIZE) + 1] = seed[i]]
  IN c[Len(seed)]

(* State plus hash plus one, byte by byte; two carries cannot both be 1.   *)
CprngStep(state, hash) ==
  LET step[i \in 0..CPRNG_SIZE] ==
        IF i = 0 THEN [carry |-> 1, out |-> <<>>]
        ELSE LET before == step[i-1]
                 r0 == (state[i] + hash[i]) % 256
                 c0 == r0 < hash[i]
                 r1 == (r0 + before.carry) % 256
                 c1 == r1 < r0
             IN [carry |-> IF c0 \/ c1 THEN 1 ELSE 0, out |-> Append(before.out, r1)]
  IN step[CPRNG_SIZE].out

cprng_get_bytes(state, size) ==
  LET turns == (size + CPRNG_SIZE - 1) \div CPRNG_SIZE
      g[t \in 0..turns] ==
        IF t = 0 THEN [state |-> state, buf |-> <<>>]
        ELSE LET before == g[t-1]
                 hash == cprng_one_way_func(before.state)
             IN [state |-> CprngStep(before.state, hash), buf |-> before.buf \o hash]
  IN [state |-> g[turns].state, buf |-> Prefix(g[turns].buf, size)]
=============================================================================
