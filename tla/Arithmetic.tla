----------------------------- MODULE Arithmetic -----------------------------
(***************************************************************************)
(* What the pure functions promise: the words of Words against integers,   *)
(* the fields of Fields against polynomials, the curves of Curves against  *)
(* repeated addition, the pairing and the signatures of Pairing against    *)
(* their algebra.  A state is the input of one function; an input is       *)
(* chosen, compared, and put away.                                         *)
(***************************************************************************)
EXTENDS WordValues, TowerValues, Pairing, Formats

CONSTANTS Samples,  \* the elements of Fp12 that are tried are numbered
          Scalars,  \* multipliers of points
          Streams,  \* sequences of bytes
          Numbers   \* what comes in packets and from the random generator

VARIABLE input

Idle == [kind |-> "idle"]

-----------------------------------------------------------------------------
(* Inputs.                                                                 *)

(* Some element of Fp12 for each number.                                   *)
Sample(k) ==
  LET Coefficient(j) == Mod(k*k*(j + 1) + 7*j*j*k + 3*j*(k + 2) + j)
      Pair(j) == <<Coefficient(2*j), Coefficient(2*j + 1)>>
      Quadruple(j) == <<Pair(2*j), Pair(2*j + 1)>>
  IN <<Quadruple(0), Quadruple(1), Quadruple(2)>>

(* The k-fold of a generator, by repeated addition.                        *)
Infinity == [Res EXCEPT !.infinity = TRUE]
Infinity2 == [Res2 EXCEPT !.infinity = TRUE]
Multiple ==
  LET m[k \in 0..EC_PARAM_N] ==
        IF k = 0 THEN Infinity ELSE ecfp!add_affine(Res, m[k-1], ECFP_GENERATOR)
  IN [k \in 0..EC_PARAM_N |-> m[k]]
Multiple2 ==
  LET m[k \in 0..EC_PARAM_N] ==
        IF k = 0 THEN Infinity2 ELSE ecfp2!add_affine(Res2, m[k-1], ECFP2_GENERATOR)
  IN [k \in 0..EC_PARAM_N |-> m[k]]

WordInputs == [kind : {"words"}, a : 0..R - 1, b : 0..R - 1]
FieldInputs == [kind : {"field"}, i : Samples, j : Samples]
PointInputs == [kind : {"point"}, i : 0..EC_PARAM_N, k : 0..EC_PARAM_N]
NumberInputs == [kind : {"number"}, x : Numbers, sign : BOOLEAN]
SignInputs == [kind : {"sign"}, m : Numbers, x : Scalars, r : Scalars]
StreamInputs == [kind : {"stream"}, data : Streams]

Choose ==
  /\ input = Idle
  /\ \/ input' \in WordInputs
     \/ input' \in FieldInputs
     \/ input' \in PointInputs
     \/ input' \in NumberInputs
     \/ input' \in SignInputs
     \/ input' \in StreamInputs

PutAway == input # Idle /\ input' = Idle

-----------------------------------------------------------------------------
(* Words.                                                                  *)

(* The routines of bi.c, fp.c and fp2.c that carry, borrow and reduce by   *)
(* words return what integers and residues return, at every carry chain,   *)
(* at the modulus and beside it, and after the lazy sums and differences   *)
(* that exceed it.  Two routines that nothing calls under config.h are     *)
(* wrong, and asked only for what they do right: bi_subtract_word where    *)
(* its lowest word borrows nothing, bi_subtract_vl for one word of b.      *)
(* With more words the borrow of bi.c:184 compares a word of a not with    *)
(* the word of b beside it but with the lowest word of b plus the number   *)
(* of the place, and the result is not the "a - b" of bi.c:166.            *)
WordsAreIntegers ==
  input.kind = "words" => WordsAgree(input.a, input.b)

-----------------------------------------------------------------------------
(* Fields.                                                                 *)

(* The power by repeated multiplication.                                   *)
Power12(a, k) ==
  LET r[i \in 0..k] == IF i = 0 THEN fp12_one ELSE fp12_mul(r[i-1], a) IN r[k]

(* Of the cyclotomic group, where the final exponentiation works.          *)
Cyclotomic(a) ==
  LET c == fp12_mul(fp12_conjugate(a), fp12_inv(a)) IN fp12_mul(fp12_frobenius_map(c, 2), c)

SquaresAgree(a1, a2) ==
  /\ (\E y \in Fp : fp_mul(y, y) = a1) <=> fp_legendre(a1) # -1
  /\ fp_legendre(a1) # -1 => LET y == fp_sqrt(a1) IN fp_mul(y, y) = a1
  /\ a1 # 0 => fp_mul(a1, fp_inv(a1)) = 1
  /\ (\E y \in Fp \X Fp : Product2(y, y) = a2) <=> fp2_legendre(a2) # -1
  /\ fp2_legendre(a2) # -1 => fp2_sqr(fp2_sqrt(a2)) = a2
  /\ a2 # fp2_zero => a2 \otimes fp2_inv(a2) = fp2_one
  /\ fp2_mul_qnr(a2) = Product2(a2, <<1, 1>>) /\ fp2_div_qnr(fp2_mul_qnr(a2)) = a2
  /\ fp2_sqr(a2) = Product2(a2, a2)

ProductsAgree(a, b) ==
  LET product == fp12_mul(a, b)
      Double12(x) == fp12_add(x, x)
      line == <<b[1], <<b[2][1], fp2_zero>>, fp4_zero>>
  IN
  /\ a[1][1] \otimes b[1][1] = Product2(a[1][1], b[1][1])
  /\ Polynomial(product) = Product12(a, b)
  /\ fp12_mul_tk3(a, b) = Double12(fp12_add(Double12(product), product))
  /\ fp12_mul_sparse(a, b[1], b[2][1]) = fp12_mul(a, line)
  /\ fp12_sub(fp12_add(a, b), b) = fp12_add(a, fp12_add(b, fp12_neg(b)))

InversesAgree(a) ==
  /\ fp12_sqr(a) = fp12_mul(a, a) /\ fp4_sqr(a[1]) = a[1] ** a[1]
  /\ fp12_mul(a, fp12_inv(a)) = fp12_one /\ a[1] ** fp4_inv(a[1]) = fp4_one
  /\ fp12_hlv(fp12_add(a, a)) = a

PowersAgree(a) ==
  /\ fp2_frobenius(a[1][1], 1) = fp2_exp(a[1][1], PRIME_P)
  /\ fp4_frobenius(a[1], 1) = fp4_exp(a[1], PRIME_P)
  /\ fp4_frobenius(a[1], 2) = fp4_exp(fp4_frobenius(a[1], 1), PRIME_P)
  /\ fp12_frobenius_map(a, 1) = fp12_exp(a, PRIME_P)
  /\ fp12_frobenius_map(a, 5) = fp12_exp(fp12_frobenius_map(a, 4), PRIME_P)
  /\ fp12_frobenius_map(a, 6) = fp12_conjugate(a)
  /\ \A k \in {0, 1, 2, 5, 12} : fp12_exp(a, k) = Power12(a, k)

CyclotomicAgree(c, a) ==
  /\ fp12_sqr_cyclotomic(c) = fp12_sqr(c)
  /\ c[2][1][1] # 0 => /\ fp12_decompress(c, 0) = c
                       /\ fp12_decompress(fp12_sqr_compressed(c), 0) = fp12_sqr(c)
  /\ \A k \in {0, 1, 2, 5, 12} :
       /\ fp12_exp_cyclotomic(c, k) = Power12(c, k)
       /\ fp12_final_exp(c, k) = Power12(c, k)
       /\ fp12_final_mulexp(a, c, k) = fp12_mul(a, Power12(c, k))

ElementAgrees(a) ==
  /\ \A h, k \in 1..2 : SquaresAgree(a[1][h][k], a[1][h])
  /\ InversesAgree(a)
  /\ PowersAgree(a)
  /\ CyclotomicAgree(Cyclotomic(a), a)

ElementsAgree(i, j) ==
  /\ ProductsAgree(Sample(i), Sample(j))
  /\ i = j => ElementAgrees(Sample(i))

(* The shortcuts of the fields compute what they stand for: Karatsuba, Toom *)
(* and Cook, Chung and Hasan the schoolbook product, conjugation and the   *)
(* constants of the Frobenius map the p-th power, the cyclotomic squares   *)
(* the squares, a Legendre symbol whether there is a root, a root its      *)
(* square (fp.c, fp2.c, fp4.c, fp12.c).                                    *)
FieldsAgree ==
  input.kind = "field" => ElementsAgree(input.i, input.j)

-----------------------------------------------------------------------------
(* Curves.                                                                 *)

SamePoint(a, b) ==
  a.infinity = b.infinity /\ (a.infinity \/ (a.x = b.x /\ a.y = b.y))

(* The multipliers for which the ladder ends with two finite points.       *)
Ladder(k) == k \in 1..EC_PARAM_N - 2

(* One step of the ladder from iG and (i+k)G, and the end of one at iG.    *)
LadderAgrees(i, k, z) ==
  LET d == Multiple2[k]
      first == Multiple2[i]
      second == Multiple2[(i + k) % EC_PARAM_N]
      sum == Multiple2[(2*i + k) % EC_PARAM_N]
      double == Multiple2[(2*i + 2*k) % EC_PARAM_N]
      s == ecfp2_add_dbl_coz(first.x \otimes z, second.x \otimes z, z, d.x)
      r == ecfp2_recover_full_coord_coz(first.x \otimes z, second.x \otimes z, z, d.x, d.y)
  IN /\ ~ sum.infinity => /\ s.x1 = sum.x \otimes s.z
                         /\ s.x2 = double.x \otimes s.z
     /\ ecfp2_verify_homogeneous(r.x, r.y, r.z)
     /\ r.x = first.x \otimes r.z /\ r.y = first.y \otimes r.z

(* The representations of a point, and what is computed in them.  A sum by *)
(* way of Jacobian coordinates is asked for finite points only: a point    *)
(* plus infinity keeps x and y of its z but gets z = 1.                    *)
FormsAgree(q, q2, z) ==
  LET j == ecfp2_get_jacobian_projective(q, z)
      j2 == ecfp2_dbl_proj(j)
  IN /\ SamePoint(ecfp2_get_affine_from_jacobian(Res2, j), q)
     /\ SamePoint(ecfp2_get_affine_from_jacobian(Res2, ecfp2_get_projective(q)), q)
     /\ SamePoint(ecfp2_dbl_affine_std(Res2, q, z), ecfp2_add_affine(Res2, q, q))
     /\ SamePoint(ecfp2_get_affine_from_jacobian(Res2, ecfp2_add_proj(j2, q)),
                  ecfp2_add_affine(Res2, ecfp2_dbl_affine(Res2, q), q))
     /\ ~ q.infinity =>
          /\ ecfp2_verify_coordinates(q.x, q.y)
          /\ ~ q2.infinity => SamePoint(ecfp2_add_affine_std(Res2, q, q2, z),
                                        ecfp2_add_affine(Res2, q, q2))
          /\ SamePoint(ecfp2_add_affine(Res2, q, ecfp2_neg_affine(q)), Infinity2)
          /\ ecfp2_compare(j, ecfp2_get_projective(q)) <=> z # fp2_one
          /\ \A h \in 0..3 : ecfp2_frobenius_map_std(q, h) = ecfp2_frobenius_map(q, h)

PointsAgree(i, k, p, q, p2, q2) ==
  /\ \A z \in {fp2_one, <<3, 7>>} : FormsAgree(q, q2, z)
  /\ i \in 1..EC_PARAM_N - 1 /\ k \in 1..EC_PARAM_N - 1 /\ i + k # EC_PARAM_N =>
       LadderAgrees(i, k, <<5, 2>>)
  /\ ~ p.infinity =>
       /\ ~ p2.infinity => SamePoint(ecfp!add_affine_proj(Res, p, p2, 5),
                                     ecfp!add_affine(Res, p, p2))
       /\ SamePoint(ecfp!dbl_affine_proj(Res, p, 7), ecfp!dbl_affine(Res, p))
  /\ SamePoint(ecfp!add_affine(Res, p, p2), Multiple[(i + k) % EC_PARAM_N])
  /\ SamePoint(ecfp2_add_affine(Res2, q, q2), Multiple2[(i + k) % EC_PARAM_N])
  /\ SamePoint(ecfp!mul_l2rb(Res, p, BitsOf(k)), Multiple[(i * k) % EC_PARAM_N])
  /\ SamePoint(ecfp2_mul_l2rb(Res2, q, i), Multiple2[(i * k) % EC_PARAM_N])
  /\ ~ p.infinity /\ Ladder(k) =>
       \A z \in {1, 7} : SamePoint(ecfp_mul(p, k, z), Multiple[(i * k) % EC_PARAM_N])
  /\ ~ q.infinity /\ Ladder(i) =>
       \A z \in {fp2_one, <<3, 7>>} : SamePoint(ecfp2_mul(q, i, z), Multiple2[(i * k) % EC_PARAM_N])
  /\ ~ p.infinity /\ p.x # 0 => bls_uncompress(bls_compress(p)) = [ret |-> 1, p |-> p]

(* Where the hash divides by zero: t = 0, and t^2 = -1 - b.                *)
Singular(t) == t = 0 \/ Mod(t * t + 1 + EC_PARAM_B) = 0
Singular2(t) ==
  t = 0 \/ <<Mod(t * t + 1), 0>> \oplus fp2_b = fp2_zero

NumbersAgree(x, sign) ==
  LET t == x % PRIME_P
      residue == (x % 2^NUMBER_BITS) % PRIME_P
      abscissa == FromMemory(residue)
      u == bls_uncompress([x |-> x, sign |-> sign])
      h == ecfp_hash_to_point(t)
      h2 == ecfp2_hash_to_point(t, <<3, 7>>)
  IN
  /\ ~ Singular(t) => ecfp!verify_coordinates(h.x, h.y)
  /\ ~ Singular2(t) => \E k \in 0..EC_PARAM_N - 1 : SamePoint(h2, Multiple2[k])
  /\ u.ret = 1 <=> residue # 0 /\ \E y \in Fp : ecfp!verify_coordinates(abscissa, y)
  /\ u.ret = 1 => /\ ecfp!verify_coordinates(abscissa, u.p.y) /\ u.p.x = abscissa
                  /\ bls_compress(u.p) = [x |-> residue, sign |-> sign]

(* Every way to multiply a point gives the point that repeated addition    *)
(* gives, whatever z was drawn: the ladder for all multipliers but 0 and   *)
(* n - 1, for which it returns no point; a hash is on the curve and on the *)
(* twist in the group of order n, except where it divides by zero.         *)
(* bls_uncompress drops the bit above the field and reduces (bls.c:189): a *)
(* number is accepted exactly if its residue is, in Montgomery's form, the *)
(* x of a point and not 0, and then the point is the one whose short form  *)
(* is that residue and that sign.  Below the prime a short form belongs to *)
(* its point alone; greater numbers are further names of the same points   *)
(* (ecfp.c, ecfp2.c, bls.c).                                               *)
CurvesAgree ==
  /\ input.kind = "point" => 
       PointsAgree(input.i, input.k, Multiple[input.i], Multiple2[input.k],
                   Multiple[input.k], Multiple2[input.i])
  /\ input.kind = "number" => NumbersAgree(input.x, input.sign)

-----------------------------------------------------------------------------
(* Byte sequences.                                                         *)

(* Every encoding is undone by its decoder, whatever the length and the    *)
(* room: base64 through noise, missing braces and lines, base32, hex and   *)
(* integers.  UTF-8 is written by whole characters that RFC 3629 reads     *)
(* back.  utf2wchar is asked for characters of one byte or three only: it  *)
(* takes 101 for the beginning of a lead byte of two (convert.c:161, where *)
(* the comment beside it says 110), so a text ends for it at the first     *)
(* such character, any Cyrillic letter.  A changed byte changes every      *)
(* checksum; and the sponges, the hash, the stream cipher and the generator *)
(* give for data in pieces what the text book gives for the whole, at each *)
(* place in a block where the padding can begin (tools/, shake/, hash/).   *)
StreamsAgree ==
  input.kind = "stream" => StreamAgrees(input.data)

-----------------------------------------------------------------------------
(* The pairing and the signatures.                                         *)

Paired == pbc_map_opt_ate(ECFP_GENERATOR, ECFP2_GENERATOR, fp2_one)

(* Two lines are the same but for a factor of Fp2, which the final         *)
(* exponent does away with.                                                *)
SameLine(l, m) ==
  /\ l.b0[1] \otimes m.b10 = m.b0[1] \otimes l.b10
  /\ l.b0[2] \otimes m.b10 = m.b0[2] \otimes l.b10

LinesAgree(i, k, p, q) ==
  LET sum == Multiple2[(2 * k) % EC_PARAM_N]
      homogeneous == ecfp2_get_homogeneous_projective(q, <<3, 5>>)
      jacobian == ecfp2_get_jacobian_projective(q, <<3, 5>>)
      tangent == pbc_point_dbl_line(homogeneous, p)
      old == pbc_point_dbl_line_jacobian(jacobian, p)
      chord == pbc_point_add_line(tangent.t, q, p)
  IN
  /\ tangent.t.x = sum.x \otimes tangent.t.z /\ tangent.t.y = sum.y \otimes tangent.t.z
  /\ SameLine(tangent, pbc_eval_tangent_function(jacobian, p))
  /\ SameLine(tangent, old)
  /\ SamePoint(ecfp2_get_affine_from_jacobian(Res2, old.t), sum)
  /\ SameLine(chord, pbc_eval_line_function(old.t, q, p))

(* The final exponent that is used is a fixed multiple of Scott's.         *)
FuentesFactor ==
  LET u == -EC_PARAM_X IN (2 * u * (6 * u * u + 3 * u + 1)) % EC_PARAM_N
ExponentsAgree(f) ==
  FinalExp(f) = Power12(pbc_map_opt_ate_optimized_final_exp_std(f), FuentesFactor)

PairingsAgree(i, k, p, q) ==
  /\ LinesAgree(i, k, p, q)
  /\ i = k => ExponentsAgree(Sample(i))
  /\ Paired # fp12_one
  /\ pbc_map_opt_ate(p, q, <<3, 5>>) = Power12(Paired, (i * k) % EC_PARAM_N)
  /\ pbc_map_opt_ate_mul(p, q, ECFP_GENERATOR, q, <<3, 5>>) =
       Power12(Paired, ((i + 1) * k) % EC_PARAM_N)
  /\ pbc_map_opt_ate_div(p, q, ECFP_GENERATOR, ECFP2_GENERATOR, <<3, 5>>) =
       Power12(Paired, (i * k - 1) % EC_PARAM_N)

(* A registration as voter and Registrar do it together: the hash of the   *)
(* voter's secret m is blinded with r, signed with x, and unblinded.       *)
SignaturesAgree(m, r, key, hash, blinded) ==
  LET s == bls_unblind(bls_sign(blinded.b, key.x, 3), key.X, blinded.r, 11) IN
  /\ hash.ret = 1 <=> (m % 2^NUMBER_BITS) % EC_PARAM_N # 0
  /\ hash.ret = 1 /\ ~ Singular(FromMemory(hash.m)) /\ ~ blinded.b.infinity =>
       /\ s = ecfp_mul(hash.h, key.x, 1)
       /\ bls_verify(hash.h, s, key.XX, <<2, 5>>)

(* The pairing is bilinear and not constant, so are its products and       *)
(* quotients, whatever z was drawn; therefore the signature that a voter   *)
(* unblinds is the Registrar's signature on the hash of his secret, the    *)
(* blinding leaves no trace in it, and bls_verify accepts it (pbc_bn.c,    *)
(* bls.c).  Scalars leave out 0 and n - 1.                                 *)
SignaturesVerify ==
  /\ input.kind = "point" /\ ~ Multiple[input.i].infinity /\ ~ Multiple2[input.k].infinity =>
       PairingsAgree(input.i, input.k, Multiple[input.i], Multiple2[input.k])
  /\ input.kind = "sign" =>
       SignaturesAgree(input.m, input.r, bls_key(input.x, 7, <<3, 7>>), bls_hash(input.m),
                       bls_blind(bls_hash(input.m).h, input.r, 5))
=============================================================================
