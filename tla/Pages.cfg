SPECIFICATION PagesSpec
CONSTANTS
  None = None
  Ids = {2, 3}
  MaxBallots = 2
  LINES_PER_PAGE = 2
  Candidates <- MCCandidates
  MAX_CANDIDATES = 2
  MaxNumber = 3
  Texts = {"a", "b"}
  Cipher = "c"
  Requests <- MCRequests
  BITS_PER_WORD = 2
  BITS_PER_BYTE = 1
  BI_WORDS = 3
  bi_add_var <- bi_add_var_std
  bi_subtract_var <- bi_subtract_var_std
  bi_compare_var <- bi_compare_var_std
  bi_multiply_var <- bi_multiply_var_std
  fp_mul_monty_var <- fp_mul_monty_twostep_std
  Moduli = {17, 19, 21}
  PRIME_P = 19
  fp_inv <- fp_inv_exp_std
  fp2_mul <- fp2_mul_std
  fp2_inv <- fp2_inv_std
  fp4_mul <- fp4_mul_std
  fp4_sqr <- fp4_sqr_std
  fp4_inv <- fp4_inv_std
  fp12_mul <- fp12_mul_distinct_b_std
  fp12_sqr <- fp12_sqr_std
  fp12_inv <- fp12_inv_std
  fp12_sqr_cyclotomic <- fp12_sqr_cyclotomic_std
  fp12_frobenius_map <- fp12_frobenius_map_precomp_std
  fp2_exp <- fp2_exp_std
  fp12_final_exp <- fp12_final_exp_std
  ecfp_mul <- ecfp_mul_montyladder_std
  ecfp2_mul <- ecfp2_mul_montyladder_std
  pbc_map_opt_ate <- pbc_map_opt_ate_optimized_std
  pbc_map_opt_ate_mul <- pbc_map_opt_ate_mul_std
  pbc_map_opt_ate_div <- pbc_map_opt_ate_div_std
  EC_PARAM_B = 2
  EC_PARAM_X = 1
  MONT_R = 13
  NUMBER_BITS = 5
  ECFP_GENERATOR <- MCGenerator
  ECFP2_GENERATOR <- MCGenerator2
  Streams <- MCStreams
  LANE_BITS = 8
  KECCAK_ROUNDS = 2
  MDLEN = 11
  R_BYTES = 3
  BLOCK_BYTES = 4
  CPRNG_SIZE = 2
  cprng_one_way_func <- MCOneWay
  Samples = {1, 2, 3, 4, 5, 6, 7, 8, 9, 10, 11, 12}
  Scalars = {1, 4, 7, 11}
  Numbers = {0, 1, 2, 3, 4, 5, 6, 7, 8, 9, 10, 11, 12, 13, 14, 15, 16, 17, 18,
             19, 20, 21, 22, 31, 32, 63}
INVARIANTS
  PagesShowAll
  TotalsAgree
  WordsAreIntegers
  FieldsAgree
  CurvesAgree
  SignaturesVerify
  StreamsAgree
CHECK_DEADLOCK FALSE
