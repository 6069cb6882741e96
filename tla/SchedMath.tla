------------------------------ MODULE SchedMath ------------------------------
(***************************************************************************)
(* The scheduling arithmetic of the simulator: the virtual-time increment  *)
(* of a task for one tick and the PELT decay of its load sum, in the exact *)
(* form (cfs_exact.c) and in the three approximations (approx_bsa.c,       *)
(* approx_clti.c, approx_apaf.c).                                          *)
(*                                                                         *)
(* The C code multiplies in 64 or 128 bits and shifts.  A product that is  *)
(* shifted right is a scaled quotient, and nested floors compute it digit  *)
(* by digit with small intermediate values: for n with base-b digits       *)
(* d_1..d_k (least significant first, the last one signed),                *)
(*   floor(a * n / b^k) = ( ... ((a*d_1) \div b + a*d_2) \div b ... )      *)
(* Scaled is that identity; no result here is an approximation of what     *)
(* the code computes.                                                      *)
(***************************************************************************)
EXTENDS SchedConstants, Sequences, SequencesExt

\* Weight of nice level n, for n in -20..19.
nice_to_weight(n) ==
  << 88761, 71755, 56483, 46273, 36291, 29154, 23254, 18705, 14949, 11916,
      9548,  7620,  6100,  4904,  3906,  3121,  2501,  1991,  1586,  1277,
      1024,   820,   655,   526,   423,   335,   272,   215,   172,   137,
       110,    87,    70,    56,    45,    36,    29,    23,    18,    15 >>[n + 21]

\* y^n * 2^32 for n in 0..31, as the two 16-bit halves of the u32.
yN_inv_table ==
  << <<65535, 65535>>, <<64131, 45786>>, <<62757, 32020>>, <<61412, 47514>>,
     <<60096, 50918>>, <<58809,  1766>>, <<57548, 57067>>, <<56315, 46998>>,
     <<55108, 64713>>, <<53928,  7569>>, <<52772, 35860>>, <<51641, 48517>>,
     <<50535, 10768>>, <<49452, 19657>>, <<48392, 41886>>, <<47355, 44870>>,
     <<46340, 62259>>, <<45347, 62849>>, <<44376, 16105>>, <<43425, 23220>>,
     <<42494, 54953>>, <<41584, 17154>>, <<40693, 12895>>, <<39821, 14777>>,
     <<38967, 61520>>, <<38132, 61352>>, <<37315, 54131>>, <<36516, 14730>>,
     <<35733, 49635>>, <<34968,  3712>>, <<34218, 50023>>, <<33485, 34456>> >>

runnable_avg_yN_inv(n) == yN_inv_table[n + 1]

-----------------------------------------------------------------------------
(* Scaled products *)

\* The k base-b digits of n, least significant first; the last carries the sign.
Digits(n, b, k) ==
  [i \in 1 .. k |-> IF i = k THEN n \div b^(k-1) ELSE (n \div b^(i-1)) % b]

\* floor(a * n / b^k) where ds are the k base-b digits of n.
Scaled(a, b, ds) ==
  LET h[i \in 0 .. Len(ds)] == IF i = 0 THEN 0 ELSE (a * ds[i] + h[i - 1]) \div b
  IN  h[Len(ds)]

Bytes(halves) == << halves[2] % 256, halves[2] \div 256,
                    halves[1] % 256, halves[1] \div 256 >>

\* exact_mul_u64_u32_shr(load, m, 32), m given by its 16-bit halves.
MulShr32(a, halves) == Scaled(a, 256, Bytes(halves))

\* exact_mul_u64_u32_shr(delta, inv, WMULT_SHIFT - 10)
MulShr22(delta, inv) == Scaled(delta, 4, Digits(inv, 4, 11))

\* floor(2^32 / w) by long division, eight bits at a time.
WMULT_CONST_div(w) ==
  FoldLeft(LAMBDA a, i : << 256 * a[1] + (256 * a[2]) \div w, (256 * a[2]) % w >>,
           << 0, 1 >>, << 1, 2, 3, 4 >>)[1]

\* n * 2^e, rounded down when e is negative.
Shift(n, e) == IF e >= 0 THEN n * 2^e ELSE n \div 2^(-e)

-----------------------------------------------------------------------------
(* Virtual-time increments: what update_curr() adds for one tick *)

exact_calc_delta_fair(delta_exec, weight) ==
  IF weight = NICE_0_LOAD THEN delta_exec
  ELSE IF weight = 0 THEN 0
  ELSE MulShr22(delta_exec, WMULT_CONST_div(weight))

\* The exponent of the power of two nearest to weight; a tie goes down.
nearest_pow2_log(weight) ==
  LET k == CHOOSE j \in 0 .. 30 : 2^j <= weight /\ weight < 2^(j+1)
  IN  IF weight - 2^k <= 2^(k+1) - weight THEN k ELSE k + 1

\* One Newton step x * (2^33 - weight*x) >> 32, with e = 2^32 - weight*x.
newton_step(x, weight) ==
  LET e == (2^20 - weight * (x \div 4096)) * 4096 - weight * (x % 4096)
  IN  x + Scaled(x, 4, Digits(e, 4, 16))

\* Fault: no warm start.
Cold_newton_reciprocal(weight, iterations) ==
  FoldLeft(LAMBDA x, i : newton_step(x, weight), Shift(1, 32 - nearest_pow2_log(weight)),
           [i \in 1 .. iterations |-> i])

\* 1/weight in Q0.32: affine warm start 1.5 - m/2 on m = weight / 2^k, then
\* Newton steps.  The loop's overshoot test, weight*x >= 2^33, is never met:
\* the warm start is within 16% of 1/weight.
bsa_newton_reciprocal(weight, iterations) ==
  LET k  == nearest_pow2_log(weight)
      x0 == Shift(3 * 2^k - weight, 31 - 2*k)
  IN  FoldLeft(LAMBDA x, i : newton_step(x, weight), x0, [i \in 1 .. iterations |-> i])

bsa_vruntime_delta(delta_exec, weight) ==
  IF weight = NICE_0_LOAD THEN delta_exec
  ELSE MulShr22(delta_exec, bsa_newton_reciprocal(weight, 1))

clti_weight_class == << 65536, 16384, 4096, 2048, 1024, 256, 64, 16 >>

\* The class (0..7) whose representative is nearest to weight; ties go to the
\* lower class number.
clti_weight_to_class(weight) ==
  LET dist(c) == IF weight > clti_weight_class[c + 1]
                 THEN weight - clti_weight_class[c + 1]
                 ELSE clti_weight_class[c + 1] - weight
  IN  CHOOSE c \in 0 .. 7 : \A d \in 0 .. 7 :
        dist(c) < dist(d) \/ (dist(c) = dist(d) /\ c <= d)

clti_vruntime_delta(delta_exec, weight) ==
  IF weight = NICE_0_LOAD THEN delta_exec
  ELSE LET w_rep == clti_weight_class[clti_weight_to_class(weight) + 1]
       IN  MulShr22(delta_exec, bsa_newton_reciprocal(w_rep, 1))

\* Fault: one iteration in every state.
One_newton_iters(state) == 1

apaf_newton_iters(state) == IF state = LOOSE THEN 1 ELSE 2

apaf_vruntime_delta(delta_exec, weight, state) ==
  IF weight = NICE_0_LOAD THEN delta_exec
  ELSE MulShr22(delta_exec, bsa_newton_reciprocal(weight, apaf_newton_iters(state)))

-----------------------------------------------------------------------------
(* PELT decay of a load sum over a number of 1 ms periods *)

\* What the decay_load functions share: 63 * 32 periods clear the load, and whole
\* half-lives are shifts.  A load here is below 2^31.
Halved(load, periods) ==
  IF periods >= PELT_MAX_PERIODS * LOAD_AVG_PERIOD \/ periods \div LOAD_AVG_PERIOD > 30 THEN 0
  ELSE load \div 2^(periods \div LOAD_AVG_PERIOD)

exact_decay_load(load, periods) ==
  LET halved  == Halved(load, periods)
      local_n == periods % LOAD_AVG_PERIOD
  IN  IF local_n = 0 THEN halved ELSE MulShr32(halved, runnable_avg_yN_inv(local_n))

\* Fault: shift by six.
Six_bsa_decay_load(load, periods) ==
  FoldLeft(LAMBDA x, i : x - x \div 64, Halved(load, periods),
           [i \in 1 .. periods % LOAD_AVG_PERIOD |-> i])

bsa_decay_load(load, periods) ==
  FoldLeft(LAMBDA x, i : x - x \div 32, Halved(load, periods),
           [i \in 1 .. periods % LOAD_AVG_PERIOD |-> i])

clti_decay_table == << 32768, 30048, 27554, 25268, 23170, 21247, 19484, 17867 >>

\* Fault: the whole distance to the next entry for every period.
Steep_clti_decay_interpolate(load, local_n) ==
  LET idx   == local_n \div 4
      at(i) == Scaled(load, 32, Digits(clti_decay_table[i + 1], 32, 3))
  IN  IF idx + 1 < 8 THEN at(idx) - (at(idx) - at(idx + 1)) * (local_n % 4)
      ELSE at(idx) \div 2

\* Between entries four periods apart the code interpolates linearly; past the
\* last entry it halves.
clti_decay_interpolate(load, local_n) ==
  LET idx     == local_n \div 4
      rem     == local_n % 4
      at(i)   == Scaled(load, 32, Digits(clti_decay_table[i + 1], 32, 3))
      slope   == ((at(idx) - at(idx + 1)) * rem) \div 4
  IN  IF rem = 0 THEN at(idx)
      ELSE IF idx + 1 < 8 THEN at(idx) - slope
      ELSE at(idx) \div 2

clti_decay_load(load, periods) ==
  clti_decay_interpolate(Halved(load, periods), periods % LOAD_AVG_PERIOD)

\* The polynomial factor for one period, a0 + (a1 + a2), in each state as the
\* bytes of its 48-bit fraction.  LOOSE is raised to the exact factor
\* 0xfa83b2da / 0xffffffff, which its linear form lies below.
apaf_factor(state) ==
  CASE state = TIGHT  -> << 52, 72, 156, 218, 127, 250 >>
    [] state = MEDIUM -> << 99, 91,  64,  50,  56, 250 >>
    [] state = LOOSE  -> << 131, 250, 218, 178, 131, 250 >>

\* apaf_decay_load(load, 1, state): the only period count the program uses.
apaf_decay_load(load, state) == Scaled(load, 256, apaf_factor(state))

-----------------------------------------------------------------------------
(* The two functions a tick calls, by logic and adaptive state *)

\* exact_/bsa_/clti_/apaf_update_curr: what one tick adds to vruntime.
VruntimeDelta(logic, weight, state) ==
  CASE logic = EXACT -> exact_calc_delta_fair(TICK_NS, weight)
    [] logic = BSA   -> bsa_vruntime_delta(TICK_NS, weight)
    [] logic = CLTI  -> clti_vruntime_delta(TICK_NS, weight)
    [] logic = APAF  -> apaf_vruntime_delta(TICK_NS, weight, state)

\* exact_/bsa_/clti_/apaf_update_load_avg: the decay of one tick.
TickDecay(logic, load, state) ==
  CASE logic = EXACT -> exact_decay_load(load, 1)
    [] logic = BSA   -> bsa_decay_load(load, 1)
    [] logic = CLTI  -> clti_decay_load(load, 1)
    [] logic = APAF  -> apaf_decay_load(load, state)
=============================================================================
