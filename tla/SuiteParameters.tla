--------------------------- MODULE SuiteParameters ---------------------------
(***************************************************************************)
(* What package nist fixes by tables and thresholds: the least and largest *)
(* length and the block lengths of run_all.go, the parameters that         *)
(* universal.go and longest_run.go choose by the number of bits n, the     *)
(* length checks with which the tests refuse a bitstream, and the          *)
(* templates of non_overlapping_template.go.                               *)
(***************************************************************************)
EXTENDS Integers

MinBits == 387840
MaxBits == 100000000

\* The lengths for which RunAllTests returns no error.
Admits(n) == n >= MinBits /\ n <= MaxBits

\* (Mutant: > for >= in the switch.)
Exceeds(n, threshold) == n > threshold

Reaches(n, threshold) == n >= threshold

\* The switch over L of universal.go.
BlockLength(n) ==
    IF Reaches(n, 1059061760) THEN 16 ELSE IF Reaches(n, 496435200) THEN 15
    ELSE IF Reaches(n, 231669760) THEN 14 ELSE IF Reaches(n, 107560960) THEN 13
    ELSE IF Reaches(n, 49643520) THEN 12 ELSE IF Reaches(n, 22753280) THEN 11
    ELSE IF Reaches(n, 10342400) THEN 10 ELSE IF Reaches(n, 4654080) THEN 9
    ELSE IF Reaches(n, 2068480) THEN 8 ELSE IF Reaches(n, 904960) THEN 7
    ELSE IF Reaches(n, 387840) THEN 6 ELSE 5

\* K blocks of L bits are left once Q of them have filled the table T.
Q(l) == 10 * 2 ^ l
K(n) == n \div BlockLength(n) - Q(BlockLength(n))

\* The switch of longest_run.go: the block size and the classes.
LongestRunCase(n) ==
    IF n < 6272 THEN [M |-> 8, V |-> <<1, 2, 3, 4>>]
    ELSE IF n < 750000 THEN [M |-> 128, V |-> <<4, 5, 6, 7, 8, 9>>]
    ELSE [M |-> 10000, V |-> <<10, 11, 12, 13, 14, 15, 16>>]

\* The tests that return 0, false for the length of the bitstream alone when
\* RunAllTests calls them with its block and template lengths.
Refuses(n) == {test \in
    {"frequency_monobit", "block_frequency", "cumulative_sums", "runs",
     "longest_run", "binary_matrix_rank", "discrete_fourier_transform",
     "non_overlapping_template", "overlapping_template",
     "universal_statistical", "approximate_entropy", "serial",
     "linear_complexity"} :
    \/ n = 0
    \/ test = "block_frequency" /\ (n < 128 \/ n \div 128 = 0)
    \/ test = "longest_run" /\ (n < 128 \/ n \div LongestRunCase(n).M = 0)
    \/ test = "binary_matrix_rank" /\ n \div (32 * 32) = 0
    \/ test = "non_overlapping_template" /\ (n < 9 \/ n \div 8 = 0)
    \/ test = "overlapping_template" /\ (n < 9 \/ n \div 1032 = 0)
    \/ test = "universal_statistical"
         /\ (BlockLength(n) < 6 \/ BlockLength(n) > 16 \/ K(n) <= 0)
    \/ test = "linear_complexity" /\ n \div 500 = 0}

\* The rows of the template table, read as binary numbers.
template9 ==
    <<
      1, 3, 5, 7, 9, 11, 13, 15, 17, 19, 21, 23, 25, 27, 29, 31, 35, 37,
      39, 41, 43, 45, 47, 51, 53, 55, 57, 59, 61, 63, 67, 69, 71, 75,
      77, 79, 83, 85, 87, 91, 93, 95, 101, 103, 107, 109, 111, 117, 119,
      123, 125, 127, 131, 135, 139, 143, 147, 151, 155, 159, 163, 167,
      171, 175, 179, 183, 187, 191, 199, 207, 215, 223, 239, 255, 256,
      272, 288, 296, 304, 312, 320, 324, 328, 332, 336, 340, 344, 348,
      352, 356, 360, 364, 368, 372, 376, 380, 384, 386, 388, 392, 394,
      400, 402, 404, 408, 410, 416, 418, 420, 424, 426, 428, 432, 434,
      436, 440, 442, 444, 448, 450, 452, 454, 456, 458, 460, 464, 466,
      468, 470, 472, 474, 476, 480, 482, 484, 486, 488, 490, 492, 494,
      496, 498, 500, 502, 504, 506, 508, 510
    >>

\* A word of m bits that no proper shift maps onto itself: two occurrences of
\* it cannot overlap.
Aperiodic(w, m) == \A s \in 1..(m - 1) : w \div 2 ^ s # w % 2 ^ (m - s)
=============================================================================
