------------------------------ MODULE MCPatterns ------------------------------
(* All bitstreams of three bytes over 16 values: every run length up to 24,  *)
(* periods 1, 2 and 4, lone bits at both ends of a byte, words without a     *)
(* period. The templates are the aperiodic words of three bits, as template9 *)
(* holds those of nine. The sizes are the last and first numbers of bits on  *)
(* the two sides of every threshold.                                         *)
EXTENDS Patterns

MCBytes == {0, 255, 1, 128, 127, 254, 15, 240, 85, 170, 51, 204, 23, 232, 45, 180}
MCTemplates == <<1, 3, 4, 6>>
MCV == <<1, 2, 3>>
MCSizes ==
    LET thresholds == {0, 8, 128, 504, 1024, 1032, 6272, 387840, 750000, 904960,
                       2068480, 4654080, 10342400, 22753280, 49643520, 100000000,
                       107560960, 231669760, 496435200, 1059061760}
    IN {t - 8 : t \in thresholds \ {0}} \cup thresholds \cup {t + 8 : t \in thresholds}
=============================================================================
