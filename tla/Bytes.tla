------------------------------- MODULE Bytes -------------------------------
(***************************************************************************)
(* Bytes are the digits below Base (256 in the code).  What the code does  *)
(* with encoding/binary, shifts and masks is done here with digits: a      *)
(* number as a fixed count of them, the most significant first, and back.  *)
(***************************************************************************)
EXTENDS Integers, Sequences, SequencesExt

CONSTANT Base

ASSUME ByteAssumption == Base \in Nat /\ Base > 1

Byte == 0..(Base - 1)

\* n >> k digits, for every k up to width.
Shifted(n, base, width) ==
    LET shift[k \in 0..width] == IF k = 0 THEN n ELSE shift[k - 1] \div base
    IN  shift

\* The digits of n; the ones above width are cut off, as a conversion does.
Digits(n, base, width) ==
    [k \in 1..width |-> Shifted(n, base, width)[width - k] % base]

\* No digit of n is cut off.
FitsIn(n, base, width) == Shifted(n, base, width)[width] = 0

\* The number that has these digits.
Number(digits, base) ==
    LET value[k \in 0..Len(digits)] ==
            IF k = 0 THEN 0 ELSE value[k - 1] * base + digits[k]
    IN  value[Len(digits)]
=============================================================================
