----------------------------- MODULE MCFormulas -----------------------------
(***************************************************************************)
(* Inputs for TLC.  Primes p whose p - 1 leaves 1, a prime or a composite  *)
(* number after the divisors below 4; bytes around the ends of both ranges.*)
(***************************************************************************)
EXTENDS Formulas

SomePrimes == {11, 13, 17, 19, 23, 31, 37, 41, 43, 71, 101, 151}
EdgeBytes == {0, 1, 127, 128, 255}
=============================================================================
