----------------------------- MODULE Magnitudes -----------------------------
(***************************************************************************)
(* The magnitudes that safe_expr.py computes with.                         *)
(*                                                                         *)
(* The code works with log10 of a magnitude, as a float. Here a magnitude  *)
(* is its antilogarithm, a non-negative rational <<p, q>>: a sum of logs   *)
(* is a product, a multiple of a log is a power, a maximum stays one, and  *)
(* "more than d digits" is "at least 10^d".  Everything from Huge up is    *)
(* one value, which plays the part of the code's infinity and of its       *)
(* "log above 50" (_safe_pow10); Huge^2 fits TLC's integers.  Real         *)
(* constants (pi, e, phi) enter as values rounded down.                    *)
(***************************************************************************)
EXTENDS Integers, Sequences, FiniteSetsExt, SequencesExt

CONSTANTS MaxNumericDigits, \* MAX_NUMERIC_DIGITS, 4000 in the code
          MaxHeavyArg,      \* MAX_HEAVY_ARG, 1463
          MaxFactorDigits,  \* MAX_FACTOR_ARG_DIGITS, 25
          MaxRootDigits,    \* MAX_ROOT_ARG_DIGITS, 1200
          MaxOrder,         \* the order caps of the orthogonal polynomials
          MaxIthPrimeSkip,  \* MAX_ITH_PRIME_SKIP, 1000
          MaxSymbolicExponent \* MAX_SYMBOLIC_EXPONENT, 200

Huge == 46000
Inf == <<Huge, 1>>
One == <<1, 1>>
NoMag == <<0, 0>>        \* a position without a bound

Sat(n) == IF n > Huge THEN Huge ELSE n
SatMul(a, b) == IF a = Huge \/ b = Huge THEN IF a = 0 \/ b = 0 THEN 0 ELSE Huge
                ELSE Sat(a * b)

RECURSIVE Gcd(_, _), PowN(_, _)
Gcd(a, b) == IF b = 0 THEN a ELSE Gcd(b, a % b)
PowN(b, e) == IF e = 0 THEN 1 ELSE IF b <= 1 THEN b
              ELSE LET r == PowN(b, e - 1) IN IF r = Huge THEN Huge ELSE SatMul(b, r)

\* A saturated side stays saturated: it is never divided back below Huge.
Mag(p, q) == IF p = Huge \/ q = Huge \/ p = 0 THEN <<p, q>>
             ELSE LET g == Gcd(p, q) IN <<p \div g, q \div g>>
Times(a, b) == Mag(SatMul(a[1], b[1]), SatMul(a[2], b[2]))
Over(a, b) == Times(a, <<b[2], b[1]>>)
AtMost(a, b) == a[1] * b[2] <= b[1] * a[2]
Larger(a, b) == IF AtMost(a, b) THEN b ELSE a
Largest(S) == CHOOSE a \in S : \A b \in S : AtMost(b, a)
Power(a, n) == Mag(PowN(a[1], n), PowN(a[2], n))
Up(a) == IF a[1] = Huge THEN Huge ELSE (a[1] + a[2] - 1) \div a[2]

Root(n, q) == IF q = 1 THEN n ELSE CHOOSE r \in 0 .. 215 : PowN(r, q) <= n /\ n < PowN(r + 1, q)

(* n to a rational power, rounded down: no comparison with a cap, which is a *)
(* power of ten or an integer, can tell the difference.                      *)
RationalPower(n, e) ==
  IF n <= 1 THEN n ELSE IF e[1] = Huge THEN Huge
  ELSE SatMul(PowN(n, e[1] \div e[2]), IF n = Huge THEN 1 ELSE Root(PowN(n, e[1] % e[2]), e[2]))

Factorial[n \in 0 .. 8] == IF n = 0 THEN 1 ELSE n * Factorial[n - 1]

\* The sequence of F(x) for the members x of s.
Each(s, F(_)) == SubSeq([i \in DOMAIN s |-> F(s[i])], 1, Len(s))

(* _log10_of_int, _approx_decimal_digits and _exact_decimal_digit_count: the *)
(* number of decimal digits of an integer.                                   *)
Digits(n) == IF n = Huge THEN Huge
             ELSE CHOOSE d \in 1 .. 9 : (d = 1 \/ 10 ^ (d - 1) <= n) /\ n < 10 ^ d

(* _digit_count_over_cap: int(magnitude) + 1 > cap, or not finite.            *)
DigitCountOverCap(a, cap) == a[1] = Huge \/ 10 ^ cap * a[2] <= a[1]

(* _digit_ceiling_text: a magnitude of at most one digit is never refused.    *)
DigitCeiling(a) == ~AtMost(a, One) /\ DigitCountOverCap(a, MaxNumericDigits)

(* _ceiling_message_num_den: either side of the printed fraction.             *)
CeilingNumDen(num, den) == DigitCeiling(num) \/ DigitCeiling(den)

\* Natural logarithms in thousandths, and powers of e: what math.log and
\* math.e give on the arguments the bounds below leave.
LnMilli(n) == <<0, 693, 1098, 1386, 1609, 1791, 1945, 2079, 2197, 2302>>[Min({n, 10})]
ExpFloor(n) == IF n > 10 THEN Huge
               ELSE <<1, 2, 7, 20, 54, 148, 403, 1096, 2980, 8103, 22026>>[n + 1]
PartitionsCeiling(n) == <<1, 13, 37, 85, 169, 309, 535, 885, 1415, 2197>>[Min({n, 9}) + 1]
=============================================================================
